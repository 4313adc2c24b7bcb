SPECIFICATION Spec
CONSTANTS
    None = None
    Leaked = Leaked
    c1 = c1  r1 = r1  r2 = r2
    Conn = {c1}
    Req = {r1, r2}
    Ceiling = 2
    Margin = 1
    Deadlines <- DeadlineSet
    Budget = 3
    MaxRotations = 1
INVARIANTS
    ServingInv
    AnswersBeforeTheDrop
PROPERTIES
    NamesWhoRanOut
    EveryWaitEnds
    CutsOnlyTheUnbounded
    StopEndsIt
