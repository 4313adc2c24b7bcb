SPECIFICATION Spec
CONSTANTS
    None = None
    Leaked = Leaked
    c1 = c1  c2 = c2  r1 = r1  r2 = r2
    Conn = {c1, c2}
    Req = {r1, r2}
    Reader = {r1}
    Writer = {r2}
    Ceiling = 1
    Margin = 1
    Deadlines <- DeadlineSet
    Cred = {1, 2, 3}
    Write <- Writes
    PageSize = 1
    MaxCommits = 2
SYMMETRY Conns
INVARIANTS
    ResolveInv
    ListingIsExact
PROPERTIES
    LimitsOfTheDeletedOnlyGo
