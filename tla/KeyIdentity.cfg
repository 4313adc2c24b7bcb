SPECIFICATION Spec
CONSTANTS
    None = None
    t1 = t1  t2 = t2
    f = f  g = g
    k1 = k1
    Txn = {t1, t2}
    Walker = {t2}
    User = {1, 2}
    KeySet = {f, g}
    Key = {k1}
    Request <- Requests
    PageSize = 1
    MaxEvidence = 2
    MaxTime = 1
INVARIANTS
    MarkerInv
    OneIsRecorded
    WalkIsExact
PROPERTIES
    RecordedOnEvidence
    Answered
