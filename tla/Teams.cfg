SPECIFICATION Spec
CONSTANTS
    None = None
    t1 = t1  t2 = t2
    p1 = p1  p2 = p2  o1 = o1
    a = a  b = b
    User = {p1, p2, o1}
    Team = {a, b}
    Admins = a
    PreMinted = {p1, p2}
    Declaration <- Declarations
    Txn = {t1, t2}
SYMMETRY Slots
INVARIANTS
    TeamsInv
PROPERTIES
    NoLockout
    ClaimOnlyWhenNone
    ChangedMissesNobody
    Converges
    EnrolsAdministratorsOnly
    ImplementsPromise
