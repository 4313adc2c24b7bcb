SPECIFICATION Spec
CONSTANTS
    None = None
    t1 = t1  t2 = t2
    u1 = u1  u2 = u2
    s1 = s1  s2 = s2
    c1 = c1  c2 = c2
    k1 = k1  k2 = k2
    Txn = {t1, t2}
    User = {u1}
    Secret = {s1, s2}
    Cred = {c1}
    Key = {k1, k2}
    PreMinted = {u1}
    MaxEpoch = 2
    Calls = {"RedeemEnrolment", "ordinary", "revoking", "demand", "CreateCredential",
             "RevokeCredential", "SetUserAdmin", "SoftDelete"}
SYMMETRY Symm
INVARIANTS
    RedeemInv
    RetryNeverRefused
    LedgerSound
PROPERTIES
    DemandOnlyBeforeFirstCredential
