SPECIFICATION FairSpec
CONSTANTS
    None = None
    t1 = t1  t2 = t2
    u1 = u1  u2 = u2
    s1 = s1  s2 = s2
    c1 = c1  c2 = c2
    k1 = k1  k2 = k2
    Txn = {t1, t2}
    User = {u1}
    Secret = {s1}
    Cred = {c1}
    Key = {k1}
    PreMinted = {u1}
    MaxEpoch = 2
    Calls = {"GetPasswordHash", "RevokeAllCredentials", "SetPassword",
             "RedeemEnrolment", "ordinary", "CreateCredential",
             "Expire", "SoftDelete", "revoking"}
PROPERTIES
    ImplementsAtomic
    MintOnCurrentPassword
    EveryResetBumps
    Answered
