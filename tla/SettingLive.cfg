SPECIFICATION FairSpec
CONSTANTS
    Absent = Absent
    Org = Org
    t1 = t1  t2 = t2  t3 = t3
    a = a
    k1 = k1  k2 = k2
    Txn = {t1, t2, t3}
    Team = {a}
    Key = {k1}
    Request <- Clears
PROPERTIES
    Answered
    OneKeyOneRequest
