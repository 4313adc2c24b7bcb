SPECIFICATION Spec
CONSTANTS
    Absent = Absent
    Org = Org
    t1 = t1  t2 = t2  t3 = t3
    a = a
    k1 = k1  k2 = k2
    Txn = {t1, t2}
    Team = {}
    Key = {k1, k2}
    Request <- OrgLevels
SYMMETRY Symm
PROPERTIES
    NoRedeliveryUndoes
