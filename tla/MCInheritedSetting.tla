------------------------ MODULE MCInheritedSetting ------------------------
(* Instances of InheritedSetting for TLC. *)
EXTENDS InheritedSetting, TLC

CONSTANTS t1, t2, t3, a, k1, k2

Legal == [scope |-> "TEAM", team |-> a, name |-> "owner_reads_own_record",
          value |-> "ON", locked |-> Absent, clear |-> FALSE]
OrgOff == [Legal EXCEPT !.scope = "ORG", !.team = Absent, !.value = "OFF", !.locked = FALSE]

\* Two values and a withdrawal of one team's level, and the organisation's.
Levels == {Legal, [Legal EXCEPT !.value = "OFF"],
           [Legal EXCEPT !.value = Absent, !.clear = TRUE], OrgOff}

\* The organisation's level alone, on and off.
OrgLevels == {OrgOff, [OrgOff EXCEPT !.value = "ON"]}

\* Clearing an override that is not there locks no level, so three deliveries
\* of it meet at the claim's row.
Clears == {OrgOff, [Legal EXCEPT !.value = Absent, !.clear = TRUE]}

\* And what the wire can carry besides, one field off one of them.
Edges == {q \in Wire : \E l \in Levels : Cardinality({f \in DOMAIN q : q[f] # l[f]}) <= 1}

Slots == Permutations(Txn)
Symm == Permutations(Txn) \cup Permutations(Key)
=============================================================================
