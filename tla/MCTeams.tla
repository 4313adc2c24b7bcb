------------------------------ MODULE MCTeams ------------------------------
(* Instances of Teams for TLC. *)
EXTENDS Teams, TLC

CONSTANTS t1, t2, p1, p2, o1, a, b

\* Two ids minted before install and an ordinary one, as administrators alone,
\* together or beside another team; and declarations that omit the team.
Declarations ==
    {NoTeams, Admins :> {p1}, Admins :> {p1, p2}, Admins :> {o1},
     (Admins :> {p2, o1}) @@ (b :> {p1}), b :> {o1}}

Slots == Permutations(Txn)
=============================================================================
