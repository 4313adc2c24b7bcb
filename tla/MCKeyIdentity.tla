--------------------------- MODULE MCKeyIdentity ---------------------------
(* Instances of KeyIdentity for TLC. *)
EXTENDS KeyIdentity

CONSTANTS t1, t2, f, g, k1

\* Two key sets, two derivations, keyed and not, and the malformed pairs.
Requests ==
    {[fp |-> f, version |-> 1, key |-> k1], [fp |-> g, version |-> 1, key |-> k1],
     [fp |-> g, version |-> 1, key |-> None], [fp |-> f, version |-> 2, key |-> None],
     [fp |-> "empty", version |-> 1, key |-> None], [fp |-> "wide", version |-> 1, key |-> None],
     [fp |-> f, version |-> 0, key |-> None]}
=============================================================================
