----------------------------- MODULE MCAccount -----------------------------
(* Instances of Account for TLC. *)
EXTENDS AccountInv, TLC

CONSTANTS t1, t2, u1, u2, s1, s2, c1, c2, k1, k2

\* Slots, secrets, credentials, keys and people are interchangeable.
Symm == Permutations(Txn) \cup Permutations(Secret) \cup Permutations(Cred)
            \cup Permutations(Key) \cup Permutations(User)
=============================================================================
