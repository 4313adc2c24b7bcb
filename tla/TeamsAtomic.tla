---------------------------- MODULE TeamsAtomic ----------------------------
(***************************************************************************)
(* What the team RPCs promise, in the terms ResolveCredential reads: who   *)
(* is there, which live teams each person is in, and which ids may still   *)
(* claim the first administrator's account.  A declaration replaces the    *)
(* live team sets as a whole; archived teams, kept member rows and         *)
(* reactivation do not appear.  Teams implements this specification.       *)
(***************************************************************************)
CONSTANTS
    User,         \* the ids of people
    Team,         \* the ids of teams
    Admins,       \* the administrators team
    PreMinted,    \* ids an operator minted before install
    Declaration   \* the declarations that are sent

VARIABLES
    person,       \* "absent", "live" or "deleted"
    grants,       \* the live teams of each person
    claimable     \* the ids that may claim the first administrator's account

Exists == {u \in User : person[u] # "absent"}
Live == {u \in User : person[u] = "live"}
LiveAdmins == {u \in Live : Admins \in grants[u]}
Named(D) == IF Admins \in DOMAIN D THEN D[Admins] ELSE {}

AtomicInit ==
    /\ person = [u \in User |-> "absent"]
    /\ grants = [u \in User |-> {}]
    /\ claimable = {}

\* Somebody withdrawn while the sync ran may still have been seen live: the
\* sync reads user rows and does not lock them.
Declare(D, seen) ==
    /\ Live \subseteq seen
    /\ LiveAdmins # {} => seen \cap Named(D) # {}
    /\ grants' = [u \in User |-> {a \in DOMAIN D : u \in D[a] /\ u \in Exists}]
    /\ claimable' = IF seen \cap Named(D) = {} THEN Named(D) \ Exists ELSE {}
    /\ UNCHANGED person

\* The first administrator, and nobody after it while one is live.
Claim(u) ==
    /\ u \in claimable
    /\ LiveAdmins = {}
    /\ person[u] = "absent"
    /\ person' = [person EXCEPT ![u] = "live"]
    /\ grants' = [grants EXCEPT ![u] = {Admins}]
    /\ claimable' = {}

Join(u) ==
    /\ u \notin PreMinted
    /\ person[u] = "absent"
    /\ person' = [person EXCEPT ![u] = "live"]
    /\ UNCHANGED <<grants, claimable>>

Leave(u) ==
    /\ person[u] = "live"
    /\ person' = [person EXCEPT ![u] = "deleted"]
    /\ UNCHANGED <<grants, claimable>>

AtomicNext ==
    \/ \E D \in Declaration, seen \in SUBSET Exists : Declare(D, seen)
    \/ \E u \in User : Claim(u) \/ Join(u) \/ Leave(u)

AtomicSpec == AtomicInit /\ [][AtomicNext]_<<person, grants, claimable>>
=============================================================================
