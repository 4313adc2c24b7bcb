---------------------------- MODULE KeyIdentity ----------------------------
(***************************************************************************)
(* The key-identity marker: which key set encrypted the rows of this store,*)
(* under which derivation.  One row at most, written once: over an empty   *)
(* store by SetKeyIdentity, over a populated one by AdoptKeyIdentity on    *)
(* evidence that is its oldest rows.  ListKeyIdentityEvidence pages through*)
(* those rows.  The callers are replicas of iam, one key set each.         *)
(*                                                                         *)
(* A recording call is one INSERT ... SELECT (the predicate is read, then  *)
(* the row is inserted), a re-read if that wrote nothing, and a commit.    *)
(* No isolation level is set, so the server's applies: at REPEATABLE READ  *)
(* the SELECT keeps inserts into iam_user out until the transaction ends,  *)
(* at READ COMMITTED it locks nothing.                                     *)
(***************************************************************************)
EXTENDS Naturals, FiniteSets

CONSTANTS
    Txn,          \* calls of iam replicas
    Walker,       \* bound: the calls among them that may walk the evidence
    User,         \* user ids, in the order the column compares them
    KeySet,       \* key sets; a fingerprint names its key set
    Key,          \* non-empty idempotency keys
    Request,      \* bound: the pairs and keys presented in this instance
    PageSize,     \* rows to a page of evidence
    MaxEvidence,  \* the most ids an adoption carries (64 in the code)
    MaxTime,      \* bound: the clock stops here
    None          \* no marker, no key, no position

ASSUME UserAssumption == User \subseteq Nat /\ IsFiniteSet(User)
ASSUME WalkerAssumption == Walker \subseteq Txn
ASSUME BoundAssumption == PageSize \in Nat \ {0} /\ MaxEvidence \in Nat /\ MaxTime \in Nat
ASSUME NoneAssumption == None \notin Nat \cup KeySet \cup Key

VARIABLES
    level,        \* the server's isolation level; no step changes it
    now,          \* the engine's clock, in seconds
    born,         \* iam_user.created_at, None for no row
    under,        \* HISTORY: the key set the row's ciphertexts are under
    marker,       \* iam_key_identity: None or the pair and its key
    txn

store == <<level, now, born, under, marker>>
vars == <<level, now, born, under, marker, txn>>

\* A fingerprint is opaque, but can be empty or too wide for its column.
Fingerprint == KeySet \cup {"empty", "wide"}
RequestRec == [fp : Fingerprint, version : Nat, key : Key \cup {None}]
Marker == [fp : KeySet, version : Nat \ {0}, key : Key \cup {None}]

ASSUME RequestAssumption == Request \subseteq RequestRec /\ None \notin RequestRec

Finding == {"RECORDED", "MATCH", "MISMATCH", "SKEW", "ABSENT"}
Out == Finding \cup {"none", "INVALID_ARGUMENT", "FAILED_PRECONDITION"}
RecordPc == {"selected", "inserted", "reread"}

TxnRec == [pc     : RecordPc \cup {"idle", "walking", "walked", "done"},
           req    : RequestRec \cup {None},
           ids    : SUBSET User,          \* evidence_user_ids; {} for Set
           shares : BOOLEAN,              \* a duplicate left a share lock
           after  : User \cup {None},     \* the row the page token names
           start  : SUBSET User,          \* HISTORY: rows when a walk began
           times  : [User -> Nat],        \* HISTORY: pages that held the row
           out    : Out]

Idle == [pc |-> "idle", req |-> None, ids |-> {}, shares |-> FALSE,
         after |-> None, start |-> {}, times |-> [u \in User |-> 0], out |-> "none"]

\* The columns and the slots hold what they can; a stored marker always has a
\* fingerprint of key material and a version from 1 up.
TypeOK ==
    /\ level \in {"READ COMMITTED", "REPEATABLE READ"}
    /\ now \in Nat
    /\ born \in [User -> Nat \cup {None}]
    /\ under \in [User -> KeySet \cup {None}]
    /\ marker \in Marker \cup {None}
    /\ txn \in [Txn -> TxnRec]

Init ==
    /\ level \in {"READ COMMITTED", "REPEATABLE READ"}
    /\ now = 0
    /\ born = [u \in User |-> None]
    /\ under = [u \in User |-> None]
    /\ marker = None
    /\ txn = [t \in Txn |-> Idle]

-----------------------------------------------------------------------------
(* The rows, oldest first, and the comparison.                             *)

Stored == {u \in User : born[u] # None}

\* ORDER BY created_at, id.
Older(u, w) == born[u] < born[w] \/ (born[u] = born[w] /\ u < w)

\* The derived table of the adoption: ... LIMIT n.
Oldest(n) == {u \in Stored : Cardinality({w \in Stored : Older(w, u)}) < n}

\* presented: the two presence rules and the column's width.
IsPresented(q) == q.fp \in KeySet /\ q.version # 0

\* Mutant: fingerprints compared across versions.
ComparedFingerprints(m, q) == IF m.fp = q.fp THEN "MATCH" ELSE "MISMATCH"

\* compared_with: never across versions.
ComparedWith(m, q) == IF m.version # q.version THEN "SKEW"
                      ELSE IF m.fp = q.fp THEN "MATCH" ELSE "MISMATCH"

\* Mutant: an empty key replays.
ReplayedUnkeyed(m, q) ==
    IF q.key # m.key THEN ComparedWith(m, q)
    ELSE IF m.version = q.version /\ m.fp = q.fp THEN "RECORDED"
    ELSE "INVALID_ARGUMENT"

\* replayed_or_compared: the marker's own key replays, or is refused with
\* another payload; an empty key is no key.
ReplayedOrCompared(m, q) ==
    IF q.key = None \/ q.key # m.key THEN ComparedWith(m, q)
    ELSE IF m.version = q.version /\ m.fp = q.fp THEN "RECORDED"
    ELSE "INVALID_ARGUMENT"

Goto(t, r) == txn' = [txn EXCEPT ![t] = r]
\* What was asked is kept where the answer says something about the marker.
Answer(t, q, out) ==
    Goto(t, [Idle EXCEPT !.pc = "done", !.out = out,
                         !.req = IF out \in Finding \ {"ABSENT"} THEN q ELSE None])

\* An uncommitted marker row keeps everybody else's insert and locking read
\* of it waiting.
MarkerFree(t) == \A o \in Txn \ {t} : txn[o].pc # "inserted"

\* Mutant: the re-read is FOR UPDATE, which a second loser's share keeps out.
MarkerFreeForUpdate(t) == \A o \in Txn \ {t} : txn[o].pc # "inserted" /\ ~txn[o].shares

\* LOCK IN SHARE MODE.
MarkerReadable(t) == MarkerFree(t)

-----------------------------------------------------------------------------
(* The RPCs.                                                               *)

\* GetKeyIdentity: one plain read.
GetKeyIdentity(t, q) ==
    /\ txn[t].pc = "idle"
    /\ \/ ~IsPresented(q) /\ Answer(t, q, "INVALID_ARGUMENT")
       \/ /\ IsPresented(q)
          /\ Answer(t, q, IF marker = None THEN "ABSENT" ELSE ComparedWith(marker, q))
    /\ UNCHANGED store

\* The predicate of the INSERT ... SELECT is read; false inserts nothing.
Select(t, q, ids, predicate) ==
    Goto(t, IF predicate THEN [Idle EXCEPT !.pc = "selected", !.req = q, !.ids = ids]
            ELSE [Idle EXCEPT !.pc = "reread", !.req = q])

\* SetKeyIdentity: NOT EXISTS (SELECT 1 FROM iam_user).
SetKeyIdentity(t, q) ==
    /\ txn[t].pc = "idle"
    /\ \/ ~IsPresented(q) /\ Answer(t, q, "INVALID_ARGUMENT")
       \/ IsPresented(q) /\ Select(t, q, {}, Stored = {})
    /\ UNCHANGED store

\* Mutant: any stored rows are evidence.
EvidenceStored(ids) == ids \subseteq Stored

\* As many of the ids among the n oldest rows as there are ids.
EvidenceHolds(ids) ==
    Cardinality(Oldest(Cardinality(ids)) \cap ids) = Cardinality(ids)

\* AdoptKeyIdentity, by a replica whose key set decrypts the rows it names.
AdoptKeyIdentity(t, q, ids) ==
    /\ txn[t].pc = "idle"
    /\ \A u \in ids \cap Stored : under[u] = q.fp
    /\ \/ /\ ~IsPresented(q) \/ Cardinality(ids) \notin 1..MaxEvidence
          /\ Answer(t, q, "INVALID_ARGUMENT")
       \/ /\ IsPresented(q) /\ Cardinality(ids) \in 1..MaxEvidence
          /\ Select(t, q, ids, EvidenceHolds(ids))
    /\ UNCHANGED store

\* The insert.  A duplicate leaves a share lock on the row.
Insert(t) ==
    /\ txn[t].pc = "selected"
    /\ MarkerFree(t)
    /\ Goto(t, IF marker = None THEN [txn[t] EXCEPT !.pc = "inserted"]
               ELSE [txn[t] EXCEPT !.pc = "reread", !.shares = TRUE, !.ids = {}])
    /\ UNCHANGED store

\* against_the_stored_marker.
OutcomeOf(t) ==
    IF marker = None THEN "FAILED_PRECONDITION"
    ELSE ReplayedOrCompared(marker, txn[t].req)

Reread(t) ==
    /\ txn[t].pc = "reread"
    /\ MarkerReadable(t)
    /\ Answer(t, txn[t].req, OutcomeOf(t))
    /\ UNCHANGED store

\* The commit of a recording; the answer may be lost.
Commit(t) ==
    /\ txn[t].pc = "inserted"
    /\ marker' = txn[t].req
    /\ Answer(t, txn[t].req, "RECORDED") \/ Goto(t, Idle)
    /\ UNCHANGED <<level, now, born, under>>

\* Mutant: OFFSET paging, by how many rows were served.
PageByOffset(t) ==
    LET n == Cardinality({u \in User : txn[t].times[u] > 0})
        rank(u) == Cardinality({w \in Stored : Older(w, u)})
    IN  {u \in Stored : rank(u) >= n /\ rank(u) < n + PageSize}

\* The first rows past the position, PageSize of them.
Page(t) ==
    LET rest == {u \in Stored : txn[t].after = None \/ Older(txn[t].after, u)}
    IN  {u \in rest : Cardinality({w \in rest : Older(w, u)}) < PageSize}

\* ListKeyIdentityEvidence, one page; a page that is not full is the last.
ListPage(t) ==
    LET page == Page(t)
        full == Cardinality(page) = PageSize
        x == IF txn[t].pc = "idle" THEN [Idle EXCEPT !.start = Stored] ELSE txn[t]
    IN  /\ t \in Walker /\ txn[t].pc \in {"idle", "walking"}
        /\ Goto(t, [x EXCEPT !.pc = IF full THEN "walking" ELSE "walked",
                             !.times = [u \in User |-> IF u \in page THEN @[u] + 1 ELSE @[u]],
                             !.after = IF full THEN CHOOSE u \in page :
                                                       \A w \in page : ~Older(u, w)
                                       ELSE None])
        /\ UNCHANGED store

-----------------------------------------------------------------------------
(* The rest of the store, and calls that end.                              *)

\* The locks that keep an insert into iam_user waiting.
InsertBlocked == /\ level = "REPEATABLE READ"
                 /\ \E t \in Txn : txn[t].pc \in {"selected", "inserted"}

\* CreateUser by a replica that holds key set k, checked or not.  created_at
\* is the time the statement began, a second before it commits or less; the
\* id was minted by another clock.
NewUser(u, k, began) ==
    /\ born[u] = None
    /\ ~InsertBlocked
    /\ began \in {n \in Nat : n <= now /\ n + 1 >= now}
    /\ born' = [born EXCEPT ![u] = began]
    /\ under' = [under EXCEPT ![u] = k]
    /\ UNCHANGED <<level, now, marker, txn>>

Tick == now < MaxTime /\ now' = now + 1 /\ UNCHANGED <<level, born, under, marker, txn>>

\* The answer is read, or the call ends early and its transaction rolls back.
Drop(t) == txn[t].pc # "idle" /\ Goto(t, Idle) /\ UNCHANGED store

Step(t) == Insert(t) \/ Reread(t) \/ Commit(t)

Begin(t) == \/ ListPage(t)
            \/ \E q \in Request : \/ GetKeyIdentity(t, q) \/ SetKeyIdentity(t, q)
                                  \/ \E ids \in SUBSET User : AdoptKeyIdentity(t, q, ids)

Next == \/ Tick
        \/ \E u \in User, k \in KeySet, began \in 0..MaxTime : NewUser(u, k, began)
        \/ \E t \in Txn : Begin(t) \/ Step(t) \/ Drop(t)

\* A statement that waits for a lock is queued, so it is not passed over for
\* ever; nothing makes a caller call.
Spec == Init /\ [][Next]_vars /\ \A t \in Txn : SF_vars(Step(t))

-----------------------------------------------------------------------------
(* Properties.                                                             *)

\* An answer about the marker stays true for as long as anybody keeps it: the
\* marker is never replaced, whoever raced for it.
AnswersStand ==
    \A t \in Txn : LET q == txn[t].req IN
       /\ txn[t].out \in {"RECORDED", "MATCH", "MISMATCH", "SKEW"} => marker # None
       /\ txn[t].out \in {"RECORDED", "MATCH"} =>
             marker.fp = q.fp /\ marker.version = q.version
       /\ txn[t].out = "MISMATCH" => marker.fp # q.fp /\ marker.version = q.version
       /\ txn[t].out = "SKEW" => marker.version # q.version

\* The stored marker is well formed (TypeOK) and no answer is overturned.
MarkerInv == TypeOK /\ AnswersStand

\* Of several recordings one is told RECORDED; another is told so only when it
\* is a redelivery under the same, non-empty, key.
OneIsRecorded ==
    \A s, t \in Txn :
       (s # t /\ txn[s].out = "RECORDED" /\ txn[t].out = "RECORDED")
          => txn[s].req = txn[t].req /\ txn[s].req.key # None

\* At REPEATABLE READ a marker appears over no rows at all, or over rows the
\* oldest of which are under its key set, as many as were presented.
RecordedOnEvidence ==
    [][\A t \in Txn :
          (level = "REPEATABLE READ" /\ marker = None /\ marker' # None
             /\ txn[t].pc = "inserted" /\ txn'[t].pc # "inserted")
             => IF txn[t].ids = {} THEN Stored = {}
                ELSE \A u \in Oldest(Cardinality(txn[t].ids)) : under[u] = marker'.fp]_vars

\* adopt.rs: "no row is served twice or skipped".  A walk serves every row
\* that was stored when it began once, and no row more than once, whatever is
\* created between its pages.
WalkIsExact ==
    \A t \in Txn : /\ \A u \in User : txn[t].times[u] <= 1
                   /\ txn[t].pc = "walked" => \A u \in txn[t].start : txn[t].times[u] = 1

\* Every recording call is answered: the losers' share locks do not cycle.
Answered == \A t \in Txn : (txn[t].pc \in RecordPc) ~> (txn[t].pc \notin RecordPc)
=============================================================================
