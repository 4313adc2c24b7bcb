------------------------- MODULE KeyIdentityProofs -------------------------
(***************************************************************************)
(* Theorems about KeyIdentity, for any replicas, people, key sets and page *)
(* size: an answer about the marker stays true, one recording wins, at     *)
(* REPEATABLE READ it wins on evidence that is the oldest rows, and a walk *)
(* of the evidence serves every row once.                                  *)
(***************************************************************************)
EXTENDS KeyIdentity, FiniteSetTheorems, WellFoundedInduction, TLAPS

\* A call that may write the marker presents a pair that is well formed, and
\* only a call that is done has been answered.
Presents(q) ==
    /\ q.pc \in RecordPc => q.req \in RequestRec /\ IsPresented(q.req)
    /\ q.pc # "done" => q.out = "none"

\* One insert is in flight at a time, and only over an absent marker.
Inserts == \A t \in Txn : txn[t].pc = "inserted" =>
              marker = None /\ \A o \in Txn : o # t => txn[o].pc # "inserted"

\* What a slot was told holds of the marker; who was told RECORDED presented
\* the marker, its key included.
Stands(q) ==
    /\ q.out \in {"RECORDED", "MATCH", "MISMATCH", "SKEW"} => marker # None
    /\ q.out \in {"RECORDED", "MATCH"} => marker.fp = q.req.fp /\ marker.version = q.req.version
    /\ q.out = "MISMATCH" => marker.fp # q.req.fp /\ marker.version = q.req.version
    /\ q.out = "SKEW" => marker.version # q.req.version
    /\ q.out = "RECORDED" => q.req = marker

\* At REPEATABLE READ what the predicate read still holds.
Evident(q) ==
    (level = "REPEATABLE READ" /\ q.pc \in {"selected", "inserted"}) =>
       IF q.ids = {} THEN Stored = {}
       ELSE \A u \in Oldest(Cardinality(q.ids)) : under[u] = q.req.fp

\* A walk has served, once, the rows up to its position that were there when
\* it began, and maybe later ones, and nothing beyond.
Walks(q) ==
    /\ q.pc = "idle" => q = Idle
    /\ q.pc \notin {"walking", "walked"} => \A u \in User : q.times[u] = 0
    /\ \A u \in User : q.times[u] \in {0, 1}
    /\ q.pc = "walked" => \A u \in q.start : q.times[u] = 1
    /\ q.pc = "walking" =>
          /\ q.after \in Stored /\ q.start \subseteq Stored
          /\ \A u \in User : q.times[u] = 1 => u \in Stored /\ ~Older(q.after, u)
          /\ \A u \in q.start : q.times[u] = 0 => Older(q.after, u)

CallInv(q) == Presents(q) /\ Stands(q) /\ Evident(q) /\ Walks(q)

\* The inductive invariant.
Inv == /\ TypeOK /\ OneIsRecorded /\ Inserts
       /\ \A t \in Txn : CallInv(txn[t])

-----------------------------------------------------------------------------
(* The rows in order: ORDER BY created_at, id LIMIT n.                     *)

\* The rows of S before u, and the first n rows of S.
Below(S, u) == {w \in S : Older(w, u)}
Prefix(S, n) == {u \in S : Cardinality(Below(S, u)) < n}

Clocks == born \in [User -> Nat \cup {None}]

\* A stored row has an age and an id.
LEMMA RowTypes ==
    ASSUME Clocks, NEW u \in Stored
    PROVE  u \in User /\ u \in Nat /\ born[u] \in Nat
BY UserAssumption DEF Clocks, Stored

\* The rows are strictly and totally ordered.
LEMMA OlderIrreflexive ==
    ASSUME Clocks, NEW u \in Stored
    PROVE  ~Older(u, u)
BY RowTypes DEF Older

LEMMA OlderTransitive ==
    ASSUME Clocks, NEW u \in Stored, NEW v \in Stored, NEW w \in Stored,
           Older(u, v), Older(v, w)
    PROVE  Older(u, w)
<1>1. /\ u \in Nat /\ v \in Nat /\ w \in Nat
      /\ born[u] \in Nat /\ born[v] \in Nat /\ born[w] \in Nat
  BY RowTypes
<1>2. QED BY <1>1 DEF Older

LEMMA OlderTotal ==
    ASSUME Clocks, NEW u \in Stored, NEW v \in Stored, u # v, ~Older(u, v)
    PROVE  Older(v, u)
<1>1. u \in Nat /\ v \in Nat /\ born[u] \in Nat /\ born[v] \in Nat
  BY RowTypes
<1>2. QED BY <1>1 DEF Older

LEMMA StoredFinite ==
    ASSUME NEW S \in SUBSET Stored
    PROVE  IsFiniteSet(S) /\ Cardinality(S) \in Nat
<1>1. S \in SUBSET User BY DEF Stored
<1>2. IsFiniteSet(S) BY <1>1, UserAssumption, FS_Subset
<1>3. QED BY <1>2, FS_CardinalityType

\* Any set of rows that is not empty has an oldest and a youngest row.
LEMMA HasOldest ==
    ASSUME Clocks, NEW P \in SUBSET Stored, P # {}
    PROVE  \E u \in P : \A w \in P : ~Older(w, u)
<1> DEFINE T == {Below(P, u) : u \in P}
           R == StrictSubsetOrdering(Stored)
           F == FiniteSubsetsOf(Stored)
<1>1. \A u \in P : Below(P, u) \in SUBSET Stored BY DEF Below
<1>2. T \subseteq F
  BY <1>1, StoredFinite DEF FiniteSubsetsOf
<1>3. T # {} OBVIOUS
<1>4. IsWellFoundedOn(R, F) BY FS_StrictSubsetOrderingWellFounded
<1>5. \E x \in T : \A y \in T : <<y, x>> \notin R
  <2> HIDE DEF T, R, F
  <2> QED BY <1>2, <1>3, <1>4, WFMin
<1>6. PICK u \in P : \A w \in P : <<Below(P, w), Below(P, u)>> \notin R
  BY <1>5
<1>7. \A w \in P : ~(Below(P, w) \subseteq Below(P, u) /\ Below(P, w) # Below(P, u))
  BY <1>6, <1>1 DEF StrictSubsetOrdering
<1>8. ASSUME NEW w \in P, Older(w, u) PROVE FALSE
  <2>1. Below(P, w) \subseteq Below(P, u) BY <1>8, OlderTransitive DEF Below
  <2>2. w \in Below(P, u) BY <1>8 DEF Below
  <2>3. w \notin Below(P, w) BY OlderIrreflexive DEF Below
  <2>4. QED BY <2>1, <2>2, <2>3, <1>7
<1>9. QED BY <1>8

LEMMA HasYoungest ==
    ASSUME Clocks, NEW P \in SUBSET Stored, P # {}
    PROVE  \E u \in P : \A w \in P : ~Older(u, w)
<1> DEFINE Above(u) == {w \in P : Older(u, w)}
           T == {Above(u) : u \in P}
           R == StrictSubsetOrdering(Stored)
           F == FiniteSubsetsOf(Stored)
<1>1. \A u \in P : Above(u) \in SUBSET Stored OBVIOUS
<1>2. T \subseteq F
  BY <1>1, StoredFinite DEF FiniteSubsetsOf
<1>3. T # {} OBVIOUS
<1>4. IsWellFoundedOn(R, F) BY FS_StrictSubsetOrderingWellFounded
<1>5. \E x \in T : \A y \in T : <<y, x>> \notin R
  <2> HIDE DEF T, R, F
  <2> QED BY <1>2, <1>3, <1>4, WFMin
<1>6. PICK u \in P : \A w \in P : <<Above(w), Above(u)>> \notin R
  BY <1>5
<1>7. \A w \in P : ~(Above(w) \subseteq Above(u) /\ Above(w) # Above(u))
  BY <1>6, <1>1 DEF StrictSubsetOrdering
<1>8. ASSUME NEW w \in P, Older(u, w) PROVE FALSE
  <2>1. Above(w) \subseteq Above(u) BY <1>8, OlderTransitive
  <2>2. w \in Above(u) BY <1>8
  <2>3. w \notin Above(w) BY OlderIrreflexive
  <2>4. QED BY <2>1, <2>2, <2>3, <1>7
<1>9. QED BY <1>8

LEMMA BelowFinite ==
    ASSUME NEW S \in SUBSET Stored, NEW u
    PROVE  /\ Below(S, u) \in SUBSET Stored /\ IsFiniteSet(Below(S, u))
           /\ Cardinality(Below(S, u)) \in Nat
<1>1. Below(S, u) \in SUBSET Stored BY DEF Below
<1>2. QED BY <1>1, StoredFinite

\* LIMIT n gives n rows at the most ...
LEMMA PrefixBound ==
    ASSUME Clocks, NEW S \in SUBSET Stored, NEW n \in Nat
    PROVE  IsFiniteSet(Prefix(S, n)) /\ Cardinality(Prefix(S, n)) \in 0..n
<1>1. Prefix(S, n) \in SUBSET Stored BY DEF Prefix
<1>2. IsFiniteSet(Prefix(S, n)) /\ Cardinality(Prefix(S, n)) \in Nat BY <1>1, StoredFinite
<1>3. CASE Prefix(S, n) = {}
  BY <1>3, <1>2, FS_EmptySet
<1>4. CASE Prefix(S, n) # {}
  <2>1. PICK u \in Prefix(S, n) : \A w \in Prefix(S, n) : ~Older(u, w)
    BY <1>1, <1>4, HasYoungest
  <2>2. Prefix(S, n) \ {u} \in SUBSET Below(S, u)
    <3>1. ASSUME NEW w \in Prefix(S, n), w # u PROVE w \in S /\ Older(w, u)
      BY <3>1, <2>1, <1>1, OlderTotal DEF Prefix
    <3>2. QED BY <3>1 DEF Below
  <2>3. Cardinality(Below(S, u)) \in Nat /\ Cardinality(Below(S, u)) < n
    BY BelowFinite DEF Prefix
  <2>4. Cardinality(Prefix(S, n) \ {u}) = Cardinality(Prefix(S, n)) - 1
    BY <1>2, FS_RemoveElement
  <2>5. Cardinality(Prefix(S, n) \ {u}) <= Cardinality(Below(S, u))
    BY <2>2, BelowFinite, FS_Subset
  <2>6. QED BY <2>3, <2>4, <2>5, <1>2
<1>5. QED BY <1>3, <1>4

\* ... holds with a row everything before it ...
LEMMA PrefixClosed ==
    ASSUME Clocks, NEW S \in SUBSET Stored, NEW n \in Nat,
           NEW u \in Prefix(S, n), NEW w \in S, ~Older(u, w)
    PROVE  w \in Prefix(S, n)
<1>1. u \in S /\ Cardinality(Below(S, u)) < n BY DEF Prefix
<1>2. CASE w = u BY <1>2
<1>3. CASE w # u
  <2>1. Older(w, u) BY <1>3, <1>1, OlderTotal
  <2>2. Below(S, w) \in SUBSET Below(S, u) BY <2>1, <1>1, OlderTransitive DEF Below
  <2>3. Cardinality(Below(S, w)) <= Cardinality(Below(S, u))
    BY <2>2, BelowFinite, FS_Subset
  <2>4. Cardinality(Below(S, w)) \in Nat /\ Cardinality(Below(S, u)) \in Nat BY BelowFinite
  <2>5. Cardinality(Below(S, w)) < n BY <2>3, <2>4, <1>1
  <2>6. QED BY <2>5 DEF Prefix
<1>4. QED BY <1>2, <1>3

\* ... and is short only when nothing is left out.
LEMMA PrefixFull ==
    ASSUME Clocks, NEW S \in SUBSET Stored, NEW n \in Nat, Cardinality(Prefix(S, n)) # n
    PROVE  Prefix(S, n) = S
<1> DEFINE rest == S \ Prefix(S, n)
<1>1. SUFFICES ASSUME rest # {} PROVE FALSE BY DEF Prefix
<1>2. PICK u \in rest : \A w \in rest : ~Older(w, u) BY <1>1, HasOldest
<1>3. Below(S, u) \in SUBSET Prefix(S, n) BY <1>2 DEF Below
<1>4. Cardinality(Below(S, u)) \in Nat /\ ~(Cardinality(Below(S, u)) < n)
  BY BelowFinite DEF Prefix
<1>5. IsFiniteSet(Prefix(S, n)) /\ Cardinality(Prefix(S, n)) \in 0..n BY PrefixBound
<1>6. Cardinality(Below(S, u)) <= Cardinality(Prefix(S, n)) BY <1>3, <1>5, FS_Subset
<1>7. QED BY <1>4, <1>5, <1>6


-----------------------------------------------------------------------------
(* Initially, and while the store stays as it is.                          *)

LEMMA SlotTypes ==
    ASSUME TypeOK, NEW t \in Txn
    PROVE  /\ txn[t].pc \in RecordPc \cup {"idle", "walking", "walked", "done"}
           /\ txn[t].req \in RequestRec \cup {None} /\ txn[t].ids \in SUBSET User
           /\ txn[t].shares \in BOOLEAN /\ txn[t].after \in User \cup {None}
           /\ txn[t].start \in SUBSET User /\ txn[t].times \in [User -> Nat]
           /\ txn[t].out \in Out /\ txn[t] \in TxnRec
<1>1. txn[t] \in TxnRec BY DEF TypeOK
<1>2. QED BY <1>1 DEF TxnRec

LEMMA IdleIsASlot ==
    /\ Idle \in TxnRec /\ Idle.pc = "idle" /\ Idle.out = "none" /\ Idle.req = None
    /\ Idle.ids = {} /\ Idle.after = None /\ Idle.times = [u \in User |-> 0]
<1>1. "idle" \in RecordPc \cup {"idle", "walking", "walked", "done"} OBVIOUS
<1>2. "none" \in Out BY DEF Out
<1>3. /\ {} \in SUBSET User /\ None \in User \cup {None} /\ FALSE \in BOOLEAN
      /\ None \in RequestRec \cup {None} /\ [u \in User |-> 0] \in [User -> Nat]
  OBVIOUS
<1>4. QED BY <1>1, <1>2, <1>3 DEF Idle, TxnRec

\* A fresh slot has said nothing and served nothing.
LEMMA IdleKeeps == CallInv(Idle)
<1>1. \A u \in User : Idle.times[u] = 0 BY IdleIsASlot
<1>2. Presents(Idle) BY IdleIsASlot DEF Presents, RecordPc
<1>3. Stands(Idle) BY IdleIsASlot DEF Stands
<1>4. Evident(Idle) BY IdleIsASlot DEF Evident
<1>5. Walks(Idle) BY IdleIsASlot, <1>1 DEF Walks
<1>6. QED BY <1>2, <1>3, <1>4, <1>5 DEF CallInv

LEMMA InitInv == Init => Inv
<1> SUFFICES ASSUME Init PROVE Inv OBVIOUS
<1>1. \A t \in Txn : txn[t] = Idle BY DEF Init
<1>2. TypeOK BY IdleIsASlot DEF Init, TypeOK
<1>3. OneIsRecorded BY <1>1, IdleIsASlot DEF OneIsRecorded
<1>4. Inserts BY <1>1, IdleIsASlot DEF Inserts
<1>5. QED BY <1>1, <1>2, <1>3, <1>4, IdleKeeps DEF Inv

LEMMA StoreFrame ==
    ASSUME UNCHANGED store
    PROVE  /\ Stored' = Stored
           /\ \A u, w : Older(u, w)' <=> Older(u, w)
           /\ \A n : Oldest(n)' = Oldest(n)
           /\ level' = level /\ now' = now /\ born' = born
           /\ under' = under /\ marker' = marker
<1>1. level' = level /\ now' = now /\ born' = born /\ under' = under /\ marker' = marker
  BY DEF store
<1>2. QED BY <1>1 DEF Stored, Older, Oldest

LEMMA CallFrame ==
    ASSUME UNCHANGED store, NEW q, CallInv(q)
    PROVE  CallInv(q)'
<1>0. \A n : Oldest(n)' = Oldest(n) BY StoreFrame
<1>1. Presents(q)' BY DEF CallInv, Presents
<1>2. Stands(q)' BY StoreFrame DEF CallInv, Stands
<1>3. Evident(q)'
  <2>1. Oldest(Cardinality(q.ids))' = Oldest(Cardinality(q.ids)) BY <1>0
  <2>2. QED BY <2>1, StoreFrame DEF CallInv, Evident
<1>4. Walks(q)' BY StoreFrame DEF CallInv, Walks
<1>5. QED BY <1>1, <1>2, <1>3, <1>4 DEF CallInv

\* One slot moves.  RECORDED is told on a re-read only under a key.
LEMMA SlotMoves ==
    ASSUME Inv, NEW t \in Txn, NEW r \in TxnRec, Goto(t, r), UNCHANGED store, CallInv(r),
           r.pc = "inserted" => marker = None /\ MarkerFree(t),
           r.out = "RECORDED" => r.req.key # None
    PROVE  Inv'
<1>1. /\ txn' \in [Txn -> TxnRec] /\ txn'[t] = r
      /\ \A o \in Txn : o # t => txn'[o] = txn[o]
  BY DEF Goto, Inv, TypeOK
<1>2. TypeOK' BY <1>1, StoreFrame DEF Inv, TypeOK
<1>3. ASSUME NEW o \in Txn PROVE CallInv(txn[o])'
  <2>1. CASE o = t
    <3>1. CallInv(r)' BY CallFrame
    <3>2. QED BY <3>1, <2>1, <1>1
  <2>2. CASE o # t
    <3>1. PICK c : c = txn[o] OBVIOUS
    <3>2. CallInv(c) BY <3>1 DEF Inv
    <3>3. CallInv(c)' BY <3>2, CallFrame
    <3>4. txn'[o] = c BY <3>1, <2>2, <1>1
    <3>5. QED BY <3>3, <3>4
  <2>3. QED BY <2>1, <2>2
<1>4. \A o \in Txn : txn'[o].out = "RECORDED" => txn'[o].req = marker
  BY <1>3, StoreFrame DEF CallInv, Stands
<1>5. OneIsRecorded'
  <2>1. SUFFICES ASSUME NEW o \in Txn, NEW s \in Txn, o # s,
                        txn'[o].out = "RECORDED", txn'[s].out = "RECORDED"
                 PROVE  txn'[o].req = txn'[s].req /\ txn'[o].req.key # None
    BY DEF OneIsRecorded
  <2>2. txn'[o].req = marker /\ txn'[s].req = marker BY <2>1, <1>4
  <2>3. CASE o = t \/ s = t BY <2>1, <2>2, <2>3, <1>1
  <2>4. CASE o # t /\ s # t BY <2>1, <2>4, <1>1 DEF Inv, OneIsRecorded
  <2>5. QED BY <2>2, <2>3, <2>4
<1>6. Inserts'
  <2>1. SUFFICES ASSUME NEW o \in Txn, txn'[o].pc = "inserted"
                 PROVE  marker = None /\ \A s \in Txn : s # o => txn'[s].pc # "inserted"
    BY StoreFrame DEF Inserts
  <2>2. CASE o = t BY <2>1, <2>2, <1>1 DEF MarkerFree
  <2>3. CASE o # t
    <3>1. txn[o].pc = "inserted" BY <2>1, <2>3, <1>1
    <3>2. marker = None /\ \A s \in Txn : s # o => txn[s].pc # "inserted"
      BY <3>1 DEF Inv, Inserts
    <3>3. r.pc # "inserted" BY <3>1, <2>3 DEF MarkerFree
    <3>4. QED BY <3>2, <3>3, <1>1
  <2>4. QED BY <2>2, <2>3
<1>7. QED BY <1>2, <1>3, <1>5, <1>6 DEF Inv


-----------------------------------------------------------------------------
(* The answers.                                                            *)

\* An answer that is right of the marker as it stands.
Right(q, out) ==
    /\ out \in {"RECORDED", "MATCH", "MISMATCH", "SKEW"} => marker # None
    /\ out = "RECORDED" => q = marker /\ q.key # None
    /\ out = "MATCH" => marker.fp = q.fp /\ marker.version = q.version
    /\ out = "MISMATCH" => marker.fp # q.fp /\ marker.version = q.version
    /\ out = "SKEW" => marker.version # q.version

LEMMA AnswerKeeps ==
    ASSUME Inv, NEW t \in Txn, NEW q \in RequestRec, NEW out \in Out, Right(q, out),
           Answer(t, q, out), UNCHANGED store
    PROVE  Inv'
<1> DEFINE kept == IF out \in Finding \ {"ABSENT"} THEN q ELSE None
           r == [Idle EXCEPT !.pc = "done", !.out = out, !.req = kept]
<1>1. kept \in RequestRec \cup {None} OBVIOUS
<1>2. Goto(t, r) BY DEF Answer
<1>3. /\ r \in TxnRec /\ r.pc = "done" /\ r.out = out /\ r.req = kept
      /\ r.times = [u \in User |-> 0]
  <2> HIDE DEF kept
  <2>1. "done" \in RecordPc \cup {"idle", "walking", "walked", "done"} OBVIOUS
  <2>2. Idle \in TxnRec /\ Idle.times = [u \in User |-> 0] BY IdleIsASlot
  <2>3. r \in TxnRec BY <2>1, <2>2, <1>1 DEF TxnRec
  <2>4. QED BY <2>3 DEF Idle
<1>4. out \in {"RECORDED", "MATCH", "MISMATCH", "SKEW"} => kept = q BY DEF Finding
<1> HIDE DEF r, kept
<1>5. Presents(r) BY <1>3 DEF Presents, RecordPc
<1>6. Stands(r) BY <1>3, <1>4 DEF Stands, Right
<1>7. Evident(r) BY <1>3 DEF Evident
<1>8. Walks(r) BY <1>3 DEF Walks
<1>9. CallInv(r) BY <1>5, <1>6, <1>7, <1>8 DEF CallInv
<1>10. r.pc # "inserted" BY <1>3
<1>11. r.out = "RECORDED" => r.req.key # None BY <1>3, <1>4 DEF Right
<1>12. QED BY <1>2, <1>3, <1>9, <1>10, <1>11, SlotMoves

\* compared_with never misjudges, and never says RECORDED.
LEMMA ComparedIsRight ==
    ASSUME TypeOK, marker # None, NEW q \in RequestRec
    PROVE  ComparedWith(marker, q) \in Out /\ Right(q, ComparedWith(marker, q))
<1>1. /\ "MATCH" \in Out /\ "MISMATCH" \in Out /\ "SKEW" \in Out BY DEF Out, Finding
<1>2. CASE marker.version # q.version
  <2>1. ComparedWith(marker, q) = "SKEW" BY <1>2 DEF ComparedWith
  <2>2. QED BY <2>1, <1>1, <1>2 DEF Right
<1>3. CASE marker.version = q.version /\ marker.fp = q.fp
  <2>1. ComparedWith(marker, q) = "MATCH" BY <1>3 DEF ComparedWith
  <2>2. QED BY <2>1, <1>1, <1>3 DEF Right
<1>4. CASE marker.version = q.version /\ marker.fp # q.fp
  <2>1. ComparedWith(marker, q) = "MISMATCH" BY <1>4 DEF ComparedWith
  <2>2. QED BY <2>1, <1>1, <1>4 DEF Right
<1>5. QED BY <1>2, <1>3, <1>4

\* replayed_or_compared says RECORDED to the marker's own request only.
LEMMA ReplayedIsRight ==
    ASSUME TypeOK, marker # None, NEW q \in RequestRec
    PROVE  ReplayedOrCompared(marker, q) \in Out /\ Right(q, ReplayedOrCompared(marker, q))
<1>1. CASE q.key = None \/ q.key # marker.key
  <2>1. ReplayedOrCompared(marker, q) = ComparedWith(marker, q) BY <1>1 DEF ReplayedOrCompared
  <2>2. QED BY <2>1, ComparedIsRight
<1>2. CASE q.key # None /\ q.key = marker.key /\ marker.version = q.version /\ marker.fp = q.fp
  <2>1. ReplayedOrCompared(marker, q) = "RECORDED" BY <1>2 DEF ReplayedOrCompared
  <2>2. marker \in Marker BY DEF TypeOK
  <2>3. q = marker BY <2>2, <1>2 DEF Marker, RequestRec
  <2>4. "RECORDED" \in Out BY DEF Out, Finding
  <2>5. QED BY <2>1, <2>3, <2>4, <1>2 DEF Right
<1>3. CASE /\ q.key # None /\ q.key = marker.key
           /\ ~(marker.version = q.version /\ marker.fp = q.fp)
  <2>1. ReplayedOrCompared(marker, q) = "INVALID_ARGUMENT" BY <1>3 DEF ReplayedOrCompared
  <2>2. "INVALID_ARGUMENT" \in Out BY DEF Out
  <2>3. QED BY <2>1, <2>2 DEF Right
<1>4. QED BY <1>1, <1>2, <1>3

LEMMA RefusalKeeps ==
    ASSUME Inv, NEW t \in Txn, NEW q \in RequestRec,
           Answer(t, q, "INVALID_ARGUMENT"), UNCHANGED store
    PROVE  Inv'
<1>1. "INVALID_ARGUMENT" \in Out BY DEF Out
<1>2. Right(q, "INVALID_ARGUMENT") BY DEF Right
<1>3. QED BY <1>1, <1>2, AnswerKeeps

LEMMA GetKeeps ==
    ASSUME Inv, NEW t \in Txn, NEW q \in RequestRec, GetKeyIdentity(t, q)
    PROVE  Inv'
<1>1. UNCHANGED store BY DEF GetKeyIdentity
<1>2. CASE Answer(t, q, "INVALID_ARGUMENT") BY <1>1, <1>2, RefusalKeeps
<1>3. CASE Answer(t, q, IF marker = None THEN "ABSENT" ELSE ComparedWith(marker, q))
  <2>1. PICK out : out = IF marker = None THEN "ABSENT" ELSE ComparedWith(marker, q)
    OBVIOUS
  <2>2. Answer(t, q, out) BY <1>3, <2>1
  <2>3. out \in Out /\ Right(q, out)
    <3>1. CASE marker = None
      <4>1. out = "ABSENT" BY <2>1, <3>1
      <4>2. "ABSENT" \in Out BY DEF Out, Finding
      <4>3. QED BY <4>1, <4>2 DEF Right
    <3>2. CASE marker # None
      BY <2>1, <3>2, ComparedIsRight DEF Inv
    <3>3. QED BY <3>1, <3>2
  <2>4. QED BY <1>1, <2>2, <2>3, AnswerKeeps
<1>4. QED BY <1>2, <1>3 DEF GetKeyIdentity

LEMMA RereadKeeps ==
    ASSUME Inv, NEW t \in Txn, Reread(t)
    PROVE  Inv'
<1>1. UNCHANGED store BY DEF Reread
<1>2. PICK q : q = txn[t].req OBVIOUS
<1>3. q \in RequestRec
  <2>1. txn[t].pc \in RecordPc BY DEF Reread, RecordPc
  <2>2. QED BY <2>1, <1>2 DEF Inv, CallInv, Presents
<1>4. PICK out : out = OutcomeOf(t) OBVIOUS
<1>5. Answer(t, q, out) BY <1>2, <1>4 DEF Reread
<1>6. out \in Out /\ Right(q, out)
  <2>1. CASE marker = None
    <3>1. out = "FAILED_PRECONDITION" BY <1>4, <2>1 DEF OutcomeOf
    <3>2. "FAILED_PRECONDITION" \in Out BY DEF Out
    <3>3. QED BY <3>1, <3>2 DEF Right
  <2>2. CASE marker # None
    <3>1. out = ReplayedOrCompared(marker, q) BY <1>2, <1>4, <2>2 DEF OutcomeOf
    <3>2. QED BY <3>1, <2>2, <1>3, ReplayedIsRight DEF Inv
  <2>3. QED BY <2>1, <2>2
<1>7. QED BY <1>1, <1>3, <1>5, <1>6, AnswerKeeps


-----------------------------------------------------------------------------
(* The recording calls.                                                    *)

\* The predicate false: nothing is inserted and the marker is re-read.
LEMMA NothingSelectedKeeps ==
    ASSUME Inv, NEW t \in Txn, NEW q \in RequestRec, IsPresented(q),
           Goto(t, [Idle EXCEPT !.pc = "reread", !.req = q]), UNCHANGED store
    PROVE  Inv'
<1> DEFINE r == [Idle EXCEPT !.pc = "reread", !.req = q]
<1>1. /\ r \in TxnRec /\ r.pc = "reread" /\ r.out = "none" /\ r.req = q
      /\ r.times = [u \in User |-> 0]
  <2>1. "reread" \in RecordPc \cup {"idle", "walking", "walked", "done"} BY DEF RecordPc
  <2>2. r \in TxnRec BY <2>1, IdleIsASlot DEF TxnRec
  <2>3. QED BY <2>2 DEF Idle
<1>2. Goto(t, r) OBVIOUS
<1> HIDE DEF r
<1>3. Presents(r) BY <1>1 DEF Presents
<1>4. Stands(r) BY <1>1 DEF Stands
<1>5. Evident(r) BY <1>1 DEF Evident
<1>6. Walks(r) BY <1>1 DEF Walks
<1>7. CallInv(r) BY <1>3, <1>4, <1>5, <1>6 DEF CallInv
<1>8. r.pc # "inserted" /\ r.out # "RECORDED" BY <1>1
<1>9. QED BY <1>1, <1>2, <1>7, <1>8, SlotMoves

\* The predicate true: it stays so at REPEATABLE READ.
LEMMA SelectedKeeps ==
    ASSUME Inv, NEW t \in Txn, NEW q \in RequestRec, IsPresented(q), NEW ids \in SUBSET User,
           IF ids = {} THEN Stored = {}
           ELSE \A u \in Oldest(Cardinality(ids)) : under[u] = q.fp,
           Goto(t, [Idle EXCEPT !.pc = "selected", !.req = q, !.ids = ids]), UNCHANGED store
    PROVE  Inv'
<1> DEFINE r == [Idle EXCEPT !.pc = "selected", !.req = q, !.ids = ids]
<1>1. /\ r \in TxnRec /\ r.pc = "selected" /\ r.out = "none" /\ r.req = q /\ r.ids = ids
      /\ r.times = [u \in User |-> 0]
  <2>1. "selected" \in RecordPc \cup {"idle", "walking", "walked", "done"} BY DEF RecordPc
  <2>2. r \in TxnRec BY <2>1, IdleIsASlot DEF TxnRec
  <2>3. QED BY <2>2 DEF Idle
<1>2. Goto(t, r) OBVIOUS
<1> HIDE DEF r
<1>3. Presents(r) BY <1>1 DEF Presents
<1>4. Stands(r) BY <1>1 DEF Stands
<1>5. Evident(r) BY <1>1 DEF Evident
<1>6. Walks(r) BY <1>1 DEF Walks
<1>7. CallInv(r) BY <1>3, <1>4, <1>5, <1>6 DEF CallInv
<1>8. r.pc # "inserted" /\ r.out # "RECORDED" BY <1>1
<1>9. QED BY <1>1, <1>2, <1>7, <1>8, SlotMoves

LEMMA SetKeeps ==
    ASSUME Inv, NEW t \in Txn, NEW q \in RequestRec, SetKeyIdentity(t, q)
    PROVE  Inv'
<1>1. UNCHANGED store BY DEF SetKeyIdentity
<1>2. CASE Answer(t, q, "INVALID_ARGUMENT") BY <1>1, <1>2, RefusalKeeps
<1>3. CASE IsPresented(q) /\ Select(t, q, {}, Stored = {})
  <2>1. CASE Stored = {}
    <3>1. Goto(t, [Idle EXCEPT !.pc = "selected", !.req = q, !.ids = {}])
      BY <1>3, <2>1 DEF Select
    <3>2. IF {} = {} THEN Stored = {}
          ELSE \A u \in Oldest(Cardinality({})) : under[u] = q.fp
      BY <2>1
    <3>3. {} \in SUBSET User OBVIOUS
    <3>4. QED BY <1>1, <1>3, <3>1, <3>2, <3>3, SelectedKeeps
  <2>2. CASE Stored # {}
    <3>1. Goto(t, [Idle EXCEPT !.pc = "reread", !.req = q])
      BY <1>3, <2>2 DEF Select
    <3>2. QED BY <1>1, <1>3, <3>1, NothingSelectedKeeps
  <2>3. QED BY <2>1, <2>2
<1>4. QED BY <1>2, <1>3 DEF SetKeyIdentity

\* As many ids among the n oldest rows as there are ids are those rows.
LEMMA EvidenceIsTheOldest ==
    ASSUME Clocks, NEW ids \in SUBSET User, EvidenceHolds(ids)
    PROVE  Oldest(Cardinality(ids)) = ids
<1>1. IsFiniteSet(ids) BY UserAssumption, FS_Subset
<1>2. PICK n \in Nat : n = Cardinality(ids) BY <1>1, FS_CardinalityType
<1>3. Oldest(n) = Prefix(Stored, n) BY DEF Oldest, Prefix, Below
<1>4. Stored \in SUBSET Stored OBVIOUS
<1>5. IsFiniteSet(Oldest(n)) /\ Cardinality(Oldest(n)) \in 0..n BY <1>3, <1>4, PrefixBound
<1>6. Oldest(n) \cap ids \in SUBSET ids OBVIOUS
<1>7. Cardinality(Oldest(n) \cap ids) = n BY <1>2 DEF EvidenceHolds
<1>8. ids = Oldest(n) \cap ids BY <1>1, <1>2, <1>6, <1>7, FS_Subset
<1>9. ids \in SUBSET Oldest(n) BY <1>8
<1>10. n <= Cardinality(Oldest(n)) BY <1>2, <1>5, <1>9, FS_Subset
<1>11. Cardinality(Oldest(n)) = Cardinality(ids) BY <1>2, <1>5, <1>10
<1>12. Oldest(n) = ids BY <1>5, <1>9, <1>11, FS_Subset
<1>13. QED BY <1>2, <1>12

LEMMA AdoptKeeps ==
    ASSUME Inv, NEW t \in Txn, NEW q \in RequestRec, NEW ids \in SUBSET User,
           AdoptKeyIdentity(t, q, ids)
    PROVE  Inv'
<1>1. UNCHANGED store BY DEF AdoptKeyIdentity
<1>2. CASE Answer(t, q, "INVALID_ARGUMENT") BY <1>1, <1>2, RefusalKeeps
<1>3. CASE /\ IsPresented(q) /\ Cardinality(ids) \in 1..MaxEvidence
           /\ Select(t, q, ids, EvidenceHolds(ids))
  <2>1. CASE EvidenceHolds(ids)
    <3>1. Goto(t, [Idle EXCEPT !.pc = "selected", !.req = q, !.ids = ids])
      BY <1>3, <2>1 DEF Select
    <3>2. Clocks BY DEF Inv, TypeOK, Clocks
    <3>3. Oldest(Cardinality(ids)) = ids BY <2>1, <3>2, EvidenceIsTheOldest
    <3>4. ids \subseteq Stored BY <3>3 DEF Oldest
    <3>5. \A u \in ids : under[u] = q.fp BY <3>4 DEF AdoptKeyIdentity
    <3>6. ids # {} BY <1>3, FS_EmptySet
    <3>7. IF ids = {} THEN Stored = {}
          ELSE \A u \in Oldest(Cardinality(ids)) : under[u] = q.fp
      BY <3>3, <3>5, <3>6
    <3>8. QED BY <1>1, <1>3, <3>1, <3>7, SelectedKeeps
  <2>2. CASE ~EvidenceHolds(ids)
    <3>1. Goto(t, [Idle EXCEPT !.pc = "reread", !.req = q])
      BY <1>3, <2>2 DEF Select
    <3>2. QED BY <1>1, <1>3, <3>1, NothingSelectedKeeps
  <2>3. QED BY <2>1, <2>2
<1>4. QED BY <1>2, <1>3 DEF AdoptKeyIdentity


LEMMA InsertKeeps ==
    ASSUME Inv, NEW t \in Txn, Insert(t)
    PROVE  Inv'
<1>1. UNCHANGED store /\ MarkerFree(t) /\ txn[t].pc = "selected" BY DEF Insert
<1>2. PICK c \in TxnRec : c = txn[t] BY SlotTypes DEF Inv
<1>3. CallInv(c) /\ c.pc = "selected" BY <1>1, <1>2 DEF Inv
<1>4. c.req \in RequestRec /\ IsPresented(c.req) /\ c.out = "none"
  BY <1>3 DEF CallInv, Presents, RecordPc
<1>5. \A u \in User : c.times[u] = 0 BY <1>3 DEF CallInv, Walks
<1>6. CASE marker = None
  <2> DEFINE r == [c EXCEPT !.pc = "inserted"]
  <2>1. "inserted" \in RecordPc \cup {"idle", "walking", "walked", "done"} BY DEF RecordPc
  <2>2. /\ r \in TxnRec /\ r.pc = "inserted" /\ r.out = c.out /\ r.req = c.req
        /\ r.times = c.times /\ r.ids = c.ids
    BY <2>1 DEF TxnRec
  <2>3. Goto(t, r) BY <1>2, <1>6 DEF Insert
  <2> HIDE DEF r
  <2>4. Presents(r) BY <2>2, <1>4 DEF Presents
  <2>5. Stands(r) BY <2>2, <1>4 DEF Stands
  <2>6. Evident(r) BY <2>2, <1>3 DEF Evident, CallInv
  <2>7. Walks(r) BY <2>2, <1>5 DEF Walks
  <2>8. CallInv(r) BY <2>4, <2>5, <2>6, <2>7 DEF CallInv
  <2>9. r.out # "RECORDED" BY <2>2, <1>4
  <2>10. QED BY <1>1, <1>6, <2>2, <2>3, <2>8, <2>9, SlotMoves
<1>7. CASE marker # None
  <2> DEFINE r == [c EXCEPT !.pc = "reread", !.shares = TRUE, !.ids = {}]
  <2>1. "reread" \in RecordPc \cup {"idle", "walking", "walked", "done"} BY DEF RecordPc
  <2>2. TRUE \in BOOLEAN /\ {} \in SUBSET User OBVIOUS
  <2>3. /\ r \in TxnRec /\ r.pc = "reread" /\ r.out = c.out /\ r.req = c.req
        /\ r.times = c.times
    BY <2>1, <2>2 DEF TxnRec
  <2>4. Goto(t, r) BY <1>2, <1>7 DEF Insert
  <2> HIDE DEF r
  <2>5. Presents(r) BY <2>3, <1>4 DEF Presents
  <2>6. Stands(r) BY <2>3, <1>4 DEF Stands
  <2>7. Evident(r) BY <2>3 DEF Evident
  <2>8. Walks(r) BY <2>3, <1>5 DEF Walks
  <2>9. CallInv(r) BY <2>5, <2>6, <2>7, <2>8 DEF CallInv
  <2>10. r.pc # "inserted" /\ r.out # "RECORDED" BY <2>3, <1>4
  <2>11. QED BY <1>1, <2>3, <2>4, <2>9, <2>10, SlotMoves
<1>8. QED BY <1>6, <1>7

\* The commit: nobody has been told anything of a marker that was not there,
\* and no other insert is in flight.
LEMMA CommitKeeps ==
    ASSUME Inv, NEW t \in Txn, Commit(t)
    PROVE  Inv'
<1>1. /\ txn[t].pc = "inserted" /\ marker' = txn[t].req
      /\ level' = level /\ now' = now /\ born' = born /\ under' = under
  BY DEF Commit
<1>2. PICK q : q = txn[t].req OBVIOUS
<1>3. q \in RequestRec /\ IsPresented(q) /\ marker' = q
  BY <1>1, <1>2 DEF Inv, CallInv, Presents, RecordPc
<1>4. q \in Marker BY <1>3 DEF RequestRec, Marker, IsPresented
<1>5. q # None BY <1>3, RequestAssumption
<1>6. marker = None /\ \A o \in Txn : o # t => txn[o].pc # "inserted"
  BY <1>1 DEF Inv, Inserts
<1>7. \A o \in Txn : txn[o].out \notin {"RECORDED", "MATCH", "MISMATCH", "SKEW"}
  BY <1>6 DEF Inv, CallInv, Stands
<1>8. PICK r \in TxnRec : /\ Goto(t, r) /\ r.times = [u \in User |-> 0]
                          /\ \/ r = Idle
                             \/ r.pc = "done" /\ r.out = "RECORDED" /\ r.req = q
  <2>1. CASE Goto(t, Idle) BY <2>1, IdleIsASlot
  <2>2. CASE Answer(t, q, "RECORDED")
    <3> DEFINE r == [Idle EXCEPT !.pc = "done", !.out = "RECORDED", !.req = q]
    <3>1. Goto(t, r) BY <2>2 DEF Answer, Finding
    <3>2. "done" \in RecordPc \cup {"idle", "walking", "walked", "done"} OBVIOUS
    <3>3. "RECORDED" \in Out BY DEF Out, Finding
    <3>4. r \in TxnRec BY <3>2, <3>3, <1>3, IdleIsASlot DEF TxnRec
    <3>5. r.pc = "done" /\ r.out = "RECORDED" /\ r.req = q /\ r.times = [u \in User |-> 0]
      BY <3>4 DEF Idle
    <3> HIDE DEF r
    <3>6. QED BY <3>1, <3>4, <3>5
  <2>3. QED BY <2>1, <2>2, <1>2 DEF Commit
<1>9. /\ txn' \in [Txn -> TxnRec] /\ txn'[t] = r
      /\ \A o \in Txn : o # t => txn'[o] = txn[o]
  BY <1>8 DEF Goto, Inv, TypeOK
<1>10. r.pc \in {"idle", "done"} /\ r.out \in {"none", "RECORDED"} BY <1>8, IdleIsASlot
<1>11. TypeOK' BY <1>1, <1>3, <1>4, <1>9 DEF Inv, TypeOK
<1>12. /\ Stored' = Stored /\ \A u, w : Older(u, w)' <=> Older(u, w)
       /\ \A n : Oldest(n)' = Oldest(n)
  BY <1>1 DEF Stored, Older, Oldest
<1>13. ASSUME NEW o \in Txn PROVE CallInv(txn[o])'
  <2>1. CASE o = t
    <3>1. Presents(r)' BY <1>8, IdleIsASlot DEF Presents, RecordPc
    <3>2. Stands(r)' BY <1>3, <1>5, <1>8, IdleIsASlot DEF Stands
    <3>3. Evident(r)' BY <1>10 DEF Evident
    <3>4. Walks(r)' BY <1>8, <1>10 DEF Walks
    <3>5. CallInv(r)' BY <3>1, <3>2, <3>3, <3>4 DEF CallInv
    <3>6. QED BY <3>5, <2>1, <1>9
  <2>2. CASE o # t
    <3>1. PICK c : c = txn[o] OBVIOUS
    <3>2. CallInv(c) BY <3>1 DEF Inv
    <3>3. Presents(c)' BY <3>2 DEF CallInv, Presents
    <3>4. Stands(c)' BY <3>1, <1>7 DEF Stands
    <3>5. Evident(c)'
      <4>1. Oldest(Cardinality(c.ids))' = Oldest(Cardinality(c.ids)) BY <1>12
      <4>2. QED BY <4>1, <3>2, <1>1, <1>12 DEF CallInv, Evident
    <3>6. Walks(c)' BY <3>2, <1>12 DEF CallInv, Walks
    <3>7. CallInv(c)' BY <3>3, <3>4, <3>5, <3>6 DEF CallInv
    <3>8. txn'[o] = c BY <3>1, <2>2, <1>9
    <3>9. QED BY <3>7, <3>8
  <2>3. QED BY <2>1, <2>2
<1>14. OneIsRecorded' BY <1>7, <1>9 DEF OneIsRecorded
<1>15. Inserts' BY <1>6, <1>9, <1>10 DEF Inserts
<1>16. QED BY <1>11, <1>13, <1>14, <1>15 DEF Inv

-----------------------------------------------------------------------------
(* The walk of the evidence.                                               *)

\* A page: the rows past the position, at most PageSize, all of them when it
\* is not full, and closed downwards among the rows past the position.
LEMMA PageIsAPrefix ==
    ASSUME Clocks, NEW t \in Txn,
           NEW rest, rest = {u \in Stored : txn[t].after = None \/ Older(txn[t].after, u)}
    PROVE  /\ rest \in SUBSET Stored /\ Page(t) \in SUBSET rest
           /\ Cardinality(Page(t)) # PageSize => Page(t) = rest
           /\ \A u \in Page(t), w \in rest : ~Older(u, w) => w \in Page(t)
           /\ Cardinality(Page(t)) = PageSize => Page(t) # {}
<1>1. Page(t) = Prefix(rest, PageSize) BY DEF Page, Prefix, Below
<1>2. rest \in SUBSET Stored OBVIOUS
<1>3. PageSize \in Nat /\ PageSize # 0 BY BoundAssumption
<1>4. Prefix(rest, PageSize) \in SUBSET rest BY DEF Prefix
<1>5. Cardinality(Page(t)) # PageSize => Page(t) = rest BY <1>1, <1>2, <1>3, PrefixFull
<1>6. \A u \in Page(t), w \in rest : ~Older(u, w) => w \in Page(t)
  BY <1>1, <1>2, <1>3, PrefixClosed
<1>7. Cardinality(Page(t)) = PageSize => Page(t) # {} BY <1>3, FS_EmptySet
<1>8. QED BY <1>1, <1>2, <1>4, <1>5, <1>6, <1>7


LEMMA ListPageKeeps ==
    ASSUME Inv, NEW t \in Txn, ListPage(t)
    PROVE  Inv'
<1>1. UNCHANGED store /\ txn[t].pc \in {"idle", "walking"} BY DEF ListPage
<1>2. PICK c \in TxnRec : c = txn[t] BY SlotTypes DEF Inv
<1>3. CallInv(c) BY <1>2 DEF Inv
<1>4. PICK x : x = IF c.pc = "idle" THEN [Idle EXCEPT !.start = Stored] ELSE c OBVIOUS
<1>5. Clocks BY DEF Inv, TypeOK, Clocks
<1>6. PICK rest : rest = {u \in Stored : txn[t].after = None \/ Older(txn[t].after, u)}
  OBVIOUS
<1>7. PICK page : page = Page(t) OBVIOUS
<1>8. /\ rest \in SUBSET Stored /\ page \in SUBSET rest
      /\ Cardinality(page) # PageSize => page = rest
      /\ \A u \in page, w \in rest : ~Older(u, w) => w \in page
      /\ Cardinality(page) = PageSize => page # {}
  BY <1>5, <1>6, <1>7, PageIsAPrefix
\* What has been served before this page.
<1>9. /\ x \in TxnRec /\ x.start \in SUBSET User /\ x.times \in [User -> Nat]
      /\ x.pc \in {"idle", "walking"} /\ x.out = c.out
      /\ \A u \in User : x.times[u] \in {0, 1}
      /\ \A u \in rest : x.times[u] = 0
      /\ \A u \in x.start : x.times[u] = 0 => u \in rest
      /\ x.start \in SUBSET Stored
      /\ \A u \in User : x.times[u] = 1 => u \in Stored /\ \A w \in rest : ~Older(w, u)
  <2>0. Stored \in SUBSET User BY DEF Stored
  <2>1. CASE c.pc = "idle"
    <3>1. c = Idle BY <2>1, <1>3 DEF CallInv, Walks
    <3>2. rest = Stored BY <3>1, <1>2, <1>6, IdleIsASlot
    <3>3. x = [Idle EXCEPT !.start = Stored] BY <2>1, <1>4
    <3>4. /\ x \in TxnRec /\ x.start = Stored /\ x.times = [u \in User |-> 0]
          /\ x.pc = "idle" /\ x.out = "none"
      <4>1. x \in TxnRec BY <3>3, <2>0, IdleIsASlot DEF TxnRec
      <4>2. QED BY <3>3, <4>1 DEF Idle
    <3>5. c.out = "none" BY <3>1, IdleIsASlot
    <3>6. QED BY <3>2, <3>4, <3>5, <2>0
  <2>2. CASE c.pc = "walking"
    <3>1. x = c BY <2>2, <1>4
    <3>2. /\ c.after \in Stored /\ c.start \subseteq Stored
          /\ \A u \in User : c.times[u] \in {0, 1}
          /\ \A u \in User : c.times[u] = 1 => u \in Stored /\ ~Older(c.after, u)
          /\ \A u \in c.start : c.times[u] = 0 => Older(c.after, u)
      BY <2>2, <1>3 DEF CallInv, Walks
    <3>3. c.after # None BY <3>2, RowTypes, <1>5, NoneAssumption
    <3>4. \A u : u \in rest <=> u \in Stored /\ Older(c.after, u) BY <3>3, <1>2, <1>6
    <3>5. \A u \in rest : c.times[u] = 0 BY <3>2, <3>4, <2>0
    <3>6. \A u \in c.start : c.times[u] = 0 => u \in rest BY <3>2, <3>4
    <3>7. ASSUME NEW u \in User, c.times[u] = 1, NEW w \in rest, Older(w, u) PROVE FALSE
      <4>1. u \in Stored /\ ~Older(c.after, u) /\ w \in Stored /\ Older(c.after, w)
        BY <3>2, <3>4, <3>7
      <4>2. QED BY <4>1, <3>2, <3>7, <1>5, OlderTransitive
    <3>8. c.start \in SUBSET User /\ c.times \in [User -> Nat] BY DEF TxnRec
    <3>9. QED BY <3>1, <3>2, <3>5, <3>6, <3>7, <3>8, <2>2
  <2>3. QED BY <2>1, <2>2, <1>1, <1>2
<1>10. c.out = "none" BY <1>1, <1>2, <1>3 DEF CallInv, Presents
\* The page served: full, the walk stands at its youngest row; not full, it ends.
<1> DEFINE full == Cardinality(page) = PageSize
           next == CHOOSE u \in page : \A w \in page : ~Older(u, w)
           after == IF full THEN next ELSE None
           times == [u \in User |-> IF u \in page THEN x.times[u] + 1 ELSE x.times[u]]
           pc == IF full THEN "walking" ELSE "walked"
<1>11. Stored \in SUBSET User /\ page \in SUBSET Stored /\ rest \in SUBSET Stored
  BY <1>8 DEF Stored
<1>12. full => next \in page /\ \A w \in page : ~Older(next, w)
  <2>1. full => \E u \in page : \A w \in page : ~Older(u, w)
    BY <1>5, <1>8, <1>11, HasYoungest
  <2>2. QED BY <2>1
<1>13. after \in User \cup {None}
  <2> HIDE DEF next
  <2> QED BY <1>11, <1>12
<1>14. times \in [User -> Nat] BY <1>9
<1>15. /\ \A u \in page : times[u] = 1
       /\ \A u \in User : u \notin page => times[u] = x.times[u]
  BY <1>9, <1>8, <1>11
<1>16. Goto(t, [x EXCEPT !.pc = pc, !.times = times, !.after = after])
  BY <1>2, <1>4, <1>7 DEF ListPage
<1>17. full => /\ page # {} /\ after \in page
               /\ \A w \in page : ~Older(after, w)
  <2> HIDE DEF next
  <2> QED BY <1>8, <1>12
<1>18. full => \A u \in rest : u \notin page => Older(after, u)
  <2>1. ASSUME full, NEW u \in rest, u \notin page, ~Older(after, u) PROVE FALSE
    <3> HIDE DEF after
    <3> QED BY <2>1, <1>8, <1>17
  <2>2. QED BY <2>1
<1> HIDE DEF after, times, pc, next
<1>19. PICK a \in User \cup {None} : a = after BY <1>13
<1>20. PICK ts \in [User -> Nat] : ts = times BY <1>14
<1>21. PICK p \in {"walking", "walked"} : p = pc BY DEF pc
<1> DEFINE r == [x EXCEPT !.pc = p, !.times = ts, !.after = a]
<1>22. Goto(t, r) BY <1>16, <1>19, <1>20, <1>21
<1>23. /\ r \in TxnRec /\ r.pc = p /\ r.out = "none" /\ r.times = ts /\ r.after = a
       /\ r.start = x.start
  <2>1. p \in RecordPc \cup {"idle", "walking", "walked", "done"} OBVIOUS
  <2>2. QED BY <2>1, <1>9, <1>10 DEF TxnRec
<1> HIDE DEF r
<1>24. /\ \A u \in page : ts[u] = 1
       /\ \A u \in User : u \notin page => ts[u] = x.times[u]
  BY <1>15, <1>20
<1>25. \A u \in User : ts[u] \in {0, 1} BY <1>24, <1>9
<1>26. ASSUME ~full PROVE Walks(r)
  <2>1. r.pc = "walked" BY <1>26, <1>21, <1>23 DEF pc
  <2>2. page = rest BY <1>26, <1>8
  <2>3. \A u \in x.start : ts[u] = 1 BY <2>2, <1>9, <1>24
  <2>4. QED BY <2>1, <2>3, <1>23, <1>25 DEF Walks
<1>27. ASSUME full PROVE Walks(r)
  <2>1. r.pc = "walking" BY <1>27, <1>21, <1>23 DEF pc
  <2>2. a \in page BY <1>27, <1>17, <1>19
  <2>3. ASSUME NEW u \in User, ts[u] = 1 PROVE u \in Stored /\ ~Older(a, u)
    <3>1. CASE u \in page BY <3>1, <1>11, <1>17, <1>19, <1>27
    <3>2. CASE u \notin page BY <3>2, <2>2, <2>3, <1>8, <1>9, <1>24
    <3>3. QED BY <3>1, <3>2
  <2>4. ASSUME NEW u \in x.start, ts[u] = 0 PROVE Older(a, u)
    <3>1. u \in User /\ u \notin page BY <2>4, <1>9, <1>24
    <3>2. u \in rest BY <3>1, <2>4, <1>9, <1>24
    <3>3. QED BY <3>1, <3>2, <1>18, <1>19, <1>27
  <2>5. QED BY <2>1, <2>2, <2>3, <2>4, <1>9, <1>11, <1>23, <1>25 DEF Walks
<1>28. Walks(r) BY <1>26, <1>27
<1>29. Presents(r) BY <1>23 DEF Presents, RecordPc
<1>30. Stands(r) BY <1>23 DEF Stands
<1>31. Evident(r) BY <1>23 DEF Evident
<1>32. CallInv(r) BY <1>28, <1>29, <1>30, <1>31 DEF CallInv
<1>33. r.pc # "inserted" /\ r.out # "RECORDED" BY <1>23
<1>34. QED BY <1>1, <1>22, <1>23, <1>32, <1>33, SlotMoves


-----------------------------------------------------------------------------
(* The rest of the store.                                                  *)

\* A row created between two pages, or beside a recording.
LEMMA NewUserKeeps ==
    ASSUME Inv, NEW u \in User, NEW k \in KeySet, NEW began, NewUser(u, k, began)
    PROVE  Inv'
<1>1. /\ born[u] = None /\ ~InsertBlocked /\ began \in Nat
      /\ born' = [born EXCEPT ![u] = began] /\ under' = [under EXCEPT ![u] = k]
      /\ level' = level /\ now' = now /\ marker' = marker /\ txn' = txn
  BY DEF NewUser
<1>2. TypeOK' BY <1>1 DEF Inv, TypeOK
<1>3. OneIsRecorded' BY <1>1 DEF Inv, OneIsRecorded
<1>4. Inserts' BY <1>1 DEF Inv, Inserts
<1>5. /\ \A w \in User : w # u => born'[w] = born[w]
      /\ u \notin Stored
  BY <1>1 DEF Inv, TypeOK, Stored
<1>6. \A w \in Stored : w \in User /\ w # u /\ born'[w] = born[w] BY <1>5 DEF Stored
<1>7. \A w \in Stored : w \in Stored' BY <1>6 DEF Stored
<1>8. \A v, w \in Stored : Older(v, w)' <=> Older(v, w) BY <1>6 DEF Older
<1>9. ASSUME NEW t \in Txn PROVE CallInv(txn[t])'
  <2>1. PICK c : c = txn[t] OBVIOUS
  <2>2. CallInv(c) /\ txn'[t] = c BY <2>1, <1>1 DEF Inv
  <2>3. Presents(c)' BY <2>2 DEF CallInv, Presents
  <2>4. Stands(c)' BY <2>2, <1>1 DEF CallInv, Stands
  <2>5. Evident(c)' BY <2>1, <1>1 DEF Evident, InsertBlocked
  <2>6. Walks(c)'
    <3>1. c.pc = "walking" =>
             /\ c.after \in Stored' /\ c.start \subseteq Stored'
             /\ \A w \in User : c.times[w] = 1 => w \in Stored' /\ ~Older(c.after, w)'
             /\ \A w \in c.start : c.times[w] = 0 => Older(c.after, w)'
      BY <2>2, <1>7, <1>8 DEF CallInv, Walks
    <3>2. QED BY <3>1, <2>2 DEF CallInv, Walks
  <2>7. CallInv(c)' BY <2>3, <2>4, <2>5, <2>6 DEF CallInv
  <2>8. QED BY <2>2, <2>7
<1>10. QED BY <1>2, <1>3, <1>4, <1>9 DEF Inv

LEMMA TickKeeps ==
    ASSUME Inv, now' \in Nat, UNCHANGED <<level, born, under, marker, txn>>
    PROVE  Inv'
<1>1. TypeOK' BY DEF Inv, TypeOK
<1>2. OneIsRecorded' BY DEF Inv, OneIsRecorded
<1>3. Inserts' BY DEF Inv, Inserts
<1>4. /\ Stored' = Stored /\ \A u, w : Older(u, w)' <=> Older(u, w)
      /\ \A n : Oldest(n)' = Oldest(n)
  BY DEF Stored, Older, Oldest
<1>5. ASSUME NEW t \in Txn PROVE CallInv(txn[t])'
  <2>1. PICK c : c = txn[t] OBVIOUS
  <2>2. CallInv(c) /\ txn'[t] = c BY <2>1 DEF Inv
  <2>3. Presents(c)' BY <2>2 DEF CallInv, Presents
  <2>4. Stands(c)' BY <2>2 DEF CallInv, Stands
  <2>5. Evident(c)'
    <3>1. Oldest(Cardinality(c.ids))' = Oldest(Cardinality(c.ids)) BY <1>4
    <3>2. QED BY <3>1, <2>2, <1>4 DEF CallInv, Evident
  <2>6. Walks(c)' BY <2>2, <1>4 DEF CallInv, Walks
  <2>7. CallInv(c)' BY <2>3, <2>4, <2>5, <2>6 DEF CallInv
  <2>8. QED BY <2>2, <2>7
<1>6. QED BY <1>1, <1>2, <1>3, <1>5 DEF Inv

LEMMA DropKeeps ==
    ASSUME Inv, NEW t \in Txn, Drop(t)
    PROVE  Inv'
<1>1. Goto(t, Idle) /\ UNCHANGED store BY DEF Drop
<1>2. Idle.pc # "inserted" /\ Idle.out # "RECORDED" /\ Idle \in TxnRec BY IdleIsASlot
<1>3. QED BY <1>1, <1>2, IdleKeeps, SlotMoves

\* Every step keeps the invariant.
LEMMA NextKeeps == Inv /\ [Next]_vars => Inv'
<1> SUFFICES ASSUME Inv, [Next]_vars PROVE Inv' OBVIOUS
<1>1. CASE Tick
  <2>1. now \in Nat BY DEF Inv, TypeOK
  <2>2. now' \in Nat BY <1>1, <2>1 DEF Tick
  <2>3. QED BY <1>1, <2>2, TickKeeps DEF Tick
<1>2. CASE \E u \in User, k \in KeySet, began \in 0..MaxTime : NewUser(u, k, began)
  BY <1>2, NewUserKeeps
<1>3. ASSUME NEW t \in Txn, Begin(t) PROVE Inv'
  <2>1. CASE ListPage(t) BY <2>1, ListPageKeeps
  <2>2. ASSUME NEW q \in Request, \/ GetKeyIdentity(t, q) \/ SetKeyIdentity(t, q)
                                  \/ \E ids \in SUBSET User : AdoptKeyIdentity(t, q, ids)
        PROVE  Inv'
    <3>1. q \in RequestRec BY RequestAssumption
    <3>2. QED BY <2>2, <3>1, GetKeeps, SetKeeps, AdoptKeeps
  <2>3. QED BY <1>3, <2>1, <2>2 DEF Begin
<1>4. ASSUME NEW t \in Txn, Step(t) PROVE Inv'
  BY <1>4, InsertKeeps, RereadKeeps, CommitKeeps DEF Step
<1>5. ASSUME NEW t \in Txn, Drop(t) PROVE Inv' BY <1>5, DropKeeps
<1>6. CASE UNCHANGED vars
  <2>1. now' \in Nat BY <1>6 DEF vars, Inv, TypeOK
  <2>2. UNCHANGED <<level, born, under, marker, txn>> BY <1>6 DEF vars
  <2>3. QED BY <2>1, <2>2, TickKeeps
<1>7. QED BY <1>1, <1>2, <1>3, <1>4, <1>5, <1>6 DEF Next

-----------------------------------------------------------------------------
(* The theorems.                                                           *)

\* The inductive invariant holds throughout.
THEOREM KeyIdentityInvariance == Spec => []Inv
BY InitInv, NextKeeps, PTL DEF Spec

\* The stored marker is well formed and an answer about it (RECORDED, MATCH,
\* MISMATCH, SKEW) is never overturned, whichever replicas race for it: the
\* insert of key_identity.rs writes once and nothing replaces the row.
THEOREM AnswersAreFinal == Spec => []MarkerInv
<1>1. Inv => MarkerInv
  BY DEF Inv, CallInv, Stands, MarkerInv, AnswersStand
<1>2. QED BY <1>1, KeyIdentityInvariance, PTL

\* Of the recording calls one is told RECORDED; another only as a redelivery
\* under the same, non-empty, key (replayed_or_compared).
THEOREM OneRecordingWins == Spec => []OneIsRecorded
<1>1. Inv => OneIsRecorded BY DEF Inv
<1>2. QED BY <1>1, KeyIdentityInvariance, PTL

\* A walk of ListKeyIdentityEvidence serves every row that was stored when it
\* began once and no row twice, whatever is created between its pages, for
\* every page size.
THEOREM WalksAreExact == Spec => []WalkIsExact
<1>1. Inv => WalkIsExact
  <2>1. SUFFICES ASSUME Inv, NEW t \in Txn
                 PROVE  /\ \A u \in User : txn[t].times[u] <= 1
                        /\ txn[t].pc = "walked" => \A u \in txn[t].start : txn[t].times[u] = 1
    BY DEF WalkIsExact
  <2>2. Walks(txn[t]) BY <2>1 DEF Inv, CallInv
  <2>3. \A u \in User : txn[t].times[u] \in {0, 1} BY <2>2 DEF Walks
  <2>4. QED BY <2>2, <2>3 DEF Walks
<1>2. QED BY <1>1, KeyIdentityInvariance, PTL

\* At REPEATABLE READ the marker is recorded over an empty store, or over rows
\* the oldest of which are under its key set: the predicate of the INSERT ...
\* SELECT keeps user rows out until the commit.
THEOREM RecordingsAreOnEvidence == Spec => RecordedOnEvidence
<1> DEFINE Evidenced ==
       \A t \in Txn :
          (level = "REPEATABLE READ" /\ marker = None /\ marker' # None
             /\ txn[t].pc = "inserted" /\ txn'[t].pc # "inserted")
             => IF txn[t].ids = {} THEN Stored = {}
                ELSE \A u \in Oldest(Cardinality(txn[t].ids)) : under[u] = marker'.fp
<1>1. Inv /\ [Next]_vars => [Evidenced]_vars
  <2>1. SUFFICES ASSUME Inv, Next, NEW t \in Txn,
                        level = "REPEATABLE READ", marker = None, marker' # None,
                        txn[t].pc = "inserted", txn'[t].pc # "inserted"
                 PROVE  IF txn[t].ids = {} THEN Stored = {}
                        ELSE \A u \in Oldest(Cardinality(txn[t].ids)) : under[u] = marker'.fp
    OBVIOUS
  <2>2. PICK s \in Txn : Commit(s)
    <3>1. ~Tick BY <2>1 DEF Tick
    <3>2. \A u \in User, k \in KeySet, began \in 0..MaxTime : ~NewUser(u, k, began)
      BY <2>1 DEF NewUser
    <3>3. PICK s \in Txn : Begin(s) \/ Step(s) \/ Drop(s) BY <3>1, <3>2, <2>1 DEF Next
    <3>4. ~UNCHANGED store BY <2>1 DEF store
    <3>5. ~Begin(s)
      BY <3>4 DEF Begin, ListPage, GetKeyIdentity, SetKeyIdentity, AdoptKeyIdentity
    <3>6. ~Drop(s) /\ ~Insert(s) /\ ~Reread(s) BY <3>4 DEF Drop, Insert, Reread
    <3>7. QED BY <3>3, <3>5, <3>6 DEF Step
  <2>3. s = t
    <3>1. txn[s].pc = "inserted" BY <2>2 DEF Commit
    <3>2. QED BY <3>1, <2>1 DEF Inv, Inserts
  <2>4. marker' = txn[t].req BY <2>2, <2>3 DEF Commit
  <2>5. Evident(txn[t]) BY <2>1 DEF Inv, CallInv
  <2>6. QED BY <2>1, <2>4, <2>5 DEF Evident
<1>2. Spec => [][Evidenced]_vars BY <1>1, KeyIdentityInvariance, PTL DEF Spec
<1>3. QED BY <1>2 DEF RecordedOnEvidence
=============================================================================
