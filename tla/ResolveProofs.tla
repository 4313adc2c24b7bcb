--------------------------- MODULE ResolveProofs ---------------------------
(***************************************************************************)
(* Theorems about Resolve, for any calls, credentials, writes and page     *)
(* size: ResolveCredential answers for one point in time, a walk through   *)
(* ListCredentials lists a credential that stays live once, and no limit is*)
(* stored for a person who is soft-deleted.                                *)
(***************************************************************************)
EXTENDS Resolve, ConnPoolProofs, FiniteSetTheorems, WellFoundedInduction, TLAPS

\* A call is under way where its request is, and asked for its transaction.
CallAsks(x, q) ==
    /\ x.op # "none" <=> q.pc # "idle"
    /\ x.op = "Resolve" => q.asks = "default"
    /\ x.op = "Write" => x.write \in Write

\* What a ResolveCredential has read so far is what its first statement's
\* state of the store says.
Reading(x) ==
    x.op = "Resolve" =>
       /\ x.cred \in Cred /\ x.at >= 1
       /\ x.at > 1 => x.from \in 1..Len(hist)
       /\ x.at \in 2..Reads =>
             LET s == hist[x.from] IN
             /\ Resolves(s, x.cred)
             /\ x.part.admin = IF x.at = 2 THEN s.admin ELSE IsAdmin(x.fromTeam, s.teams, s.admin)
             /\ x.at > 2 => x.part.teams = s.teams
             /\ x.at > 3 => x.part.limit = s.limit
             /\ x.at > 4 => x.part.org = s.org
       /\ x.at = Reads + 1 => x.part = AnswerOf(hist[x.from], x.cred, x.fromTeam)

Calls == \A r \in Req : CallAsks(call[r], req[r]) /\ Reading(call[r])

\* One page at a time is asked for, and none when the walk has ended.
OneWalks == \A r \in Req : call[r].op = "List" =>
               walk.pc # "ended" /\ \A o \in Req : o # r => call[o].op # "List"

\* A walk has listed, once, what stayed live since it began up to its position,
\* and nothing beyond.
Walked ==
    /\ \A k \in Cred : walk.times[k] \in {0, 1}
    /\ walk.pc = "idle" => walk.after = 0 /\ \A k \in Cred : walk.times[k] = 0
    /\ walk.pc = "open" =>
          /\ walk.from \in 1..Len(hist)
          /\ \A k \in Cred : walk.times[k] = 1 => k <= walk.after
          /\ \A k \in Cred : walk.times[k] = 0 /\ k <= walk.after =>
                \E i \in walk.from..Len(hist) : k \notin Listed(hist[i])
    /\ walk.pc = "ended" =>
          /\ walk.from \in 1..Len(hist) /\ walk.upto \in 1..Len(hist)
          /\ \A k \in Cred : walk.times[k] = 0 =>
                \E i \in walk.from..walk.upto : k \notin Listed(hist[i])

\* The inductive invariant.
Inv == TypeOK /\ hist # <<>> /\ Holds /\ Calls /\ OneWalks /\ Walked


-----------------------------------------------------------------------------
(* ORDER BY c.id LIMIT page_size.                                          *)

LEMMA CredsAreNumbers ==
    ASSUME NEW S \in SUBSET Cred
    PROVE  S \in SUBSET Nat /\ IsFiniteSet(S) /\ Cardinality(S) \in Nat
<1>1. S \in SUBSET Nat BY CredAssumption
<1>2. IsFiniteSet(S) BY CredAssumption, FS_Subset
<1>3. QED BY <1>1, <1>2, FS_CardinalityType

\* Any ids have a least and a greatest.
LEMMA HasLeast ==
    ASSUME NEW P \in SUBSET Cred, P # {}
    PROVE  \E k \in P : \A j \in P : k <= j
<1> DEFINE Under(k) == {j \in P : j < k}
           T == {Under(k) : k \in P}
           R == StrictSubsetOrdering(Cred)
           F == FiniteSubsetsOf(Cred)
<1>1. \A k \in P : Under(k) \in SUBSET Cred OBVIOUS
<1>2. T \subseteq F
  BY <1>1, CredsAreNumbers DEF FiniteSubsetsOf
<1>3. T # {} OBVIOUS
<1>4. IsWellFoundedOn(R, F) BY FS_StrictSubsetOrderingWellFounded
<1>5. \E x \in T : \A y \in T : <<y, x>> \notin R
  <2> HIDE DEF T, R, F
  <2> QED BY <1>2, <1>3, <1>4, WFMin
<1>6. PICK k \in P : \A j \in P : <<Under(j), Under(k)>> \notin R
  BY <1>5
<1>7. \A j \in P : ~(Under(j) \subseteq Under(k) /\ Under(j) # Under(k))
  BY <1>6, <1>1 DEF StrictSubsetOrdering
<1>8. ASSUME NEW j \in P, j < k PROVE FALSE
  <2>1. P \in SUBSET Nat BY CredsAreNumbers
  <2>2. Under(j) \subseteq Under(k)
    <3>1. j \in Nat /\ k \in Nat BY <2>1
    <3>2. \A i \in Nat : i < j => i < k BY <3>1, <1>8
    <3>3. QED BY <2>1, <3>2
  <2>3. j \in Under(k) /\ j \notin Under(j) BY <1>8, <2>1
  <2>4. QED BY <2>2, <2>3, <1>7
<1>9. P \in SUBSET Nat BY CredsAreNumbers
<1>10. QED BY <1>8, <1>9

LEMMA HasGreatest ==
    ASSUME NEW P \in SUBSET Cred, P # {}
    PROVE  \E k \in P : \A j \in P : j <= k
<1> DEFINE Over(k) == {j \in P : k < j}
           T == {Over(k) : k \in P}
           R == StrictSubsetOrdering(Cred)
           F == FiniteSubsetsOf(Cred)
<1>1. \A k \in P : Over(k) \in SUBSET Cred OBVIOUS
<1>2. T \subseteq F
  BY <1>1, CredsAreNumbers DEF FiniteSubsetsOf
<1>3. T # {} OBVIOUS
<1>4. IsWellFoundedOn(R, F) BY FS_StrictSubsetOrderingWellFounded
<1>5. \E x \in T : \A y \in T : <<y, x>> \notin R
  <2> HIDE DEF T, R, F
  <2> QED BY <1>2, <1>3, <1>4, WFMin
<1>6. PICK k \in P : \A j \in P : <<Over(j), Over(k)>> \notin R
  BY <1>5
<1>7. \A j \in P : ~(Over(j) \subseteq Over(k) /\ Over(j) # Over(k))
  BY <1>6, <1>1 DEF StrictSubsetOrdering
<1>8. ASSUME NEW j \in P, k < j PROVE FALSE
  <2>1. P \in SUBSET Nat BY CredsAreNumbers
  <2>2. Over(j) \subseteq Over(k)
    <3>1. j \in Nat /\ k \in Nat BY <2>1
    <3>2. \A i \in Nat : j < i => k < i BY <3>1, <1>8
    <3>3. QED BY <2>1, <3>2
  <2>3. j \in Over(k) /\ j \notin Over(j) BY <1>8, <2>1
  <2>4. QED BY <2>2, <2>3, <1>7
<1>9. P \in SUBSET Nat BY CredsAreNumbers
<1>10. QED BY <1>8, <1>9

\* The ids of S below k.
Lower(S, k) == {j \in S : j < k}

LEMMA LowerType ==
    ASSUME NEW S \in SUBSET Cred, NEW k
    PROVE  /\ Lower(S, k) \in SUBSET Cred /\ IsFiniteSet(Lower(S, k))
           /\ Cardinality(Lower(S, k)) \in Nat
<1>1. Lower(S, k) \in SUBSET Cred BY DEF Lower
<1>2. QED BY <1>1, CredsAreNumbers

LEMMA FirstOfIs ==
    ASSUME NEW S, NEW n
    PROVE  FirstOf(n, S) = {k \in S : Cardinality(Lower(S, k)) < n}
BY DEF FirstOf, Lower

\* A page has n ids at the most, ...
LEMMA FirstOfBound ==
    ASSUME NEW S \in SUBSET Cred, NEW n \in Nat
    PROVE  IsFiniteSet(FirstOf(n, S)) /\ Cardinality(FirstOf(n, S)) \in 0..n
<1> DEFINE p == FirstOf(n, S)
<1>1. p \in SUBSET S /\ p \in SUBSET Cred BY FirstOfIs
<1>2. p \in SUBSET Nat /\ IsFiniteSet(p) /\ Cardinality(p) \in Nat BY <1>1, CredsAreNumbers
<1>3. CASE p = {} BY <1>3, <1>2, FS_EmptySet
<1>4. CASE p # {}
  <2>1. PICK k \in p : \A j \in p : j <= k BY <1>1, <1>4, HasGreatest
  <2>2. p \ {k} \in SUBSET Lower(S, k) BY <1>1, <1>2, <2>1 DEF Lower
  <2>3. Cardinality(Lower(S, k)) \in Nat /\ Cardinality(Lower(S, k)) < n
    BY <2>1, LowerType, FirstOfIs
  <2>4. Cardinality(p \ {k}) = Cardinality(p) - 1 BY <1>2, FS_RemoveElement
  <2>5. Cardinality(p \ {k}) <= Cardinality(Lower(S, k)) BY <2>2, LowerType, FS_Subset
  <2>6. QED BY <2>3, <2>4, <2>5, <1>2
<1>5. QED BY <1>3, <1>4

\* ... with an id everything below it, ...
LEMMA FirstOfClosed ==
    ASSUME NEW S \in SUBSET Cred, NEW n \in Nat,
           NEW k \in FirstOf(n, S), NEW j \in S, j <= k
    PROVE  j \in FirstOf(n, S)
<1>1. k \in S /\ Cardinality(Lower(S, k)) < n BY FirstOfIs
<1>2. S \in SUBSET Nat BY CredsAreNumbers
<1>3. Lower(S, j) \in SUBSET Lower(S, k)
  <2>1. j \in Nat /\ k \in Nat BY <1>1, <1>2
  <2>2. \A i \in Nat : i < j => i < k BY <2>1
  <2>3. QED BY <1>2, <2>2 DEF Lower
<1>4. Cardinality(Lower(S, j)) <= Cardinality(Lower(S, k)) BY <1>3, LowerType, FS_Subset
<1>5. Cardinality(Lower(S, j)) \in Nat /\ Cardinality(Lower(S, k)) \in Nat BY LowerType
<1>6. Cardinality(Lower(S, j)) < n BY <1>1, <1>4, <1>5
<1>7. QED BY <1>6, FirstOfIs

\* ... and leaves nothing out when it is not full.
LEMMA FirstOfShort ==
    ASSUME NEW S \in SUBSET Cred, NEW n \in Nat, Cardinality(FirstOf(n, S)) # n
    PROVE  FirstOf(n, S) = S
<1> DEFINE left == S \ FirstOf(n, S)
<1>1. SUFFICES ASSUME left # {} PROVE FALSE BY FirstOfIs
<1>2. left \in SUBSET Cred /\ left \in SUBSET Nat /\ S \in SUBSET Nat BY CredsAreNumbers
<1>3. PICK k \in left : \A j \in left : k <= j BY <1>1, <1>2, HasLeast
<1>4. Lower(S, k) \in SUBSET FirstOf(n, S) BY <1>2, <1>3 DEF Lower
<1>5. Cardinality(Lower(S, k)) \in Nat /\ ~(Cardinality(Lower(S, k)) < n)
  BY LowerType, FirstOfIs
<1>6. IsFiniteSet(FirstOf(n, S)) /\ Cardinality(FirstOf(n, S)) \in 0..n BY FirstOfBound
<1>7. Cardinality(Lower(S, k)) <= Cardinality(FirstOf(n, S)) BY <1>4, <1>6, FS_Subset
<1>8. QED BY <1>5, <1>6, <1>7

-----------------------------------------------------------------------------
(* The store grows, the calls move.                                        *)

\* Committed states stay as they are.
Grows == /\ hist' \in Seq(Store) /\ hist' # <<>> /\ Len(hist') >= Len(hist)
         /\ \A i \in 1..Len(hist) : hist'[i] = hist[i]

LEMMA HistFacts ==
    ASSUME Inv
    PROVE  /\ hist \in Seq(Store) /\ Len(hist) \in Nat /\ Len(hist) >= 1
           /\ \A i \in 1..Len(hist) : hist[i] \in Store
           /\ Now \in Store
<1>1. hist \in Seq(Store) /\ hist # <<>> BY DEF Inv, TypeOK
<1>2. Len(hist) \in Nat /\ Len(hist) >= 1 BY <1>1
<1>3. \A i \in 1..Len(hist) : hist[i] \in Store BY <1>1
<1>4. Now \in Store BY <1>2, <1>3 DEF Now
<1>5. QED BY <1>1, <1>2, <1>3, <1>4

LEMMA HistStays ==
    ASSUME Inv, hist' = hist
    PROVE  Grows
BY HistFacts DEF Inv, Grows

LEMMA CommitGrows ==
    ASSUME Inv, NEW s \in Store, Commit(s)
    PROVE  Grows
<1>1. hist \in Seq(Store) /\ Len(hist) \in Nat BY HistFacts
<1>2. CASE hist' = hist BY <1>2, HistStays
<1>3. CASE hist' = Append(hist, s)
  <2>1. hist' \in Seq(Store) /\ Len(hist') = Len(hist) + 1 BY <1>1, <1>3
  <2>2. \A i \in 1..Len(hist) : hist'[i] = hist[i] BY <1>1, <1>3
  <2>3. hist' # <<>> BY <1>1, <2>1
  <2>4. QED BY <1>1, <2>1, <2>2, <2>3 DEF Grows
<1>4. QED BY <1>2, <1>3 DEF Commit

LEMMA ReadingStays ==
    ASSUME Inv, Grows, NEW x \in CallRec, Reading(x)
    PROVE  Reading(x)'
<1>1. Len(hist) \in Nat /\ Len(hist') \in Nat /\ Len(hist') >= Len(hist)
  BY HistFacts DEF Grows
<1>2. x.from \in 1..Len(hist) => x.from \in 1..Len(hist') /\ hist'[x.from] = hist[x.from]
  BY <1>1 DEF Grows
<1>3. x.at \in Nat BY DEF CallRec, Reads
<1>4. QED BY <1>1, <1>2, <1>3 DEF Reading, Reads

LEMMA WalkedStays ==
    ASSUME Inv, Grows, walk' = walk
    PROVE  Walked'
<1>1. Len(hist) \in Nat /\ Len(hist') \in Nat /\ Len(hist') >= Len(hist)
  BY HistFacts DEF Grows
<1>2. walk.from \in Nat /\ walk.upto \in Nat BY DEF Inv, TypeOK, WalkRec
<1>3. ASSUME walk.pc = "open", NEW k \in Cred, walk.times[k] = 0, k <= walk.after
      PROVE  \E i \in walk.from..Len(hist') : k \notin Listed(hist'[i])
  <2>1. PICK i \in walk.from..Len(hist) : k \notin Listed(hist[i])
    BY <1>3 DEF Inv, Walked
  <2>2. walk.from \in 1..Len(hist) BY <1>3 DEF Inv, Walked
  <2>3. i \in 1..Len(hist) /\ i \in walk.from..Len(hist') BY <1>1, <1>2, <2>1, <2>2
  <2>4. hist'[i] = hist[i] BY <2>3 DEF Grows
  <2>5. QED BY <2>1, <2>3, <2>4
<1>4. ASSUME walk.pc = "ended", NEW k \in Cred, walk.times[k] = 0
      PROVE  \E i \in walk.from..walk.upto : k \notin Listed(hist'[i])
  <2>1. PICK i \in walk.from..walk.upto : k \notin Listed(hist[i])
    BY <1>4 DEF Inv, Walked
  <2>2. walk.from \in 1..Len(hist) /\ walk.upto \in 1..Len(hist) BY <1>4 DEF Inv, Walked
  <2>3. i \in 1..Len(hist) BY <1>1, <1>2, <2>1, <2>2
  <2>4. hist'[i] = hist[i] BY <2>3 DEF Grows
  <2>5. QED BY <2>1, <2>4
<1>5. /\ walk.pc \in {"open", "ended"} => walk.from \in 1..Len(hist')
      /\ walk.pc = "ended" => walk.upto \in 1..Len(hist')
  BY <1>1, <1>2 DEF Inv, Walked
<1>6. \A k \in Cred : walk.times[k] \in {0, 1} BY DEF Inv, Walked
<1>7. walk.pc = "idle" => walk.after = 0 /\ \A k \in Cred : walk.times[k] = 0
  BY DEF Inv, Walked
<1>8. walk.pc = "open" => \A k \in Cred : walk.times[k] = 1 => k <= walk.after
  BY DEF Inv, Walked
<1>9. QED BY <1>3, <1>4, <1>5, <1>6, <1>7, <1>8 DEF Walked


\* One call moves, and its request with it.
LEMMA CallMoves ==
    ASSUME Inv, Grows, ConnTypeOK', Holds', NEW r \in Req, NEW x \in CallRec, NEW q \in ReqRec,
           call' = [call EXCEPT ![r] = x], req' = [req EXCEPT ![r] = q],
           CallAsks(x, q), Reading(x)', walk' \in WalkRec, Walked',
           x.op = "List" => walk'.pc # "ended" /\ \A o \in Req : o # r => call[o].op # "List",
           walk' = walk \/ (call[r].op = "List" /\ x.op # "List")
    PROVE  Inv'
<1>1. /\ call' \in [Req -> CallRec] /\ call'[r] = x
      /\ \A o \in Req : o # r => call'[o] = call[o]
  BY DEF Inv, TypeOK
<1>2. req'[r] = q /\ \A o \in Req : o # r => req'[o] = req[o]
  BY DEF Inv, TypeOK, ConnTypeOK
<1>3. TypeOK' BY <1>1 DEF TypeOK, Grows
<1>4. Calls'
  <2>1. SUFFICES ASSUME NEW o \in Req PROVE CallAsks(call'[o], req'[o]) /\ Reading(call[o])'
    BY DEF Calls, CallAsks
  <2>2. CASE o = r BY <2>2, <1>1, <1>2
  <2>3. CASE o # r
    <3>1. CallAsks(call'[o], req'[o]) BY <2>3, <1>1, <1>2 DEF Inv, Calls
    <3>2. PICK c \in CallRec : c = call[o] BY DEF Inv, TypeOK
    <3>3. Reading(c) BY <3>2 DEF Inv, Calls
    <3>4. Reading(c)' BY <3>3, ReadingStays
    <3>5. call'[o] = c BY <2>3, <3>2, <1>1
    <3>6. QED BY <3>1, <3>4, <3>5
  <2>4. QED BY <2>2, <2>3
<1>5. OneWalks'
  <2>1. SUFFICES ASSUME NEW o \in Req, call'[o].op = "List"
                 PROVE  walk'.pc # "ended" /\ \A p \in Req : p # o => call'[p].op # "List"
    BY DEF OneWalks
  <2>2. CASE o = r BY <2>1, <2>2, <1>1
  <2>3. CASE o # r
    <3>1. call[o].op = "List" /\ x.op # "List" BY <2>1, <2>3, <1>1
    <3>2. walk.pc # "ended" /\ \A p \in Req : p # o => call[p].op # "List"
      BY <3>1 DEF Inv, OneWalks
    <3>3. walk' = walk BY <3>2, <2>3
    <3>4. QED BY <3>1, <3>2, <3>3, <1>1
  <2>4. QED BY <2>2, <2>3
<1>6. QED BY <1>3, <1>4, <1>5 DEF Inv, Grows

\* No call moves.
LEMMA CallsStay ==
    ASSUME Inv, Grows, UNCHANGED <<connVars, call, walk>>
    PROVE  Inv'
<1>1. conn' = conn /\ req' = req /\ call' = call /\ walk' = walk BY DEF connVars
<1>2. TypeOK' BY <1>1 DEF Inv, TypeOK, ConnTypeOK, Grows
<1>3. Holds' BY <1>1 DEF Inv, Holds, SlotHolds, ConnsKnown, Held, InTx
<1>4. Calls'
  <2>1. SUFFICES ASSUME NEW o \in Req PROVE CallAsks(call[o], req[o])' /\ Reading(call[o])'
    BY DEF Calls
  <2>2. CallAsks(call[o], req[o])' BY <1>1 DEF Inv, Calls, CallAsks
  <2>3. PICK c \in CallRec : c = call[o] BY DEF Inv, TypeOK
  <2>4. Reading(c) BY <2>3 DEF Inv, Calls
  <2>5. Reading(c)' BY <2>4, ReadingStays
  <2>6. QED BY <2>2, <2>3, <2>5, <1>1
<1>5. OneWalks' BY <1>1 DEF Inv, OneWalks
<1>6. Walked' BY <1>1, WalkedStays
<1>7. QED BY <1>2, <1>3, <1>4, <1>5, <1>6 DEF Inv, Grows

LEMMA NoCallIs ==
    /\ NoCall \in CallRec /\ NoCall.op = "none" /\ NoCall.at = 0 /\ NoCall.part = Blank
    /\ NoCall.write = None /\ NoCall.cred = None
<1>1. Blank \in [admin : BOOLEAN, teams : SUBSET {"administrators", "other"},
                 limit : {None, "set"}, org : {"unset", "on", "off", "nobody"},
                 over : {None, "on", "off"}]
  BY DEF Blank
<1>2. 0 \in 0..(Reads + 1) BY DEF Reads
<1>3. QED BY <1>1, <1>2 DEF NoCall, CallRec

LEMMA NotReading ==
    ASSUME NEW x, x.op # "Resolve"
    PROVE  Reading(x)
BY DEF Reading

\* A call ends, with whatever of its work was done.
LEMMA EndKeeps ==
    ASSUME Inv, Grows, ConnTypeOK', Holds', NEW r \in Req, NEW out \in Outs,
           req' = [req EXCEPT ![r] = Rest(out)], End(r), walk' \in WalkRec, Walked',
           walk' = walk \/ call[r].op = "List"
    PROVE  Inv'
<1>1. PICK q \in ReqRec : q = Rest(out) BY RestType
<1>2. q.pc = "idle" BY <1>1, RestType
<1>3. PICK x \in CallRec : x = NoCall BY NoCallIs
<1>4. x.op = "none" BY <1>3, NoCallIs
<1>5. CallAsks(x, q) BY <1>2, <1>4 DEF CallAsks
<1>6. Reading(x)' BY <1>4 DEF Reading
<1>7. call' = [call EXCEPT ![r] = x] BY <1>3 DEF End
<1>8. req' = [req EXCEPT ![r] = q] BY <1>1
<1>9. x.op # "List" BY <1>4
<1>10. QED BY <1>4, <1>5, <1>6, <1>7, <1>8, <1>9, CallMoves

\* The ends of ConnPool.
LEMMA EndsRest ==
    ASSUME Inv, NEW r \in Req,
           \/ BeginFails(r) \/ AcquireFails(r)
           \/ Finish(r, "OK") \/ Finish(r, "FAILED") \/ Cut(r)
    PROVE  /\ ConnTypeOK' /\ Holds'
           /\ \E out \in Outs : req' = [req EXCEPT ![r] = Rest(out)]
<1>1. ConnTypeOK /\ Holds BY DEF Inv, TypeOK
<1>2. ConnTypeOK' /\ Holds' BY <1>1, CallHolds DEF Reply, HangUp
<1>3. CASE req[r].pc \in HoldPc
  <2>1. \/ BeginFails(r) \/ \E out \in {"OK", "FAILED"} : Finish(r, out)
        \/ req[r].pc \in HoldPc /\ Cut(r)
    BY <1>3 DEF AcquireFails, HoldPc
  <2>2. PICK out \in {"OK", "FAILED", "DROPPED", "UNAVAILABLE"} :
                req' = [req EXCEPT ![r] = Rest(out)]
    BY <1>1, <2>1, ReleasesFresh
  <2>3. out \in Outs BY DEF Outs
  <2>4. QED BY <1>2, <2>2, <2>3
<1>4. CASE req[r].pc \notin HoldPc
  <2>1. ~BeginFails(r) /\ ~Finish(r, "OK") /\ ~Finish(r, "FAILED")
    BY <1>4 DEF BeginFails, Finish, HoldPc
  <2>2. \/ req' = [req EXCEPT ![r] = Rest("DROPPED")]
        \/ req' = [req EXCEPT ![r] = Rest("UNAVAILABLE")]
    BY <2>1, <1>4 DEF Cut, AcquireFails
  <2>3. "DROPPED" \in Outs /\ "UNAVAILABLE" \in Outs BY DEF Outs
  <2>4. QED BY <1>2, <2>2, <2>3
<1>5. QED BY <1>2, <1>3, <1>4

\* A call that ends or fails without a write.
LEMMA EndsKeep ==
    ASSUME Inv, NEW r \in Req, UNCHANGED <<hist, walk>>, End(r),
           \/ BeginFails(r) \/ AcquireFails(r)
           \/ Finish(r, "OK") \/ Finish(r, "FAILED") \/ Cut(r)
    PROVE  Inv'
<1>1. Grows BY HistStays
<1>2. Walked' BY <1>1, WalkedStays
<1>3. walk' \in WalkRec /\ walk' = walk BY DEF Inv, TypeOK
<1>4. QED BY <1>1, <1>2, <1>3, EndsRest, EndKeeps

\* A call starts: it waits for a connection.
LEMMA StartKeeps ==
    ASSUME Inv, NEW r \in Req, NEW asks \in Asks, NEW x \in CallRec,
           Arrive(r, "iam-caller", asks, None), call' = [call EXCEPT ![r] = x],
           UNCHANGED <<hist, walk>>, x.op # "none",
           x.op = "Resolve" => asks = "default" /\ x.cred \in Cred /\ x.at = 1,
           x.op = "Write" => x.write \in Write,
           x.op = "List" => walk.pc # "ended" /\ \A o \in Req : call[o].op # "List"
    PROVE  Inv'
<1>1. Grows BY HistStays
<1>2. Walked' BY <1>1, WalkedStays
<1>3. walk' \in WalkRec /\ walk' = walk BY DEF Inv, TypeOK
<1>4. ConnTypeOK' /\ Holds'
  <2>1. "iam-caller" \in Caller BY DEF Caller
  <2>2. ConnTypeOK /\ Holds BY DEF Inv, TypeOK
  <2>3. QED BY <2>1, <2>2, CallHolds
<1> DEFINE q == [Rest("none") EXCEPT !.pc = "acquiring", !.asks = asks, !.left = None]
<1>5. Bound(None) # 0 BY TimeAssumption DEF Bound
<1>6. req' = [req EXCEPT ![r] = q] BY <1>5 DEF Arrive, Admitted
<1>7. q \in ReqRec /\ q.pc = "acquiring" /\ q.asks = asks
  BY DEF Rest, ReqRec, HoldPc, Outs
<1> HIDE DEF q
<1>8. CallAsks(x, q) BY <1>7 DEF CallAsks
<1>9. Reading(x)' BY DEF Reading, Reads
<1>10. x.op = "List" => walk'.pc # "ended" /\ \A o \in Req : o # r => call[o].op # "List"
  BY <1>3
<1>11. QED BY <1>1, <1>2, <1>3, <1>4, <1>6, <1>7, <1>8, <1>9, <1>10, CallMoves

\* A call comes nearer its work.
LEMMA ConnectKeeps ==
    ASSUME Inv, NEW r \in Req, Connect(r)
    PROVE  Inv'
<1>1. hist' = hist /\ call' = call /\ walk' = walk BY DEF Connect
<1>2. Grows BY <1>1, HistStays
<1>3. Walked' BY <1>1, <1>2, WalkedStays
<1>4. walk' \in WalkRec BY <1>1 DEF Inv, TypeOK
<1>5. ConnTypeOK /\ Holds BY DEF Inv, TypeOK
<1>6. ConnTypeOK' /\ Holds' BY <1>5, CallHolds DEF Connect, Reply
<1>7. /\ req'[r] \in ReqRec /\ req' = [req EXCEPT ![r] = req'[r]]
      /\ req'[r].asks = req[r].asks
      /\ req[r].pc # "idle" /\ req'[r].pc # "idle"
  <2>1. req \in [Req -> ReqRec] /\ req' \in [Req -> ReqRec] BY <1>5, <1>6 DEF ConnTypeOK
  <2>2. req[r].asks \in Asks BY <2>1 DEF ReqRec
  <2>3. ASSUME NEW c \in Conn, Acquire(r, c)
        PROVE  /\ req' = [req EXCEPT ![r] = req'[r]] /\ req'[r].asks = req[r].asks
               /\ req[r].pc # "idle" /\ req'[r].pc # "idle"
    BY <2>1, <2>2, <2>3 DEF Acquire, ReqRec, Asks
  <2>4. CASE Set(r) BY <2>1, <2>4 DEF Set, ReqRec
  <2>5. CASE Begin(r) BY <2>1, <2>5 DEF Begin, ReqRec
  <2>6. QED BY <2>1, <2>3, <2>4, <2>5 DEF Connect
<1>8. PICK q \in ReqRec : q = req'[r] BY <1>7
<1>9. PICK x \in CallRec : x = call[r] BY DEF Inv, TypeOK
<1>10. call' = [call EXCEPT ![r] = x] BY <1>1, <1>9 DEF Inv, TypeOK
<1>11. req' = [req EXCEPT ![r] = q] BY <1>7, <1>8
<1>12. CallAsks(x, q) BY <1>7, <1>8, <1>9 DEF Inv, Calls, CallAsks
<1>13. Reading(x)'
  <2>1. Reading(x) BY <1>9 DEF Inv, Calls
  <2>2. QED BY <2>1, <1>2, ReadingStays
<1>14. x.op = "List" => walk'.pc # "ended" /\ \A o \in Req : o # r => call[o].op # "List"
  BY <1>1, <1>9 DEF Inv, OneWalks
<1>15. QED BY <1>1, <1>2, <1>3, <1>4, <1>6, <1>10, <1>11, <1>12, <1>13, <1>14, CallMoves


-----------------------------------------------------------------------------
(* ResolveCredential.                                                      *)

PartRec == [admin : BOOLEAN, teams : SUBSET {"administrators", "other"},
            limit : {None, "set"}, org : {"unset", "on", "off", "nobody"},
            over : {None, "on", "off"}]

LEMMA StartResolveKeeps ==
    ASSUME Inv, NEW r \in Req, NEW k \in Cred, NEW fromTeam \in BOOLEAN,
           StartResolve(r, k, fromTeam)
    PROVE  Inv'
<1> DEFINE x == [NoCall EXCEPT !.op = "Resolve", !.cred = k, !.fromTeam = fromTeam, !.at = 1]
<1>1. "Resolve" \in {"none", "Resolve", "List", "Write"} /\ 1 \in 0..(Reads + 1) BY DEF Reads
<1>2. x \in CallRec BY <1>1, NoCallIs DEF CallRec
<1>3. x.op = "Resolve" /\ x.cred = k /\ x.at = 1 BY <1>2 DEF NoCall
<1>4. AsksOf("Resolve") = "default" /\ "default" \in Asks BY DEF AsksOf, Asks
<1>5. Arrive(r, "iam-caller", "default", None) BY <1>4 DEF StartResolve
<1>6. call' = [call EXCEPT ![r] = x] /\ UNCHANGED <<hist, walk>> BY DEF StartResolve
<1> HIDE DEF x
<1>7. QED BY <1>2, <1>3, <1>4, <1>5, <1>6, StartKeeps

\* Writing a call's progress.
LEMMA Progress ==
    ASSUME NEW c \in CallRec, NEW at \in 0..(Reads + 1), NEW from \in Nat, NEW part \in PartRec
    PROVE  LET y == [c EXCEPT !.at = at, !.from = from, !.part = part]
           IN  /\ y \in CallRec /\ y.op = c.op /\ y.write = c.write /\ y.cred = c.cred
               /\ y.fromTeam = c.fromTeam /\ y.at = at /\ y.from = from /\ y.part = part
BY DEF CallRec, PartRec

LEMMA WholeAnswer ==
    ASSUME NEW p \in PartRec, NEW s \in Store, NEW k \in Cred, NEW fromTeam \in BOOLEAN,
           Resolves(s, k), p.admin = IsAdmin(fromTeam, s.teams, s.admin), p.teams = s.teams,
           p.limit = s.limit, p.org = s.org, p.over = s.over
    PROVE  p = AnswerOf(s, k, fromTeam)
<1>1. AnswerOf(s, k, fromTeam) =
         [admin |-> p.admin, teams |-> p.teams, limit |-> p.limit, org |-> p.org, over |-> p.over]
  BY DEF AnswerOf
<1>2. p = [admin |-> p.admin, teams |-> p.teams, limit |-> p.limit, org |-> p.org, over |-> p.over]
  BY DEF PartRec
<1>3. QED BY <1>1, <1>2

LEMMA NobodyType == Nobody \in PartRec
BY DEF Nobody, Blank, PartRec

LEMMA IsAdminType ==
    ASSUME NEW fromTeam \in BOOLEAN, NEW teams, NEW column \in BOOLEAN
    PROVE  IsAdmin(fromTeam, teams, column) \in BOOLEAN
<1>1. CASE fromTeam
  <2>1. IsAdmin(fromTeam, teams, column) = ("administrators" \in teams) BY <1>1 DEF IsAdmin
  <2>2. ("administrators" \in teams) \in BOOLEAN OBVIOUS
  <2>3. QED BY <2>1, <2>2
<1>2. CASE ~fromTeam
  <2>1. IsAdmin(fromTeam, teams, column) = column BY <1>2 DEF IsAdmin
  <2>2. QED BY <2>1
<1>3. QED BY <1>1, <1>2


\* What each statement adds.
LEMMA PartAfterIs ==
    ASSUME NEW c \in CallRec, NEW s \in Store, c.at \in 1..Reads
    PROVE  LET y == PartAfter(c, s)
               p == c.part
           IN  /\ y \in PartRec
               /\ c.at = 1 => y.admin = s.admin
               /\ c.at = 2 => y.admin = IsAdmin(c.fromTeam, s.teams, p.admin) /\ y.teams = s.teams
               /\ c.at = 3 => y.admin = p.admin /\ y.teams = p.teams /\ y.limit = s.limit
               /\ c.at = 4 => /\ y.admin = p.admin /\ y.teams = p.teams
                              /\ y.limit = p.limit /\ y.org = s.org
               /\ c.at = 5 => /\ y.admin = p.admin /\ y.teams = p.teams
                              /\ y.limit = p.limit /\ y.org = p.org /\ y.over = s.over
<1>1. c.part \in PartRec /\ c.fromTeam \in BOOLEAN BY DEF CallRec, PartRec
<1>2. s.admin \in BOOLEAN /\ c.part.admin \in BOOLEAN BY <1>1 DEF Store, PartRec
<1>3. PICK flag \in BOOLEAN : flag = IsAdmin(c.fromTeam, s.teams, c.part.admin)
  BY <1>1, <1>2, IsAdminType
<1>4. CASE c.at = 1
  <2>1. PartAfter(c, s) = [c.part EXCEPT !.admin = s.admin] BY <1>4 DEF PartAfter
  <2>2. QED BY <2>1, <1>1, <1>2, <1>4 DEF PartRec, Store
<1>5. CASE c.at = 2
  <2>1. PartAfter(c, s) = [c.part EXCEPT !.teams = s.teams, !.admin = flag]
    BY <1>3, <1>5 DEF PartAfter
  <2>2. PICK p \in PartRec, ts \in SUBSET {"administrators", "other"} : p = c.part /\ ts = s.teams
    BY <1>1 DEF Store
  <2>3. PICK y : y = [p EXCEPT !.teams = ts, !.admin = flag] OBVIOUS
  <2>4. y \in PartRec /\ y.admin = flag /\ y.teams = ts BY <2>3 DEF PartRec
  <2>5. y = PartAfter(c, s) BY <2>1, <2>2, <2>3
  <2>6. PartAfter(c, s).admin = IsAdmin(c.fromTeam, s.teams, c.part.admin) BY <2>4, <2>5, <1>3
  <2>7. PartAfter(c, s) \in PartRec /\ PartAfter(c, s).teams = s.teams BY <2>2, <2>4, <2>5
  <2>8. c.at # 1 /\ c.at # 3 /\ c.at # 4 /\ c.at # 5 BY <1>5
  <2>9. QED BY <2>6, <2>7, <2>8, Zenon
<1>6. CASE c.at = 3
  <2>1. PartAfter(c, s) = [c.part EXCEPT !.limit = s.limit] BY <1>6 DEF PartAfter
  <2>2. QED BY <2>1, <1>1, <1>6, <1>2 DEF PartRec, Store
<1>7. CASE c.at = 4
  <2>1. PartAfter(c, s) = [c.part EXCEPT !.org = s.org] BY <1>7 DEF PartAfter
  <2>2. QED BY <2>1, <1>1, <1>7, <1>2 DEF PartRec, Store
<1>8. CASE c.at = 5
  <2>1. PartAfter(c, s) = [c.part EXCEPT !.over = s.over] BY <1>8 DEF PartAfter
  <2>2. QED BY <2>1, <1>1, <1>8, <1>2 DEF PartRec, Store
<1>9. QED BY <1>4, <1>5, <1>6, <1>7, <1>8 DEF Reads

\* A statement reads the state the first one read: on its connection the
\* transaction is the one it asked for, whoever was dropped on it before.
LEMMA ReadNextKeeps ==
    ASSUME Inv, NEW r \in Req, ReadNext(r)
    PROVE  Inv'
<1>1. hist' = hist /\ walk' = walk /\ conn' = conn /\ req' = req BY DEF ReadNext, connVars
<1>2. PICK c \in CallRec : c = call[r] BY DEF Inv, TypeOK
<1>3. /\ req[r].pc = "working" /\ c.op = "Resolve" /\ c.at \in 1..Reads
      /\ CallAsks(c, req[r]) /\ Reading(c)
  BY <1>2 DEF ReadNext, Working, Inv, Calls
<1>4. PICK first : first = IF c.at = 1 THEN Len(hist) ELSE c.from OBVIOUS
<1>5. first \in 1..Len(hist) /\ first \in Nat
  <2>1. Len(hist) \in Nat /\ Len(hist) >= 1 BY HistFacts
  <2>2. c.at # 1 => c.from \in 1..Len(hist) BY <1>3 DEF Reading, Reads
  <2>3. QED BY <1>4, <2>1, <2>2
<1>6. PICK s \in Store : s = hist[first] BY <1>5, HistFacts
<1>7. View(r, first) = s
  <2>1. conn[req[r].on].tx = "default"
    <3>1. req[r].asks = "default" BY <1>3 DEF CallAsks
    <3>2. RunsAsAsked BY WorkRunsAsAsked DEF Inv
    <3>3. QED BY <1>3, <3>1, <3>2 DEF RunsAsAsked
  <2>2. QED BY <2>1, <1>6 DEF View
<1>8. /\ c.part \in PartRec /\ c.fromTeam \in BOOLEAN /\ s.admin \in BOOLEAN
      /\ c.cred \in Cred
  BY <1>3 DEF CallRec, PartRec, Store, Reading
<1> DEFINE pt == PartAfter(c, s)
           nobody == c.at = 1 /\ ~Resolves(s, c.cred)
           gone == [c EXCEPT !.at = Reads + 1, !.from = first, !.part = Nobody]
           more == [c EXCEPT !.at = c.at + 1, !.from = first, !.part = pt]
<1>9. call' = [call EXCEPT ![r] = IF nobody THEN gone ELSE more]
  BY <1>2, <1>4, <1>7 DEF ReadNext
<1>10. ASSUME NEW y \in CallRec, call' = [call EXCEPT ![r] = y], y.op = "Resolve", Reading(y)
       PROVE  Inv'
  <2>1. Grows BY <1>1, HistStays
  <2>2. Walked' BY <1>1, <2>1, WalkedStays
  <2>3. walk' \in WalkRec BY <1>1 DEF Inv, TypeOK
  <2>4. ConnTypeOK' /\ Holds'
    BY <1>1 DEF Inv, TypeOK, ConnTypeOK, Holds, SlotHolds, ConnsKnown, Held, InTx
  <2>5. PICK q \in ReqRec : q = req[r] BY DEF Inv, TypeOK, ConnTypeOK
  <2>6. req' = [req EXCEPT ![r] = q] BY <1>1, <2>5 DEF Inv, TypeOK, ConnTypeOK
  <2>7. CallAsks(y, q) BY <1>3, <1>10, <2>5 DEF CallAsks
  <2>8. Reading(y)' BY <1>10, <2>1, ReadingStays
  <2>9. y.op # "List" BY <1>10
  <2>10. QED BY <1>1, <1>10, <2>1, <2>2, <2>3, <2>4, <2>6, <2>7, <2>8, <2>9, CallMoves
<1>11. CASE nobody
  <2>1. Reads + 1 \in 0..(Reads + 1) BY DEF Reads
  <2>2. PICK y \in CallRec : y = gone BY <2>1, <1>5, NobodyType, Progress
  <2>3. /\ y.op = c.op /\ y.cred = c.cred /\ y.fromTeam = c.fromTeam /\ y.at = 6
        /\ y.from = first /\ y.part = Nobody
    BY <2>1, <2>2, <1>5 DEF Reads, CallRec
  <2>4. AnswerOf(s, c.cred, c.fromTeam) = Nobody BY <1>11 DEF AnswerOf
  <2>5. Reading(y) BY <2>3, <2>4, <1>3, <1>5, <1>6, <1>8 DEF Reading, Reads
  <2>6. call' = [call EXCEPT ![r] = y] BY <2>2, <1>9, <1>11
  <2>7. QED BY <2>3, <2>5, <2>6, <1>3, <1>10
<1>12. CASE ~nobody
  <2>1. Resolves(s, c.cred)
    BY <1>3, <1>4, <1>6, <1>12 DEF Reading, Reads
  <2>2. PICK p \in PartRec : p = pt BY <1>3, <1>8, PartAfterIs
  <2>3. c.at \in Nat /\ c.at + 1 \in 0..(Reads + 1) BY <1>3 DEF Reads
  <2>4. PICK y \in CallRec : y = more BY <2>2, <2>3, <1>5, Progress
  <2>5. /\ y.op = c.op /\ y.cred = c.cred /\ y.fromTeam = c.fromTeam /\ y.at = c.at + 1
        /\ y.from = first /\ y.part = p
    BY <2>2, <2>3, <2>4, <1>5 DEF CallRec
  <2>6. Reading(y)
    <3>0. /\ c.at \in Nat /\ c.at >= 1 /\ c.at <= 5 /\ hist[first] = s
          /\ c.at > 1 => c.from = first
      BY <1>3, <1>4, <1>6 DEF Reads
    <3>1. /\ c.at > 1 => c.part.admin = IF c.at = 2 THEN s.admin
                                        ELSE IsAdmin(c.fromTeam, s.teams, s.admin)
          /\ c.at > 2 => c.part.teams = s.teams
          /\ c.at > 3 => c.part.limit = s.limit
          /\ c.at > 4 => c.part.org = s.org
      BY <1>3, <3>0 DEF Reading, Reads
    <3>2. p.admin = IF c.at = 1 THEN s.admin ELSE IsAdmin(c.fromTeam, s.teams, s.admin)
      <4>1. CASE c.at = 1 BY <4>1, <2>2, <1>3, PartAfterIs
      <4>2. CASE c.at = 2
        <5>1. p.admin = IsAdmin(c.fromTeam, s.teams, c.part.admin)
          BY <4>2, <2>2, <1>3, PartAfterIs
        <5>2. c.part.admin = s.admin BY <4>2, <3>1
        <5>3. QED BY <4>2, <5>1, <5>2
      <4>3. CASE c.at = 3
        <5>1. p.admin = c.part.admin BY <4>3, <2>2, <1>3, PartAfterIs
        <5>2. QED BY <4>3, <5>1, <3>1
      <4>4. CASE c.at = 4
        <5>1. p.admin = c.part.admin BY <4>4, <2>2, <1>3, PartAfterIs
        <5>2. QED BY <4>4, <5>1, <3>1
      <4>5. CASE c.at = 5
        <5>1. p.admin = c.part.admin BY <4>5, <2>2, <1>3, PartAfterIs
        <5>2. QED BY <4>5, <5>1, <3>1
      <4>6. QED BY <4>1, <4>2, <4>3, <4>4, <4>5, <3>0
    <3>3. c.at > 1 => p.teams = s.teams BY <3>0, <3>1, <2>2, <1>3, PartAfterIs
    <3>4. c.at > 2 => p.limit = s.limit BY <3>0, <3>1, <2>2, <1>3, PartAfterIs
    <3>5. c.at > 3 => p.org = s.org BY <3>0, <3>1, <2>2, <1>3, PartAfterIs
    <3>6. c.at = 5 => p.over = s.over BY <3>0, <3>1, <2>2, <1>3, PartAfterIs
    <3>7. c.at = 5 => p = AnswerOf(s, c.cred, c.fromTeam)
      <4>1. ASSUME c.at = 5 PROVE p = AnswerOf(s, c.cred, c.fromTeam)
        <5>1. p.admin = IsAdmin(c.fromTeam, s.teams, s.admin) BY <4>1, <3>2
        <5>2. p.teams = s.teams /\ p.limit = s.limit /\ p.org = s.org /\ p.over = s.over
          BY <4>1, <3>3, <3>4, <3>5, <3>6
        <5>3. QED BY <5>1, <5>2, <2>1, <1>8, WholeAnswer
      <4>2. QED BY <4>1
    <3>8. y.at \in Nat /\ y.at >= 2 /\ y.at <= 6 BY <2>5, <3>0
    <3>9. y.part.admin = IF y.at = 2 THEN s.admin ELSE IsAdmin(y.fromTeam, s.teams, s.admin)
      BY <2>5, <3>2, <3>0
    <3>10. /\ y.at > 2 => y.part.teams = s.teams
           /\ y.at > 3 => y.part.limit = s.limit
           /\ y.at > 4 => y.part.org = s.org
           /\ y.at = 6 => y.part = AnswerOf(s, y.cred, y.fromTeam)
      BY <2>5, <3>0, <3>3, <3>4, <3>5, <3>7
    <3>11. /\ y.cred \in Cred /\ Resolves(s, y.cred) /\ y.from \in 1..Len(hist)
           /\ hist[y.from] = s
      BY <2>1, <2>5, <1>5, <1>8, <3>0
    <3>12. QED BY <3>8, <3>9, <3>10, <3>11 DEF Reading, Reads
  <2>7. call' = [call EXCEPT ![r] = y] BY <2>4, <1>9, <1>12
  <2>8. QED BY <2>5, <2>6, <2>7, <1>3, <1>10
<1>13. QED BY <1>11, <1>12


-----------------------------------------------------------------------------
(* ListCredentials.                                                        *)

LEMMA StartListKeeps ==
    ASSUME Inv, NEW r \in Req, StartList(r)
    PROVE  Inv'
<1> DEFINE x == [NoCall EXCEPT !.op = "List"]
<1>1. "List" \in {"none", "Resolve", "List", "Write"} OBVIOUS
<1>2. x \in CallRec BY <1>1, NoCallIs DEF CallRec
<1>3. x.op = "List" BY <1>2 DEF NoCall
<1>4. AsksOf("List") = "plain" /\ "plain" \in Asks BY DEF AsksOf, Asks
<1>5. Arrive(r, "iam-caller", "plain", None) BY <1>4 DEF StartList
<1>6. /\ call' = [call EXCEPT ![r] = x] /\ UNCHANGED <<hist, walk>>
      /\ walk.pc # "ended" /\ \A o \in Req : call[o].op # "List"
  BY DEF StartList
<1> HIDE DEF x
<1>7. QED BY <1>2, <1>3, <1>4, <1>5, <1>6, StartKeeps

\* A page is served: full, the walk goes on from its last id; not full, it has
\* ended.  Whatever stayed live and was not listed lies beyond.
LEMMA ListPageKeeps ==
    ASSUME Inv, NEW r \in Req, ListPage(r)
    PROVE  Inv'
<1>1. /\ req[r].pc = "working" /\ call[r].op = "List" /\ hist' = hist
      /\ Finish(r, "OK") /\ End(r)
  BY DEF ListPage, Working
<1>2. PICK n \in Nat : n = Len(hist) /\ n >= 1 BY HistFacts
<1>3. PICK w \in WalkRec : w = walk BY DEF Inv, TypeOK
<1>4. /\ w.after \in Cred \cup {0} /\ w.after \in Nat /\ w.from \in Nat
      /\ w.times \in [Cred -> Nat] /\ w.pc \in {"idle", "open"}
      /\ Cred \in SUBSET Nat /\ 0 \notin Cred
  <2>1. w.pc # "ended" BY <1>1, <1>3 DEF Inv, OneWalks
  <2>2. /\ w.after \in Cred \cup {0} /\ w.from \in Nat /\ w.times \in [Cred -> Nat]
        /\ w.pc \in {"idle", "open", "ended"}
    BY DEF WalkRec
  <2>3. Cred \in SUBSET Nat /\ 0 \notin Cred BY CredAssumption
  <2>4. w.after \in Nat
    <3>1. w.after \in Cred \/ w.after = 0 BY <2>2
    <3>2. CASE w.after \in Cred BY <3>2, <2>3
    <3>3. CASE w.after = 0 BY <3>3
    <3>4. QED BY <3>1, <3>2, <3>3
  <2>5. QED BY <2>1, <2>2, <2>3, <2>4
<1>5. PICK f \in 1..n : f = IF w.pc = "idle" THEN n ELSE w.from
  BY <1>2, <1>3, <1>4 DEF Inv, Walked
<1>6. /\ \A k \in Cred : w.times[k] \in {0, 1}
      /\ \A k \in Cred : w.times[k] = 1 => k <= w.after
  <2>1. Walked BY DEF Inv
  <2>2. \A k \in Cred : w.times[k] \in {0, 1} BY <1>3, <2>1 DEF Walked
  <2>3. \A k \in Cred : w.times[k] = 1 => k <= w.after BY <1>3, <1>4, <2>1 DEF Walked
  <2>4. QED BY <2>2, <2>3
<1>7. ASSUME NEW k \in Cred, w.times[k] = 0, k <= w.after
      PROVE  \E i \in f..n : k \notin Listed(hist[i])
  <2>1. CASE w.pc = "idle" 
    <3>1. w.after = 0 BY <2>1, <1>3 DEF Inv, Walked
    <3>2. k \in Nat /\ k # 0 BY <1>4
    <3>3. QED BY <3>1, <3>2, <1>7
  <2>2. CASE w.pc = "open"
    <3>1. w.from = f BY <2>2, <1>5
    <3>2. QED BY <2>2, <3>1, <1>2, <1>3, <1>7 DEF Inv, Walked
  <2>3. QED BY <2>1, <2>2, <1>4
<1>8. PICK L \in SUBSET Cred : L = Listed(hist[n]) BY DEF Listed
<1>9. PICK S \in SUBSET Cred : S = {k \in L : k > w.after} OBVIOUS
<1>10. PICK page \in SUBSET S : page = FirstOf(PageSize, S) BY FirstOfIs
<1>11. page = Page(Now) BY <1>2, <1>3, <1>8, <1>9, <1>10 DEF Page, Now
<1>12. PageSize \in Nat /\ PageSize # 0 BY CredAssumption
<1> DEFINE full == Cardinality(page) = PageSize
           last == CHOOSE k \in page : \A j \in page : j <= k
<1>13. \A k \in page : k \in Cred /\ k \in Nat /\ k > w.after /\ w.times[k] = 0
  <2>1. \A k \in page : k \in Cred /\ k \in Nat /\ k > w.after BY <1>4, <1>9, <1>10
  <2>2. QED BY <2>1, <1>4, <1>6
<1>14. full => last \in page /\ \A j \in page : j <= last
  <2>1. full => page # {} BY <1>12, FS_EmptySet
  <2>2. page \in SUBSET Cred BY <1>9, <1>10
  <2>3. full => \E k \in page : \A j \in page : j <= k BY <2>1, <2>2, HasGreatest
  <2>4. QED BY <2>3
<1> HIDE DEF last
<1>15. ASSUME NEW k \in Cred, k \notin page, w.times[k] = 0,
              ~full \/ k <= last
       PROVE  \E i \in f..n : k \notin Listed(hist[i])
  <2>1. CASE k <= w.after BY <2>1, <1>7, <1>15
  <2>2. CASE ~(k <= w.after)
    <3>1. k \in Nat /\ k > w.after BY <2>2, <1>4
    <3>2. k \notin L
      <4>1. SUFFICES ASSUME k \in L PROVE FALSE OBVIOUS
      <4>2. k \in S BY <3>1, <4>1, <1>9
      <4>3. CASE ~full BY <4>2, <4>3, <1>10, <1>12, <1>15, FirstOfShort
      <4>4. CASE full
        <5>1. last \in FirstOf(PageSize, S) /\ k <= last BY <4>4, <1>10, <1>14, <1>15
        <5>2. k \in FirstOf(PageSize, S) BY <5>1, <4>2, <1>12, FirstOfClosed
        <5>3. QED BY <5>2, <1>10, <1>15
      <4>5. QED BY <4>3, <4>4
    <3>3. n \in f..n BY <1>2, <1>5
    <3>4. QED BY <3>2, <3>3, <1>8
  <2>3. QED BY <2>1, <2>2
<1> DEFINE times == [k \in Cred |-> w.times[k] + IF k \in page THEN 1 ELSE 0]
<1>16. times \in [Cred -> Nat] BY <1>4
<1>17. /\ \A k \in page : times[k] = 1
       /\ \A k \in Cred : k \notin page => times[k] = w.times[k]
  BY <1>4, <1>13
<1>18. \A k \in Cred : times[k] \in {0, 1} BY <1>6, <1>17
<1>19. walk' = [pc    |-> IF full THEN "open" ELSE "ended",
                after |-> IF full THEN last ELSE 0,
                from  |-> f,
                upto  |-> IF full THEN 0 ELSE n,
                times |-> times]
  BY <1>2, <1>3, <1>5, <1>11 DEF ListPage, last
<1> HIDE DEF times
<1>20. walk' \in WalkRec /\ Walked'
  <2>1. CASE full
    <3>1. walk' = [pc |-> "open", after |-> last, from |-> f, upto |-> 0, times |-> times]
      BY <2>1, <1>19
    <3>2. last \in Cred /\ last \in Nat BY <2>1, <1>13, <1>14
    <3>3. walk' \in WalkRec BY <3>1, <3>2, <1>5, <1>16 DEF WalkRec
    <3>4. \A k \in Cred : times[k] = 1 => k <= last
      <4>1. ASSUME NEW k \in Cred, times[k] = 1 PROVE k <= last
        <5>1. CASE k \in page BY <5>1, <2>1, <1>14
        <5>2. CASE k \notin page
          <6>1. k <= w.after BY <5>2, <4>1, <1>6, <1>17
          <6>2. last > w.after BY <2>1, <1>13, <1>14
          <6>3. QED BY <6>1, <6>2, <3>2, <1>4
        <5>3. QED BY <5>1, <5>2
      <4>2. QED BY <4>1
    <3>5. ASSUME NEW k \in Cred, times[k] = 0, k <= last
          PROVE  \E i \in f..n : k \notin Listed(hist[i])
      BY <3>5, <1>15, <1>17
    <3>6. QED BY <3>1, <3>3, <3>4, <3>5, <1>1, <1>2, <1>5, <1>18 DEF Walked
  <2>2. CASE ~full
    <3>1. walk' = [pc |-> "ended", after |-> 0, from |-> f, upto |-> n, times |-> times]
      BY <2>2, <1>19
    <3>2. walk' \in WalkRec BY <3>1, <1>5, <1>16 DEF WalkRec
    <3>3. ASSUME NEW k \in Cred, times[k] = 0
          PROVE  \E i \in f..n : k \notin Listed(hist[i])
      BY <2>2, <3>3, <1>15, <1>17
    <3>4. n \in 1..n BY <1>2
    <3>5. QED BY <3>1, <3>2, <3>3, <3>4, <1>1, <1>2, <1>5, <1>18 DEF Walked
  <2>3. QED BY <2>1, <2>2
<1>21. Grows BY <1>1, HistStays
<1>22. QED BY <1>1, <1>20, <1>21, EndsRest, EndKeeps


-----------------------------------------------------------------------------
(* The writers.                                                            *)

\* A write stores what the columns hold, and over a soft-deleted person no limit.
LEMMA ApplyIs ==
    ASSUME NEW w \in Write, NEW s \in Store
    PROVE  /\ Apply(w, s) \in Store
           /\ s.deleted => Apply(w, s).limit \in {s.limit, None}
<1>1. /\ w[1] \in Rpcs
      /\ w[1] = "SetUserAdmin" => w[2] \in BOOLEAN
      /\ w[1] \in {"CreateCredential", "RevokeCredential"} => w[2] \in Cred
      /\ w[1] = "SyncTeams" => w[2] \subseteq {"administrators", "other"}
      /\ w[1] = "SetOrg" => w[2] \in {"on", "off"}
      /\ w[1] = "SetTeamOverride" => w[2] \in {None, "on", "off"}
  BY WriteAssumption
<1>2. CASE ~Applies(w, s)
  BY <1>2 DEF Apply, Store
<1>3. CASE Applies(w, s) /\ w[1] = "SetUserAdmin"
  <2>1. Apply(w, s) = [s EXCEPT !.admin = w[2]] BY <1>3 DEF Apply
  <2>2. ~s.deleted BY <1>3 DEF Applies, NeedsLive
  <2>3. QED BY <2>1, <2>2, <1>1, <1>3 DEF Store
<1>4. CASE Applies(w, s) /\ w[1] = "SetRateLimitOverride"
  <2>1. Apply(w, s) = [s EXCEPT !.limit = "set"] BY <1>4 DEF Apply
  <2>2. ~s.deleted BY <1>4 DEF Applies, NeedsLive
  <2>3. QED BY <2>1, <2>2 DEF Store
<1>5. CASE Applies(w, s) /\ w[1] = "ClearRateLimitOverride"
  <2>1. Apply(w, s) = [s EXCEPT !.limit = None] BY <1>5 DEF Apply, Cleared
  <2>2. QED BY <2>1 DEF Store
<1>6. CASE Applies(w, s) /\ w[1] \in {"CreateCredential", "RevokeCredential"}
  <2>1. w[2] \in Cred BY <1>1, <1>6
  <2>2. PICK st \in {"none", "live", "ended"} : Apply(w, s) = [s EXCEPT !.cred[w[2]] = st]
    <3>1. s.cred[w[2]] \in {"none", "live", "ended"} BY <2>1 DEF Store
    <3>2. CASE w[1] = "CreateCredential"
      <4>1. Apply(w, s) = [s EXCEPT !.cred[w[2]] = IF s.cred[w[2]] = "none" THEN "live"
                                                   ELSE s.cred[w[2]]]
        BY <1>6, <3>2 DEF Apply
      <4>2. QED BY <4>1, <3>1
    <3>3. CASE w[1] = "RevokeCredential"
      <4>1. Apply(w, s) = [s EXCEPT !.cred[w[2]] = IF s.cred[w[2]] = "live" THEN "ended"
                                                   ELSE s.cred[w[2]]]
        BY <1>6, <3>3 DEF Apply
      <4>2. QED BY <4>1, <3>1
    <3>4. QED BY <1>6, <3>2, <3>3
  <2>3. QED BY <2>1, <2>2 DEF Store
<1>7. CASE Applies(w, s) /\ w[1] = "SyncTeams"
  <2>1. Apply(w, s) = [s EXCEPT !.teams = w[2]] BY <1>7 DEF Apply
  <2>2. QED BY <2>1, <1>1, <1>7 DEF Store
<1>8. CASE Applies(w, s) /\ w[1] = "SetOrg"
  <2>1. Apply(w, s) = [s EXCEPT !.org = w[2]] BY <1>8 DEF Apply
  <2>2. QED BY <2>1, <1>1, <1>8 DEF Store
<1>9. CASE Applies(w, s) /\ w[1] = "SetTeamOverride"
  <2>1. Apply(w, s) = [s EXCEPT !.over = w[2]] BY <1>9 DEF Apply
  <2>2. QED BY <2>1, <1>1, <1>9 DEF Store
<1>10. QED BY <1>1, <1>2, <1>3, <1>4, <1>5, <1>6, <1>7, <1>8, <1>9 DEF Rpcs, NeedsLive

LEMMA StartWriteKeeps ==
    ASSUME Inv, NEW r \in Req, NEW w \in Write, StartWrite(r, w)
    PROVE  Inv'
<1> DEFINE x == [NoCall EXCEPT !.op = "Write", !.write = w]
<1>1. "Write" \in {"none", "Resolve", "List", "Write"} OBVIOUS
<1>2. x \in CallRec BY <1>1, NoCallIs DEF CallRec
<1>3. x.op = "Write" /\ x.write = w BY <1>2 DEF NoCall
<1>4. PICK asks \in Asks : asks = AsksToWrite(w)
  <2>1. AsksOf("plain") = "plain" /\ AsksOf("transaction") = "rc" BY DEF AsksOf
  <2>2. AsksToWrite(w) \in {"plain", "rc"} BY <2>1 DEF AsksToWrite
  <2>3. QED BY <2>2 DEF Asks
<1>5. Arrive(r, "iam-caller", asks, None) BY <1>4 DEF StartWrite
<1>6. call' = [call EXCEPT ![r] = x] /\ UNCHANGED <<hist, walk>> BY DEF StartWrite
<1> HIDE DEF x
<1>7. QED BY <1>2, <1>3, <1>5, <1>6, StartKeeps

LEMMA CheckLiveKeeps ==
    ASSUME Inv, NEW r \in Req, CheckLive(r)
    PROVE  Inv'
<1>1. /\ hist' = hist /\ walk' = walk /\ req[r].pc = "working" /\ call[r].op = "Write"
  BY DEF CheckLive, Working
<1>2. CASE Finish(r, "FAILED") /\ End(r) BY <1>1, <1>2, EndsKeep
<1>3. CASE call' = [call EXCEPT ![r].at = 1] /\ UNCHANGED connVars
  <2>1. PICK c \in CallRec : c = call[r] BY DEF Inv, TypeOK
  <2>2. PICK x : x = [c EXCEPT !.at = 1] OBVIOUS
  <2>3. 1 \in 0..(Reads + 1) BY DEF Reads
  <2>4. x \in CallRec /\ x.op = "Write" /\ x.write = c.write
    BY <2>1, <2>2, <2>3, <1>1 DEF CallRec
  <2>5. call' = [call EXCEPT ![r] = x] BY <1>3, <2>1, <2>2 DEF Inv, TypeOK
  <2>6. Grows BY <1>1, HistStays
  <2>7. Walked' BY <1>1, <2>6, WalkedStays
  <2>8. walk' \in WalkRec BY <1>1 DEF Inv, TypeOK
  <2>9. conn' = conn /\ req' = req BY <1>3 DEF connVars
  <2>10. ConnTypeOK' /\ Holds'
    BY <2>9 DEF Inv, TypeOK, ConnTypeOK, Holds, SlotHolds, ConnsKnown, Held, InTx
  <2>11. PICK q \in ReqRec : q = req[r] BY DEF Inv, TypeOK, ConnTypeOK
  <2>12. req' = [req EXCEPT ![r] = q] BY <2>9, <2>11 DEF Inv, TypeOK, ConnTypeOK
  <2>13. CallAsks(x, q) BY <1>1, <2>1, <2>4, <2>11 DEF Inv, Calls, CallAsks
  <2>14. Reading(x)' BY <2>4 DEF Reading
  <2>15. x.op # "List" BY <2>4
  <2>16. QED BY <1>1, <2>4, <2>5, <2>6, <2>7, <2>8, <2>10, <2>12, <2>13, <2>14, <2>15, CallMoves
<1>4. QED BY <1>2, <1>3 DEF CheckLive

LEMMA LandKeeps ==
    ASSUME Inv, NEW r \in Req, Land(r)
    PROVE  Inv'
<1>1. /\ req[r].pc = "working" /\ call[r].op = "Write" /\ walk' = walk /\ End(r)
      /\ Commit(Apply(call[r].write, Now))
      /\ Finish(r, "OK") \/ Finish(r, "FAILED") \/ Cut(r)
  BY DEF Land, Working
<1>2. PICK w \in Write : w = call[r].write BY <1>1 DEF Inv, Calls, CallAsks
<1>3. PICK now \in Store : now = Now BY HistFacts
<1>4. PICK s \in Store : s = Apply(w, now) BY ApplyIs
<1>5. Commit(s) BY <1>1, <1>2, <1>3, <1>4
<1>6. Grows BY <1>5, CommitGrows
<1>7. Walked' BY <1>1, <1>6, WalkedStays
<1>8. walk' \in WalkRec BY <1>1 DEF Inv, TypeOK
<1>9. QED BY <1>1, <1>6, <1>7, <1>8, EndsRest, EndKeeps

LEMMA SoftDeleteKeeps ==
    ASSUME Inv, SoftDelete
    PROVE  Inv'
<1>1. PICK now \in Store : now = Now BY HistFacts
<1>2. PICK s \in Store : s = [now EXCEPT !.deleted = TRUE] BY DEF Store
<1>3. Commit(s) /\ UNCHANGED <<connVars, call, walk>> BY <1>1, <1>2 DEF SoftDelete
<1>4. Grows BY <1>3, CommitGrows
<1>5. QED BY <1>3, <1>4, CallsStay

-----------------------------------------------------------------------------
(* The theorems.                                                           *)

LEMMA InitInv == Init => Inv
<1> SUFFICES ASSUME Init PROVE Inv OBVIOUS
<1>1. ConnTypeOK /\ Holds /\ \A r \in Req : req[r].pc = "idle"
  BY ConnInitHolds DEF Init
<1>2. \A r \in Req : call[r] = NoCall BY DEF Init
<1>3. call \in [Req -> CallRec] BY NoCallIs DEF Init
<1>4. hist \in Seq(Store) /\ hist # <<>> BY DEF Init, Store
<1>5. walk \in WalkRec BY DEF Init, WalkRec
<1>6. Calls BY <1>1, <1>2, NoCallIs DEF Calls, CallAsks, Reading
<1>7. OneWalks BY <1>2, NoCallIs DEF OneWalks
<1>8. Walked BY DEF Init, Walked
<1>9. QED BY <1>1, <1>3, <1>4, <1>5, <1>6, <1>7, <1>8 DEF Inv, TypeOK

\* Every step keeps the invariant.
LEMMA NextKeeps == Inv /\ [Next]_vars => Inv'
<1> SUFFICES ASSUME Inv, [Next]_vars PROVE Inv' OBVIOUS
<1>1. CASE SoftDelete BY <1>1, SoftDeleteKeeps
<1>2. ASSUME NEW r \in Req, NEW k \in Cred, NEW fromTeam \in BOOLEAN,
             StartResolve(r, k, fromTeam)
      PROVE  Inv'
  BY <1>2, StartResolveKeeps
<1>3. ASSUME NEW r \in Req, NEW w \in Write, StartWrite(r, w) PROVE Inv'
  BY <1>3, StartWriteKeeps
<1>4. ASSUME NEW r \in Req, Answer(r) PROVE Inv'
  BY <1>4, EndsKeep DEF Answer
<1>5. ASSUME NEW r \in Req, Fail(r) PROVE Inv'
  BY <1>5, EndsKeep DEF Fail, HangUp
<1>6. ASSUME NEW r \in Req, \/ StartList(r) \/ Connect(r) \/ ReadNext(r)
                            \/ ListPage(r) \/ CheckLive(r) \/ Land(r)
      PROVE  Inv'
  BY <1>6, StartListKeeps, ConnectKeeps, ReadNextKeeps, ListPageKeeps, CheckLiveKeeps, LandKeeps
<1>7. CASE UNCHANGED vars
  <2>1. hist' = hist /\ UNCHANGED <<connVars, call, walk>> BY <1>7 DEF vars
  <2>2. QED BY <2>1, HistStays, CallsStay
<1>8. QED BY <1>1, <1>2, <1>3, <1>4, <1>5, <1>6, <1>7 DEF Next

\* The inductive invariant holds throughout.
THEOREM ResolveInvariance == Spec => []Inv
BY InitInv, NextKeeps, PTL DEF Spec

\* credential.rs: what ResolveCredential answers is what one committed state of
\* the store says, whoever writes between its statements and whichever calls
\* were dropped on its connection before.
THEOREM AnswersAreOfOnePoint == Spec => []ResolveInv
<1>1. Inv => ResolveInv
  <2>1. SUFFICES ASSUME Inv, NEW r \in Req, call[r].op = "Resolve", call[r].at = Reads + 1
                 PROVE  \E i \in call[r].from..Len(hist) :
                           call[r].part = AnswerOf(hist[i], call[r].cred, call[r].fromTeam)
    BY DEF ResolveInv, OnePointInTime, Inv
  <2>2. /\ call[r].from \in 1..Len(hist)
        /\ call[r].part = AnswerOf(hist[call[r].from], call[r].cred, call[r].fromTeam)
    BY <2>1 DEF Inv, Calls, Reading, Reads
  <2>3. Len(hist) \in Nat BY <2>1, HistFacts
  <2>4. call[r].from \in call[r].from..Len(hist) BY <2>2, <2>3
  <2>5. QED BY <2>2, <2>4
<1>2. QED BY <1>1, ResolveInvariance, PTL

\* credential.rs: a walk through ListCredentials lists a credential that stays
\* live once and none twice, whatever is written between its pages.
THEOREM ListingsAreExact == Spec => []ListingIsExact
<1>1. Inv => ListingIsExact
  <2>1. SUFFICES ASSUME Inv PROVE ListingIsExact OBVIOUS
  <2>2. \A k \in Cred : walk.times[k] \in {0, 1} BY <2>1 DEF Inv, Walked
  <2>3. \A k \in Cred : walk.times[k] <= 1 BY <2>2
  <2>4. ASSUME walk.pc = "ended", NEW k \in Cred,
               \A i \in walk.from..walk.upto : k \in Listed(hist[i])
        PROVE  walk.times[k] = 1
    <3>1. walk.times[k] # 0 BY <2>1, <2>4 DEF Inv, Walked
    <3>2. QED BY <3>1, <2>2
  <2>5. QED BY <2>3, <2>4 DEF ListingIsExact
<1>2. QED BY <1>1, ResolveInvariance, PTL

\* policy.rs: no limit appears for a person who is soft-deleted; the clearing
\* arm's race only ever removes one.
THEOREM NoLimitForTheDeleted == Spec => LimitsOfTheDeletedOnlyGo
<1> DEFINE Goes == Len(hist') > Len(hist) /\ Now.deleted => Now'.limit \in {Now.limit, None}
<1>1. Inv /\ [Next]_vars => [Goes]_vars
  <2>1. SUFFICES ASSUME Inv, Next, Len(hist') > Len(hist), Now.deleted
                 PROVE  Now'.limit \in {Now.limit, None}
    OBVIOUS
  <2>2. hist' # hist BY <2>1, HistFacts
  <2>3. ~SoftDelete BY <2>1 DEF SoftDelete
  <2>4. PICK r \in Req : Land(r)
    BY <2>1, <2>2, <2>3 DEF Next, StartResolve, StartWrite, StartList, Connect, ReadNext,
                            Answer, ListPage, CheckLive, Fail
  <2>5. PICK w \in Write : w = call[r].write
    BY <2>1, <2>4 DEF Land, Inv, Calls, CallAsks
  <2>6. PICK now \in Store : now = Now BY <2>1, HistFacts
  <2>7. PICK s \in Store : s = Apply(w, now) BY ApplyIs
  <2>8. hist' = Append(hist, s) BY <2>2, <2>4, <2>5, <2>6, <2>7 DEF Land, Commit
  <2>9. hist \in Seq(Store) /\ Len(hist) \in Nat BY <2>1, HistFacts
  <2>10. Now' = s BY <2>8, <2>9 DEF Now
  <2>11. s.limit \in {now.limit, None} BY <2>1, <2>6, <2>7, ApplyIs
  <2>12. QED BY <2>6, <2>10, <2>11
<1>2. Spec => [][Goes]_vars BY <1>1, ResolveInvariance, PTL DEF Spec
<1>3. QED BY <1>2 DEF LimitsOfTheDeletedOnlyGo
=============================================================================
