---------------------------- MODULE TeamsProofs ----------------------------
(***************************************************************************)
(* Theorems about Teams, for any people, teams, declarations and number of *)
(* calls in flight: the tables are sound, no call locks the installation   *)
(* out, a declared id is claimed once and only while nobody administers, a *)
(* sync reports whoever it changes and a second one changes nothing, and   *)
(* the statements implement TeamsAtomic.                                   *)
(***************************************************************************)
EXTENDS Teams, TLAPS

\* The pending ids are minted ones, and the last declaration names them.
PendingNamed == pending \subseteq PreMinted \cap Named(last.decl)

\* The tables are what the last declaration made them, but for the one claim
\* that may have come since.
FollowsLast ==
    /\ last.exists \subseteq Exists
    /\ \A a \in Team : team[a] = "live" <=> a \in DOMAIN last.decl
    /\ \A a \in DOMAIN last.decl : /\ last.decl[a] \cap last.exists \subseteq MembersOf(a)
                                   /\ MembersOf(a) \subseteq last.decl[a]

Tables == TypeOK /\ PendingMeansNone /\ PendingNamed /\ FollowsLast

\* What a sync carries: a declaration whose ids exist or were minted before,
\* and no answer yet.
Carries(t) ==
    txn[t].pc \in SyncPc =>
       /\ txn[t].decl \in Declaration /\ txn[t].out # "OK"
       /\ MentionedIn(txn[t].decl) \subseteq Exists \cup PreMinted
       /\ \A u \in User : txn[t].known[u] # "unread" => u \in MentionedIn(txn[t].decl)

\* What known_users answered still holds, but that a live person may have been
\* withdrawn since.
Reads(t) ==
    txn[t].pc \in SyncPc =>
       \A u \in User : /\ txn[t].known[u] = "Absent" => row[u] = "absent"
                       /\ txn[t].known[u] = "SoftDeleted" => row[u] = "deleted"
                       /\ txn[t].known[u] = "Live" => row[u] # "absent"

\* Past its count a sync keeps the administrators to itself.
Counts(t) ==
    /\ txn[t].pc = "sentinel" => ~txn[t].held /\ \A u \in User : txn[t].known[u] = "unread"
    /\ txn[t].pc \in {"counted", "written"} =>
          /\ txn[t].held \/ team[Admins] = "absent"
          /\ txn[t].before \/ LiveAdmins = {}

\* What a sync wrote is what it would write now.
Wrote(t) ==
    txn[t].pc = "written" =>
       /\ \A u \in MentionedIn(txn[t].decl) : txn[t].known[u] # "unread"
       /\ ~LockedOut(t)
       /\ txn[t].gone = Gone(t) /\ txn[t].new = New(t)
       /\ txn[t].pending = PendingOf(t) /\ txn[t].changed = Changed(t)

\* The predicates of the claim and of the declared arm hold until they commit.
Decided(t) ==
    /\ txn[t].pc \in {"idle", "done"} => ~txn[t].held
    /\ txn[t].pc \in {"claiming", "enrolling"} => txn[t].held /\ team[Admins] = "live"
    /\ txn[t].pc = "claiming" => /\ txn[t].user \in pending /\ LiveAdmins = {}
                                 /\ row[txn[t].user] = "absent"
    /\ txn[t].pc = "enrolling" => txn[t].user \in LiveAdmins

\* One sync at a time has the sentinel, one call the administrators row.
Exclusive ==
    \A t, o \in Txn : t # o =>
       /\ ~(txn[t].pc \in SyncPc /\ txn[o].pc \in SyncPc)
       /\ ~(txn[t].held /\ txn[o].held)

CallInv(t) == Carries(t) /\ Reads(t) /\ Counts(t) /\ Wrote(t) /\ Decided(t)

\* The inductive invariant.
Inv == Tables /\ Exclusive /\ \A t \in Txn : CallInv(t)

-----------------------------------------------------------------------------
(* Declarations, and what the statements read.                             *)

LEMMA DeclaredFacts ==
    ASSUME NEW D \in Declared
    PROVE  /\ DOMAIN D \subseteq Team /\ \A a \in DOMAIN D : D[a] \subseteq User
           /\ \A a \in DOMAIN D : D[a] \subseteq MentionedIn(D)
           /\ MentionedIn(D) \subseteq User /\ Named(D) \subseteq MentionedIn(D)
<1>1. PICK S \in SUBSET Team : D \in [S -> SUBSET User]
  BY DEF Declared
<1>2. DOMAIN D \subseteq Team /\ \A a \in DOMAIN D : D[a] \subseteq User
  BY <1>1
<1>3. \A u : u \in MentionedIn(D) <=> \E a \in DOMAIN D : u \in D[a]
  BY DEF MentionedIn
<1> QED
  BY <1>2, <1>3 DEF Named

LEMMA NoTeamsFacts == NoTeams \in Declared /\ MentionedIn(NoTeams) = {} /\ DOMAIN NoTeams = {}
<1>1. NoTeams \in [{} -> SUBSET User] /\ DOMAIN NoTeams = {}
  BY DEF NoTeams
<1>2. {} \in SUBSET Team
  OBVIOUS
<1>3. NoTeams \in Declared
  BY <1>1, <1>2 DEF Declared
<1> QED
  BY <1>1, <1>3 DEF MentionedIn

\* A slot whose call has not begun, and one whose call was answered.
LEMMA IdleFacts ==
    /\ Idle \in TxnRec /\ Idle.pc = "idle" /\ ~Idle.held /\ Idle.out = "none"
    /\ Idle.known = [u \in User |-> "unread"]
<1> DEFINE known == [u \in User |-> "unread"]
           D == NoTeams
<1>1. known \in [User -> Known] /\ D \in Declared
  BY NoTeamsFacts DEF Known
<1>2. Idle = [pc |-> "idle", user |-> None, decl |-> D, held |-> FALSE,
              before |-> FALSE, known |-> known, gone |-> {},
              new |-> {}, pending |-> {}, changed |-> {}, out |-> "none"]
  BY DEF Idle
<1> HIDE DEF known, D
<1>3. Idle \in TxnRec /\ Idle.pc = "idle" /\ ~Idle.held /\ Idle.known = known /\ Idle.out = "none"
  BY <1>1, <1>2 DEF TxnRec, Pc, Out
<1> QED
  BY <1>3 DEF known

LEMMA DoneFacts ==
    ASSUME NEW out \in Out, NEW changed \in SUBSET User
    PROVE  LET q == [Idle EXCEPT !.pc = "done", !.out = out, !.changed = changed]
               p == [Idle EXCEPT !.pc = "done", !.out = out]
           IN  /\ q \in TxnRec /\ q.pc = "done" /\ ~q.held /\ q.changed = changed /\ q.out = out
               /\ p \in TxnRec /\ p.pc = "done" /\ ~p.held
BY IdleFacts DEF TxnRec, Pc

\* The pairs a sync deletes, inserts and is left with.
LEMMA GoneIs ==
    ASSUME NEW t \in Txn, NEW a \in Team, NEW u \in User
    PROVE  <<a, u>> \in Gone(t) <=> /\ <<a, u>> \in member
                                    /\ a \in DOMAIN txn[t].decl /\ u \notin Desired(t, a)
BY DEF Gone

LEMMA NewIs ==
    ASSUME NEW t \in Txn, NEW a \in Team, NEW u \in User
    PROVE  <<a, u>> \in New(t) <=> /\ a \in DOMAIN txn[t].decl
                                   /\ u \in Desired(t, a) /\ <<a, u>> \notin member
<1>1. u \in MembersOf(a) <=> <<a, u>> \in member
  BY DEF MembersOf
<1> DEFINE N(b) == Desired(t, b) \ MembersOf(b)
<1>2. <<a, u>> \in New(t) <=> \E b \in DOMAIN txn[t].decl : <<a, u>> \in {b} \X N(b)
  BY DEF New
<1> HIDE DEF N
<1>3. \A b : <<a, u>> \in {b} \X N(b) <=> a = b /\ u \in N(b)
  OBVIOUS
<1>4. u \in N(a) <=> u \in Desired(t, a) /\ u \notin MembersOf(a)
  BY DEF N
<1> QED
  BY <1>1, <1>2, <1>3, <1>4

\* What changed_user_ids holds.
LEMMA ChangedIs ==
    ASSUME NEW t \in Txn, NEW u
    PROVE  u \in Changed(t) <=> \/ \E a \in Archived(t) : u \in MembersOf(a)
                                \/ \E a \in Reactivated(t) : u \in Desired(t, a)
                                \/ \E m \in Gone(t) \cup New(t) : u = m[2]
<1>1. u \in Changed(t) <=> \/ u \in UNION {MembersOf(a) : a \in Archived(t)}
                           \/ u \in UNION {Desired(t, a) : a \in Reactivated(t)}
                           \/ u \in {m[2] : m \in Gone(t) \cup New(t)}
  <2> DEFINE X == UNION {MembersOf(a) : a \in Archived(t)}
             Y == UNION {Desired(t, a) : a \in Reactivated(t)}
             Z == {m[2] : m \in Gone(t) \cup New(t)}
  <2>1. Changed(t) = (X \cup Y) \cup Z
    BY DEF Changed
  <2> HIDE DEF X, Y, Z
  <2>2. u \in Changed(t) <=> u \in X \/ u \in Y \/ u \in Z
    BY <2>1
  <2> QED
    BY <2>2 DEF X, Y, Z
<1>2. u \in UNION {MembersOf(a) : a \in Archived(t)} <=> \E a \in Archived(t) : u \in MembersOf(a)
  BY Zenon
<1>3. u \in UNION {Desired(t, a) : a \in Reactivated(t)} <=> \E a \in Reactivated(t) : u \in Desired(t, a)
  BY Zenon
<1>4. u \in {m[2] : m \in Gone(t) \cup New(t)} <=> \E m \in Gone(t) \cup New(t) : u = m[2]
  BY Zenon
<1> QED
  BY <1>1, <1>2, <1>3, <1>4, Zenon

LEMMA DesiredIs ==
    ASSUME NEW t \in Txn, NEW a
    PROVE  Desired(t, a) = {u \in txn[t].decl[a] : txn[t].known[u] # "Absent"}
BY DEF Desired

\* The sets a sync writes are sets of people and of pairs.
LEMMA WritesTyped ==
    ASSUME TypeOK, NEW t \in Txn
    PROVE  /\ Gone(t) \in SUBSET (Team \X User) /\ New(t) \in SUBSET (Team \X User)
           /\ PendingOf(t) \in SUBSET User /\ Changed(t) \in SUBSET User
<1>1. txn[t].decl \in Declared /\ member \subseteq Team \X User
  BY DEF TypeOK, TxnRec
<1>2. /\ DOMAIN txn[t].decl \subseteq Team /\ \A a \in DOMAIN txn[t].decl : txn[t].decl[a] \subseteq User
      /\ Named(txn[t].decl) \subseteq User
  BY <1>1, DeclaredFacts
<1>3. \A a \in DOMAIN txn[t].decl : Desired(t, a) \subseteq User
  BY <1>2, DesiredIs
<1>4. Gone(t) \in SUBSET (Team \X User)
  BY <1>1 DEF Gone
<1>5. New(t) \in SUBSET (Team \X User)
  <2>1. ASSUME NEW m \in New(t) PROVE m \in Team \X User
    <3>1. PICK a \in DOMAIN txn[t].decl : m \in {a} \X (Desired(t, a) \ MembersOf(a))
      BY DEF New
    <3> QED
      BY <1>2, <1>3, <3>1
  <2> QED
    BY <2>1
<1>6. PendingOf(t) \in SUBSET User
  BY <1>2 DEF PendingOf
<1>7. Changed(t) \in SUBSET User
  <2>1. ASSUME NEW u \in Changed(t) PROVE u \in User
    <3>1. CASE \E a \in Archived(t) : u \in MembersOf(a)
      BY <3>1 DEF MembersOf
    <3>2. CASE \E a \in Reactivated(t) : u \in Desired(t, a)
      BY <1>3, <3>2 DEF Reactivated
    <3>3. CASE \E m \in Gone(t) \cup New(t) : u = m[2]
      BY <1>4, <1>5, <3>3
    <3> QED
      BY <2>1, <3>1, <3>2, <3>3, ChangedIs
  <2> QED
    BY <2>1
<1> QED
  BY <1>4, <1>5, <1>6, <1>7

-----------------------------------------------------------------------------
(* Frames.                                                                 *)

\* What a sync would write depends on the teams, the members, its declaration
\* and what it knows of the people named.
LEMMA WritesStill ==
    ASSUME UNCHANGED <<team, member>>, NEW t \in Txn,
           txn'[t].decl = txn[t].decl, txn'[t].known = txn[t].known
    PROVE  /\ LiveAfter(t)' = LiveAfter(t) /\ PendingOf(t)' = PendingOf(t)
           /\ Gone(t)' = Gone(t) /\ New(t)' = New(t) /\ Changed(t)' = Changed(t)
<1>1. LiveAfter(t)' = LiveAfter(t)
  BY DEF LiveAfter
<1>2. PendingOf(t)' = PendingOf(t)
  BY <1>1 DEF PendingOf
<1>3. \A a : Desired(t, a)' = Desired(t, a)
  BY DEF Desired
<1>4. Gone(t)' = Gone(t)
  BY <1>3 DEF Gone
<1>5. \A a : MembersOf(a)' = MembersOf(a)
  BY DEF MembersOf
<1>6. New(t)' = New(t)
  BY <1>3, <1>5 DEF New
<1>7. Archived(t)' = Archived(t) /\ Reactivated(t)' = Reactivated(t)
  BY DEF Archived, Reactivated
<1>8. Changed(t)' = Changed(t)
  BY <1>3, <1>4, <1>5, <1>6, <1>7 DEF Changed
<1> QED
  BY <1>1, <1>2, <1>4, <1>6, <1>8

LEMMA WroteStill ==
    ASSUME UNCHANGED <<team, member>>, NEW t \in Txn, txn'[t] = txn[t]
    PROVE  Wrote(t)' <=> Wrote(t)
BY WritesStill DEF Wrote, LockedOut

\* The slot of a call that is not running, and one whose call was answered.
LEMMA RestHolds ==
    ASSUME NEW t \in Txn, txn[t].pc \in {"idle", "done"}, ~txn[t].held
    PROVE  CallInv(t)
BY DEF CallInv, Carries, Reads, Counts, Wrote, Decided, SyncPc

LEMMA RestHoldsNext ==
    ASSUME NEW t \in Txn, txn'[t].pc \in {"idle", "done"}, ~txn'[t].held
    PROVE  CallInv(t)'
BY DEF CallInv, Carries, Reads, Counts, Wrote, Decided, SyncPc

\* A call that leaves the tables as they were.
LEMMA QuietStep ==
    ASSUME Inv, UNCHANGED <<row, team, member, pending, last>>, enrolled' \subseteq User,
           NEW t \in Txn, NEW q \in TxnRec, txn' = [txn EXCEPT ![t] = q],
           CallInv(t)',
           q.pc \in SyncPc => txn[t].pc \in SyncPc \/ \A o \in Txn : txn[o].pc \notin SyncPc,
           q.held => txn[t].held \/ \A o \in Txn \ {t} : ~txn[o].held
    PROVE  Inv'
<1>1. /\ txn \in [Txn -> TxnRec] /\ txn' \in [Txn -> TxnRec] /\ txn'[t] = q
      /\ \A o \in Txn : o # t => txn'[o] = txn[o]
  BY DEF Inv, Tables, TypeOK
<1>2. Exists' = Exists /\ LiveAdmins' = LiveAdmins /\ \A a : MembersOf(a)' = MembersOf(a)
  BY DEF Exists, LiveAdmins, MembersOf
<1>3. Tables'
  <2>1. TypeOK'
    BY <1>1 DEF Inv, Tables, TypeOK
  <2>2. PendingMeansNone' /\ PendingNamed'
    BY <1>2 DEF Inv, Tables, PendingMeansNone, PendingNamed
  <2>3. FollowsLast'
    BY <1>2 DEF Inv, Tables, FollowsLast
  <2> QED
    BY <2>1, <2>2, <2>3 DEF Tables
<1>4. ASSUME NEW o \in Txn, o # t PROVE CallInv(o)'
  <2>1. txn'[o] = txn[o] /\ CallInv(o)
    BY <1>1, <1>4 DEF Inv
  <2>2. Wrote(o)'
    BY <2>1, WroteStill DEF CallInv
  <2>3. Carries(o)' /\ Reads(o)' /\ Counts(o)' /\ Decided(o)'
    BY <1>2, <2>1 DEF CallInv, Carries, Reads, Counts, Decided
  <2> QED
    BY <2>2, <2>3 DEF CallInv
<1>5. Exclusive'
  BY <1>1 DEF Inv, Exclusive
<1> QED
  BY <1>3, <1>4, <1>5 DEF Inv

\* A call that ends without having changed the tables.
LEMMA EndStep ==
    ASSUME Inv, UNCHANGED <<row, team, member, pending, last>>, enrolled' \subseteq User,
           NEW t \in Txn, NEW q \in TxnRec, txn' = [txn EXCEPT ![t] = q],
           q.pc \in {"idle", "done"}, ~q.held
    PROVE  Inv'
<1>1. txn'[t] = q
  BY DEF Inv, Tables, TypeOK
<1>2. CallInv(t)'
  BY <1>1, RestHoldsNext
<1>3. q.pc \notin SyncPc
  BY DEF SyncPc
<1> QED
  BY <1>2, <1>3, QuietStep

LEMMA AnswerKeeps ==
    ASSUME Inv, NEW t \in Txn, NEW out \in Out, Answer(t, out), UNCHANGED tables
    PROVE  Inv'
<1> DEFINE q == [Idle EXCEPT !.pc = "done", !.out = out]
<1>1. txn' = [txn EXCEPT ![t] = q]
  BY DEF Answer, Goto
<1>2. q \in TxnRec /\ q.pc = "done" /\ ~q.held
  BY DoneFacts
<1> HIDE DEF q
<1>3. UNCHANGED <<row, team, member, pending, last>> /\ enrolled' \subseteq User
  BY DEF tables, Inv, Tables, TypeOK
<1> QED
  BY <1>1, <1>2, <1>3, EndStep

-----------------------------------------------------------------------------
(* SyncTeams up to its commit.                                             *)

LEMMA SyncBeginKeeps ==
    ASSUME Inv, NEW t \in Txn, NEW D \in Declaration, SyncBegin(t, D) PROVE Inv'
<1> DEFINE q == [Idle EXCEPT !.pc = "sentinel", !.decl = D]
<1>1. D \in Declared
  BY DeclarationAssumption
<1>2. /\ q \in TxnRec /\ q.pc = "sentinel" /\ q.decl = D /\ ~q.held /\ q.out = "none"
      /\ \A u \in User : q.known[u] = "unread"
  BY <1>1, IdleFacts DEF TxnRec, Pc, SyncPc
<1>3. txn' = [txn EXCEPT ![t] = q]
  BY DEF SyncBegin, Goto
<1> HIDE DEF q
<1>4. txn'[t] = q
  BY <1>3 DEF Inv, Tables, TypeOK
<1>5. UNCHANGED <<row, team, member, pending, last>> /\ enrolled' \subseteq User
  BY DEF SyncBegin, tables, Inv, Tables, TypeOK
<1>6. CallInv(t)'
  <2>1. MentionedIn(D) \subseteq Exists'
                          \cup PreMinted
    BY <1>5 DEF SyncBegin, Exists
  <2> QED
    BY <1>2, <1>4, <2>1 DEF CallInv, Carries, Reads, Counts, Wrote, Decided
<1>7. \A o \in Txn : txn[o].pc \notin SyncPc
  BY DEF SyncBegin
<1> QED
  BY <1>2, <1>3, <1>5, <1>6, <1>7, QuietStep

LEMMA SyncCountKeeps == ASSUME Inv, NEW t \in Txn, SyncCount(t) PROVE Inv'
<1> DEFINE h == team[Admins] # "absent"
           b == LiveAdmins # {}
           q == [txn[t] EXCEPT !.pc = "counted", !.held = h, !.before = b]
<1>1. /\ txn[t] \in TxnRec /\ txn[t].pc = "sentinel" /\ txn' = [txn EXCEPT ![t] = q]
      /\ Carries(t) /\ Reads(t)
  BY DEF Inv, Tables, TypeOK, SyncCount, Goto, CallInv
<1>2. h \in BOOLEAN /\ b \in BOOLEAN
  OBVIOUS
<1>3. /\ UNCHANGED <<row, team, member, pending, last>> /\ enrolled' \subseteq User
      /\ \A o \in Txn \ {t} : ~txn[o].held
  BY DEF SyncCount, AdminsFree, tables, Inv, Tables, TypeOK
<1>4. Exists' = Exists /\ LiveAdmins' = LiveAdmins
  BY <1>3 DEF Exists, LiveAdmins, MembersOf
<1>5. (h \/ team'[Admins] = "absent") /\ (b \/ LiveAdmins' = {})
  BY <1>3, <1>4
<1> HIDE DEF h, b
<1>6. /\ q \in TxnRec /\ q.pc = "counted" /\ q.decl = txn[t].decl /\ q.known = txn[t].known /\ q.out = txn[t].out
      /\ q.held <=> h
      /\ q.before <=> b
  BY <1>1, <1>2 DEF TxnRec, Pc, SyncPc
<1> HIDE DEF q
<1>7. txn'[t] = q
  BY <1>1 DEF Inv, Tables, TypeOK
<1>8. CallInv(t)'
  <2>1. Carries(t)' /\ Reads(t)'
    BY <1>1, <1>3, <1>4, <1>6, <1>7 DEF Carries, Reads, SyncPc
  <2>2. Counts(t)' /\ Wrote(t)' /\ Decided(t)'
    BY <1>5, <1>6, <1>7 DEF Counts, Wrote, Decided
  <2> QED
    BY <2>1, <2>2 DEF CallInv
<1>9. txn[t].pc \in SyncPc
  BY <1>1 DEF SyncPc
<1> QED
  BY <1>1, <1>3, <1>6, <1>8, <1>9, QuietStep

LEMMA SyncKnowKeeps == ASSUME Inv, NEW t \in Txn, NEW u \in User, SyncKnow(t, u) PROVE Inv'
<1> DEFINE k == KnownAs(u)
           q == [txn[t] EXCEPT !.known[u] = k]
<1>1. /\ txn[t] \in TxnRec /\ txn[t].pc = "counted" /\ txn' = [txn EXCEPT ![t] = q]
      /\ u \in MentionedIn(txn[t].decl)
      /\ Carries(t) /\ Reads(t) /\ Counts(t)
  BY DEF Inv, Tables, TypeOK, SyncKnow, Goto, CallInv
<1>2. /\ UNCHANGED <<row, team, member, pending, last>> /\ enrolled' \subseteq User
  BY DEF SyncKnow, tables, Inv, Tables, TypeOK
<1>3. /\ k \in Known
      /\ k = "Absent" => row[u] = "absent"
      /\ k = "SoftDeleted" => row[u] = "deleted"
      /\ k = "Live" => row[u] # "absent"
  BY DEF KnownAs, Known, Inv, Tables, TypeOK
<1> HIDE DEF k
<1>4. /\ q \in TxnRec /\ q.pc = "counted" /\ q.decl = txn[t].decl /\ q.out = txn[t].out
      /\ q.known[u] = k /\ \A v \in User : v # u => q.known[v] = txn[t].known[v]
      /\ q.held <=> txn[t].held
      /\ q.before <=> txn[t].before
  BY <1>1, <1>3 DEF TxnRec
<1> HIDE DEF q
<1>5. txn'[t] = q
  BY <1>1 DEF Inv, Tables, TypeOK
<1>6. Exists' = Exists /\ LiveAdmins' = LiveAdmins
  BY <1>2 DEF Exists, LiveAdmins, MembersOf
<1>7. Carries(t)'
  BY <1>1, <1>4, <1>5, <1>6 DEF Carries, SyncPc
<1>8. Reads(t)'
  BY <1>1, <1>2, <1>3, <1>4, <1>5 DEF Reads, SyncPc
<1>9. Counts(t)' /\ Wrote(t)' /\ Decided(t)'
  BY <1>1, <1>2, <1>4, <1>5, <1>6 DEF Counts, Wrote, Decided
<1>10. CallInv(t)' /\ txn[t].pc \in SyncPc
  BY <1>1, <1>7, <1>8, <1>9 DEF CallInv, SyncPc
<1> QED
  BY <1>1, <1>2, <1>4, <1>10, QuietStep

\* While a sync is past its count, no claim and no declared enrolment runs.
LEMMA SyncAlone ==
    ASSUME Inv, NEW t \in Txn, txn[t].pc \in {"counted", "written"}, NEW o \in Txn, o # t
    PROVE  txn[o].pc \in {"idle", "done"} /\ ~txn[o].held
<1>1. txn[o].pc \in SyncPc \cup {"idle", "claiming", "enrolling", "done"}
  BY DEF Inv, Tables, TypeOK, TxnRec, Pc
<1>2. txn[o].pc \notin SyncPc
  BY DEF Inv, Exclusive, SyncPc
<1>3. txn[o].pc \notin {"claiming", "enrolling"}
  <2>1. SUFFICES ASSUME txn[o].pc \in {"claiming", "enrolling"} PROVE FALSE
    OBVIOUS
  <2>2. txn[o].held /\ team[Admins] = "live"
    BY <2>1 DEF Inv, CallInv, Decided
  <2>3. txn[t].held
    BY <2>2 DEF Inv, CallInv, Counts
  <2> QED
    BY <2>2, <2>3 DEF Inv, Exclusive
<1>4. txn[o].pc \in {"idle", "done"}
  BY <1>1, <1>2, <1>3
<1> QED
  BY <1>4 DEF Inv, CallInv, Decided

LEMMA SyncWriteKeeps == ASSUME Inv, NEW t \in Txn, SyncWrite(t) PROVE Inv'
<1>1. /\ UNCHANGED tables /\ txn[t].pc = "counted" /\ txn[t] \in TxnRec
      /\ \A u \in MentionedIn(txn[t].decl) : txn[t].known[u] # "unread"
      /\ Carries(t) /\ Reads(t) /\ Counts(t)
  BY DEF SyncWrite, Inv, Tables, TypeOK, CallInv
<1>2. CASE LockedOut(t) /\ Answer(t, "FAILED_PRECONDITION")
  BY <1>1, <1>2, AnswerKeeps DEF Out
<1>3. CASE ~LockedOut(t)
  <2> DEFINE h == txn[t].held \/ Admins \in DOMAIN txn[t].decl
             g == Gone(t)
             n == New(t)
             p == PendingOf(t)
             c == Changed(t)
             q == [txn[t] EXCEPT !.pc = "written", !.held = h, !.gone = g, !.new = n,
                                 !.pending = p, !.changed = c]
  <2>1. txn' = [txn EXCEPT ![t] = q]
    BY <1>3 DEF SyncWrite, Goto
  <2>2. /\ h \in BOOLEAN /\ g \in SUBSET (Team \X User) /\ n \in SUBSET (Team \X User)
        /\ p \in SUBSET User /\ c \in SUBSET User
    BY <1>1, WritesTyped DEF Inv, Tables
  <2>3. txn[t].held => h
    OBVIOUS
  <2> HIDE DEF h, g, n, p, c
  <2>4. /\ q \in TxnRec /\ q.pc = "written" /\ q.decl = txn[t].decl /\ q.known = txn[t].known /\ q.out = txn[t].out
        /\ q.gone = g /\ q.new = n /\ q.pending = p /\ q.changed = c
        /\ q.held <=> h
        /\ q.before <=> txn[t].before
    BY <1>1, <2>2 DEF TxnRec, Pc, SyncPc
  <2> HIDE DEF q
  <2>5. txn'[t] = q
    BY <2>1 DEF Inv, Tables, TypeOK
  <2>6. /\ UNCHANGED <<row, team, member, pending, last>> /\ enrolled' \subseteq User
    BY <1>1 DEF tables, Inv, Tables, TypeOK
  <2>7. Exists' = Exists /\ LiveAdmins' = LiveAdmins
    BY <2>6 DEF Exists, LiveAdmins, MembersOf
  <2>8. /\ LiveAfter(t)' = LiveAfter(t) /\ PendingOf(t)' = p
        /\ Gone(t)' = g /\ New(t)' = n /\ Changed(t)' = c
    BY <2>4, <2>5, <2>6, WritesStill DEF p, g, n, c
  <2>9. Wrote(t)'
    BY <1>1, <1>3, <2>4, <2>5, <2>8 DEF Wrote, LockedOut
  <2>10. Carries(t)' /\ Reads(t)'
    BY <1>1, <2>4, <2>5, <2>6, <2>7 DEF Carries, Reads, SyncPc
  <2>11. Counts(t)' /\ Decided(t)'
    BY <1>1, <2>3, <2>4, <2>5, <2>6, <2>7 DEF Counts, Decided
  <2>12. CallInv(t)' /\ txn[t].pc \in SyncPc
    BY <1>1, <2>9, <2>10, <2>11 DEF CallInv, SyncPc
  <2>13. \A o \in Txn \ {t} : ~txn[o].held
    BY <1>1, SyncAlone
  <2> QED
    BY <2>1, <2>4, <2>6, <2>12, <2>13, QuietStep
<1> QED
  BY <1>2, <1>3 DEF SyncWrite

-----------------------------------------------------------------------------
(* The commit of a sync.                                                   *)

\* A written sync knows exactly who of the declared people exists, and leaves
\* every declared team with those.
LEMMA SyncOutcome ==
    ASSUME Inv, NEW t \in Txn, txn[t].pc = "written"
    PROVE  /\ \A a \in DOMAIN txn[t].decl : Desired(t, a) = txn[t].decl[a] \cap Exists
           /\ MembersWritten(t) \subseteq Team \X User
           /\ \A a \in Team, u \in User :
                 <<a, u>> \in MembersWritten(t) <=>
                    IF a \in DOMAIN txn[t].decl THEN u \in txn[t].decl[a] \cap Exists
                                                ELSE <<a, u>> \in member
<1>1. /\ txn[t].decl \in Declared /\ member \subseteq Team \X User
      /\ Reads(t) /\ Wrote(t) /\ TypeOK
  BY DEF Inv, Tables, TypeOK, TxnRec, CallInv
<1>2. /\ DOMAIN txn[t].decl \subseteq Team
      /\ \A a \in DOMAIN txn[t].decl : txn[t].decl[a] \subseteq MentionedIn(txn[t].decl)
      /\ MentionedIn(txn[t].decl) \subseteq User
  BY <1>1, DeclaredFacts
<1>3. \A u \in MentionedIn(txn[t].decl) : txn[t].known[u] # "Absent" <=> u \in Exists
  <2>1. SUFFICES ASSUME NEW u \in MentionedIn(txn[t].decl)
                 PROVE  txn[t].known[u] # "Absent" <=> u \in Exists
    OBVIOUS
  <2>2. u \in User /\ txn[t].known[u] # "unread" /\ txn[t].known[u] \in Known
    BY <1>1, <1>2 DEF Wrote, TypeOK, TxnRec
  <2>3. row[u] \in {"absent", "live", "deleted"}
    BY <1>1, <2>2 DEF TypeOK
  <2> QED
    BY <1>1, <2>2, <2>3 DEF Reads, SyncPc, Known, Exists
<1>4. ASSUME NEW a \in DOMAIN txn[t].decl PROVE Desired(t, a) = txn[t].decl[a] \cap Exists
  BY <1>2, <1>3 DEF Desired
<1>5. MembersWritten(t) \subseteq Team \X User
  BY <1>1, WritesTyped DEF MembersWritten, Wrote
<1>6. ASSUME NEW a \in Team, NEW u \in User
      PROVE  <<a, u>> \in MembersWritten(t) <=>
                IF a \in DOMAIN txn[t].decl THEN u \in txn[t].decl[a] \cap Exists
                                            ELSE <<a, u>> \in member
  <2>1. <<a, u>> \in MembersWritten(t) <=>
           \/ <<a, u>> \in member /\ <<a, u>> \notin Gone(t)
           \/ <<a, u>> \in New(t)
    BY <1>1 DEF MembersWritten, Wrote
  <2> QED
    BY <1>4, <2>1, GoneIs, NewIs
<1> QED
  BY <1>4, <1>5, <1>6

\* The tables after the commit of a sync.
LEMMA SyncTables ==
    ASSUME Inv, NEW t \in Txn, SyncCommit(t)
    PROVE  /\ \A a \in Team : /\ team'[a] \in {"absent", "live", "archived"}
                              /\ team'[a] = "live" <=> a \in DOMAIN txn[t].decl
                              /\ team[a] # "absent" => team'[a] # "absent"
           /\ \A a \in Team, u \in User :
                 <<a, u>> \in member' <=>
                    IF a \in DOMAIN txn[t].decl THEN u \in txn[t].decl[a] \cap Exists
                                                ELSE <<a, u>> \in member
           /\ member' \subseteq Team \X User
           /\ row' = row /\ enrolled' = enrolled /\ pending' = PendingOf(t)
           /\ last' = [decl |-> txn[t].decl, exists |-> Exists]
<1>1. team' = [a \in Team |-> IF a \in DOMAIN txn[t].decl THEN "live"
                              ELSE IF team[a] = "live" THEN "archived" ELSE team[a]]
  BY DEF SyncCommit
<1>2. team \in [Team -> {"absent", "live", "archived"}] /\ txn[t].pc = "written" /\ Wrote(t)
  BY DEF Inv, Tables, TypeOK, SyncCommit, CallInv
<1>3. member' = MembersWritten(t)
  BY DEF SyncCommit
<1>4. \A a \in Team : /\ team'[a] \in {"absent", "live", "archived"}
                      /\ team'[a] = "live" <=> a \in DOMAIN txn[t].decl
                      /\ team[a] # "absent" => team'[a] # "absent"
  BY <1>1, <1>2
<1>5. /\ row' = row /\ enrolled' = enrolled /\ pending' = PendingOf(t)
      /\ last' = [decl |-> txn[t].decl, exists |-> Exists]
  BY <1>2 DEF SyncCommit, Wrote
<1> QED
  BY <1>2, <1>3, <1>4, <1>5, SyncOutcome

LEMMA SyncCommitKeeps == ASSUME Inv, NEW t \in Txn, SyncCommit(t) PROVE Inv'
<1> DEFINE D == txn[t].decl
           q == [Idle EXCEPT !.pc = "done", !.out = "OK", !.changed = txn[t].changed]
<1>1. /\ txn[t].pc = "written" /\ D \in Declared /\ txn[t].changed \in SUBSET User /\ TypeOK
      /\ Carries(t) /\ Reads(t) /\ Counts(t) /\ Wrote(t)
  BY DEF SyncCommit, Inv, Tables, TypeOK, TxnRec, CallInv
<1>2. /\ DOMAIN D \subseteq Team /\ \A a \in DOMAIN D : D[a] \subseteq User
      /\ \A a \in DOMAIN D : D[a] \subseteq MentionedIn(D)
      /\ MentionedIn(D) \subseteq User /\ Named(D) \subseteq MentionedIn(D)
  BY <1>1, DeclaredFacts
<1>3. /\ \A a \in Team : /\ team'[a] \in {"absent", "live", "archived"}
                         /\ team'[a] = "live" <=> a \in DOMAIN D
                         /\ team[a] # "absent" => team'[a] # "absent"
      /\ \A a \in Team, u \in User :
            <<a, u>> \in member' <=> IF a \in DOMAIN D THEN u \in D[a] \cap Exists
                                                      ELSE <<a, u>> \in member
      /\ member' \subseteq Team \X User
      /\ row' = row /\ enrolled' = enrolled /\ pending' = PendingOf(t)
      /\ last' = [decl |-> D, exists |-> Exists]
  BY SyncTables
<1>4. Exists' = Exists /\ Exists \subseteq User
  BY <1>3 DEF Exists
<1>5. /\ txn' \in [Txn -> TxnRec] /\ \A o \in Txn : txn'[o].pc \in {"idle", "done"} /\ ~txn'[o].held
  <2>1. q \in TxnRec /\ q.pc = "done" /\ ~q.held
    <3>1. "OK" \in Out
      BY DEF Out
    <3>2. PICK c \in SUBSET User : c = txn[t].changed
      BY <1>1
    <3> DEFINE p == [Idle EXCEPT !.pc = "done", !.out = "OK", !.changed = c]
    <3>3. p \in TxnRec /\ p.pc = "done" /\ ~p.held
      BY <3>1, IdleFacts DEF TxnRec, Pc
    <3>4. q = p
      BY <3>2
    <3> HIDE DEF p
    <3> QED
      BY <3>3, <3>4
  <2>2. txn' = [txn EXCEPT ![t] = q] /\ txn \in [Txn -> TxnRec]
    BY DEF SyncCommit, Goto, Inv, Tables, TypeOK
  <2> HIDE DEF q
  <2>3. \A o \in Txn : o # t => txn[o].pc \in {"idle", "done"} /\ ~txn[o].held
    BY <1>1, SyncAlone
  <2> QED
    BY <2>1, <2>2, <2>3
<1>6. pending' # {} => /\ LiveAfter(t) = {} /\ Admins \in DOMAIN D
                       /\ \A u \in pending' : u \in Named(D) /\ txn[t].known[u] = "Absent"
  BY <1>3 DEF PendingOf, Named
<1>7. TypeOK'
  <2>1. team' \in [Team -> {"absent", "live", "archived"}]
    BY <1>3 DEF SyncCommit
  <2>2. member' \subseteq {m \in Team \X User : team'[m[1]] # "absent" /\ row'[m[2]] # "absent"}
    <3>1. ASSUME NEW a \in Team, NEW u \in User, <<a, u>> \in member'
          PROVE  team'[a] # "absent" /\ row'[u] # "absent"
      <4>1. CASE a \in DOMAIN D
        BY <1>3, <3>1, <4>1 DEF Exists
      <4>2. CASE a \notin DOMAIN D
        <5>1. <<a, u>> \in member
          BY <1>3, <3>1, <4>2
        <5>2. team[a] # "absent" /\ row[u] # "absent"
          BY <1>1, <5>1 DEF TypeOK
        <5> QED
          BY <1>3, <5>2
      <4> QED
        BY <4>1, <4>2
    <3> QED
      BY <1>3, <3>1
  <2>3. pending' \subseteq User /\ (pending' # {} => team'[Admins] # "absent")
    BY <1>2, <1>3, <1>6, AdminsAssumption
  <2>4. last' \in [decl : Declared, exists : SUBSET User]
    BY <1>1, <1>3, <1>4
  <2> QED
    BY <1>1, <1>3, <1>5, <2>1, <2>2, <2>3, <2>4 DEF TypeOK
<1>8. PendingMeansNone'
  <2>1. SUFFICES ASSUME pending' # {} PROVE LiveAdmins' = {} /\ pending' \cap Exists' = {}
    BY DEF PendingMeansNone
  <2>2. \A u \in pending' : u \notin Exists'
    BY <1>1, <1>2, <1>4, <1>6, <2>1 DEF Reads, SyncPc, Exists
  <2>3. ASSUME NEW u \in User, <<Admins, u>> \in member', row'[u] = "live" PROVE FALSE
    <3>1. u \in D[Admins] /\ Admins \in DOMAIN D
      BY <1>3, <1>6, <2>1, <2>3, AdminsAssumption
    <3>2. u \in MentionedIn(D) /\ u \in Named(D)
      BY <1>2, <3>1 DEF Named
    <3>3. txn[t].known[u] \in Known \ {"unread", "Absent", "SoftDeleted"}
      <4>1. txn[t].known[u] # "unread" /\ txn[t].known[u] \in Known
        BY <1>1, <3>2 DEF Wrote, TypeOK, TxnRec
      <4>2. row[u] = "live"
        BY <1>3, <2>3
      <4> QED
        BY <1>1, <4>1, <4>2 DEF Reads, SyncPc
    <3>4. u \in LiveAfter(t)
      BY <3>2, <3>3 DEF LiveAfter, Known
    <3> QED
      BY <1>6, <2>1, <3>4
  <2>4. LiveAdmins' = {}
    BY <2>3 DEF LiveAdmins, MembersOf
  <2> QED
    BY <2>2, <2>4
<1>9. PendingNamed'
  <2>1. ASSUME NEW u \in pending' PROVE u \in PreMinted /\ u \in Named(D)
    <3>1. u \in Named(D) /\ txn[t].known[u] = "Absent" /\ u \in MentionedIn(D)
      BY <1>2, <1>6, <2>1
    <3>2. u \notin Exists
      BY <1>1, <1>2, <3>1 DEF Reads, SyncPc, Exists
    <3> QED
      BY <1>1, <3>1, <3>2 DEF Carries, SyncPc
  <2>2. last'.decl = D
    BY <1>3
  <2> QED
    BY <2>1, <2>2 DEF PendingNamed
<1>10. FollowsLast'
  <2>1. last'.decl = D /\ last'.exists = Exists
    BY <1>3
  <2>2. \A a \in DOMAIN D : MembersOf(a)' = D[a] \cap Exists
    BY <1>2, <1>3 DEF MembersOf
  <2> QED
    BY <1>3, <1>4, <2>1, <2>2 DEF FollowsLast
<1>11. Exclusive'
  BY <1>5 DEF Exclusive, SyncPc
<1>12. \A o \in Txn : CallInv(o)'
  BY <1>5, RestHoldsNext
<1> QED
  BY <1>7, <1>8, <1>9, <1>10, <1>11, <1>12 DEF Inv, Tables

-----------------------------------------------------------------------------
(* The claim, the declared arm, and people coming and going.               *)

\* A call that takes the administrators row for its predicate.
LEMMA HoldingIs ==
    ASSUME NEW pc \in {"claiming", "enrolling"}, NEW u \in User
    PROVE  LET q == [Idle EXCEPT !.pc = pc, !.user = u, !.held = TRUE]
           IN  q \in TxnRec /\ q.pc = pc /\ q.user = u /\ q.held
BY IdleFacts DEF TxnRec, Pc

LEMMA ClaimBeginKeeps == ASSUME Inv, NEW t \in Txn, NEW u \in User, ClaimBegin(t, u) PROVE Inv'
<1>1. /\ UNCHANGED tables /\ \A o \in Txn \ {t} : ~txn[o].held
      /\ txn \in [Txn -> TxnRec]
  BY DEF ClaimBegin, AdminsFree, Inv, Tables, TypeOK
<1>2. CASE ClaimAnswer(u) # "OK" /\ Answer(t, ClaimAnswer(u))
  <2>1. ClaimAnswer(u) \in Out
    BY DEF ClaimAnswer, Out
  <2> QED
    BY <1>1, <1>2, <2>1, AnswerKeeps
<1>3. CASE ClaimAnswer(u) = "OK" /\ Goto(t, [Idle EXCEPT !.pc = "claiming", !.user = u, !.held = TRUE])
  <2> DEFINE q == [Idle EXCEPT !.pc = "claiming", !.user = u, !.held = TRUE]
  <2>1. q \in TxnRec /\ q.pc = "claiming" /\ q.user = u /\ q.held
    BY HoldingIs
  <2>2. txn' = [txn EXCEPT ![t] = q]
    BY <1>3 DEF Goto
  <2> HIDE DEF q
  <2>3. /\ UNCHANGED <<row, team, member, pending, last>> /\ enrolled' \subseteq User
        /\ txn'[t] = q
    BY <1>1, <2>2 DEF tables, Inv, Tables, TypeOK
  <2>4. team[Admins] = "live" /\ LiveAdmins = {} /\ row[u] = "absent" /\ u \in pending
    BY <1>3 DEF ClaimAnswer
  <2>5. LiveAdmins' = LiveAdmins
    BY <2>3 DEF LiveAdmins, MembersOf
  <2>6. CallInv(t)'
    BY <2>1, <2>3, <2>4, <2>5 DEF CallInv, Carries, Reads, Counts, Wrote, Decided, SyncPc
  <2>7. q.pc \notin SyncPc
    BY <2>1 DEF SyncPc
  <2> QED
    BY <1>1, <2>1, <2>2, <2>3, <2>6, <2>7, QuietStep
<1> QED
  BY <1>2, <1>3 DEF ClaimBegin

LEMMA EnrolBeginKeeps == ASSUME Inv, NEW t \in Txn, NEW u \in User, EnrolBegin(t, u) PROVE Inv'
<1>1. /\ UNCHANGED tables /\ \A o \in Txn \ {t} : ~txn[o].held
      /\ txn \in [Txn -> TxnRec]
  BY DEF EnrolBegin, AdminsFree, Inv, Tables, TypeOK
<1>2. CASE Answer(t, "PERMISSION_DENIED")
  BY <1>1, <1>2, AnswerKeeps DEF Out
<1>3. CASE Enrollable(u) /\ Goto(t, [Idle EXCEPT !.pc = "enrolling", !.user = u, !.held = TRUE])
  <2> DEFINE q == [Idle EXCEPT !.pc = "enrolling", !.user = u, !.held = TRUE]
  <2>1. q \in TxnRec /\ q.pc = "enrolling" /\ q.user = u /\ q.held
    BY HoldingIs
  <2>2. txn' = [txn EXCEPT ![t] = q]
    BY <1>3 DEF Goto
  <2> HIDE DEF q
  <2>3. /\ UNCHANGED <<row, team, member, pending, last>> /\ enrolled' \subseteq User
        /\ txn'[t] = q
    BY <1>1, <2>2 DEF tables, Inv, Tables, TypeOK
  <2>4. team[Admins] = "live" /\ u \in LiveAdmins
    BY <1>3 DEF Enrollable, LiveAdmins
  <2>5. LiveAdmins' = LiveAdmins
    BY <2>3 DEF LiveAdmins, MembersOf
  <2>6. CallInv(t)'
    BY <2>1, <2>3, <2>4, <2>5 DEF CallInv, Carries, Reads, Counts, Wrote, Decided, SyncPc
  <2>7. q.pc \notin SyncPc
    BY <2>1 DEF SyncPc
  <2> QED
    BY <1>1, <2>1, <2>2, <2>3, <2>6, <2>7, QuietStep
<1> QED
  BY <1>2, <1>3 DEF EnrolBegin

LEMMA EnrolCommitKeeps == ASSUME Inv, NEW t \in Txn, EnrolCommit(t) PROVE Inv'
<1>1. PICK out \in {"OK", "ALREADY_EXISTS"} : Answer(t, out)
  BY DEF EnrolCommit
<1>2. /\ UNCHANGED <<row, team, member, pending, last>> /\ txn[t].user \in LiveAdmins
  BY DEF EnrolCommit, Inv, CallInv, Decided
<1>3. enrolled' \subseteq User
  BY <1>2 DEF EnrolCommit, Inv, Tables, TypeOK, LiveAdmins, MembersOf
<1> DEFINE q == [Idle EXCEPT !.pc = "done", !.out = out]
<1>4. txn' = [txn EXCEPT ![t] = q]
  BY <1>1 DEF Answer, Goto
<1>5. q \in TxnRec /\ q.pc = "done" /\ ~q.held
  <2>1. out \in Out
    BY DEF Out
  <2> QED
    BY <2>1, DoneFacts
<1> HIDE DEF q
<1> QED
  BY <1>2, <1>3, <1>4, <1>5, EndStep

LEMMA ClaimCommitKeeps == ASSUME Inv, NEW t \in Txn, ClaimCommit(t) PROVE Inv'
<1> DEFINE u == txn[t].user
<1>1. /\ txn[t].pc = "claiming" /\ txn[t].held /\ team[Admins] = "live" /\ u \in pending
      /\ row[u] = "absent" /\ LiveAdmins = {} /\ TypeOK /\ PendingNamed /\ FollowsLast
      /\ UNCHANGED <<team, enrolled, last>>
  BY DEF ClaimCommit, Inv, Tables, CallInv, Decided
<1>2. u \in User /\ u \in PreMinted /\ u \in Named(last.decl)
  BY <1>1 DEF TypeOK, PendingNamed
<1>3. PICK out \in {"OK", "ALREADY_EXISTS"} : Answer(t, out)
  BY DEF ClaimCommit
<1> DEFINE q == [Idle EXCEPT !.pc = "done", !.out = out]
<1>4. txn' = [txn EXCEPT ![t] = q]
  BY <1>3 DEF Answer, Goto
<1>5. q \in TxnRec /\ q.pc = "done" /\ ~q.held
  <2>1. out \in Out
    BY DEF Out
  <2> QED
    BY <2>1, DoneFacts
<1> HIDE DEF q
<1>6. CASE UNCHANGED <<row, member, pending>>
  <2>1. UNCHANGED <<row, team, member, pending, last>> /\ enrolled' \subseteq User
    BY <1>1, <1>6 DEF TypeOK
  <2> QED
    BY <1>4, <1>5, <2>1, EndStep
<1>7. CASE /\ row' = [row EXCEPT ![txn[t].user] = "live"]
           /\ member' = member \cup {<<Admins, txn[t].user>>}
           /\ pending' = PendingAfterClaim(txn[t].user)
  <2>1. /\ row' \in [User -> {"absent", "live", "deleted"}]
        /\ row'[u] = "live" /\ \A v \in User : v # u => row'[v] = row[v]
        /\ pending' = {} /\ u \notin Exists /\ Exists' = Exists \cup {u}
    BY <1>1, <1>2, <1>7 DEF TypeOK, PendingAfterClaim, Exists
  <2>2. \A a \in Team, v \in User : <<a, v>> \in member' <=> <<a, v>> \in member \/ (a = Admins /\ v = u)
    BY <1>7
  <2>3. /\ txn' \in [Txn -> TxnRec] /\ txn'[t] = q /\ \A o \in Txn : o # t => txn'[o] = txn[o]
    BY <1>1, <1>4, <1>5 DEF TypeOK
  <2>4. TypeOK'
    <3>1. member' \subseteq {m \in Team \X User : team'[m[1]] # "absent" /\ row'[m[2]] # "absent"}
      <4>1. ASSUME NEW m \in member
            PROVE  m \in Team \X User /\ team'[m[1]] # "absent" /\ row'[m[2]] # "absent"
        <5>1. m \in Team \X User /\ team[m[1]] # "absent" /\ row[m[2]] # "absent"
          BY <1>1 DEF TypeOK
        <5> QED
          BY <1>1, <2>1, <5>1
      <4>2. <<Admins, u>> \in Team \X User /\ team'[Admins] # "absent" /\ row'[u] # "absent"
        BY <1>1, <1>2, <2>1, AdminsAssumption
      <4> QED
        BY <1>7, <4>1, <4>2
    <3> QED
      BY <1>1, <2>1, <2>3, <3>1 DEF TypeOK
  <2>5. PendingMeansNone' /\ PendingNamed'
    BY <2>1 DEF PendingMeansNone, PendingNamed
  <2>6. FollowsLast'
    <3>1. \A a \in Team : MembersOf(a)' = IF a = Admins THEN MembersOf(a) \cup {u} ELSE MembersOf(a)
      BY <1>2, <2>2 DEF MembersOf
    <3>2. Admins \in DOMAIN last.decl /\ u \in last.decl[Admins]
      BY <1>2 DEF Named
    <3>3. DOMAIN last.decl \subseteq Team
      BY <1>1, DeclaredFacts DEF TypeOK
    <3> QED
      BY <1>1, <2>1, <3>1, <3>2, <3>3 DEF FollowsLast
  <2>7. ASSUME NEW o \in Txn, o # t PROVE CallInv(o)'
    <3>1. ~txn[o].held /\ txn'[o] = txn[o] /\ CallInv(o)
      BY <1>1, <2>3, <2>7 DEF Inv, Exclusive
    <3>2. txn[o].pc \notin {"counted", "written", "claiming", "enrolling"}
      BY <1>1, <3>1 DEF CallInv, Counts, Decided
    <3>3. CASE txn[o].pc = "sentinel"
      <4>1. \A v \in User : txn[o].known[v] = "unread"
        BY <3>1, <3>3 DEF CallInv, Counts
      <4> QED
        BY <2>1, <3>1, <3>3, <4>1 DEF CallInv, Carries, Reads, Counts, Wrote, Decided, SyncPc
    <3>4. CASE txn[o].pc \in {"idle", "done"}
      BY <3>1, <3>4, RestHoldsNext
    <3>5. txn[o].pc \in Pc
      BY <1>1 DEF TypeOK, TxnRec
    <3> QED
      BY <3>2, <3>3, <3>4, <3>5 DEF Pc, SyncPc
  <2>8. CallInv(t)'
    BY <1>5, <2>3, RestHoldsNext
  <2>9. Exclusive'
    BY <1>5, <2>3 DEF Inv, Exclusive, SyncPc
  <2> QED
    BY <2>4, <2>5, <2>6, <2>7, <2>8, <2>9 DEF Inv, Tables
<1> QED
  BY <1>6, <1>7 DEF ClaimCommit

\* Somebody comes or goes: the calls in flight are as they were.
LEMMA PeopleKeep ==
    ASSUME Inv, NEW u \in User, NewUser(u) \/ Withdraw(u) PROVE Inv'
<1>1. /\ UNCHANGED <<team, member, pending, enrolled, last, txn>> /\ TypeOK
      /\ PendingMeansNone /\ PendingNamed /\ FollowsLast /\ Exclusive
      /\ row' \in [User -> {"absent", "live", "deleted"}]
      /\ \A v \in User : v # u => row'[v] = row[v]
      /\ \/ row[u] = "absent" /\ row'[u] = "live" /\ u \notin PreMinted
         \/ /\ row[u] = "live" /\ row'[u] = "deleted"
            /\ \A t \in Txn : ~SharesUser(t, u)
  BY DEF NewUser, Withdraw, Inv, Tables, TypeOK
<1>2. \A a : MembersOf(a)' = MembersOf(a)
  BY <1>1 DEF MembersOf
<1>3. Exists \subseteq Exists' /\ Exists' \subseteq Exists \cup {u}
  BY <1>1 DEF Exists
<1>4. row[u] = "absent" => \A a \in Team : u \notin MembersOf(a)
  BY <1>1 DEF TypeOK, MembersOf
<1>5. LiveAdmins' \subseteq LiveAdmins /\ LiveAdmins \ {u} \subseteq LiveAdmins'
  BY <1>1, <1>2, <1>4, AdminsAssumption DEF LiveAdmins, MembersOf
<1>6. TypeOK'
  <2>1. \A v \in User : row[v] # "absent" => row'[v] # "absent"
    BY <1>1
  <2>2. member' \subseteq {m \in Team \X User : team'[m[1]] # "absent" /\ row'[m[2]] # "absent"}
    <3>1. ASSUME NEW m \in member
          PROVE  m \in Team \X User /\ team'[m[1]] # "absent" /\ row'[m[2]] # "absent"
      <4>1. m \in Team \X User /\ team[m[1]] # "absent" /\ row[m[2]] # "absent"
        BY <1>1 DEF TypeOK
      <4> QED
        BY <1>1, <2>1, <4>1
    <3> QED
      BY <1>1, <3>1
  <2> QED
    BY <1>1, <2>2 DEF TypeOK
<1>7. PendingMeansNone' /\ PendingNamed'
  <2>1. u \in Exists' \ Exists => u \notin pending
    BY <1>1 DEF PendingNamed, Exists
  <2> QED
    BY <1>1, <1>3, <1>5, <2>1 DEF PendingMeansNone, PendingNamed
<1>8. FollowsLast'
  BY <1>1, <1>2, <1>3 DEF FollowsLast
<1>9. ASSUME NEW t \in Txn PROVE CallInv(t)'
  <2>1. CallInv(t) /\ txn' = txn
    BY <1>1 DEF Inv
  <2>2. Wrote(t)'
    BY <1>1, <2>1, WroteStill DEF CallInv
  <2>3. Carries(t)'
    BY <1>3, <2>1 DEF CallInv, Carries
  <2>4. Reads(t)'
    <3>1. SUFFICES ASSUME NEW v \in User, txn[t].pc \in SyncPc
                   PROVE  /\ txn[t].known[v] = "Absent" => row'[v] = "absent"
                          /\ txn[t].known[v] = "SoftDeleted" => row'[v] = "deleted"
                          /\ txn[t].known[v] = "Live" => row'[v] # "absent"
      BY <2>1 DEF Reads
    <3>2. /\ txn[t].known[v] = "Absent" => row[v] = "absent"
          /\ txn[t].known[v] = "SoftDeleted" => row[v] = "deleted"
          /\ txn[t].known[v] = "Live" => row[v] # "absent"
          /\ txn[t].known[v] # "unread" => v \in Exists \cup PreMinted
      BY <2>1, <3>1 DEF CallInv, Reads, Carries
    <3> QED
      BY <1>1, <3>2 DEF Exists
  <2>5. Counts(t)'
    BY <1>1, <1>5, <2>1 DEF CallInv, Counts
  <2>6. Decided(t)'
    <3>1. txn[t].pc = "claiming" => row'[txn[t].user] = "absent"
      <4>1. txn[t].pc = "claiming" => txn[t].user \in pending /\ row[txn[t].user] = "absent"
        BY <2>1 DEF CallInv, Decided
      <4>2. pending \subseteq User /\ pending \subseteq PreMinted
        BY <1>1 DEF TypeOK, PendingNamed
      <4> QED
        BY <1>1, <4>1, <4>2
    <3>2. txn[t].pc = "enrolling" => txn[t].user \in LiveAdmins'
      <4>1. SUFFICES ASSUME txn[t].pc = "enrolling" PROVE txn[t].user \in LiveAdmins'
        OBVIOUS
      <4>2. txn[t].user \in LiveAdmins
        BY <2>1, <4>1 DEF CallInv, Decided
      <4>3. txn[t].user # u
        BY <1>1, <4>1, <4>2 DEF SharesUser, LiveAdmins
      <4> QED
        BY <1>5, <4>2, <4>3
    <3> QED
      BY <1>1, <1>5, <2>1, <3>1, <3>2 DEF CallInv, Decided
  <2> QED
    BY <2>2, <2>3, <2>4, <2>5, <2>6 DEF CallInv
<1>10. Exclusive'
  BY <1>1 DEF Exclusive
<1> QED
  BY <1>6, <1>7, <1>8, <1>9, <1>10 DEF Inv, Tables

-----------------------------------------------------------------------------
(* The invariant.                                                          *)

\* Every statement of every call, a call dropped anywhere, and people coming
\* and going keep it.
THEOREM TeamsInvariance == Spec => []Inv
<1>1. Init => Inv
  <2>1. SUFFICES ASSUME Init PROVE Inv
    OBVIOUS
  <2>2. txn \in [Txn -> TxnRec] /\ \A t \in Txn : txn[t] = Idle
    BY <2>1, IdleFacts DEF Init
  <2>3. last.decl = NoTeams /\ last.exists = {} /\ last \in [decl : Declared, exists : SUBSET User]
    BY <2>1, NoTeamsFacts DEF Init
  <2>4. TypeOK
    BY <2>1, <2>2, <2>3 DEF Init, TypeOK
  <2>5. PendingMeansNone /\ PendingNamed
    BY <2>1 DEF Init, PendingMeansNone, PendingNamed
  <2>6. FollowsLast
    BY <2>1, <2>3, NoTeamsFacts DEF Init, FollowsLast
  <2>7. \A t \in Txn : CallInv(t)
    BY <2>2, IdleFacts, RestHolds
  <2>8. Exclusive
    BY <2>2, IdleFacts DEF Exclusive, SyncPc
  <2> QED
    BY <2>4, <2>5, <2>6, <2>7, <2>8 DEF Inv, Tables
<1>2. Inv /\ [Next]_vars => Inv'
  <2>1. SUFFICES ASSUME Inv, [Next]_vars PROVE Inv'
    OBVIOUS
  <2>2. CASE UNCHANGED vars
    <3>1. UNCHANGED <<row, team, member, pending, enrolled, last, txn>>
      BY <2>2 DEF vars
    <3>2. Exists' = Exists /\ LiveAdmins' = LiveAdmins /\ \A a : MembersOf(a)' = MembersOf(a)
      BY <3>1 DEF Exists, LiveAdmins, MembersOf
    <3>3. TypeOK'
      BY <2>1, <3>1 DEF Inv, Tables, TypeOK
    <3>4. PendingMeansNone' /\ PendingNamed' /\ FollowsLast' /\ Exclusive'
      BY <2>1, <3>1, <3>2 DEF Inv, Tables, PendingMeansNone, PendingNamed, FollowsLast, Exclusive
    <3>5. ASSUME NEW t \in Txn PROVE CallInv(t)'
      <4>1. Wrote(t)'
        BY <2>1, <3>1, WroteStill DEF Inv, CallInv
      <4> QED
        BY <2>1, <3>1, <3>2, <4>1 DEF Inv, CallInv, Carries, Reads, Counts, Decided
    <3> QED
      BY <3>3, <3>4, <3>5 DEF Inv, Tables
  <2>3. ASSUME NEW t \in Txn, Begin(t) PROVE Inv'
    <3>1. Retired(t) => Inv'
      BY <2>1, AnswerKeeps DEF Retired, Out
    <3> QED
      BY <2>1, <2>3, <3>1, SyncBeginKeeps, ClaimBeginKeeps, EnrolBeginKeeps DEF Begin
  <2>4. ASSUME NEW t \in Txn, Step(t) PROVE Inv'
    BY <2>1, <2>4, SyncCountKeeps, SyncWriteKeeps, SyncCommitKeeps, ClaimCommitKeeps,
       EnrolCommitKeeps, SyncKnowKeeps DEF Step
  <2>5. ASSUME NEW t \in Txn, Drop(t) PROVE Inv'
    <3>1. /\ UNCHANGED <<row, team, member, pending, last>> /\ enrolled' \subseteq User
          /\ txn' = [txn EXCEPT ![t] = Idle]
      BY <2>1, <2>5 DEF Drop, Goto, tables, Inv, Tables, TypeOK
    <3> QED
      BY <2>1, <3>1, IdleFacts, EndStep
  <2> QED
    BY <2>1, <2>2, <2>3, <2>4, <2>5, PeopleKeep DEF Next
<1> QED
  BY <1>1, <1>2, PTL DEF Spec

\* Every foreign key names a row, and a pending row an id that can be claimed.
THEOREM TeamsAreSound == Spec => []TeamsInv
<1>1. Inv => TeamsInv
  BY DEF Inv, Tables, TeamsInv
<1> QED
  BY <1>1, TeamsInvariance, PTL

-----------------------------------------------------------------------------
(* What a step may never do.                                               *)

\* Which steps change what.
LEMMA OnlyCommits ==
    ASSUME [Next]_vars
    PROVE  \/ UNCHANGED <<row, team, member, pending, last>>
           \/ \E t \in Txn : SyncCommit(t)
           \/ \E t \in Txn : ClaimCommit(t)
           \/ \E u \in User : NewUser(u) \/ Withdraw(u)
BY DEF vars, tables, Next, Begin, Retired, SyncBegin, ClaimBegin, EnrolBegin, Step, SyncCount, SyncWrite,
       EnrolCommit, SyncKnow, Drop

\* What a claim that commits does, or one that is refused.
LEMMA ClaimDoes ==
    ASSUME Inv, NEW t \in Txn, ClaimCommit(t)
    PROVE  LET u == txn[t].user IN
           /\ UNCHANGED <<team, enrolled, last>> /\ team[Admins] = "live"
           /\ u \in pending /\ row[u] = "absent" /\ LiveAdmins = {} /\ u \in Named(last.decl)
           /\ \/ UNCHANGED <<row, member, pending>>
              \/ /\ row' = [row EXCEPT ![u] = "live"] /\ pending' = {}
                 /\ member' = member \cup {<<Admins, u>>}
BY DEF ClaimCommit, PendingAfterClaim, Inv, Tables, PendingNamed, CallInv, Decided

\* ADR-0963 (6): the lockout guard holds from the count to the commit.
THEOREM NobodyIsLockedOut == Spec => NoLockout
<1> DEFINE Kept == (LiveAdmins # {} /\ LiveAdmins' = {}) =>
                      \E u \in User : /\ row'[u] = "deleted"
                                      /\ \/ row[u] = "live"
                                         \/ \E t \in Txn : /\ txn[t].pc = "written"
                                                           /\ u \in LiveAfter(t)
<1>1. ASSUME Inv, [Next]_vars PROVE Kept
  <2>1. SUFFICES ASSUME LiveAdmins # {}, LiveAdmins' = {}
                 PROVE  \E u \in User : /\ row'[u] = "deleted"
                                        /\ \/ row[u] = "live"
                                           \/ \E t \in Txn : txn[t].pc = "written" /\ u \in LiveAfter(t)
    OBVIOUS
  <2>2. CASE UNCHANGED <<row, team, member, pending, last>>
    <3>1. LiveAdmins' = LiveAdmins
      BY <2>2 DEF LiveAdmins, MembersOf
    <3> QED
      BY <2>1, <3>1
  <2>3. ASSUME NEW t \in Txn, SyncCommit(t)
        PROVE  \E u \in User : row'[u] = "deleted" /\ txn[t].pc = "written" /\ u \in LiveAfter(t)
    <3>1. /\ txn[t].pc = "written" /\ Wrote(t) /\ Reads(t) /\ Counts(t)
          /\ txn[t].decl \in Declared /\ TypeOK
      BY <1>1, <2>3 DEF SyncCommit, Inv, Tables, CallInv, TypeOK, TxnRec
    <3>2. txn[t].before
      BY <2>1, <3>1 DEF Counts
    <3>3. PICK u \in LiveAfter(t) : TRUE
      BY <3>1, <3>2 DEF Wrote, LockedOut
    <3>4. u \in Named(txn[t].decl) /\ txn[t].known[u] = "Live"
      BY DEF LiveAfter
    <3>5. /\ u \in User /\ Admins \in DOMAIN txn[t].decl /\ u \in txn[t].decl[Admins]
      BY <3>1, <3>4, DeclaredFacts DEF Named
    <3>6. u \in Exists
      BY <3>1, <3>4, <3>5 DEF Reads, SyncPc, Exists
    <3>7. row' = row /\ team'[Admins] = "live" /\ <<Admins, u>> \in member'
      BY <1>1, <2>3, <3>5, <3>6, SyncTables, AdminsAssumption
    <3>8. row'[u] # "live"
      BY <2>1, <3>5, <3>7 DEF LiveAdmins, MembersOf
    <3>9. row[u] \in {"absent", "live", "deleted"} /\ row[u] # "absent"
      BY <3>1, <3>5, <3>6 DEF TypeOK, Exists
    <3> QED
      BY <3>1, <3>5, <3>7, <3>8, <3>9
  <2>4. ASSUME NEW t \in Txn, ClaimCommit(t) PROVE FALSE
    BY <1>1, <2>1, <2>4, ClaimDoes
  <2>5. ASSUME NEW u \in User, NewUser(u) \/ Withdraw(u)
        PROVE  row'[u] = "deleted" /\ row[u] = "live"
    <3>1. PICK v \in LiveAdmins : TRUE
      BY <2>1
    <3>2. v \in User /\ row[v] = "live"
      BY DEF LiveAdmins, MembersOf
    <3>3. team' = team /\ member' = member /\ row \in [User -> {"absent", "live", "deleted"}]
      BY <1>1, <2>5 DEF NewUser, Withdraw, Inv, Tables, TypeOK
    <3>4. row'[v] # "live"
      BY <2>1, <3>1, <3>2, <3>3 DEF LiveAdmins, MembersOf
    <3> QED
      BY <2>5, <3>2, <3>3, <3>4 DEF NewUser, Withdraw
  <2> QED
    BY <1>1, <2>2, <2>3, <2>4, <2>5, OnlyCommits
<1>2. Spec => [][Kept]_vars
  BY <1>1, TeamsInvariance, PTL DEF Spec
<1> QED
  BY <1>2 DEF NoLockout

\* Of two bootstraps in flight, or a bootstrap and a sync, one loses: a minted
\* id is claimed only while nobody live administers.
THEOREM ClaimsComeFirst == Spec => ClaimOnlyWhenNone
<1> DEFINE First == \A u \in PreMinted : (row[u] = "absent" /\ row'[u] = "live") =>
                       LiveAdmins = {} /\ u \in Named(last.decl)
<1>1. ASSUME Inv, [Next]_vars PROVE First
  <2>1. SUFFICES ASSUME NEW u \in PreMinted, row[u] = "absent", row'[u] = "live"
                 PROVE  LiveAdmins = {} /\ u \in Named(last.decl)
    OBVIOUS
  <2>2. u \in User /\ row \in [User -> {"absent", "live", "deleted"}]
    BY <1>1, PreMintedAssumption DEF Inv, Tables, TypeOK
  <2>3. ASSUME NEW v \in User, NewUser(v) \/ Withdraw(v) PROVE FALSE
    BY <2>1, <2>2, <2>3 DEF NewUser, Withdraw
  <2>4. ASSUME NEW t \in Txn, SyncCommit(t) PROVE FALSE
    BY <2>1, <2>4 DEF SyncCommit
  <2>5. ASSUME NEW t \in Txn, ClaimCommit(t) PROVE LiveAdmins = {} /\ u \in Named(last.decl)
    BY <1>1, <2>1, <2>2, <2>5, ClaimDoes
  <2> QED
    BY <1>1, <2>1, <2>3, <2>4, <2>5, OnlyCommits
<1>2. Spec => [][First]_vars
  BY <1>1, TeamsInvariance, PTL DEF Spec
<1> QED
  BY <1>2 DEF ClaimOnlyWhenNone

\* declared.rs: who is enrolled is a live administrator when the enrolment
\* appears.
THEOREM EnrolmentsAreDeclared == Spec => EnrolsAdministratorsOnly
<1> DEFINE Only == \A u \in User : u \in enrolled' \ enrolled => u \in LiveAdmins
<1>1. ASSUME Inv, [Next]_vars PROVE Only
  <2>1. SUFFICES ASSUME NEW u \in enrolled', u \notin enrolled PROVE u \in LiveAdmins
    OBVIOUS
  <2>2. PICK t \in Txn : EnrolCommit(t)
    BY <1>1, <2>1 DEF vars, tables, Next, Begin, Retired, SyncBegin, ClaimBegin, EnrolBegin, Step, SyncCount,
                      SyncWrite, SyncCommit, ClaimCommit, SyncKnow, Drop, NewUser, Withdraw
  <2>3. txn[t].user \in LiveAdmins
    BY <1>1, <2>2 DEF EnrolCommit, Inv, CallInv, Decided
  <2> QED
    BY <2>1, <2>2, <2>3 DEF EnrolCommit
<1>2. Spec => [][Only]_vars
  BY <1>1, TeamsInvariance, PTL DEF Spec
<1> QED
  BY <1>2 DEF EnrolsAdministratorsOnly

\* The answer of a sync that commits.
LEMMA SyncAnswers ==
    ASSUME Inv, NEW t \in Txn, SyncCommit(t)
    PROVE  txn'[t].changed = Changed(t)
<1>1. /\ txn \in [Txn -> TxnRec] /\ Wrote(t) /\ txn[t].pc = "written"
  BY DEF SyncCommit, Inv, Tables, TypeOK, CallInv
<1>2. PICK c \in SUBSET User : c = txn[t].changed /\ c = Changed(t)
  BY <1>1 DEF Wrote, TxnRec
<1> DEFINE q == [Idle EXCEPT !.pc = "done", !.out = "OK", !.changed = c]
<1>3. txn' = [txn EXCEPT ![t] = q]
  BY <1>2 DEF SyncCommit, Goto
<1>4. q.changed = c
  BY IdleFacts DEF TxnRec
<1> HIDE DEF q
<1> QED
  BY <1>1, <1>2, <1>3, <1>4

\* Only its own commit answers a written sync.
LEMMA OnlyItsCommit ==
    ASSUME Inv, [Next]_vars, NEW t \in Txn, txn[t].pc = "written", txn'[t].out = "OK"
    PROVE  SyncCommit(t)
<1>1. txn \in [Txn -> TxnRec] /\ txn[t].out # "OK"
  BY DEF Inv, Tables, TypeOK, CallInv, Carries, SyncPc
<1>2. PICK o \in Txn : Begin(o) \/ Step(o) \/ Drop(o)
  BY <1>1 DEF Next, vars, NewUser, Withdraw
<1>3. o = t
  <2>1. SUFFICES ASSUME o # t PROVE txn'[t] = txn[t]
    BY <1>1
  <2>2. PICK q : txn' = [txn EXCEPT ![o] = q]
    BY <1>2 DEF Begin, Retired, SyncBegin, ClaimBegin, EnrolBegin, Step, SyncCount, SyncWrite, SyncCommit,
                ClaimCommit, EnrolCommit, SyncKnow, Drop, Goto, Answer
  <2> QED
    BY <1>1, <2>1, <2>2
<1>4. ~Drop(t)
  <2>1. SUFFICES ASSUME Drop(t) PROVE txn'[t].out = "none"
    OBVIOUS
  <2> QED
    BY <1>1, <2>1, IdleFacts DEF Drop, Goto
<1> QED
  BY <1>2, <1>3, <1>4 DEF Begin, Retired, SyncBegin, ClaimBegin, EnrolBegin, Step, SyncCount, SyncWrite,
                          ClaimCommit, EnrolCommit, SyncKnow

\* The live teams a sync leaves a person in.
LEMMA SyncGrants ==
    ASSUME Inv, NEW t \in Txn, SyncCommit(t), NEW u \in User
    PROVE  LiveTeams(u)' = {a \in DOMAIN txn[t].decl : u \in txn[t].decl[a] /\ u \in Exists}
<1>1. DOMAIN txn[t].decl \subseteq Team
  BY DeclaredFacts DEF Inv, Tables, TypeOK, TxnRec
<1>2. \A a \in Team : /\ team'[a] = "live" <=> a \in DOMAIN txn[t].decl
                      /\ <<a, u>> \in member' <=>
                            IF a \in DOMAIN txn[t].decl THEN u \in txn[t].decl[a] \cap Exists
                                                        ELSE <<a, u>> \in member
  BY SyncTables
<1> QED
  BY <1>1, <1>2 DEF LiveTeams

\* changed_user_ids names whoever's live team set the sync changes.
THEOREM ChangesAreReported == Spec => ChangedMissesNobody
<1> DEFINE Reported == \A t \in Txn : \A u \in User :
              (txn[t].pc = "written" /\ txn'[t].out = "OK" /\ LiveTeams(u)' # LiveTeams(u))
                 => u \in txn'[t].changed
<1>1. ASSUME Inv, [Next]_vars PROVE Reported
  <2>1. SUFFICES ASSUME NEW t \in Txn, NEW u \in User, txn[t].pc = "written", txn'[t].out = "OK",
                        u \notin txn'[t].changed
                 PROVE  LiveTeams(u)' = LiveTeams(u)
    OBVIOUS
  <2>2. SyncCommit(t)
    BY <1>1, <2>1, OnlyItsCommit
  <2>3. u \notin Changed(t)
    BY <1>1, <2>1, <2>2, SyncAnswers
  <2>4. /\ \A a \in Archived(t) : u \notin MembersOf(a)
        /\ \A a \in Reactivated(t) : u \notin Desired(t, a)
        /\ \A m \in Gone(t) \cup New(t) : u # m[2]
    BY <2>3, ChangedIs
  <2>5. DOMAIN txn[t].decl \subseteq Team /\ TypeOK
    BY <1>1, DeclaredFacts DEF Inv, Tables, TypeOK, TxnRec
  <2>6. \A a \in Team : <<a, u>> \notin Gone(t) /\ <<a, u>> \notin New(t)
    <3>1. \A a \in Team : <<a, u>>[2] = u
      OBVIOUS
    <3> QED
      BY <2>4, <3>1
  <2>7. LiveTeams(u)' = {a \in DOMAIN txn[t].decl : u \in txn[t].decl[a] /\ u \in Exists}
    BY <1>1, <2>2, SyncGrants
  <2>8. \A a \in DOMAIN txn[t].decl : Desired(t, a) = txn[t].decl[a] \cap Exists
    BY <1>1, <2>1, SyncOutcome
  <2>9. ASSUME NEW a \in Team PROVE a \in LiveTeams(u)' <=> a \in LiveTeams(u)
    <3>1. CASE a \notin DOMAIN txn[t].decl
      <4>1. a \in LiveTeams(u) => a \in Archived(t) /\ u \in MembersOf(a)
        BY <3>1 DEF LiveTeams, Archived, MembersOf
      <4> QED
        BY <2>4, <2>7, <3>1, <4>1
    <3>2. CASE a \in DOMAIN txn[t].decl
      <4>1. u \in Desired(t, a) <=> <<a, u>> \in member
        BY <2>6, <3>2, GoneIs, NewIs
      <4>2. a \in LiveTeams(u)' <=> <<a, u>> \in member
        BY <2>7, <2>8, <3>2, <4>1
      <4>3. <<a, u>> \in member => team[a] = "live"
        <5>1. <<a, u>> \in member => team[a] # "absent" /\ team[a] # "archived"
          BY <2>4, <2>5, <3>2, <4>1 DEF TypeOK, Reactivated
        <5> QED
          BY <2>5, <5>1 DEF TypeOK
      <4> QED
        BY <4>2, <4>3 DEF LiveTeams
    <3> QED
      BY <3>1, <3>2
  <2>10. LiveTeams(u) \subseteq Team /\ LiveTeams(u)' \subseteq Team
    BY DEF LiveTeams
  <2> QED
    BY <2>9, <2>10
<1>2. Spec => [][Reported]_vars
  BY <1>1, TeamsInvariance, PTL DEF Spec
<1> QED
  BY <1>2 DEF ChangedMissesNobody

\* sync.rs: the same declaration twice changes nothing the second time.
THEOREM SyncConverges == Spec => Converges
<1> DEFINE Twice == \A t \in Txn :
              (/\ txn[t].pc = "written" /\ txn'[t].out = "OK"
               /\ txn[t].decl = last.decl
               /\ MentionedIn(last.decl) \cap Exists \subseteq last.exists)
                 => /\ txn'[t].changed = {}
                    /\ team' = team
                    /\ \A u \in User : LiveTeams(u)' = LiveTeams(u)
<1>1. ASSUME Inv, [Next]_vars PROVE Twice
  <2>1. SUFFICES ASSUME NEW t \in Txn, txn[t].pc = "written", txn'[t].out = "OK", txn[t].decl = last.decl,
                        MentionedIn(last.decl) \cap Exists \subseteq last.exists
                 PROVE  /\ txn'[t].changed = {}
                        /\ team' = team
                        /\ \A u \in User : LiveTeams(u)' = LiveTeams(u)
    OBVIOUS
  <2>2. SyncCommit(t)
    BY <1>1, <2>1, OnlyItsCommit
  <2>3. /\ TypeOK /\ FollowsLast /\ member \subseteq Team \X User
        /\ DOMAIN last.decl \subseteq Team
        /\ \A a \in DOMAIN last.decl : last.decl[a] \subseteq MentionedIn(last.decl) /\ last.decl[a] \subseteq User
    BY <1>1, DeclaredFacts DEF Inv, Tables, TypeOK
  <2>4. \A a \in Team : team[a] = "live" <=> a \in DOMAIN last.decl
    BY <2>3 DEF FollowsLast
  <2>5. \A a \in DOMAIN last.decl : MembersOf(a) = last.decl[a] \cap Exists
    <3>1. \A a \in DOMAIN last.decl : MembersOf(a) \subseteq Exists
      BY <2>3 DEF TypeOK, MembersOf, Exists
    <3> QED
      BY <2>1, <2>3, <3>1 DEF FollowsLast
  <2>6. \A a \in DOMAIN last.decl : Desired(t, a) = MembersOf(a)
    BY <1>1, <2>1, <2>5, SyncOutcome
  <2>7. Gone(t) = {} /\ New(t) = {}
    <3>1. Gone(t) \subseteq Team \X User /\ New(t) \subseteq Team \X User
      BY <2>3, WritesTyped
    <3>2. ASSUME NEW a \in Team, NEW u \in User PROVE <<a, u>> \notin Gone(t) /\ <<a, u>> \notin New(t)
      <4>1. u \in MembersOf(a) <=> <<a, u>> \in member
        BY DEF MembersOf
      <4> QED
        BY <2>1, <2>6, <4>1, GoneIs, NewIs
    <3> QED
      BY <3>1, <3>2
  <2>8. Archived(t) = {} /\ Reactivated(t) = {}
    BY <2>1, <2>3, <2>4 DEF Archived, Reactivated
  <2>9. txn'[t].changed = {}
    BY <1>1, <2>2, <2>7, <2>8, SyncAnswers, ChangedIs
  <2>10. team' = team
    <3>1. team' = [a \in Team |-> IF a \in DOMAIN txn[t].decl THEN "live"
                                  ELSE IF team[a] = "live" THEN "archived" ELSE team[a]]
      BY <2>2 DEF SyncCommit
    <3>2. \A a \in Team : team'[a] = team[a]
      BY <2>1, <2>4, <3>1
    <3> QED
      BY <2>3, <3>1, <3>2 DEF TypeOK
  <2>11. ASSUME NEW u \in User PROVE LiveTeams(u)' = LiveTeams(u)
    <3>1. LiveTeams(u)' = {a \in DOMAIN last.decl : u \in last.decl[a] /\ u \in Exists}
      BY <1>1, <2>1, <2>2, SyncGrants
    <3>2. LiveTeams(u) = {a \in DOMAIN last.decl : u \in MembersOf(a)}
      BY <2>3, <2>4 DEF LiveTeams, MembersOf
    <3> QED
      BY <2>5, <3>1, <3>2
  <2> QED
    BY <2>9, <2>10, <2>11
<1>2. Spec => [][Twice]_vars
  BY <1>1, TeamsInvariance, PTL DEF Spec
<1> QED
  BY <1>2 DEF Converges

-----------------------------------------------------------------------------
(* The statements implement the promise.                                   *)

grants == [u \in User |-> LiveTeams(u)]

\* The administrators the promise speaks of are those the statements count.
LEMMA SameAdmins ==
    /\ Promise!Exists = Exists
    /\ Promise!LiveAdmins = LiveAdmins
    /\ \A D : Promise!Named(D) = Named(D)
<1>1. Promise!Exists = Exists /\ \A D : Promise!Named(D) = Named(D)
  BY DEF Promise!Exists, Exists, Promise!Named, Named
<1>2. \A u \in User : Admins \in LiveTeams(u) <=> team[Admins] = "live" /\ u \in MembersOf(Admins)
  BY AdminsAssumption DEF LiveTeams, MembersOf
<1>3. Promise!LiveAdmins = LiveAdmins
  BY <1>2 DEF Promise!LiveAdmins, Promise!Live, LiveAdmins, MembersOf
<1> QED
  BY <1>1, <1>3

LEMMA SyncDeclares ==
    ASSUME Inv, NEW t \in Txn, SyncCommit(t)
    PROVE  \E D \in Declaration, seen \in SUBSET Promise!Exists : Promise!Declare(D, seen)
<1> DEFINE D == txn[t].decl
           seen == {u \in Exists : row[u] = "live" \/ u \in LiveAfter(t)}
<1>1. /\ txn[t].pc = "written" /\ D \in Declaration /\ D \in Declared /\ TypeOK
      /\ Reads(t) /\ Counts(t) /\ Wrote(t) /\ row' = row /\ pending' = PendingOf(t)
  BY SyncTables DEF SyncCommit, Inv, Tables, TypeOK, TxnRec, CallInv, Carries, SyncPc
<1>2. Named(D) \subseteq MentionedIn(D) /\ MentionedIn(D) \subseteq User
  BY <1>1, DeclaredFacts
<1>3. ASSUME NEW u \in Named(D)
      PROVE  /\ u \in seen <=> u \in LiveAfter(t)
             /\ txn[t].known[u] = "Absent" <=> u \notin Exists
  <2>1. u \in User /\ txn[t].known[u] \in Known /\ txn[t].known[u] # "unread"
        /\ row[u] \in {"absent", "live", "deleted"}
    BY <1>1, <1>2, <1>3 DEF Wrote, TypeOK, TxnRec
  <2>2. /\ txn[t].known[u] = "Absent" => row[u] = "absent"
        /\ txn[t].known[u] = "SoftDeleted" => row[u] = "deleted"
        /\ txn[t].known[u] = "Live" => row[u] # "absent"
    BY <1>1, <2>1 DEF Reads, SyncPc
  <2>3. u \in LiveAfter(t) <=> txn[t].known[u] = "Live"
    BY <1>3 DEF LiveAfter
  <2>4. u \in Exists <=> row[u] # "absent"
    BY <2>1 DEF Exists
  <2> QED
    BY <2>1, <2>2, <2>3, <2>4 DEF Known
<1>4. LiveAfter(t) = seen \cap Named(D)
  <2>1. LiveAfter(t) \subseteq Named(D)
    BY DEF LiveAfter
  <2> HIDE DEF seen
  <2> QED
    BY <1>3, <2>1
<1>5. PendingOf(t) = IF seen \cap Named(D) = {} THEN Named(D) \ Exists ELSE {}
  <2>1. {u \in Named(D) : txn[t].known[u] = "Absent"} = Named(D) \ Exists
    BY <1>3
  <2> HIDE DEF seen
  <2> QED
    BY <1>4, <2>1 DEF PendingOf
<1>6. LiveAdmins # {} => seen \cap Named(D) # {}
  <2> HIDE DEF seen
  <2> QED
    BY <1>1, <1>4 DEF Counts, Wrote, LockedOut
<1>7. grants' = [u \in User |-> {a \in DOMAIN D : u \in D[a] /\ u \in Exists}]
  BY SyncGrants DEF grants
<1>8. Promise!Live \subseteq seen /\ seen \in SUBSET Promise!Exists
  BY SameAdmins DEF Promise!Live, Exists
<1>9. Promise!Declare(D, seen)
  <2> HIDE DEF seen, D
  <2> QED
    BY <1>1, <1>5, <1>6, <1>7, <1>8, SameAdmins DEF Promise!Declare, grants
<1> QED
  BY <1>1, <1>8, <1>9

LEMMA ClaimClaims ==
    ASSUME Inv, NEW t \in Txn, ClaimCommit(t), ~UNCHANGED <<row, member, pending>>
    PROVE  Promise!Claim(txn[t].user)
<1> DEFINE u == txn[t].user
<1>1. /\ UNCHANGED <<team, enrolled, last>> /\ team[Admins] = "live"
      /\ u \in pending /\ row[u] = "absent" /\ LiveAdmins = {}
      /\ row' = [row EXCEPT ![u] = "live"] /\ pending' = {}
      /\ member' = member \cup {<<Admins, u>>}
  BY ClaimDoes
<1>2. u \in User /\ TypeOK
  BY <1>1 DEF Inv, Tables, TypeOK
<1>3. \A a \in Team, v \in User : <<a, v>> \in member' <=> <<a, v>> \in member \/ (a = Admins /\ v = u)
  BY <1>1
<1>4. \A a \in Team : <<a, u>> \notin member
  BY <1>1, <1>2 DEF TypeOK
<1>5. \A v \in User : LiveTeams(v)' = IF v = u THEN {Admins} ELSE LiveTeams(v)
  BY <1>1, <1>2, <1>3, <1>4, AdminsAssumption DEF LiveTeams
<1>6. grants' = [grants EXCEPT ![u] = {Admins}]
  BY <1>2, <1>5 DEF grants
<1> QED
  BY <1>1, <1>6, SameAdmins DEF Promise!Claim, grants

\* ResolveCredential's view of every statement-level behaviour is one of whole
\* declarations, claims, and people coming and going.
THEOREM StatementsKeepThePromise == Spec => ImplementsPromise
<1>1. Init => Promise!AtomicInit
  BY DEF Init, Promise!AtomicInit, LiveTeams
<1>2. ASSUME Inv, [Next]_vars
      PROVE  [Promise!AtomicNext]_<<row, grants, pending>>
  <2>1. CASE UNCHANGED <<row, team, member, pending, last>>
    <3>1. UNCHANGED <<row, grants, pending>>
      BY <2>1 DEF grants, LiveTeams
    <3> QED
      BY <3>1
  <2>2. ASSUME NEW t \in Txn, SyncCommit(t) PROVE Promise!AtomicNext
    BY <1>2, <2>2, SyncDeclares DEF Promise!AtomicNext
  <2>3. ASSUME NEW t \in Txn, ClaimCommit(t) PROVE [Promise!AtomicNext]_<<row, grants, pending>>
    <3>1. CASE UNCHANGED <<row, member, pending>>
      <4>1. UNCHANGED <<row, grants, pending>>
        BY <2>3, <3>1 DEF ClaimCommit, grants, LiveTeams
      <4> QED
        BY <4>1
    <3>2. CASE ~UNCHANGED <<row, member, pending>>
      <4>1. txn[t].user \in User
        BY <1>2, <2>3, ClaimDoes DEF Inv, Tables, TypeOK
      <4> QED
        BY <1>2, <2>3, <3>2, <4>1, ClaimClaims DEF Promise!AtomicNext
    <3> QED
      BY <3>1, <3>2
  <2>4. ASSUME NEW u \in User, NewUser(u) \/ Withdraw(u) PROVE Promise!AtomicNext
    <3>1. grants' = grants
      BY <2>4 DEF NewUser, Withdraw, grants, LiveTeams
    <3>2. Promise!Join(u) \/ Promise!Leave(u)
      BY <2>4, <3>1 DEF NewUser, Withdraw, Promise!Join, Promise!Leave, grants
    <3> QED
      BY <3>2 DEF Promise!AtomicNext
  <2> QED
    BY <1>2, <2>1, <2>2, <2>3, <2>4, OnlyCommits
<1>3. ASSUME Inv, [Next]_vars
      PROVE  [Promise!AtomicNext]_<<row, [u \in User |-> LiveTeams(u)], pending>>
  BY <1>2, <1>3 DEF grants
<1> QED
  BY <1>1, <1>3, TeamsInvariance, PTL DEF Spec, ImplementsPromise, Promise!AtomicSpec
=============================================================================
