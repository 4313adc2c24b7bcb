--------------------------- MODULE ServingProofs ---------------------------
(***************************************************************************)
(* Theorems about Serving and the ConnPool inside it: a pooled connection  *)
(* is like a new one, the wait for a connection is answered in time and by *)
(* the right name, and the end of the process cuts only calls that nothing *)
(* else would have ended.  For any pool, any number of calls and any       *)
(* deadlines.                                                              *)
(***************************************************************************)
EXTENDS Serving, ConnPoolProofs, TLAPS

\* The deadline the call q came with, while it waits.
CameAs(q) == IF q.left = None THEN None ELSE q.left + q.waited

\* Nobody waits beyond the bound, nor at all with no time to wait.
SlotWaits(q) == q.pc = "acquiring" => /\ q.waited <= Bound(CameAs(q))
                                      /\ Bound(CameAs(q)) > 0

Waits == \A r \in Req : SlotWaits(req[r])

\* What the drain has spent of its budget every call has spent of its deadline.
SlotSpends(q) ==
    (q.pc # "idle" /\ q.left # None) =>
       \E d \in Deadlines \ {None} : q.left + Budget <= d + budget

Spends ==
    /\ \A r \in Req : SlotSpends(req[r])
    /\ (~asked \/ task \in {"none", "spawned", "running"}) => budget = Budget

\* Calls are in flight only while the server runs or drains.
Flights ==
    /\ task = "none" <=> ~BootOver
    /\ asked => BootOver
    /\ task \in {"closed", "finished"} => asked
    /\ (exit # "up" \/ task \notin {"running", "closed"}) => \A r \in Req : req[r].pc = "idle"

\* The inductive invariant.
Inv == TypeOK /\ Holds /\ Waits /\ Spends /\ Flights

-----------------------------------------------------------------------------
(* The bound.                                                              *)

\* Deadline::bound is a time, never more than the ceiling.
LEMMA BoundType ==
    ASSUME NEW d \in Nat \cup {None}
    PROVE  /\ Bound(d) \in Nat /\ Bound(d) <= Ceiling
           /\ d # None => d \in Nat
           /\ (Bound(d) < Ceiling /\ Bound(d) > 0) => d # None /\ d = Bound(d) + Margin
           /\ (d # None /\ Bound(d) > 0) => d >= Bound(d) + Margin
BY TimeAssumption, NoneAssumption DEF Bound

LEMMA CameType ==
    ASSUME NEW q \in ReqRec
    PROVE  /\ CameAs(q) \in Nat \cup {None} /\ q.waited \in Nat /\ q.left \in Nat \cup {None}
           /\ q.left = None <=> CameAs(q) = None
           /\ q.left # None => CameAs(q) = q.left + q.waited /\ q.left \in Nat
BY NoneAssumption DEF CameAs, ReqRec

\* "this -db answer[s] DEADLINE_EXCEEDED itself": the margin is still left.
LEMMA WaitLeaves ==
    ASSUME NEW q \in ReqRec, SlotWaits(q), q.pc = "acquiring", q.left # None
    PROVE  q.left >= Margin
<1>1. Margin \in Nat
  BY TimeAssumption
<1> QED
  BY <1>1, CameType, BoundType DEF SlotWaits

-----------------------------------------------------------------------------
(* The calls.                                                              *)

\* Every connection is held: nothing but a timer answers a wait.
Exhausted == \A c \in Conn : conn[c].holder # None

\* How the wait of NamesWhoRanOut may end.
NamesStep(q, p) ==
    (q.pc = "acquiring" /\ p.pc = "idle") =>
       /\ p.out = "DEADLINE_EXCEEDED" =>
             q.left # None /\ q.left <= Margin /\ q.waited < Ceiling
       /\ (p.out = "UNAVAILABLE" /\ Exhausted) => q.waited = Ceiling

\* A call moves its own slot: it ends, goes on with the time it has, or is a
\* new one that has time to wait; and if its wait is over it names whose time
\* ran out.
LEMMA CallMoves ==
    ASSUME ConnTypeOK, Holds, Waits, NEW r \in Req,
           \/ \E caller \in Caller, asks \in Asks, d \in Deadlines : Arrive(r, caller, asks, d)
           \/ \E c \in Conn : Acquire(r, c)
           \/ Timers(r) \/ Reply(r) \/ HangUp(r)
    PROVE  \E q \in ReqRec :
              /\ req' = [req EXCEPT ![r] = q]
              /\ SlotWaits(q)
              /\ NamesStep(req[r], q)
              /\ q.pc # "idle" =>
                    \/ req[r].pc # "idle" /\ q.left = req[r].left
                    \/ req[r].pc = "idle" /\ q.left \in Deadlines
              /\ (req[r].pc = "idle" /\ q.pc # "idle") =>
                    \E caller \in Caller, asks \in Asks, d \in Deadlines : Arrive(r, caller, asks, d)
<1> DEFINE Moves(q) ==
              /\ req' = [req EXCEPT ![r] = q]
              /\ SlotWaits(q)
              /\ NamesStep(req[r], q)
              /\ q.pc # "idle" =>
                    \/ req[r].pc # "idle" /\ q.left = req[r].left
                    \/ req[r].pc = "idle" /\ q.left \in Deadlines
              /\ (req[r].pc = "idle" /\ q.pc # "idle") =>
                    \E caller \in Caller, asks \in Asks, d \in Deadlines : Arrive(r, caller, asks, d)
<1>1. req[r] \in ReqRec /\ SlotWaits(req[r])
  BY DEF ConnTypeOK, Waits
<1>2. ASSUME NEW out \in Outs, req' = [req EXCEPT ![r] = Rest(out)], NamesStep(req[r], Rest(out))
      PROVE  \E q \in ReqRec : Moves(q)
  <2>1. PICK q \in ReqRec : q = Rest(out)
    BY RestType
  <2>2. q.pc = "idle"
    BY <2>1, RestType
  <2> QED
    BY <1>2, <2>1, <2>2 DEF SlotWaits
<1>3. ASSUME NEW out \in Outs \ {"UNAVAILABLE", "DEADLINE_EXCEEDED"} PROVE NamesStep(req[r], Rest(out))
  BY RestType DEF NamesStep
<1>4. ASSUME NEW out \in Outs, req[r].pc # "acquiring" PROVE NamesStep(req[r], Rest(out))
  BY <1>4 DEF NamesStep
<1>5. ASSUME NEW caller \in Caller, NEW asks \in Asks, NEW d \in Deadlines,
             Arrive(r, caller, asks, d)
      PROVE  \E q \in ReqRec : Moves(q)
  <2> DEFINE q == [Rest("none") EXCEPT !.pc = "acquiring", !.asks = asks, !.left = d]
  <2>1. /\ req[r].pc = "idle"
        /\ \/ req' = [req EXCEPT ![r] = Rest("PERMISSION_DENIED")]
           \/ req' = [req EXCEPT ![r] = Rest("DEADLINE_EXCEEDED")]
           \/ Bound(d) # 0 /\ req' = [req EXCEPT ![r] = q]
    BY <1>5 DEF Arrive
  <2>2. q \in ReqRec /\ q.pc = "acquiring" /\ q.left = d /\ q.waited = 0
    BY TimeAssumption DEF Rest, ReqRec, HoldPc, Outs
  <2> HIDE DEF q
  <2>3. CASE Bound(d) # 0 /\ req' = [req EXCEPT ![r] = q]
    <3>1. d \in Nat \cup {None} /\ Bound(d) \in Nat
      BY TimeAssumption, BoundType
    <3>2. CameAs(q) = d
      BY <2>2, <3>1 DEF CameAs
    <3>3. SlotWaits(q)
      BY <2>2, <2>3, <3>1, <3>2 DEF SlotWaits
    <3>4. NamesStep(req[r], q)
      BY <2>1 DEF NamesStep
    <3> QED
      BY <1>5, <2>1, <2>2, <2>3, <3>3, <3>4
  <2> QED
    BY <1>2, <1>4, <2>1, <2>3 DEF Outs
<1>6. ASSUME NEW q \in ReqRec, req' = [req EXCEPT ![r] = q], q.pc \in HoldPc,
             req[r].pc # "idle", q.left = req[r].left
      PROVE  \E x \in ReqRec : Moves(x)
  BY <1>6 DEF HoldPc, SlotWaits, NamesStep
<1>7. ASSUME NEW c \in Conn, Acquire(r, c) PROVE \E q \in ReqRec : Moves(q)
  <2> DEFINE armed == req[r].asks # "plain"
             pc == CASE req[r].asks = "plain"   -> "working"
                     [] req[r].asks = "default" -> "beginning"
                     [] req[r].asks = "rc"      -> "setting"
             q == [req[r] EXCEPT !.on = c, !.waited = 0, !.armed = armed, !.pc = pc]
  <2>1. /\ req[r].pc = "acquiring"
        /\ req' = [req EXCEPT ![r].on = c, ![r].waited = 0, ![r].armed = armed, ![r].pc = pc]
    BY <1>7 DEF Acquire
  <2>2. pc \in HoldPc /\ armed \in BOOLEAN
    BY <1>1 DEF ReqRec, Asks, HoldPc
  <2> HIDE DEF armed, pc
  <2>3. req' = [req EXCEPT ![r] = q]
    BY <2>1 DEF ConnTypeOK
  <2>4. q \in ReqRec /\ q.pc \in HoldPc /\ q.left = req[r].left
    BY <1>1, <2>2 DEF ReqRec
  <2> HIDE DEF q
  <2> QED
    BY <1>6, <2>1, <2>3, <2>4
<1>8. ASSUME TimeOut(r) PROVE \E q \in ReqRec : Moves(q)
  <2> DEFINE b == Bound(CameAs(req[r]))
  <2>1. req[r].pc = "acquiring" /\ req[r].waited = b /\ req' = [req EXCEPT ![r] = Rest(TimesOutAs(b))]
    BY <1>8 DEF TimeOut, Came, CameAs
  <2>2. b \in Nat /\ b <= Ceiling /\ b > 0 /\ Ceiling \in Nat /\ Margin \in Nat
    BY <1>1, <2>1, CameType, BoundType, TimeAssumption DEF SlotWaits
  <2>3. b < Ceiling => req[r].left # None /\ req[r].left = Margin
    <3>1. PICK d \in Nat \cup {None} : d = CameAs(req[r])
      BY <1>1, CameType
    <3>2. b < Ceiling => d # None /\ d = b + Margin
      BY <2>2, <3>1, BoundType
    <3>3. d # None => req[r].left # None /\ req[r].left \in Nat /\ d = req[r].left + req[r].waited
      BY <1>1, <3>1, CameType
    <3> HIDE DEF b
    <3> QED
      BY <2>1, <2>2, <3>2, <3>3
  <2>4. CASE b < Ceiling
    <3>1. TimesOutAs(b) = "DEADLINE_EXCEEDED"
      BY <2>4 DEF TimesOutAs
    <3>2. NamesStep(req[r], Rest("DEADLINE_EXCEEDED"))
      <4>1. Rest("DEADLINE_EXCEEDED").out = "DEADLINE_EXCEEDED"
        BY DEF Rest
      <4>2. req[r].left # None /\ req[r].left <= Margin /\ req[r].waited < Ceiling
        BY <2>1, <2>2, <2>3, <2>4
      <4> QED
        BY <4>1, <4>2 DEF NamesStep
    <3> QED
      BY <1>2, <2>1, <3>1, <3>2 DEF Outs
  <2>5. CASE ~(b < Ceiling)
    <3>1. TimesOutAs(b) = "UNAVAILABLE" /\ b = Ceiling
      BY <2>2, <2>5 DEF TimesOutAs
    <3>2. NamesStep(req[r], Rest("UNAVAILABLE"))
      BY <2>1, <3>1, RestType DEF NamesStep, Outs
    <3> QED
      BY <1>2, <2>1, <3>1, <3>2 DEF Outs
  <2> QED
    BY <2>4, <2>5
<1>9. ASSUME Cut(r) PROVE \E q \in ReqRec : Moves(q)
  <2>1. req' = [req EXCEPT ![r] = Rest("DROPPED")]
    BY <1>9 DEF Cut, Release
  <2> QED
    BY <1>2, <1>3, <2>1 DEF Outs
<1>10. ASSUME Set(r) \/ Begin(r) PROVE \E q \in ReqRec : Moves(q)
  <2>1. CASE Set(r)
    <3> DEFINE q == [req[r] EXCEPT !.pc = "beginning"]
    <3>1. req[r].pc = "setting" /\ req' = [req EXCEPT ![r] = q]
      BY <2>1 DEF Set, ConnTypeOK
    <3>2. q \in ReqRec /\ q.pc \in HoldPc /\ q.left = req[r].left
      BY <1>1 DEF ReqRec, HoldPc
    <3> HIDE DEF q
    <3> QED
      BY <1>6, <3>1, <3>2
  <2>2. CASE Begin(r)
    <3> DEFINE q == [req[r] EXCEPT !.pc = "working", !.armed = FALSE]
    <3>1. req[r].pc = "beginning" /\ req' = [req EXCEPT ![r] = q]
      BY <2>2 DEF Begin, ConnTypeOK
    <3>2. q \in ReqRec /\ q.pc \in HoldPc /\ q.left = req[r].left
      BY <1>1 DEF ReqRec, HoldPc
    <3> HIDE DEF q
    <3> QED
      BY <1>6, <3>1, <3>2
  <2> QED
    BY <1>10, <2>1, <2>2
<1>11. ASSUME BeginFails(r) \/ \E out \in {"OK", "FAILED"} : Finish(r, out)
       PROVE  \E q \in ReqRec : Moves(q)
  <2>1. req[r].pc # "acquiring"
    BY <1>11 DEF BeginFails, Finish
  <2>2. PICK out \in Outs : req' = [req EXCEPT ![r] = Rest(out)]
    BY <1>11 DEF BeginFails, Finish, Release, Outs
  <2> QED
    BY <1>2, <1>4, <2>1, <2>2
<1>13. ASSUME AcquireFails(r) PROVE \E q \in ReqRec : Moves(q)
  <2>1. ~Exhausted /\ req' = [req EXCEPT ![r] = Rest("UNAVAILABLE")]
    BY <1>13 DEF AcquireFails, Exhausted
  <2>2. Rest("UNAVAILABLE").out = "UNAVAILABLE"
    BY RestType DEF Outs
  <2>3. NamesStep(req[r], Rest("UNAVAILABLE"))
    BY <2>1, <2>2 DEF NamesStep
  <2> QED
    BY <1>2, <2>1, <2>3 DEF Outs
<1> HIDE DEF Moves
<1>12. \E q \in ReqRec : Moves(q)
  BY <1>5, <1>7, <1>8, <1>9, <1>10, <1>11, <1>13 DEF Timers, Deadline, HangUp, Reply
<1> QED
  BY <1>12 DEF Moves

-----------------------------------------------------------------------------
(* Time.                                                                   *)

\* An hour glass turned by one: the call is where it was, with less time left
\* and no more waited than it may.
LEMMA AgedCall ==
    ASSUME ConnTypeOK, Waits, NEW r \in Req, ~Due(r)
    PROVE  LET q == req[r]
               p == Aged(req[r])
           IN  /\ p \in ReqRec /\ p.pc = q.pc /\ p.asks = q.asks /\ p.on = q.on
               /\ p.armed <=> q.armed
               /\ p.out = q.out
               /\ (q.pc # "idle" /\ p.left # None) => q.left # None /\ p.left = q.left - 1
               /\ SlotWaits(p)
<1> DEFINE q == req[r]
           p == Aged(req[r])
           l == IF q.left = None THEN None ELSE q.left - 1
           w == IF q.pc = "acquiring" THEN q.waited + 1 ELSE q.waited
<1>1. q \in ReqRec /\ SlotWaits(q) /\ None \notin Nat
  BY NoneAssumption DEF ConnTypeOK, Waits
<1>2. CASE q.pc = "idle"
  <2>1. p = q
    BY <1>2 DEF Aged
  <2> QED
    BY <1>1, <1>2, <2>1
<1>3. CASE q.pc # "idle"
  <2>1. p = [q EXCEPT !.left = l, !.waited = w]
    BY <1>3 DEF Aged
  <2>2. q.left # 0 /\ (q.pc = "acquiring" => q.waited # Bound(CameAs(q)))
    BY <1>3 DEF Due, Came, CameAs
  <2>3. l \in Nat \cup {None} /\ w \in Nat /\ (l = None <=> q.left = None)
    BY <1>1, <2>2 DEF ReqRec
  <2>4. /\ q.left # None => l = q.left - 1 /\ q.left \in Nat
        /\ q.pc = "acquiring" => w = q.waited + 1
        /\ q.waited \in Nat
    BY <1>1 DEF ReqRec
  <2> HIDE DEF l, w
  <2>5. /\ p \in ReqRec /\ p.pc = q.pc /\ p.asks = q.asks /\ p.on = q.on
        /\ p.armed <=> q.armed
        /\ p.out = q.out /\ p.left = l /\ p.waited = w
    <3> HIDE DEF p, q
    <3> QED
      BY <1>1, <2>1, <2>3 DEF ReqRec
  <2> HIDE DEF p, q
  <2>6. q.pc = "acquiring" => CameAs(p) = CameAs(q)
    BY <2>3, <2>4, <2>5 DEF CameAs
  <2>7. q.pc = "acquiring" => Bound(CameAs(q)) \in Nat
    BY <1>1, CameType, BoundType
  <2>8. SlotWaits(p)
    BY <1>1, <2>2, <2>4, <2>5, <2>6, <2>7 DEF SlotWaits
  <2> QED
    BY <2>3, <2>4, <2>5, <2>8 DEF p, q
<1> QED
  BY <1>2, <1>3

LEMMA ElapseKeeps ==
    ASSUME ConnTypeOK, Holds, Waits, Elapse PROVE ConnTypeOK' /\ Holds' /\ Waits'
<1>1. /\ req \in [Req -> ReqRec] /\ conn' = conn
      /\ req' = [r \in Req |-> Aged(req[r])] /\ \A r \in Req : ~Due(r)
  BY DEF Elapse, ConnTypeOK
<1>2. \A r \in Req : /\ req'[r] \in ReqRec /\ req'[r].pc = req[r].pc
                     /\ req'[r].asks = req[r].asks /\ req'[r].on = req[r].on
                     /\ req'[r].armed <=> req[r].armed
                     /\ SlotWaits(req'[r])
  BY <1>1, AgedCall
<1>3. ConnTypeOK'
  BY <1>1, <1>2 DEF ConnTypeOK
<1>4. ASSUME NEW r \in Req PROVE SlotHolds(req[r], r)'
  <2>1. Held(req[r], r)' = Held(req[r], r)
    BY <1>2 DEF Held, InTx
  <2> QED
    BY <1>1, <1>2, <2>1 DEF Holds, SlotHolds
<1>5. ConnsKnown'
  BY <1>1, <1>2 DEF Holds, ConnsKnown, Fresh
<1>6. Waits'
  BY <1>2 DEF Waits, SlotWaits, CameAs, Bound
<1> QED
  BY <1>3, <1>4, <1>5, <1>6 DEF Holds

-----------------------------------------------------------------------------
(* The process.                                                            *)

\* The boot ends with the arming of the handlers and the spawn.
LEMMA BootFacts == Len(Boot) = 8 /\ \A i \in 1..8 : Boot[i] = "arm" <=> i = 8
BY DEF Boot

\* The process's part of TypeOK, with the length of the boot computed.
ProcTypes == /\ step \in Nat /\ 1 <= step /\ step <= 9
             /\ task \in {"none", "spawned", "running", "closed", "finished", "failed"}
             /\ signal \in BOOLEAN /\ asked \in BOOLEAN /\ late \in BOOLEAN
             /\ budget \in Nat /\ budget <= Budget
             /\ mount \in 0..MaxRotations /\ baseline \in 0..MaxRotations
             /\ exit \in {"up", "0", "1", "killed"}

LEMMA ProcTypesAre == /\ TypeOK <=> ConnTypeOK /\ ProcTypes
                      /\ TypeOK' <=> ConnTypeOK' /\ ProcTypes'
<1> DEFINE n == Len(Boot)
<1>1. n = 8 /\ Budget \in Nat
  BY BootFacts, BudgetAssumption
<1> HIDE DEF n
<1>2. ASSUME NEW x
      PROVE  /\ x \in 1..(n + 1) <=> x \in Nat /\ 1 <= x /\ x <= 9
             /\ x \in 0..Budget <=> x \in Nat /\ x <= Budget
  BY <1>1
<1>3. /\ step \in 1..(n + 1) <=> step \in Nat /\ 1 <= step /\ step <= 9
      /\ step' \in 1..(n + 1) <=> step' \in Nat /\ 1 <= step' /\ step' <= 9
      /\ budget \in 0..Budget <=> budget \in Nat /\ budget <= Budget
      /\ budget' \in 0..Budget <=> budget' \in Nat /\ budget' <= Budget
  BY <1>2
<1>4. (Len(Boot) + 1)' = Len(Boot) + 1
  BY DEF Boot
<1> QED
  BY <1>3, <1>4, Zenon DEF TypeOK, ProcTypes, n

LEMMA BootOverIs == (BootOver <=> step > 8) /\ (BootOver' <=> step' > 8)
BY BootFacts DEF BootOver

\* A step that touches no call and no connection.
LEMMA CallsStill ==
    ASSUME ConnTypeOK, Holds, Waits, UNCHANGED connVars PROVE ConnTypeOK' /\ Holds' /\ Waits'
BY DEF connVars, ConnTypeOK, Holds, SlotHolds, Held, InTx, ConnsKnown, Fresh, Waits,
       SlotWaits, CameAs, Bound

\* The boot, the signals, the files and the server's own steps.
LEMMA ProcessKeeps ==
    ASSUME Inv, \/ BootStep \/ Bind \/ Rotate \/ Stop \/ Close \/ Drained \/ Restart
                \/ Signal /\ Armed
    PROVE  Inv'
<1>1. UNCHANGED connVars
  BY DEF BootStep, Bind, Rotate, Stop, Close, Drained, Restart, Signal
<1>2. ConnTypeOK' /\ Holds' /\ Waits' /\ req' = req
  BY <1>1, CallsStill DEF Inv, TypeOK, connVars
<1>3. Len(Boot) = 8 /\ \A i \in 1..8 : Boot[i] = "arm" <=> i = 8
  BY BootFacts
<1>4. Budget \in Nat /\ MaxRotations \in Nat
  BY BudgetAssumption
<1>5. TypeOK'
  <2>1. ProcTypes
    BY ProcTypesAre DEF Inv
  <2>2. CASE BootStep
    <3>1. step < 9 /\ step' = step + 1 /\ baseline' \in {mount, baseline}
          /\ task' \in {"spawned", "none"}
          /\ UNCHANGED <<signal, asked, budget, mount, late, exit>>
      BY <2>1, <2>2, BootOverIs DEF BootStep, ProcTypes
    <3>2. ProcTypes'
      BY <2>1, <3>1 DEF ProcTypes
    <3> QED
      BY <1>2, <3>2, ProcTypesAre
  <2>3. CASE Rotate
    <3>1. mount' \in 0..MaxRotations /\ late' \in BOOLEAN
      BY <1>4, <2>1, <2>3 DEF Rotate, ProcTypes
    <3>2. ProcTypes'
      BY <2>1, <2>3, <3>1 DEF Rotate, ProcTypes
    <3> QED
      BY <1>2, <3>2, ProcTypesAre
  <2>4. CASE Restart
    <3>1. 0 \in 0..MaxRotations
      BY <1>4
    <3>2. /\ step' \in Nat /\ 1 <= step' /\ step' <= 9 /\ budget' \in Nat /\ budget' <= Budget
          /\ mount' = mount /\ baseline' = 0
      BY <1>4, <2>4 DEF Restart
    <3>3. /\ signal' \in BOOLEAN /\ asked' \in BOOLEAN /\ late' \in BOOLEAN
          /\ task' = "none" /\ exit' = "up"
      BY <2>4, Zenon DEF Restart
    <3>4. ProcTypes'
      BY <2>1, <3>1, <3>2, <3>3, Zenon DEF ProcTypes
    <3> QED
      BY <1>2, <3>4, ProcTypesAre
  <2>5. CASE Bind \/ Stop \/ Close \/ Drained \/ (Signal /\ Armed)
    <3>1. ProcTypes'
      BY <2>1, <2>5 DEF Bind, Stop, Close, Drained, Signal, ProcTypes
    <3> QED
      BY <1>2, <3>1, ProcTypesAre
  <2> QED
    BY <2>2, <2>3, <2>4, <2>5
<1>6. budget' = budget \/ (Restart /\ budget' = Budget)
  BY DEF BootStep, Bind, Rotate, Stop, Close, Drained, Restart, Signal
<1>7. Restart => \A r \in Req : req[r].pc = "idle"
  BY DEF Restart, Inv, Flights
<1>8. \A r \in Req : SlotSpends(req[r])'
  BY <1>2, <1>6, <1>7 DEF Inv, Spends, SlotSpends
<1>9. (~asked' \/ task' \in {"none", "spawned", "running"}) => budget' = Budget
  <2>1. CASE BootStep \/ Bind \/ Rotate \/ Restart
    BY <1>3, <2>1 DEF BootStep, Bind, Rotate, Restart, Inv, Spends, Flights, BootOver
  <2>2. CASE Stop \/ Close \/ Drained \/ (Signal /\ Armed)
    BY <2>2 DEF Stop, Close, Drained, Signal, Inv, Spends
  <2> QED
    BY <2>1, <2>2
<1>10. Flights'
  <2>1. CASE BootStep
    <3>0. step \in 1..8
      BY <2>1, ProcTypesAre, BootOverIs DEF Inv, ProcTypes, BootStep
    <3>1. step' = step + 1 /\ task = "none" /\ ~asked'
          /\ exit' = exit /\ task' = IF step = 8 THEN "spawned" ELSE "none"
      BY <1>3, <2>1, <3>0 DEF BootStep, Inv, Flights
    <3>2. \A r \in Req : req[r].pc = "idle"
      BY <3>1 DEF Inv, Flights
    <3> QED
      BY <1>2, <3>0, <3>1, <3>2, BootOverIs DEF Flights
  <2>2. CASE Bind
    <3>1. /\ task = "spawned" /\ task' \in {"running", "failed"}
          /\ UNCHANGED <<step, asked, exit>>
      BY <2>2 DEF Bind
    <3>2. \A r \in Req : req[r].pc = "idle"
      BY <3>1 DEF Inv, Flights
    <3> QED
      BY <1>2, <3>1, <3>2 DEF Inv, Flights, BootOver
  <2>3. CASE Rotate \/ Stop \/ (Signal /\ Armed)
    BY <1>1, <1>2, <2>3 DEF Rotate, Stop, Signal, Exit, Inv, Flights, BootOver
  <2>4. CASE Close
    BY <1>2, <2>4 DEF Close, Inv, Flights, BootOver
  <2>5. CASE Drained
    BY <1>2, <2>5 DEF Drained, Inv, Flights, BootOver
  <2>6. CASE Restart
    BY <1>2, <1>7, <2>6, BootOverIs DEF Restart, Flights
  <2> QED
    BY <2>1, <2>2, <2>3, <2>4, <2>5, <2>6
<1> QED
  BY <1>2, <1>5, <1>8, <1>9, <1>10 DEF Inv, Spends

\* The end of the process drops its calls.
LEMMA ExitKeeps ==
    ASSUME Inv, NEW code \in {"0", "1", "killed"}, Exit(code) PROVE Inv'
<1>1. /\ exit' = code /\ UNCHANGED <<step, task, signal, asked, budget, mount, baseline, late>>
      /\ conn' = [c \in Conn |-> Fresh]
      /\ req' = [r \in Req |-> IF req[r].pc = "idle" THEN req[r] ELSE Rest("DROPPED")]
  BY DEF Exit, Gone
<1>2. \A r \in Req : req'[r] \in ReqRec /\ req'[r].pc = "idle"
  BY <1>1, RestType DEF Inv, TypeOK, ConnTypeOK, Outs
<1>3. TypeOK'
  BY <1>1, <1>2, FreshType DEF Inv, TypeOK, ConnTypeOK
<1>4. Holds'
  <2>1. \A r \in Req : SlotHolds(req[r], r)'
    BY <1>2 DEF SlotHolds, HoldPc
  <2>2. ConnsKnown'
    BY <1>1 DEF ConnsKnown, Fresh
  <2> QED
    BY <2>1, <2>2 DEF Holds
<1>5. Waits'
  BY <1>2 DEF Waits, SlotWaits
<1>6. Spends'
  BY <1>1, <1>2 DEF Inv, Spends, SlotSpends
<1>7. Flights'
  BY <1>1, <1>2 DEF Inv, Flights, BootOver
<1> QED
  BY <1>3, <1>4, <1>5, <1>6, <1>7 DEF Inv

LEMMA TickKeeps == ASSUME Inv, Tick PROVE Inv'
<1>1. /\ Elapse /\ ConnTypeOK /\ UNCHANGED <<step, task, signal, asked, mount, baseline, late, exit>>
      /\ asked => budget > 0 /\ budget' = budget - 1
      /\ ~asked => budget' = budget
      /\ asked => task \notin {"spawned", "running"}
  BY DEF Tick, ClockRuns, Inv, TypeOK
<1>2. ConnTypeOK' /\ Holds' /\ Waits'
  BY <1>1, ElapseKeeps DEF Inv
<1>3. /\ Budget \in Nat /\ budget \in Nat /\ budget <= Budget
      /\ Deadlines \subseteq Nat \cup {None} /\ None \notin Nat
  BY BudgetAssumption, TimeAssumption, NoneAssumption DEF Inv, TypeOK
<1>4. budget' \in Nat /\ budget' <= budget /\ budget' >= budget - 1
  <2>1. CASE asked
    <3>1. budget' = budget - 1 /\ budget > 0
      BY <1>1, <2>1
    <3> QED
      BY <1>3, <3>1
  <2>2. CASE ~asked
    BY <1>1, <1>3, <2>2
  <2> QED
    BY <2>1, <2>2
<1>5. TypeOK'
  <2>1. ProcTypes
    BY ProcTypesAre DEF Inv
  <2>2. budget' <= Budget
    BY <1>3, <1>4
  <2>3. ProcTypes'
    BY <1>1, <1>4, <2>1, <2>2 DEF ProcTypes
  <2> QED
    BY <1>2, <2>3, ProcTypesAre
<1>6. \A r \in Req : /\ req'[r].pc = req[r].pc /\ req[r] \in ReqRec
                     /\ (req[r].pc # "idle" /\ req'[r].left # None) =>
                           req[r].left # None /\ req'[r].left = req[r].left - 1
  BY <1>1, AgedCall DEF Elapse, Inv, ConnTypeOK
<1>7. ASSUME NEW r \in Req, req[r].pc # "idle", req'[r].left # None
      PROVE  \E d \in Deadlines \ {None} : req'[r].left + Budget <= d + budget'
  <2>1. req[r].left \in Nat /\ req'[r].left = req[r].left - 1
    BY <1>6, <1>7 DEF ReqRec
  <2>2. PICK d \in Deadlines \ {None} : req[r].left + Budget <= d + budget
    BY <1>6, <1>7 DEF Inv, Spends, SlotSpends
  <2>3. d \in Nat
    BY <1>3
  <2> QED
    BY <1>3, <1>4, <2>1, <2>2, <2>3
<1>8. Spends'
  <2>1. \A r \in Req : SlotSpends(req[r])'
    BY <1>6, <1>7 DEF SlotSpends
  <2>2. task = "none" => ~asked
    BY DEF Inv, Flights
  <2>3. ~asked => budget = Budget
    BY DEF Inv, Spends
  <2> QED
    BY <1>1, <2>1, <2>2, <2>3 DEF Spends
<1>9. Flights'
  BY <1>1, <1>6 DEF Inv, Flights, BootOver
<1> QED
  BY <1>2, <1>5, <1>8, <1>9 DEF Inv

LEMMA CallKeeps == ASSUME Inv, NEW r \in Req, Call(r) PROVE Inv'
<1>1. /\ exit = "up" /\ UNCHANGED <<procVars, mount>> /\ ConnTypeOK /\ Holds /\ Waits
      /\ \/ /\ task = "running"
            /\ \E caller \in Caller, asks \in Asks, d \in Deadlines : Arrive(r, caller, asks, d)
         \/ \E c \in Conn : Acquire(r, c)
         \/ Timers(r) \/ Reply(r) \/ HangUp(r)
  BY DEF Call, Inv, TypeOK
<1>2. ConnTypeOK' /\ Holds'
  BY <1>1, CallHolds, TimeAssumption
<1>3. PICK q \in ReqRec :
              /\ req' = [req EXCEPT ![r] = q]
              /\ SlotWaits(q)
              /\ q.pc # "idle" =>
                    \/ req[r].pc # "idle" /\ q.left = req[r].left
                    \/ req[r].pc = "idle" /\ q.left \in Deadlines
              /\ (req[r].pc = "idle" /\ q.pc # "idle") =>
                    \E caller \in Caller, asks \in Asks, d \in Deadlines : Arrive(r, caller, asks, d)
  BY <1>1, CallMoves
<1>4. (req[r].pc = "idle" /\ q.pc # "idle") => task = "running"
  <2>1. SUFFICES ASSUME req[r].pc = "idle", q.pc # "idle", task # "running" PROVE FALSE
    OBVIOUS
  <2>2. (\E c \in Conn : Acquire(r, c)) \/ Timers(r) \/ Reply(r) \/ HangUp(r)
    BY <1>1, <2>1
  <2>3. req[r].pc # "idle"
    BY <2>2 DEF Acquire, Timers, TimeOut, Deadline, Reply, HangUp, Cut, Set, Begin,
                BeginFails, AcquireFails, Finish, HoldPc
  <2> QED
    BY <2>1, <2>3
<1>5. req'[r] = q /\ \A o \in Req : o # r => req'[o] = req[o]
  BY <1>1, <1>3 DEF ConnTypeOK
<1>6. UNCHANGED <<step, task, signal, asked, budget, baseline, late, exit, mount>>
  BY <1>1 DEF procVars
<1>7. TypeOK'
  BY <1>2, <1>6 DEF Inv, TypeOK
<1>8. Waits'
  BY <1>1, <1>3, <1>5 DEF Waits, SlotWaits, CameAs, Bound
<1>9. SlotSpends(req[r])'
  <2>1. CASE req[r].pc # "idle"
    BY <1>3, <1>5, <1>6, <2>1 DEF Inv, Spends, SlotSpends
  <2>2. CASE req[r].pc = "idle" /\ q.pc # "idle" /\ q.left # None
    <3>1. budget = Budget /\ q.left \in Deadlines \ {None}
      BY <1>3, <1>4, <2>2 DEF Inv, Spends
    <3>2. q.left \in Nat /\ Budget \in Nat
      BY <3>1, TimeAssumption, BudgetAssumption
    <3>3. q.left + Budget <= q.left + budget
      BY <3>1, <3>2
    <3> QED
      BY <1>5, <1>6, <3>1, <3>3 DEF SlotSpends
  <2>3. CASE q.pc = "idle" \/ q.left = None
    BY <1>5, <2>3 DEF SlotSpends
  <2> QED
    BY <2>1, <2>2, <2>3
<1>10. Spends'
  BY <1>5, <1>6, <1>9 DEF Inv, Spends, SlotSpends
<1>11. Flights'
  BY <1>1, <1>4, <1>5, <1>6 DEF Inv, Flights, BootOver
<1> QED
  BY <1>2, <1>7, <1>8, <1>10, <1>11 DEF Inv

LEMMA InitInv == ASSUME Init PROVE Inv
<1> USE DEF Init, ConnInit
<1>1. ConnTypeOK /\ Holds /\ \A r \in Req : req[r].pc = "idle"
  BY ConnInitHolds
<1>2. Budget \in Nat /\ MaxRotations \in Nat
  BY BudgetAssumption
<1>3. TypeOK
  <2>2. 0 \in 0..MaxRotations
    BY <1>2
  <2>3. ProcTypes
    <3>1. /\ step \in Nat /\ 1 <= step /\ step <= 9 /\ budget \in Nat /\ budget <= Budget
          /\ mount = 0 /\ baseline = 0
      BY <1>2
    <3>2. signal \in BOOLEAN /\ asked \in BOOLEAN /\ late \in BOOLEAN /\ task = "none" /\ exit = "up"
      BY Zenon
    <3> QED
      BY <2>2, <3>1, <3>2, Zenon DEF ProcTypes
  <2> QED
    BY <1>1, <2>3, ProcTypesAre
<1>5. Waits /\ Spends
  BY <1>1 DEF Waits, SlotWaits, Spends, SlotSpends
<1>6. Flights
  BY <1>1, BootOverIs DEF Flights
<1> QED
  BY <1>1, <1>3, <1>5, <1>6 DEF Inv

\* The boot, the drain and every call, cut wherever it awaits, keep it.
THEOREM ServingInvariance == Spec => []Inv
<1>1. Init => Inv
  BY InitInv
<1>2. Inv /\ [Next]_vars => Inv'
  <2>1. SUFFICES ASSUME Inv, [Next]_vars PROVE Inv'
    OBVIOUS
  <2>2. CASE UNCHANGED vars
    <3>1. UNCHANGED connVars /\ UNCHANGED <<procVars, mount>>
      BY <2>2 DEF vars
    <3>2. ConnTypeOK' /\ Holds' /\ Waits'
      BY <2>1, <3>1, CallsStill DEF Inv, TypeOK
    <3> QED
      BY <2>1, <3>1, <3>2 DEF procVars, connVars, Inv, TypeOK, Spends, SlotSpends, Flights, BootOver
  <2>3. CASE Refused \/ Finished \/ Overran
    BY <2>1, <2>3, ExitKeeps DEF Refused, Finished, Overran
  <2>4. CASE Signal
    BY <2>1, <2>4, ExitKeeps, ProcessKeeps DEF Signal
  <2> QED
    BY <2>1, <2>2, <2>3, <2>4, ProcessKeeps, TickKeeps, CallKeeps DEF Next
<1> QED
  BY <1>1, <1>2, PTL DEF Spec

\* conn.rs: a connection nobody holds is like a new one and work runs in the
\* transaction it asked for, wherever calls are cut and processes end.
THEOREM ConnectionsAreClean == Spec => []ServingInv
<1>1. Inv => ServingInv
  BY PoolIsClean, WorkRunsAsAsked DEF Inv, ServingInv
<1> QED
  BY <1>1, ServingInvariance, PTL

\* This service answers DEADLINE_EXCEEDED itself: while a call waits for a
\* connection, tonic has not dropped it.
THEOREM AnswersInTime == Spec => []AnswersBeforeTheDrop
<1>1. Inv => AnswersBeforeTheDrop
  <2>1. SUFFICES ASSUME Inv, NEW r \in Req, req[r].pc = "acquiring" PROVE req[r].left # 0
    BY DEF AnswersBeforeTheDrop
  <2>2. req[r] \in ReqRec /\ SlotWaits(req[r])
    BY <2>1 DEF Inv, TypeOK, ConnTypeOK, Waits
  <2>3. Margin \in Nat /\ Margin > 0
    BY TimeAssumption
  <2> QED
    BY <2>1, <2>2, <2>3, WaitLeaves, NoneAssumption
<1> QED
  BY <1>1, ServingInvariance, PTL

\* conn.rs, acquire: DEADLINE_EXCEEDED means that the caller's time ran out
\* before the pool's, and UNAVAILABLE from an exhausted pool that it was so for
\* its whole acquire_timeout; the error of a connection that could not be opened
\* is the only other way to UNAVAILABLE.
THEOREM TimersAreNamed == Spec => NamesWhoRanOut
<1> DEFINE Named == \A r \in Req : (req[r].pc = "acquiring" /\ req'[r].pc = "idle") =>
                       /\ req'[r].out = "DEADLINE_EXCEEDED" =>
                             req[r].left # None /\ req[r].left <= Margin /\ req[r].waited < Ceiling
                       /\ (req'[r].out = "UNAVAILABLE" /\ \A c \in Conn : conn[c].holder # None) =>
                             req[r].waited = Ceiling
<1>1. ASSUME Inv, [Next]_vars PROVE [Named]_connVars
  <2>1. CASE UNCHANGED vars \/ BootStep \/ Bind \/ Rotate \/ Stop \/ Close \/ Drained \/ Restart
             \/ (Signal /\ Armed)
    BY <2>1 DEF vars, BootStep, Bind, Rotate, Stop, Close, Drained, Restart, Signal
  <2>2. CASE Refused \/ Finished \/ Overran \/ (Signal /\ ~Armed)
    <3>1. Gone
      BY <2>2 DEF Refused, Finished, Overran, Signal, Exit
    <3> QED
      BY <3>1, RestType DEF Gone, Outs
  <2>3. CASE Tick
    <3>1. \A r \in Req : req'[r].pc = req[r].pc
      BY <1>1, <2>3, AgedCall DEF Tick, Elapse, Inv, TypeOK
    <3> QED
      BY <3>1
  <2>4. ASSUME NEW r \in Req, Call(r) PROVE Named
    <3>1. ConnTypeOK /\ Holds /\ Waits
      BY <1>1 DEF Inv, TypeOK
    <3>2. PICK q \in ReqRec : req' = [req EXCEPT ![r] = q] /\ NamesStep(req[r], q)
      BY <2>4, <3>1, CallMoves DEF Call
    <3>3. req'[r] = q /\ \A o \in Req : o # r => req'[o] = req[o]
      BY <3>1, <3>2 DEF ConnTypeOK
    <3> QED
      BY <3>2, <3>3 DEF NamesStep, Exhausted
  <2> QED
    BY <1>1, <2>1, <2>2, <2>3, <2>4 DEF Next
<1>2. Spec => [][Named]_connVars
  BY <1>1, ServingInvariance, PTL DEF Spec
<1> QED
  BY <1>2 DEF NamesWhoRanOut

\* The callers' request timeout, a value of iam's chart that is 14 s by default
\* (chart/values.yaml), is within the drain's budget (25 s).  Without it a call
\* that came with more time than the budget may be cut.
ShortDeadlines == \A d \in Deadlines \ {None} : d <= Budget

\* The end of the process cuts no call that had time to end by itself: with
\* deadlines within the budget, only calls without one.
THEOREM DrainsTheBounded == ASSUME ShortDeadlines PROVE Spec => CutsOnlyTheUnbounded
<1> DEFINE Cuts1 == \A r \in Req : (exit = "up" /\ exit' # "up" /\ req[r].pc # "idle")
                       => asked /\ budget = 0 /\ req[r].left \in {None, 0}
<1>1. ASSUME Inv, [Next]_vars PROVE Cuts1
  <2>1. SUFFICES ASSUME NEW r \in Req, exit = "up", exit' # "up", req[r].pc # "idle"
                 PROVE  asked /\ budget = 0 /\ req[r].left \in {None, 0}
    OBVIOUS
  <2>2. task \in {"running", "closed"} /\ BootOver
    BY <1>1, <2>1 DEF Inv, Flights
  <2>3. Overran
    BY <1>1, <2>1, <2>2 DEF Next, vars, procVars, BootStep, Refused, Bind, Signal, Armed, Rotate, Stop,
                            Close, Drained, Finished, Restart, Tick, Call
  <2>4. asked /\ budget = 0
    BY <2>3 DEF Overran, Overrun, ClockRuns
  <2>5. ASSUME req[r].left # None PROVE req[r].left = 0
    <3>1. PICK d \in Deadlines \ {None} : req[r].left + Budget <= d + budget
      BY <1>1, <2>1, <2>5 DEF Inv, Spends, SlotSpends
    <3>2. d \in Nat /\ d <= Budget /\ Budget \in Nat /\ req[r].left \in Nat
      BY <1>1, <2>5, TimeAssumption, BudgetAssumption
         DEF ShortDeadlines, Inv, TypeOK, ConnTypeOK, ReqRec
    <3> QED
      BY <2>4, <3>1, <3>2
  <2> QED
    BY <2>4, <2>5
<1>2. Spec => [][Cuts1]_vars
  BY <1>1, ServingInvariance, PTL DEF Spec
<1> QED
  BY <1>2 DEF CutsOnlyTheUnbounded
=============================================================================
