--------------------------- MODULE ConnPoolProofs ---------------------------
(***************************************************************************)
(* Lemmas about ConnPool for the modules that extend it: the steps of a    *)
(* call keep every connection in the one state its call, or nobody, should *)
(* find it in.  For any pool, any number of calls and any deadlines.       *)
(***************************************************************************)
EXTENDS ConnPool, TLAPS

\* The connection of the call q in slot r, as the server and sqlx see it.
InTx(q) == q.pc = "working" /\ q.asks # "plain"
Held(q, r) == [holder |-> r,
               next   |-> IF q.pc = "beginning" THEN q.asks ELSE "default",
               tx     |-> IF InTx(q) THEN q.asks ELSE "none",
               depth  |-> IF InTx(q) THEN 1 ELSE 0,
               torn   |-> FALSE]

\* A call past the wait has a connection in exactly that state, and is armed
\* until its transaction has begun.
SlotHolds(q, r) ==
    /\ q.pc \in HoldPc => q.on \in Conn /\ conn[q.on] = Held(q, r)
    /\ q.pc \in {"setting", "beginning"} => q.armed /\ q.asks # "plain"
    /\ q.pc = "setting" => q.asks = "rc"
    /\ q.pc = "working" => ~q.armed

\* A connection is held by a call that knows it, or is like a new one.
ConnsKnown ==
    \A c \in Conn : \/ conn[c] = Fresh
                    \/ /\ conn[c].holder \in Req
                       /\ req[conn[c].holder].pc \in HoldPc
                       /\ req[conn[c].holder].on = c

Holds == (\A r \in Req : SlotHolds(req[r], r)) /\ ConnsKnown

-----------------------------------------------------------------------------
(* Records.                                                                *)

LEMMA RestType ==
    ASSUME NEW out \in Outs
    PROVE  /\ Rest(out) \in ReqRec /\ Rest(out).pc = "idle" /\ Rest(out).left = None
           /\ Rest(out).out = out /\ Rest(out).pc \notin HoldPc
BY DEF Rest, ReqRec, Asks, HoldPc

LEMMA FreshType == /\ Fresh \in ConnRec /\ Fresh.holder = None /\ Fresh.next = "default"
                   /\ Fresh.tx = "none" /\ Fresh.depth = 0 /\ ~Fresh.torn
BY DEF Fresh, ConnRec

LEMMA HeldType ==
    ASSUME NEW r \in Req, NEW q \in ReqRec, q.pc = "beginning" => q.asks # "plain"
    PROVE  Held(q, r) \in ConnRec /\ Held(q, r).holder = r
BY DEF Held, InTx, ConnRec, ReqRec, Asks

\* Two connections in the same state.
LEMMA SameConn ==
    ASSUME NEW x \in ConnRec, NEW y \in ConnRec, x.holder = y.holder, x.next = y.next,
           x.tx = y.tx, x.depth = y.depth, x.torn <=> y.torn
    PROVE  x = y
BY DEF ConnRec

\* Writing one field.
LEMMA HolderField ==
    ASSUME NEW s \in ConnRec, NEW h \in Req \cup {None, Leaked}
    PROVE  LET y == [s EXCEPT !.holder = h]
           IN  /\ y \in ConnRec /\ y.holder = h /\ y.next = s.next /\ y.tx = s.tx /\ y.depth = s.depth
               /\ y.torn <=> s.torn
BY DEF ConnRec

LEMMA TxField ==
    ASSUME NEW s \in ConnRec, NEW tx \in {"none", "default", "rc"}
    PROVE  LET y == [s EXCEPT !.tx = tx]
           IN  /\ y \in ConnRec /\ y.tx = tx /\ y.holder = s.holder /\ y.next = s.next /\ y.depth = s.depth
               /\ y.torn <=> s.torn
BY DEF ConnRec

LEMMA DepthField ==
    ASSUME NEW s \in ConnRec
    PROVE  LET y == [s EXCEPT !.depth = 0]
           IN  /\ y \in ConnRec /\ y.depth = 0 /\ y.holder = s.holder /\ y.next = s.next /\ y.tx = s.tx
               /\ y.torn <=> s.torn
BY DEF ConnRec

\* sqlx's return of a connection whose replies were all read.
LEMMA PooledFresh ==
    ASSUME NEW s \in ConnRec, ~s.torn, s.next = "default", s.depth = 1 \/ s.tx = "none"
    PROVE  Pooled(s) = Fresh
<1> DEFINE tx == IF s.depth = 1 THEN "none" ELSE s.tx
           y == [s EXCEPT !.holder = None, !.depth = 0, !.tx = tx]
<1>1. Pooled(s) = y /\ tx = "none"
  BY DEF Pooled
<1> HIDE DEF tx
<1>2. /\ y \in ConnRec /\ y.holder = None /\ y.next = s.next
      /\ y.depth = 0 /\ y.tx = "none" /\ ~y.torn
  <2>1. PICK a \in ConnRec : a = [s EXCEPT !.holder = None]
    BY HolderField
  <2>2. PICK b \in ConnRec : b = [a EXCEPT !.depth = 0]
    BY DepthField
  <2>3. y = [b EXCEPT !.tx = "none"]
    BY <1>1, <2>1, <2>2
  <2>4. a.holder = None /\ a.next = s.next /\ ~a.torn
    BY <2>1, HolderField
  <2>5. b.holder = None /\ b.next = s.next /\ b.depth = 0 /\ ~b.torn
    BY <2>2, <2>4, DepthField
  <2> HIDE DEF y
  <2> QED
    BY <2>3, <2>5, TxField
<1> QED
  BY <1>1, <1>2, FreshType, SameConn

-----------------------------------------------------------------------------
(* The calls and the connections.                                          *)

\* One slot moves: it takes or keeps a connection nobody else holds, gives its
\* own back, or has none before and after.
LEMMA SlotMoves ==
    ASSUME ConnTypeOK, Holds, NEW r \in Req, NEW q \in ReqRec,
           req' = [req EXCEPT ![r] = q],
           \/ /\ q.pc \in HoldPc /\ q.on \in Conn
              /\ \/ conn[q.on].holder = None /\ req[r].pc \notin HoldPc
                 \/ req[r].pc \in HoldPc /\ req[r].on = q.on
              /\ conn' = [conn EXCEPT ![q.on] = Held(q, r)]
           \/ /\ q.pc \notin HoldPc /\ req[r].pc \in HoldPc
              /\ conn' = [conn EXCEPT ![req[r].on] = Fresh]
           \/ q.pc \notin HoldPc /\ req[r].pc \notin HoldPc /\ conn' = conn,
           q.pc \in {"setting", "beginning"} => q.armed /\ q.asks # "plain",
           q.pc = "setting" => q.asks = "rc",
           q.pc = "working" => ~q.armed
    PROVE  ConnTypeOK' /\ Holds'
<1>1. /\ req \in [Req -> ReqRec] /\ conn \in [Conn -> ConnRec]
      /\ req' \in [Req -> ReqRec] /\ req'[r] = q
      /\ \A o \in Req : o # r => req'[o] = req[o]
  BY DEF ConnTypeOK
<1>2. None \notin Req
  BY NoneAssumption
<1>3. Held(q, r) \in ConnRec /\ Held(q, r).holder = r
  BY HeldType
<1>4. Fresh \in ConnRec /\ Fresh.holder = None
  BY FreshType
<1>5. ASSUME NEW o \in Req, req[o].pc \in HoldPc
      PROVE  req[o].on \in Conn /\ conn[req[o].on].holder = o
  <2>1. Held(req[o], o).holder = o
    BY DEF Held
  <2> QED
    BY <1>5, <2>1 DEF Holds, SlotHolds
<1>6. CASE /\ q.pc \in HoldPc /\ q.on \in Conn
           /\ \/ conn[q.on].holder = None /\ req[r].pc \notin HoldPc
              \/ req[r].pc \in HoldPc /\ req[r].on = q.on
           /\ conn' = [conn EXCEPT ![q.on] = Held(q, r)]
  <2>1. conn' \in [Conn -> ConnRec] /\ conn'[q.on] = Held(q, r)
        /\ \A c \in Conn : c # q.on => conn'[c] = conn[c]
    BY <1>1, <1>3, <1>6
  <2>2. conn[q.on].holder \in {None, r}
    BY <1>5, <1>6
  <2>3. ASSUME NEW o \in Req, o # r PROVE SlotHolds(req[o], o)'
    <3>1. req[o].pc \in HoldPc => req[o].on # q.on
      BY <1>2, <1>5, <2>2, <2>3
    <3> QED
      BY <1>1, <2>1, <2>3, <3>1 DEF Holds, SlotHolds, Held, InTx
  <2>4. SlotHolds(req[r], r)'
    BY <1>1, <1>6, <2>1 DEF SlotHolds, Held, InTx
  <2>5. ConnsKnown'
    <3>1. SUFFICES ASSUME NEW c \in Conn
                   PROVE  \/ conn'[c] = Fresh
                          \/ /\ conn'[c].holder \in Req
                             /\ req'[conn'[c].holder].pc \in HoldPc
                             /\ req'[conn'[c].holder].on = c
      BY DEF ConnsKnown, Fresh
    <3>2. CASE c = q.on
      BY <1>1, <1>3, <1>6, <2>1, <3>2
    <3>3. CASE c # q.on
      BY <1>1, <1>6, <2>1, <2>2, <3>3 DEF Holds, ConnsKnown
    <3> QED
      BY <3>2, <3>3
  <2> QED
    BY <1>1, <2>1, <2>3, <2>4, <2>5 DEF ConnTypeOK, Holds
<1>7. CASE q.pc \notin HoldPc /\ req[r].pc \in HoldPc /\ conn' = [conn EXCEPT ![req[r].on] = Fresh]
  <2>1. req[r].on \in Conn /\ conn[req[r].on].holder = r
    BY <1>5, <1>7
  <2>2. conn' \in [Conn -> ConnRec] /\ conn'[req[r].on] = Fresh
        /\ \A c \in Conn : c # req[r].on => conn'[c] = conn[c]
    BY <1>1, <1>4, <1>7, <2>1
  <2>3. ASSUME NEW o \in Req, o # r PROVE SlotHolds(req[o], o)'
    <3>1. req[o].pc \in HoldPc => req[o].on # req[r].on
      BY <1>5, <2>1, <2>3
    <3> QED
      BY <1>1, <2>2, <2>3, <3>1 DEF Holds, SlotHolds, Held, InTx
  <2>4. SlotHolds(req[r], r)'
    BY <1>1, <1>7 DEF SlotHolds, HoldPc
  <2>5. ConnsKnown'
    <3>1. SUFFICES ASSUME NEW c \in Conn, c # req[r].on
                   PROVE  \/ conn'[c] = Fresh
                          \/ /\ conn'[c].holder \in Req
                             /\ req'[conn'[c].holder].pc \in HoldPc
                             /\ req'[conn'[c].holder].on = c
      BY <2>2 DEF ConnsKnown, Fresh
    <3>2. conn'[c] = conn[c]
      BY <2>2, <3>1
    <3> QED
      BY <1>1, <3>1, <3>2 DEF Holds, ConnsKnown
  <2> QED
    BY <1>1, <2>2, <2>3, <2>4, <2>5 DEF ConnTypeOK, Holds
<1>8. CASE q.pc \notin HoldPc /\ req[r].pc \notin HoldPc /\ conn' = conn
  <2>1. ASSUME NEW o \in Req, o # r PROVE SlotHolds(req[o], o)'
    BY <1>1, <1>8, <2>1 DEF Holds, SlotHolds, Held, InTx
  <2>2. SlotHolds(req[r], r)'
    BY <1>1, <1>8 DEF SlotHolds, HoldPc
  <2>3. ConnsKnown'
    BY <1>1, <1>8 DEF Holds, ConnsKnown, Fresh
  <2> QED
    BY <1>1, <1>8, <2>1, <2>2, <2>3 DEF ConnTypeOK, Holds
<1> QED
  BY <1>6, <1>7, <1>8

\* However a call ends, its connection goes back like a new one: closed if it
\* was armed or its request dropped, and else rolled back.
LEMMA ReleasesFresh ==
    ASSUME ConnTypeOK, Holds, NEW r \in Req,
           \/ BeginFails(r) \/ \E out \in {"OK", "FAILED"} : Finish(r, out)
           \/ req[r].pc \in HoldPc /\ Cut(r)
    PROVE  /\ req[r].pc \in HoldPc
           /\ conn' = [conn EXCEPT ![req[r].on] = Fresh]
           /\ \E out \in {"OK", "FAILED", "DROPPED", "UNAVAILABLE"} :
                 req' = [req EXCEPT ![r] = Rest(out)]
<1>1. CASE BeginFails(r)
  <2>1. req[r].armed /\ req[r].pc \in HoldPc
    BY <1>1 DEF BeginFails, Holds, SlotHolds, HoldPc
  <2> QED
    BY <1>1, <2>1 DEF BeginFails, Release, Closes
<1>2. CASE req[r].pc \in HoldPc /\ Cut(r)
  BY <1>2 DEF Cut, Release, Closes, HoldPc
<1>3. ASSUME NEW out \in {"OK", "FAILED"}, Finish(r, out)
      PROVE  /\ req[r].pc \in HoldPc /\ conn' = [conn EXCEPT ![req[r].on] = Fresh]
             /\ req' = [req EXCEPT ![r] = Rest(out)]
  <2> DEFINE s == conn[req[r].on]
             e == IF out = "OK" /\ s.depth = 1 THEN [s EXCEPT !.tx = "none", !.depth = 0] ELSE s
  <2>1. req[r].pc = "working" /\ req[r].pc \in HoldPc /\ Release(r, e, FALSE, out)
    BY <1>3 DEF Finish, HoldPc
  <2>2. ~req[r].armed /\ s = Held(req[r], r)
    BY <2>1 DEF Holds, SlotHolds
  <2>3. req[r] \in ReqRec
    BY DEF ConnTypeOK
  <2>4. /\ s \in ConnRec /\ ~s.torn /\ s.next = "default"
        /\ s.depth = 1 \/ s.tx = "none"
    BY <2>1, <2>2, <2>3, HeldType DEF Held
  <2>5. /\ e \in ConnRec /\ ~e.torn /\ e.next = "default"
        /\ e.depth = 1 \/ e.tx = "none"
    <3>1. CASE e = s
      BY <2>4, <3>1
    <3>2. CASE e = [s EXCEPT !.tx = "none", !.depth = 0]
      <4>1. PICK a \in ConnRec : a = [s EXCEPT !.tx = "none"]
        BY <2>4, TxField
      <4>2. ~a.torn /\ a.next = "default" /\ a.tx = "none"
        BY <2>4, <4>1, TxField
      <4>3. e = [a EXCEPT !.depth = 0]
        BY <3>2, <4>1
      <4> HIDE DEF e, s
      <4> QED
        BY <4>2, <4>3, DepthField
    <3> QED
      BY <3>1, <3>2
  <2> HIDE DEF e
  <2>6. Pooled(e) = Fresh
    BY <2>5, PooledFresh
  <2> QED
    BY <2>1, <2>2, <2>6 DEF Release, Closes
<1> QED
  BY <1>1, <1>2, <1>3

\* The steps of a call keep types and Holds.
LEMMA CallHolds ==
    ASSUME ConnTypeOK, Holds, NEW r \in Req,
           \/ \E caller \in Caller, asks \in Asks, d \in Nat \cup {None} : Arrive(r, caller, asks, d)
           \/ \E c \in Conn : Acquire(r, c)
           \/ Timers(r) \/ Reply(r) \/ HangUp(r)
    PROVE  ConnTypeOK' /\ Holds'
<1>1. req[r] \in ReqRec /\ conn \in [Conn -> ConnRec]
  BY DEF ConnTypeOK
<1>2. ASSUME NEW out \in Outs, req' = [req EXCEPT ![r] = Rest(out)],
             \/ req[r].pc \notin HoldPc /\ conn' = conn
             \/ req[r].pc \in HoldPc /\ conn' = [conn EXCEPT ![req[r].on] = Fresh]
      PROVE  ConnTypeOK' /\ Holds'
  <2>1. PICK q \in ReqRec : q = Rest(out)
    BY RestType
  <2>2. q.pc = "idle" /\ q.pc \notin HoldPc /\ req' = [req EXCEPT ![r] = q]
    BY <1>2, <2>1, RestType
  <2> QED
    BY <1>2, <2>2, SlotMoves
<1>3. ASSUME NEW caller \in Caller, NEW asks \in Asks, NEW d \in Nat \cup {None},
             Arrive(r, caller, asks, d)
      PROVE  ConnTypeOK' /\ Holds'
  <2> DEFINE q == [Rest("none") EXCEPT !.pc = "acquiring", !.asks = asks, !.left = d]
  <2>1. /\ req[r].pc = "idle" /\ conn' = conn
        /\ \/ req' = [req EXCEPT ![r] = Rest("PERMISSION_DENIED")]
           \/ req' = [req EXCEPT ![r] = Rest("DEADLINE_EXCEEDED")]
           \/ req' = [req EXCEPT ![r] = q]
    BY <1>3 DEF Arrive
  <2>2. req[r].pc \notin HoldPc
    BY <2>1 DEF HoldPc
  <2>3. q \in ReqRec /\ q.pc = "acquiring" /\ q.pc \notin HoldPc
    BY DEF Rest, ReqRec, HoldPc, Outs
  <2> HIDE DEF q
  <2>4. CASE req' = [req EXCEPT ![r] = q]
    BY <2>1, <2>2, <2>3, <2>4, SlotMoves
  <2> QED
    BY <1>2, <2>1, <2>2, <2>4 DEF Outs
<1>4. ASSUME NEW c \in Conn, Acquire(r, c) PROVE ConnTypeOK' /\ Holds'
  <2> DEFINE armed == req[r].asks # "plain"
             pc == CASE req[r].asks = "plain"   -> "working"
                     [] req[r].asks = "default" -> "beginning"
                     [] req[r].asks = "rc"      -> "setting"
             q == [req[r] EXCEPT !.on = c, !.waited = 0, !.armed = armed, !.pc = pc]
  <2>1. /\ req[r].pc = "acquiring" /\ conn[c].holder = None
        /\ conn' = [conn EXCEPT ![c].holder = r]
        /\ req' = [req EXCEPT ![r].on = c, ![r].waited = 0, ![r].armed = armed, ![r].pc = pc]
    BY <1>4 DEF Acquire
  <2>9. req' = [req EXCEPT ![r] = q]
    <3> HIDE DEF armed, pc
    <3> QED
      BY <2>1 DEF ConnTypeOK
  <2>2. /\ q \in ReqRec /\ q.pc \in HoldPc /\ q.on = c /\ q.asks = req[r].asks
        /\ q.pc \in {"setting", "beginning"} => q.armed /\ q.asks # "plain"
        /\ q.pc = "setting" => q.asks = "rc"
        /\ q.pc = "working" => ~q.armed /\ q.asks = "plain"
        /\ q.pc = "beginning" => q.asks = "default"
    BY <1>1 DEF ReqRec, Asks, HoldPc
  <2>3. conn[c] = Fresh
    BY <2>1, NoneAssumption DEF Holds, ConnsKnown
  <2> HIDE DEF q
  <2>4. conn' = [conn EXCEPT ![c] = [Fresh EXCEPT !.holder = r]]
    BY <1>1, <2>1, <2>3
  <2>7. /\ [Fresh EXCEPT !.holder = r] \in ConnRec
        /\ [Fresh EXCEPT !.holder = r].holder = r
        /\ [Fresh EXCEPT !.holder = r].next = "default"
        /\ [Fresh EXCEPT !.holder = r].tx = "none"
        /\ [Fresh EXCEPT !.holder = r].depth = 0
        /\ ~[Fresh EXCEPT !.holder = r].torn
    BY FreshType DEF ConnRec
  <2>8. /\ Held(q, r) \in ConnRec /\ Held(q, r).holder = r /\ Held(q, r).next = "default"
        /\ Held(q, r).tx = "none" /\ Held(q, r).depth = 0 /\ ~Held(q, r).torn
    BY <2>2, HeldType DEF Held, InTx
  <2>5. Held(q, r) = [Fresh EXCEPT !.holder = r]
    BY <2>7, <2>8, SameConn
  <2>6. req[r].pc \notin HoldPc
    BY <2>1 DEF HoldPc
  <2> QED
    <3>1. conn' = [conn EXCEPT ![q.on] = Held(q, r)] /\ conn[q.on].holder = None
      BY <2>1, <2>2, <2>4, <2>5
    <3> QED
      BY <2>2, <2>6, <2>9, <3>1, SlotMoves
<1>5. ASSUME TimeOut(r) PROVE ConnTypeOK' /\ Holds'
  <2>1. req[r].pc \notin HoldPc /\ conn' = conn
    BY <1>5 DEF TimeOut, HoldPc
  <2>2. req' = [req EXCEPT ![r] = Rest("DEADLINE_EXCEEDED")] \/ req' = [req EXCEPT ![r] = Rest("UNAVAILABLE")]
    BY <1>5 DEF TimeOut, TimesOutAs
  <2> QED
    BY <1>2, <2>1, <2>2 DEF Outs
<1>6. ASSUME Cut(r) PROVE ConnTypeOK' /\ Holds'
  <2>1. CASE req[r].pc \in HoldPc
    BY <1>2, <1>6, <2>1, ReleasesFresh DEF Outs
  <2>2. CASE req[r].pc \notin HoldPc
    BY <1>2, <1>6, <2>2 DEF Cut, Outs
  <2> QED
    BY <2>1, <2>2
<1>7. ASSUME Set(r) PROVE ConnTypeOK' /\ Holds'
  <2> DEFINE q == [req[r] EXCEPT !.pc = "beginning"]
  <2>1. /\ req[r].pc = "setting" /\ conn' = [conn EXCEPT ![req[r].on] = SetDone(conn[req[r].on])]
        /\ req' = [req EXCEPT ![r] = q]
    BY <1>1, <1>7 DEF Set, ConnTypeOK
  <2>2. /\ req[r].pc \in HoldPc /\ req[r].on \in Conn /\ conn[req[r].on] = Held(req[r], r)
        /\ req[r].armed /\ req[r].asks = "rc"
    BY <2>1 DEF Holds, SlotHolds, HoldPc
  <2>3. /\ q \in ReqRec /\ q.pc = "beginning" /\ q.pc \in HoldPc /\ q.on = req[r].on
        /\ q.armed /\ q.asks = "rc"
    BY <1>1, <2>2 DEF ReqRec, HoldPc
  <2> HIDE DEF q
  <2>4. PICK s \in ConnRec : s = conn[req[r].on]
    BY <1>1, <2>2
  <2>6. s.holder = r /\ s.tx = "none" /\ s.depth = 0 /\ ~s.torn
    BY <2>1, <2>2, <2>4 DEF Held, InTx
  <2>7. /\ SetDone(s) \in ConnRec /\ SetDone(s).holder = r /\ SetDone(s).next = "rc"
        /\ SetDone(s).tx = "none" /\ SetDone(s).depth = 0 /\ ~SetDone(s).torn
    BY <2>6 DEF SetDone, ConnRec
  <2>8. /\ Held(q, r) \in ConnRec /\ Held(q, r).holder = r /\ Held(q, r).next = "rc"
        /\ Held(q, r).tx = "none" /\ Held(q, r).depth = 0 /\ ~Held(q, r).torn
    BY <2>3, HeldType DEF Held, InTx
  <2>5. SetDone(conn[req[r].on]) = Held(q, r)
    BY <2>4, <2>7, <2>8, SameConn
  <2> QED
    BY <2>1, <2>2, <2>3, <2>5, SlotMoves
<1>8. ASSUME Begin(r) PROVE ConnTypeOK' /\ Holds'
  <2> DEFINE q == [req[r] EXCEPT !.pc = "working", !.armed = FALSE]
             s == [BeginDone(conn[req[r].on]) EXCEPT !.depth = 1]
  <2>1. /\ req[r].pc = "beginning" /\ conn' = [conn EXCEPT ![req[r].on] = s]
        /\ req' = [req EXCEPT ![r] = q]
    BY <1>1, <1>8 DEF Begin, ConnTypeOK
  <2>2. /\ req[r].pc \in HoldPc /\ req[r].on \in Conn /\ conn[req[r].on] = Held(req[r], r)
        /\ req[r].asks # "plain"
    BY <2>1 DEF Holds, SlotHolds, HoldPc
  <2>3. /\ q \in ReqRec /\ q.pc = "working" /\ q.pc \in HoldPc /\ q.on = req[r].on
        /\ ~q.armed /\ q.asks = req[r].asks
    BY <1>1, <2>2 DEF ReqRec, HoldPc
  <2>4. PICK x \in ConnRec : x = conn[req[r].on]
    BY <1>1, <2>2
  <2>5. x.holder = r /\ x.next = req[r].asks /\ ~x.torn
    BY <2>1, <2>2, <2>4 DEF Held, InTx
  <2>7. /\ s \in ConnRec /\ s.holder = r /\ s.next = "default"
        /\ s.tx = req[r].asks /\ s.depth = 1 /\ ~s.torn
    <3>1. /\ BeginDone(x) \in ConnRec /\ BeginDone(x).holder = r
          /\ BeginDone(x).next = "default" /\ BeginDone(x).tx = req[r].asks /\ ~BeginDone(x).torn
      BY <1>1, <2>2, <2>5 DEF BeginDone, ConnRec, ReqRec, Asks
    <3>2. s = [BeginDone(x) EXCEPT !.depth = 1]
      BY <2>4
    <3> HIDE DEF s
    <3> QED
      BY <3>1, <3>2 DEF ConnRec
  <2> HIDE DEF q, s
  <2>8. /\ Held(q, r) \in ConnRec /\ Held(q, r).holder = r /\ Held(q, r).next = "default"
        /\ Held(q, r).tx = req[r].asks /\ Held(q, r).depth = 1 /\ ~Held(q, r).torn
    BY <2>2, <2>3, HeldType DEF Held, InTx
  <2>6. s = Held(q, r)
    BY <2>7, <2>8, SameConn
  <2> QED
    BY <2>1, <2>2, <2>3, <2>6, SlotMoves
<1>9. ASSUME BeginFails(r) \/ \E out \in {"OK", "FAILED"} : Finish(r, out)
      PROVE  ConnTypeOK' /\ Holds'
  BY <1>2, <1>9, ReleasesFresh DEF Outs
<1>10. ASSUME AcquireFails(r) PROVE ConnTypeOK' /\ Holds'
  <2>1. req[r].pc \notin HoldPc /\ conn' = conn /\ req' = [req EXCEPT ![r] = Rest("UNAVAILABLE")]
    BY <1>10 DEF AcquireFails, HoldPc
  <2> QED
    BY <1>2, <2>1 DEF Outs
<1> QED
  BY <1>3, <1>4, <1>5, <1>6, <1>7, <1>8, <1>9, <1>10 DEF Timers, Deadline, HangUp, Reply

\* A new pool, and no calls.
LEMMA ConnInitHolds ==
    ASSUME ConnInit
    PROVE  ConnTypeOK /\ Holds /\ \A r \in Req : req[r].pc = "idle"
<1>1. \A r \in Req : req[r] \in ReqRec /\ req[r].pc = "idle"
  BY RestType DEF ConnInit, Outs
<1>2. ConnTypeOK
  BY <1>1, FreshType DEF ConnInit, ConnTypeOK
<1>3. Holds
  BY <1>1 DEF ConnInit, Holds, SlotHolds, ConnsKnown, HoldPc
<1> QED
  BY <1>1, <1>2, <1>3

\* What a connection is in when nobody, or a call at work, has it.
LEMMA PoolIsClean ==
    ASSUME Holds
    PROVE  PooledIsClean
BY FreshType, NoneAssumption DEF Holds, ConnsKnown, PooledIsClean

LEMMA WorkRunsAsAsked ==
    ASSUME Holds
    PROVE  RunsAsAsked
<1>1. SUFFICES ASSUME NEW r \in Req, req[r].pc = "working"
               PROVE  conn[req[r].on].tx = IF req[r].asks = "plain" THEN "none" ELSE req[r].asks
  BY DEF RunsAsAsked
<1>2. conn[req[r].on] = Held(req[r], r)
  BY <1>1 DEF Holds, SlotHolds, HoldPc
<1>3. Held(req[r], r).tx = IF InTx(req[r]) THEN req[r].asks ELSE "none"
  BY DEF Held
<1> QED
  BY <1>1, <1>2, <1>3 DEF InTx
=============================================================================
