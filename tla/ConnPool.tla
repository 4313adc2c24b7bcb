------------------------------ MODULE ConnPool ------------------------------
(***************************************************************************)
(* A request's way to the store: the caller gate, the wait for a pooled    *)
(* connection, the start of its transaction, its work, and how it gives    *)
(* the connection back when it ends, fails half-way or is dropped.         *)
(*                                                                         *)
(* tonic drops a handler at the caller's deadline, or when the caller hangs*)
(* up, wherever the handler is awaiting.  Two parts are not this code's and*)
(* are modelled from what conn.rs relies on: sqlx, which opens connections *)
(* in its acquire and takes them back (Pooled), and the server's view of a *)
(* statement in flight when its client was dropped (Cuts).                 *)
(***************************************************************************)
EXTENDS Naturals

CONSTANTS
    Conn,       \* the pool's connections
    Req,        \* slots for calls in flight
    Ceiling,    \* the pool's acquire_timeout
    Margin,     \* DEADLINE_MARGIN
    Deadlines,  \* bound: what callers leave; None for no deadline
    None,       \* no deadline, no connection, nobody
    Leaked      \* the holder of a slot whose release ping never returns

ASSUME TimeAssumption == /\ Ceiling \in Nat \ {0} /\ Margin \in Nat \ {0}
                         /\ Deadlines \subseteq Nat \cup {None}
ASSUME NoneAssumption == None \notin Nat \cup Conn \cup Req /\ Leaked \notin Req \cup {None}

VARIABLES
    conn,   \* a connection, as the server and sqlx see it
    req     \* a call

connVars == <<conn, req>>

Caller == {"iam-caller", "task-caller", "none"}
Asks == {"plain", "default", "rc"}   \* no transaction, Isolation::Default, ReadCommitted

ConnRec == [holder : Req \cup {None, Leaked},
            next   : {"default", "rc"},          \* a pending SET TRANSACTION
            tx     : {"none", "default", "rc"},  \* the server's open transaction
            depth  : 0..1,                       \* sqlx's transaction_depth
            torn   : BOOLEAN]                    \* a reply was read half-way

\* A connection just opened; a closed one is opened again when it is needed.
Fresh == [holder |-> None, next |-> "default", tx |-> "none", depth |-> 0, torn |-> FALSE]

Outs == {"none", "OK", "FAILED", "DROPPED", "PERMISSION_DENIED", "DEADLINE_EXCEEDED", "UNAVAILABLE"}
HoldPc == {"setting", "beginning", "working"}

ReqRec == [pc     : {"idle", "acquiring"} \cup HoldPc,
           asks   : Asks,
           left   : Nat \cup {None},   \* until tonic drops the handler
           waited : Nat,               \* in acquire
           armed  : BOOLEAN,
           on     : Conn \cup {None},
           out    : Outs]              \* how the slot's last call ended

Rest(out) == [pc |-> "idle", asks |-> "plain", left |-> None, waited |-> 0,
              armed |-> FALSE, on |-> None, out |-> out]

ConnInit == conn = [c \in Conn |-> Fresh] /\ req = [r \in Req |-> Rest("none")]

ConnTypeOK == conn \in [Conn -> ConnRec] /\ req \in [Req -> ReqRec]

-----------------------------------------------------------------------------
(* acquire, and the time it has.                                           *)

\* Mutant: the margin is forgotten.
BoundWithoutMargin(d) == IF d = None \/ d > Ceiling THEN Ceiling ELSE d

\* Deadline::bound(ceiling): what the caller has left less the margin, never
\* more than the ceiling.
Bound(d) == IF d = None \/ d > Ceiling + Margin THEN Ceiling
            ELSE IF d < Margin THEN 0 ELSE d - Margin

\* Mutant: the wait is wrapped even where the pool's timer is due.
TimesOutAlways(bound) == "DEADLINE_EXCEEDED"

\* Which timer ends a wait of this bound.
TimesOutAs(bound) == IF bound < Ceiling THEN "DEADLINE_EXCEEDED" ELSE "UNAVAILABLE"

\* The deadline the call came with, while it waits.
Came(r) == IF req[r].left = None THEN None ELSE req[r].left + req[r].waited

\* caller::admitted.
Admitted(caller) == caller = "iam-caller"

\* A call arrives: the gate, then its deadline, then the wait.
Arrive(r, caller, asks, d) ==
    /\ req[r].pc = "idle"
    /\ req' = [req EXCEPT ![r] =
          IF ~Admitted(caller) THEN Rest("PERMISSION_DENIED")
          ELSE IF Bound(d) = 0 THEN Rest("DEADLINE_EXCEEDED")
          ELSE [Rest("none") EXCEPT !.pc = "acquiring", !.asks = asks, !.left = d]]
    /\ UNCHANGED conn

\* The pool hands over a connection nobody holds; begin arms it at once.
Acquire(r, c) ==
    /\ req[r].pc = "acquiring" /\ conn[c].holder = None
    /\ conn' = [conn EXCEPT ![c].holder = r]
    /\ req' = [req EXCEPT ![r].on = c, ![r].waited = 0,
                          ![r].armed = req[r].asks # "plain",
                          ![r].pc = CASE req[r].asks = "plain"   -> "working"
                                      [] req[r].asks = "default" -> "beginning"
                                      [] req[r].asks = "rc"      -> "setting"]

\* A slot is free, and the connection sqlx opens in it is refused (a login
\* after a rotation, TLS, a ping): db() answers at once, whatever the bound.
AcquireFails(r) ==
    /\ req[r].pc = "acquiring" /\ \E c \in Conn : conn[c].holder = None
    /\ req' = [req EXCEPT ![r] = Rest("UNAVAILABLE")]
    /\ UNCHANGED conn

\* Mutant: only a caller's deadline ends the wait.
TimeOutOfCaller(r) ==
    /\ req[r].pc = "acquiring" /\ req[r].left # None /\ req[r].waited = Bound(Came(r))
    /\ req' = [req EXCEPT ![r] = Rest(TimesOutAs(Bound(Came(r))))]
    /\ UNCHANGED conn

TimeOut(r) ==
    /\ req[r].pc = "acquiring" /\ req[r].waited = Bound(Came(r))
    /\ req' = [req EXCEPT ![r] = Rest(TimesOutAs(Bound(Came(r))))]
    /\ UNCHANGED conn

-----------------------------------------------------------------------------
(* Giving the connection back.                                             *)

\* Mutant: a half-way SET / BEGIN sequence is no reason to close.
ClosesIfCancelled(armed, cancelled) == cancelled

\* Mutant: a dropped request is no reason to close.
ClosesIfArmed(armed, cancelled) == armed

\* Conn's Drop: close_on_drop.
Closes(armed, cancelled) == armed \/ cancelled

\* sqlx's return to the pool: a ping, and the ROLLBACK a transaction it knows
\* of has queued.  The ping of a torn connection may wait for ever.
Pooled(s) == IF s.torn THEN [s EXCEPT !.holder = Leaked]
             ELSE [s EXCEPT !.holder = None, !.depth = 0,
                            !.tx = IF s.depth = 1 THEN "none" ELSE @]

\* The call of r ends with its connection in state s.
Release(r, s, cancelled, out) ==
    /\ conn' = [conn EXCEPT ![req[r].on] =
                   IF Closes(req[r].armed, cancelled) THEN Fresh ELSE Pooled(s)]
    /\ req' = [req EXCEPT ![r] = Rest(out)]

-----------------------------------------------------------------------------
(* SET TRANSACTION, BEGIN, and the work.                                   *)

SetDone(s) == [s EXCEPT !.next = "rc"]
BeginDone(s) == [s EXCEPT !.tx = s.next, !.next = "default"]

Set(r) ==
    LET c == req[r].on IN
    /\ req[r].pc = "setting"
    /\ conn' = [conn EXCEPT ![c] = SetDone(@)]
    /\ req' = [req EXCEPT ![r].pc = "beginning"]

\* BEGIN's OK arrives: sqlx counts the transaction, and begin disarms.
Begin(r) ==
    LET c == req[r].on IN
    /\ req[r].pc = "beginning"
    /\ conn' = [conn EXCEPT ![c] = [BeginDone(@) EXCEPT !.depth = 1]]
    /\ req' = [req EXCEPT ![r].pc = "working", ![r].armed = FALSE]

\* The SET or the BEGIN is refused: the handler returns the error.
BeginFails(r) ==
    /\ req[r].pc \in {"setting", "beginning"}
    /\ Release(r, conn[req[r].on], FALSE, "UNAVAILABLE")

\* The work ends: a commit, or a rollback as the transaction is dropped.
Finish(r, out) ==
    LET s == conn[req[r].on] IN
    /\ req[r].pc = "working"
    /\ Release(r, IF out = "OK" /\ s.depth = 1 THEN [s EXCEPT !.tx = "none", !.depth = 0]
                  ELSE s, FALSE, out)

\* What a drop can leave: the statement in flight has run or not, and its
\* reply was read half-way or not.
Cuts(r) ==
    LET s == conn[req[r].on]
        ran == CASE req[r].pc = "setting"   -> {s, SetDone(s)}
                 [] req[r].pc = "beginning" -> {s, BeginDone(s)}
                 [] OTHER -> {s}
    IN  {[x EXCEPT !.torn = t] : x \in ran, t \in BOOLEAN}

\* tonic drops the handler; store_work marks the request cancelled first.
Cut(r) ==
    \/ req[r].pc = "acquiring" /\ req' = [req EXCEPT ![r] = Rest("DROPPED")] /\ UNCHANGED conn
    \/ req[r].pc \in HoldPc /\ \E s \in Cuts(r) : Release(r, s, TRUE, "DROPPED")

HangUp(r) == Cut(r)
Deadline(r) == req[r].left = 0 /\ Cut(r)

-----------------------------------------------------------------------------
(* Time.  A timer that is due is served before time passes.                *)

Due(r) == \/ req[r].pc # "idle" /\ req[r].left = 0
          \/ req[r].pc = "acquiring" /\ req[r].waited = Bound(Came(r))

Aged(q) == IF q.pc = "idle" THEN q
           ELSE [q EXCEPT !.left = IF @ = None THEN None ELSE @ - 1,
                          !.waited = IF q.pc = "acquiring" THEN @ + 1 ELSE @]

Elapse == /\ \A r \in Req : ~Due(r)
          /\ req' = [r \in Req |-> Aged(req[r])]
          /\ UNCHANGED conn

Timers(r) == TimeOut(r) \/ Deadline(r)

Reply(r) == \/ AcquireFails(r) \/ Set(r) \/ Begin(r) \/ BeginFails(r)
            \/ \E out \in {"OK", "FAILED"} : Finish(r, out)

-----------------------------------------------------------------------------
(* Properties.                                                             *)

\* conn.rs: "A CONNECTION WHOSE REQUEST IS CANCELLED IS CLOSED, NOT POOLED".
\* Wherever a call was cut, a connection nobody holds has no transaction and
\* no level pending from an earlier one, and no slot is lost to a ping.
PooledIsClean == \A c \in Conn : /\ conn[c].holder # Leaked
                                 /\ conn[c].holder = None => conn[c] = Fresh

\* The work of a call runs in the transaction it asked for: at its own level,
\* and a plain statement in none, where its autocommit commits.
RunsAsAsked ==
    \A r \in Req : req[r].pc = "working" =>
       conn[req[r].on].tx = IF req[r].asks = "plain" THEN "none" ELSE req[r].asks

\* "this -db answer[s] DEADLINE_EXCEEDED itself, before tonic drops the
\* handler": a call that still waits for a connection has time left.
AnswersBeforeTheDrop == \A r \in Req : req[r].pc = "acquiring" => req[r].left # 0

\* The two timers of the wait.  DEADLINE_EXCEEDED: the caller had no more than
\* the margin left, before the pool's timer was due.  UNAVAILABLE while every
\* connection is held: the pool was exhausted for its whole acquire_timeout;
\* with a slot free it may also be the store that refused a connection.
NamesWhoRanOut ==
    [][\A r \in Req : (req[r].pc = "acquiring" /\ req'[r].pc = "idle") =>
          /\ req'[r].out = "DEADLINE_EXCEEDED" =>
                req[r].left # None /\ req[r].left <= Margin /\ req[r].waited < Ceiling
          /\ (req'[r].out = "UNAVAILABLE" /\ \A c \in Conn : conn[c].holder # None) =>
                req[r].waited = Ceiling]_connVars

\* Every wait for a connection ends, though every holder hang for ever.
EveryWaitEnds == \A r \in Req : (req[r].pc = "acquiring") ~> (req[r].pc # "acquiring")
=============================================================================
