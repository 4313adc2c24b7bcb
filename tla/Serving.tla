------------------------------ MODULE Serving ------------------------------
(***************************************************************************)
(* The process round the calls of ConnPool: the boot in its order, the     *)
(* signal handlers, the spawned server, the two reasons to stop (a signal, *)
(* a rotated file) and the drain with its budget.  A process that ended is *)
(* started again, over whatever files are mounted by then.                 *)
(*                                                                         *)
(* drain_within, rotate::watch and tonic's serve_with_shutdown live in     *)
(* other crates and are modelled from how main.rs uses them.               *)
(***************************************************************************)
EXTENDS ConnPool, Sequences

CONSTANTS
    Budget,        \* DRAIN_BUDGET
    MaxRotations   \* bound: how often the mounted files change

ASSUME BudgetAssumption == Budget \in Nat \ {0} /\ MaxRotations \in Nat

VARIABLES
    step,      \* how far the boot came; Len(Boot) + 1 once it is over
    task,      \* the spawned server
    signal,    \* a signal an armed handler has taken
    asked,     \* the stop was requested
    budget,    \* what is left of the drain's budget
    mount,     \* the version of the mounted files
    baseline,  \* the version the watch set hashed
    late,      \* HISTORY: the files changed after they were hashed
    exit       \* how the process ended

procVars == <<step, task, signal, asked, budget, baseline, late, exit>>
vars == <<connVars, procVars, mount>>

\* Each step refuses the boot or lets it go on.
Boot == <<"config", "transport", "addresses", "secret", "watch", "probe", "migrate", "arm">>
BootOver == step > Len(Boot)

TypeOK == /\ ConnTypeOK
          /\ step \in 1..(Len(Boot) + 1)
          /\ task \in {"none", "spawned", "running", "closed", "finished", "failed"}
          /\ signal \in BOOLEAN /\ asked \in BOOLEAN /\ late \in BOOLEAN
          /\ budget \in 0..Budget
          /\ mount \in 0..MaxRotations /\ baseline \in 0..MaxRotations
          /\ exit \in {"up", "0", "1", "killed"}

Init == /\ ConnInit
        /\ step = 1 /\ task = "none" /\ signal = FALSE /\ asked = FALSE
        /\ budget = Budget /\ mount = 0 /\ baseline = 0 /\ late = FALSE /\ exit = "up"

-----------------------------------------------------------------------------

\* The process is gone: its calls are dropped and the server rolls back what
\* they had open.
Gone == /\ conn' = [c \in Conn |-> Fresh]
        /\ req' = [r \in Req |-> IF req[r].pc = "idle" THEN req[r] ELSE Rest("DROPPED")]
Exit(code) == exit' = code /\ Gone /\ UNCHANGED <<step, task, signal, asked, budget, mount, baseline, late>>

\* Mutant: the baseline is what the watcher's first poll finds.
HashesAtServe == Boot[step] = "arm"

\* watch_and_schedule hashes the files when it assembles the watch set.
Hashes == Boot[step] = "watch"

\* One step of run; the last one arms the handlers and spawns the server.
BootStep ==
    /\ exit = "up" /\ ~BootOver
    /\ step' = step + 1
    /\ baseline' = IF Hashes THEN mount ELSE baseline
    /\ task' = IF Boot[step] = "arm" THEN "spawned" ELSE "none"
    /\ UNCHANGED <<connVars, signal, asked, budget, mount, late, exit>>

Refused == exit = "up" /\ ~BootOver /\ Exit("1")

\* The spawned server binds, or ends at once with the reason.
Bind == /\ exit = "up" /\ task = "spawned"
        /\ task' \in {"running", "failed"}
        /\ UNCHANGED <<connVars, step, signal, asked, budget, mount, baseline, late, exit>>

\* yadgar_lifecycle::shutdown was called: before the spawn.
Armed == BootOver

\* SIGTERM or SIGINT: the default disposition kills a process that is not
\* armed; once the stop was requested a further signal is swallowed.
Signal ==
    /\ exit = "up"
    /\ \/ ~Armed /\ Exit("killed")
       \/ /\ Armed
          /\ signal' = TRUE
          /\ UNCHANGED <<connVars, step, task, asked, budget, mount, baseline, late, exit>>

\* kubelet swaps the mounted files, whatever the process does.
Rotate ==
    /\ mount < MaxRotations
    /\ mount' = mount + 1
    /\ late' = (late \/ (exit = "up" /\ step > 5))
    /\ UNCHANGED <<connVars, step, task, signal, asked, budget, baseline, exit>>

\* Mutant: the budget's clock started with the server.
BudgetFromSpawn == task \in {"running", "closed"}

\* drain_within's clock starts when the stop is requested.
ClockRuns == asked

\* The select! of the signals and rotate::watch.
Stop ==
    /\ exit = "up" /\ BootOver /\ ~asked
    /\ signal \/ mount # baseline
    /\ asked' = TRUE
    /\ UNCHANGED <<connVars, step, task, signal, budget, mount, baseline, late, exit>>

\* serve_with_shutdown hears it: the listener closes, the calls in flight go on.
Close == /\ exit = "up" /\ asked /\ task = "running"
         /\ task' = "closed"
         /\ UNCHANGED <<connVars, step, signal, asked, budget, mount, baseline, late, exit>>

Drained == /\ exit = "up" /\ task = "closed" /\ \A r \in Req : req[r].pc = "idle"
           /\ task' = "finished"
           /\ UNCHANGED <<connVars, step, signal, asked, budget, mount, baseline, late, exit>>

\* Drain::Finished, with the server's own result.
Finished == /\ exit = "up" /\ task \in {"finished", "failed"}
            /\ Exit(IF task = "failed" THEN "1" ELSE "0")

Overrun == ClockRuns /\ budget = 0

\* Drain::Overran: the process ends anyway, with calls still in flight.
Overran == /\ exit = "up" /\ task \notin {"none", "finished", "failed"}
           /\ Overrun
           /\ Exit("0")

\* Kubernetes starts the container again.
Restart == /\ exit # "up"
           /\ step' = 1 /\ task' = "none" /\ signal' = FALSE /\ asked' = FALSE
           /\ budget' = Budget /\ baseline' = 0 /\ late' = FALSE /\ exit' = "up"
           /\ UNCHANGED <<connVars, mount>>

\* The server's own steps come before time passes, like the timers, and so
\* does the end of the budget.
Tick == /\ exit = "up"
        /\ ~(asked /\ task \in {"spawned", "running", "finished", "failed"})
        /\ ClockRuns => budget > 0
        /\ Elapse
        /\ budget' = IF ClockRuns THEN budget - 1 ELSE budget
        /\ UNCHANGED <<step, task, signal, asked, mount, baseline, late, exit>>

-----------------------------------------------------------------------------
\* A call of ConnPool.  tonic takes a new one until its listener has closed.
Call(r) ==
    /\ exit = "up"
    /\ \/ /\ task = "running"
          /\ \E caller \in Caller, asks \in Asks, d \in Deadlines : Arrive(r, caller, asks, d)
       \/ \E c \in Conn : Acquire(r, c)
       \/ Timers(r) \/ Reply(r) \/ HangUp(r)
    /\ UNCHANGED <<procVars, mount>>

OfTimer(r) == exit = "up" /\ Timers(r) /\ UNCHANGED <<procVars, mount>>

Next == \/ BootStep \/ Refused \/ Bind \/ Signal \/ Rotate \/ Stop \/ Close
        \/ Drained \/ Finished \/ Overran \/ Restart \/ Tick
        \/ \E r \in Req : Call(r)

\* The clock runs, timers fire, and the runtime polls its tasks.  No fairness
\* for the store's replies: a statement may hang for ever.
Spec == /\ Init /\ [][Next]_vars
        /\ WF_vars(Tick) /\ WF_vars(Bind) /\ WF_vars(Stop) /\ WF_vars(Close)
        /\ WF_vars(Drained) /\ WF_vars(Finished) /\ WF_vars(Overran)
        /\ \A r \in Req : WF_vars(OfTimer(r))

-----------------------------------------------------------------------------
(* Properties.                                                             *)

\* main.rs: "lets in-flight calls finish".  The end of the process cuts only
\* calls that had the whole budget after the stop was requested and no deadline
\* of their own to end them sooner; no signal kills it with calls in flight.
CutsOnlyTheUnbounded ==
    [][\A r \in Req : (exit = "up" /\ exit' # "up" /\ req[r].pc # "idle")
          => asked /\ budget = 0 /\ req[r].left \in {None, 0}]_vars

\* A signal to an armed process ends it, and so does a file that changed after
\* it was hashed (rotate.rs), so that nobody goes on presenting what is no longer
\* mounted: the drain ends though every call in flight hangs.
StopEndsIt == (signal \/ (late /\ BootOver)) ~> exit # "up"

\* conn.rs over a whole life of the process: types, PooledIsClean (a connection
\* nobody holds is like a new one) and RunsAsAsked (work runs at its own level).
ServingInv == TypeOK /\ PooledIsClean /\ RunsAsAsked
=============================================================================
