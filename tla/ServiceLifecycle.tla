-------------------------- MODULE ServiceLifecycle --------------------------
(***************************************************************************)
(* The Windows service process: three threads that share two atomic flags. *)
(*                                                                         *)
(*   - the dispatcher thread blocks in StartServiceCtrlDispatcherW and     *)
(*     runs service_ctrl_handler, one control at a time;                   *)
(*   - the service thread runs service_main;                               *)
(*   - the worker thread runs core::service::run, the main loop.           *)
(*                                                                         *)
(* One action is one access to the flags or one SetServiceStatus call, so  *)
(* the threads interleave at every point where they can see each other.    *)
(* The service control manager (SCM) is external: it keeps the last status *)
(* the process reported and sends controls that this status allows.  The   *)
(* network calls of a cycle are one step here: the cycle returns or throws.*)
(***************************************************************************)
EXTENDS Naturals

CONSTANT Slices     \* 100 ms slices in update_interval_

ASSUME SlicesAssumption == Slices \in Nat

VARIABLES
    running,    \* g_service_running()
    paused,     \* g_service_paused()
    reported,   \* dwCurrentState as the SCM last heard it
    main,       \* where service_main is
    worker,     \* where the worker thread is
    slice,      \* i, the slice counter of run()'s waiting loop
    ctl,        \* the control service_ctrl_handler is executing, or "none"
    step,       \* its statements already executed
    late,       \* ghost: cycles begun since the loop was last told to quit
    alive       \* the process exists

vars == <<running, paused, reported, main, worker, slice, ctl, step, late, alive>>

Controls == {"STOP", "SHUTDOWN", "PAUSE", "CONTINUE"}
Stops    == {"STOP", "SHUTDOWN"}

MainPcs   == {"register", "start", "spawn", "poll", "join", "report", "stopped", "failed"}
WorkerPcs == {"none", "new", "checkRunning", "checkPaused", "enter", "db", "process",
              "waitBound", "waitRunning", "waitPaused", "finished"}
Statuses  == {"START_PENDING", "RUNNING", "PAUSE_PENDING", "PAUSED",
              "CONTINUE_PENDING", "STOP_PENDING", "STOPPED"}

\* Where the ghost counter stops: one more than the single late cycle allowed.
LateBound == 2

\* The loop is told to keep cycling; a cycle is being executed.
Go      == running /\ ~paused
InCycle == worker \in {"db", "process"}

TypeOK ==
    /\ running \in BOOLEAN /\ paused \in BOOLEAN /\ alive \in BOOLEAN
    /\ reported \in Statuses
    /\ main \in MainPcs
    /\ worker \in WorkerPcs
    /\ slice \in 0..Slices
    /\ ctl \in Controls \cup {"none"}
    /\ step \in 0..3
    /\ late \in 0..1

Init ==
    /\ running = TRUE /\ paused = FALSE
    /\ reported = "START_PENDING"
    /\ main = "register" /\ worker = "none" /\ slice = 0
    /\ ctl = "none" /\ step = 0
    /\ late = 0 /\ alive = TRUE

-----------------------------------------------------------------------------
(* The service control manager and the dispatcher thread                   *)

\* Controls the SCM sends in the state it last heard.  SHUTDOWN is its own
\* and follows dwControlsAccepted, which the process sets with START_PENDING.
\* Once the service has reported STOPPED no control follows.
Sendable ==
    IF main \in {"register", "start", "failed", "stopped"} THEN {}
    ELSE {c \in Controls : \/ reported \in {"RUNNING", "PAUSED"}
                           \/ c = "SHUTDOWN" /\ reported = "START_PENDING"}

Receive(c) ==
    /\ alive /\ ctl = "none" /\ c \in Sendable
    /\ ctl' = c /\ step' = 0
    /\ UNCHANGED <<running, paused, reported, main, worker, slice, late, alive>>

\* The flag g_service_paused() takes value b, now that running is r.
SetFlags(r, b) ==
    /\ running' = r /\ paused' = b
    /\ late' = IF r /\ ~b THEN 0 ELSE late

Report(s) == reported' = s

HandlerAdvance == step' = step + 1 /\ UNCHANGED ctl
HandlerReturn  == ctl' = "none" /\ step' = 0

\* Mutant of PauseFlag: STOP leaves the flag set, as if copied from PAUSE.
MutPauseFlag == ctl # "CONTINUE"

\* What the branch of this control stores in g_service_paused().
PauseFlag == ctl = "PAUSE"

\* First statement of every branch: g_service_paused() = ...
HandlePausedFlag ==
    /\ ctl # "none" /\ step = 0
    /\ SetFlags(running, PauseFlag)
    /\ HandlerAdvance
    /\ UNCHANGED <<reported, main, worker, slice, alive>>

\* STOP, SHUTDOWN: core->stop(), then STOP_PENDING.
HandleStop ==
    /\ ctl \in Stops /\ step = 1
    /\ SetFlags(FALSE, paused)
    /\ HandlerAdvance
    /\ UNCHANGED <<reported, main, worker, slice, alive>>

HandleStopReport ==
    /\ ctl \in Stops /\ step = 2
    /\ Report("STOP_PENDING")
    /\ HandlerReturn
    /\ UNCHANGED <<running, paused, main, worker, slice, late, alive>>

\* PAUSE, CONTINUE: the pending status, core->pause() or core->resume(), the
\* final status at once: neither branch waits for the worker.
HandlePending ==
    /\ ctl \in {"PAUSE", "CONTINUE"} /\ step = 1
    /\ Report(IF ctl = "PAUSE" THEN "PAUSE_PENDING" ELSE "CONTINUE_PENDING")
    /\ HandlerAdvance
    /\ UNCHANGED <<running, paused, main, worker, slice, late, alive>>

HandleCore ==
    /\ ctl \in {"PAUSE", "CONTINUE"} /\ step = 2
    /\ SetFlags(running, PauseFlag)
    /\ HandlerAdvance
    /\ UNCHANGED <<reported, main, worker, slice, alive>>

HandleReport ==
    /\ ctl \in {"PAUSE", "CONTINUE"} /\ step = 3
    /\ Report(IF ctl = "PAUSE" THEN "PAUSED" ELSE "RUNNING")
    /\ HandlerReturn
    /\ UNCHANGED <<running, paused, main, worker, slice, late, alive>>

\* StartServiceCtrlDispatcherW returns once the service reported STOPPED and no
\* control is being handled; the process ends and the SCM marks it stopped.
DispatcherReturns ==
    /\ alive /\ main = "stopped" /\ ctl = "none"
    /\ alive' = FALSE /\ Report("STOPPED")
    /\ UNCHANGED <<running, paused, main, worker, slice, ctl, step, late>>

Handler == \/ HandlePausedFlag \/ HandleStop \/ HandleStopReport
           \/ HandlePending \/ HandleCore \/ HandleReport

-----------------------------------------------------------------------------
(* The service thread: service_main                                        *)

MainTo(pc) ==
    main' = pc /\ UNCHANGED <<running, paused, slice, ctl, step, late, alive>>

\* RegisterServiceCtrlHandlerW fails: service_main returns and reports nothing.
RegisterFails == main = "register" /\ MainTo("failed") /\ UNCHANGED <<reported, worker>>

Register == main = "register" /\ MainTo("start") /\ UNCHANGED <<reported, worker>>

ReportStarting ==
    main = "start" /\ MainTo("spawn") /\ Report("START_PENDING") /\ UNCHANGED worker

SpawnWorker ==
    main = "spawn" /\ MainTo("poll") /\ worker' = "new" /\ UNCHANGED reported

\* The polling loop sees the flag cleared.
PollStopped ==
    main = "poll" /\ ~running /\ MainTo("join") /\ UNCHANGED <<reported, worker>>

\* Mutant of JoinWorker: the worker is detached, not joined.
MutJoinWorker ==
    main = "join" /\ MainTo("report") /\ UNCHANGED <<reported, worker>>

JoinWorker ==
    main = "join" /\ worker = "finished" /\ MainTo("report") /\ UNCHANGED <<reported, worker>>

ReportStopped ==
    main = "report" /\ MainTo("stopped") /\ Report("STOPPED") /\ UNCHANGED worker

Main == \/ Register \/ ReportStarting \/ SpawnWorker
        \/ PollStopped \/ JoinWorker \/ ReportStopped

-----------------------------------------------------------------------------
(* The worker thread: core::service::run                                   *)

WorkerTo(pc) == worker' = pc /\ UNCHANGED <<running, paused, main, ctl, step, alive>>

ReportRunning ==
    /\ worker = "new" /\ WorkerTo("checkRunning")
    /\ Report("RUNNING")
    /\ UNCHANGED <<slice, late>>

\* Mutant of LoopRunning: the loop is while (!g_service_paused()).
MutLoopRunning ==
    /\ worker = "checkRunning" /\ WorkerTo("checkPaused")
    /\ UNCHANGED <<reported, slice, late>>

\* while (g_service_running() && !g_service_paused())
LoopRunning ==
    /\ worker = "checkRunning"
    /\ WorkerTo(IF running THEN "checkPaused" ELSE "finished")
    /\ UNCHANGED <<reported, slice, late>>

\* Mutant of LoopPaused: the loop is while (g_service_running()).
MutLoopPaused ==
    /\ worker = "checkPaused" /\ WorkerTo("enter")
    /\ UNCHANGED <<reported, slice, late>>

LoopPaused ==
    /\ worker = "checkPaused"
    /\ WorkerTo(IF paused THEN "finished" ELSE "enter")
    /\ UNCHANGED <<reported, slice, late>>

BeginCycle ==
    /\ worker = "enter" /\ WorkerTo("db")
    /\ late' = IF Go \/ late = LateBound THEN late ELSE late + 1
    /\ UNCHANGED <<reported, slice>>

\* get_db_info() returns, or throws and the cycle is over.
GetDbInfo ==
    /\ worker = "db" /\ WorkerTo("process")
    /\ UNCHANGED <<reported, slice, late>>

\* Mutant of GetDbInfoThrows: the exception is not caught and ends run().
MutGetDbInfoThrows ==
    /\ worker = "db" /\ WorkerTo("finished")
    /\ UNCHANGED <<reported, slice, late>>

GetDbInfoThrows ==
    /\ worker = "db" /\ WorkerTo("waitBound")
    /\ slice' = 0
    /\ UNCHANGED <<reported, late>>

\* process_cycle() returns, or throws and the exception is caught: both go on.
ProcessCycle ==
    /\ worker = "process" /\ WorkerTo("waitBound")
    /\ slice' = 0
    /\ UNCHANGED <<reported, late>>

\* Mutant of MoreSlices: i <= total_ms / 100.
MutMoreSlices == slice <= Slices

\* for (i = 0; i < total_ms / 100 && running && !paused; ++i) sleep
MoreSlices == slice < Slices

WaitBound ==
    /\ worker = "waitBound"
    /\ WorkerTo(IF MoreSlices THEN "waitRunning" ELSE "checkRunning")
    /\ UNCHANGED <<reported, slice, late>>

WaitRunning ==
    /\ worker = "waitRunning"
    /\ WorkerTo(IF running THEN "waitPaused" ELSE "checkRunning")
    /\ UNCHANGED <<reported, slice, late>>

WaitPaused ==
    /\ worker = "waitPaused"
    /\ WorkerTo(IF paused THEN "checkRunning" ELSE "waitBound")
    /\ slice' = IF paused THEN slice ELSE slice + 1
    /\ UNCHANGED <<reported, late>>

Worker == \/ ReportRunning \/ LoopRunning \/ LoopPaused
          \/ BeginCycle \/ GetDbInfo \/ GetDbInfoThrows \/ ProcessCycle
          \/ WaitBound \/ WaitRunning \/ WaitPaused

-----------------------------------------------------------------------------
\* The process is gone, or service_main returned without a handler: nothing is
\* left to do.
Terminated == (~alive \/ main = "failed") /\ UNCHANGED vars

Next ==
    \/ \E c \in Controls : Receive(c)
    \/ Handler \/ DispatcherReturns
    \/ RegisterFails \/ Main
    \/ Worker
    \/ Terminated

Spec == Init /\ [][Next]_vars

\* Every thread the operating system runs makes progress, and the calls of a
\* cycle return.  Nothing makes the SCM send a control.
FairSpec ==
    /\ Spec
    /\ WF_vars(Handler) /\ WF_vars(DispatcherReturns)
    /\ WF_vars(Main) /\ WF_vars(Worker)

-----------------------------------------------------------------------------
(* What every reachable state satisfies, inductively: the parts the        *)
(* properties below follow from.                                           *)

\* The handler is between controls, or its branch has set the pause flag to
\* the value the control stands for.
HandlerInv ==
    /\ ctl = "none" => step = 0
    /\ ctl \in Stops => step < 3
    /\ step > 0 => (paused <=> ctl = "PAUSE")

\* No pause can arrive before the worker reports RUNNING.
StartInv ==
    worker \in {"none", "new"} =>
        /\ ~paused
        /\ ctl \in {"none", "SHUTDOWN"}
        /\ reported \in {"START_PENDING", "STOP_PENDING"}

\* service_main's place says what the worker and the flag can be.
MainInv ==
    /\ main \in {"register", "start", "spawn", "failed"} <=> worker = "none"
    /\ main \in {"join", "report", "stopped"} => ~running
    /\ main \in {"report", "stopped"} => worker = "finished"
    /\ reported = "STOPPED" \/ ~alive => main = "stopped"

\* A late cycle uses up the allowance: after it the loop cannot get past its
\* two checks until it is told to go on.
LateInv ==
    /\ Go => late = 0
    /\ late = 1 => worker # "enter" /\ (worker = "checkPaused" => running /\ paused)

\* Past the bound check of the wait, a slice is left to sleep.
WaitInv == worker \in {"waitRunning", "waitPaused"} => slice < Slices

-----------------------------------------------------------------------------
\* Between controls, the state the SCM shows is the one the loop obeys: it says
\* RUNNING exactly while the pause flag is clear and PAUSED while it is set,
\* whatever the worker and service_main reported in between
\* (windows_service.cpp:45-67, :94-95).
ReportedMatchesFlag ==
    ctl = "none" /\ reported \in {"RUNNING", "PAUSED"} => (paused <=> reported = "PAUSED")

\* The inductive invariant: with it every step keeps TypeOK, and
\* late \in 0..1 is the promise that a quit lets at most one cycle through
\* (service.cpp:76-91).
IInv == TypeOK /\ HandlerInv /\ StartInv /\ MainInv /\ LateInv /\ WaitInv
        /\ ReportedMatchesFlag

\* Nobody is told the service stopped while the worker can still touch the
\* devices: STOPPED is reported only after run() returned for good
\* (windows_service.cpp:105-114).
StoppedMeansQuiet ==
    reported = "STOPPED" => worker = "finished" /\ ~running

\* The threads together keep the promise of ServiceContract: one cycle at a
\* time, at most one late cycle, an end between cycles.
Contract == INSTANCE ServiceContract WITH go <- Go, busy <- InCycle, ended <- main = "stopped"
KeepsContract == Contract!Spec

\* A stop asked for at any point, in a cycle, in a wait, while paused or while
\* starting, ends the process (service.h:40, windows_service.cpp:34-43).
StopEnds == ~running ~> ~alive

\* A pause that is not lifted brings the worker to rest (service.h:34).
PauseRests == paused ~> worker = "finished" \/ ~paused

\* What service.h:37 and the log line "Service resumed" (windows_service.cpp:66)
\* say of CONTINUE: the cycles come back.
ResumeRestartsCycles ==
    ctl = "CONTINUE" /\ step = 3 /\ running ~> InCycle \/ ~Go
=============================================================================
