------------------------ MODULE ServiceStartup_proofs ------------------------
(***************************************************************************)
(* Theorems about ServiceLifecycle, for every number of waiting slices,    *)
(* and about ServiceStartup, for every set of launches: what is shown of   *)
(* one service process holds for all its lives, however they are started.  *)
(***************************************************************************)
EXTENDS ServiceStartup, TLAPS

-----------------------------------------------------------------------------
(* One service process                                                     *)

\* The initial state satisfies the inductive invariant.
LEMMA InitIInv == Init => IInv
<1> SUFFICES ASSUME Init PROVE IInv
  OBVIOUS
<1> USE DEF Init
<1>1. TypeOK
  <2>1. running \in BOOLEAN /\ paused \in BOOLEAN /\ alive \in BOOLEAN
    BY Zenon
  <2>2. slice \in 0..Slices /\ step \in 0..3 /\ late \in 0..1
    BY SlicesAssumption
  <2> QED BY <2>1, <2>2, Zenon DEF TypeOK, Controls, MainPcs, WorkerPcs, Statuses
<1>2. HandlerInv /\ StartInv /\ MainInv
  BY DEF HandlerInv, StartInv, MainInv, Stops
<1>3. LateInv /\ WaitInv /\ ReportedMatchesFlag
  BY DEF LateInv, WaitInv, ReportedMatchesFlag
<1> QED BY <1>1, <1>2, <1>3 DEF IInv

\* Every step of a thread or of the SCM keeps it.
LEMMA StepIInv == IInv /\ [Next]_vars => IInv'
<1> USE SlicesAssumption
       DEF IInv, TypeOK, HandlerInv, StartInv, MainInv, LateInv, WaitInv, ReportedMatchesFlag,
           Go, Controls, Stops, MainPcs, WorkerPcs, Statuses
<1> SUFFICES ASSUME IInv, [Next]_vars PROVE IInv'
  OBVIOUS
<1>1. ASSUME NEW c \in Controls, Receive(c) PROVE IInv'
  BY <1>1 DEF Receive, Sendable
<1>2. ASSUME Handler PROVE IInv'
  <2> USE DEF SetFlags, PauseFlag, HandlerAdvance, HandlerReturn, Report
  <2>1. CASE HandlePausedFlag
    <3>1. paused' \in BOOLEAN /\ (paused' <=> ctl = "PAUSE")
      BY <2>1, Zenon DEF HandlePausedFlag
    <3> QED BY <2>1, <3>1 DEF HandlePausedFlag
  <2>2. CASE HandleStop
    <3>1. ~running' /\ running' \in BOOLEAN /\ (paused' <=> paused) /\ paused' \in BOOLEAN
      BY <2>2, Zenon DEF HandleStop
    <3>2. late' = late
      BY <2>2 DEF HandleStop
    <3> QED BY <2>2, <3>1, <3>2 DEF HandleStop
  <2>3. CASE HandleStopReport BY <2>3 DEF HandleStopReport
  <2>4. CASE HandlePending BY <2>4 DEF HandlePending
  <2>5. CASE HandleCore
    <3>1. paused' \in BOOLEAN /\ (paused' <=> ctl = "PAUSE")
      BY <2>5, Zenon DEF HandleCore
    <3> QED BY <2>5, <3>1 DEF HandleCore
  <2>6. CASE HandleReport BY <2>6 DEF HandleReport
  <2> QED BY <1>2, <2>1, <2>2, <2>3, <2>4, <2>5, <2>6 DEF Handler
<1>3. CASE DispatcherReturns
  BY <1>3 DEF DispatcherReturns, Report
<1>4. CASE RegisterFails \/ Main
  <2> USE DEF MainTo, Report
  <2>1. CASE RegisterFails \/ Register \/ ReportStarting BY <2>1 DEF RegisterFails, Register, ReportStarting
  <2>2. CASE SpawnWorker BY <2>2 DEF SpawnWorker
  <2>3. CASE PollStopped BY <2>3 DEF PollStopped
  <2>4. CASE JoinWorker BY <2>4 DEF JoinWorker
  <2>5. CASE ReportStopped BY <2>5 DEF ReportStopped
  <2> QED BY <1>4, <2>1, <2>2, <2>3, <2>4, <2>5 DEF Main
<1>5. CASE Worker
  <2> USE DEF WorkerTo
  <2>1. CASE ReportRunning BY <2>1 DEF ReportRunning, Report
  <2>2. CASE LoopRunning BY <2>2 DEF LoopRunning
  <2>3. CASE LoopPaused BY <2>3 DEF LoopPaused
  <2>4. CASE BeginCycle BY <2>4 DEF BeginCycle, LateBound
  <2>5. CASE GetDbInfo \/ GetDbInfoThrows \/ ProcessCycle
    BY <2>5 DEF GetDbInfo, GetDbInfoThrows, ProcessCycle
  <2>6. CASE WaitBound BY <2>6 DEF WaitBound, MoreSlices
  <2>7. CASE WaitRunning BY <2>7 DEF WaitRunning
  <2>8. CASE WaitPaused BY <2>8 DEF WaitPaused
  <2> QED BY <1>5, <2>1, <2>2, <2>3, <2>4, <2>5, <2>6, <2>7, <2>8 DEF Worker
<1>6. CASE UNCHANGED vars
  BY <1>6 DEF vars
<1> QED BY <1>1, <1>2, <1>3, <1>4, <1>5, <1>6 DEF Next, Terminated

\* The inductive invariant holds throughout.
LEMMA Invariance == Spec => []IInv
BY InitIInv, StepIInv, PTL DEF Spec

\* Every variable keeps its type; late \in 0..1 is the bound on late cycles.
THEOREM TypeCorrect == Spec => []TypeOK
<1>1. IInv => TypeOK
  BY DEF IInv
<1> QED BY <1>1, Invariance, PTL

\* The status the SCM shows between controls is the one the loop obeys.
THEOREM StatusAgrees == Spec => []ReportedMatchesFlag
<1>1. IInv => ReportedMatchesFlag
  BY DEF IInv
<1> QED BY <1>1, Invariance, PTL

\* STOPPED is reported only when the main loop has returned for good.
THEOREM StoppedIsQuiet == Spec => []StoppedMeansQuiet
<1>1. IInv => StoppedMeansQuiet
  BY DEF IInv, MainInv, StoppedMeansQuiet
<1> QED BY <1>1, Invariance, PTL

-----------------------------------------------------------------------------
(* The threads implement ServiceContract                                   *)

\* The initial states agree.
LEMMA InitRefines == Init => Contract!Init
BY DEF Init, Contract!Init, Go, InCycle

\* A step of a thread or of the SCM is a step of the contract or a stutter.
LEMMA StepRefines == IInv /\ [Next]_vars => [Contract!Next]_Contract!vars
<1> USE DEF Go, InCycle
<1> SUFFICES ASSUME IInv, [Next]_vars PROVE [Contract!Next]_Contract!vars
  OBVIOUS
<1>1. ASSUME NEW c \in Controls, Receive(c) PROVE UNCHANGED Contract!vars
  BY <1>1 DEF Receive, Contract!vars
<1>2. CASE Handler
  <2>1. ASSUME NEW r \in BOOLEAN, NEW b \in BOOLEAN, SetFlags(r, b), r => running,
               UNCHANGED <<main, worker>>
        PROVE  [Contract!Next]_Contract!vars
    <3>1. running => main # "stopped"
      BY DEF IInv, MainInv
    <3>2. Go => late = 0
      BY DEF IInv, LateInv
    <3> QED BY <2>1, <3>1, <3>2
            DEF SetFlags, Contract!Next, Contract!Quit, Contract!Resume, Contract!vars
  <2>2. CASE HandlePausedFlag
    BY <2>1, <2>2 DEF HandlePausedFlag, PauseFlag, IInv, TypeOK
  <2>3. CASE HandleStop
    BY <2>1, <2>3 DEF HandleStop, IInv, TypeOK
  <2>4. CASE HandleCore
    BY <2>1, <2>4 DEF HandleCore, PauseFlag, IInv, TypeOK
  <2>5. CASE HandleStopReport \/ HandlePending \/ HandleReport
    BY <2>5 DEF HandleStopReport, HandlePending, HandleReport, Contract!vars
  <2> QED BY <1>2, <2>2, <2>3, <2>4, <2>5 DEF Handler
<1>3. CASE DispatcherReturns \/ Terminated
  BY <1>3 DEF DispatcherReturns, Terminated, vars, Contract!vars
<1>4. CASE RegisterFails \/ Main
  <2> USE DEF MainTo
  <2>1. CASE ReportStopped
    BY <2>1 DEF ReportStopped, IInv, MainInv, Contract!Next, Contract!End
  <2>2. CASE RegisterFails \/ Register \/ ReportStarting \/ PollStopped \/ JoinWorker
    BY <2>2 DEF RegisterFails, Register, ReportStarting, PollStopped, JoinWorker, Contract!vars
  <2>3. CASE SpawnWorker
    BY <2>3 DEF SpawnWorker, IInv, MainInv, Contract!vars
  <2> QED BY <1>4, <2>1, <2>2, <2>3 DEF Main
<1>5. CASE Worker
  <2> USE DEF WorkerTo
  <2>1. CASE BeginCycle
    BY <2>1 DEF BeginCycle, LateBound, IInv, TypeOK, MainInv, LateInv, Contract!Next, Contract!Begin
  <2>2. CASE GetDbInfoThrows \/ ProcessCycle
    BY <2>2 DEF GetDbInfoThrows, ProcessCycle, Contract!Next, Contract!Finish
  <2>3. CASE ReportRunning \/ LoopRunning \/ LoopPaused \/ GetDbInfo
             \/ WaitBound \/ WaitRunning \/ WaitPaused
    BY <2>3 DEF ReportRunning, LoopRunning, LoopPaused, GetDbInfo,
                WaitBound, WaitRunning, WaitPaused, Contract!vars
  <2> QED BY <1>5, <2>1, <2>2, <2>3 DEF Worker
<1>6. CASE UNCHANGED vars
  BY <1>6 DEF vars, Contract!vars
<1> QED BY <1>1, <1>2, <1>3, <1>4, <1>5, <1>6 DEF Next

\* The service process keeps the promise of ServiceContract: cycles one at a
\* time, at most one after a pause or a stop, an end only between cycles.
THEOREM Refinement == Spec => KeepsContract
BY InitRefines, StepRefines, Invariance, PTL DEF Spec, KeepsContract, Contract!Spec

-----------------------------------------------------------------------------
(* All its lives                                                           *)

\* The machine on which the program never ran satisfies the invariant.
LEMMA StartupInitInv == StartupInit => StartupInv
<1> SUFFICES ASSUME StartupInit PROVE StartupInv
  OBVIOUS
<1>1. Init
  BY DEF StartupInit
<1>2. IInv
  BY <1>1, InitIInv
<1>3. StartupTypeOK
  BY <1>2 DEF IInv, StartupTypeOK, StartupInit, LaunchPcs, ServePcs
<1>4. ProcessInv /\ RegisteredHasData
  BY <1>1 DEF ProcessInv, RegisteredHasData, StartupInit
<1> QED BY <1>2, <1>3, <1>4 DEF StartupInv

\* A process the SCM creates begins where a first process begins.
LEMMA CreatedIsFresh == CreateProcess => Init'
BY DEF CreateProcess, Init

\* The initial predicate looks at nothing but the variables of the process.
LEMMA InitKept == Init /\ UNCHANGED vars => Init'
BY DEF Init, vars

\* In the primed state as in the unprimed one, a fresh process satisfies the
\* inductive invariant of ServiceLifecycle.
LEMMA FreshIInv == Init' => IInv'
<1> SUFFICES ASSUME Init' PROVE IInv'
  OBVIOUS
<1> USE DEF Init
<1>1. TypeOK'
  <2>1. running' \in BOOLEAN /\ paused' \in BOOLEAN /\ alive' \in BOOLEAN
    BY Zenon
  <2>2. slice' \in 0..Slices /\ step' \in 0..3 /\ late' \in 0..1
    BY SlicesAssumption
  <2> QED BY <2>1, <2>2, Zenon DEF TypeOK, Controls, MainPcs, WorkerPcs, Statuses
<1>2. (HandlerInv /\ StartInv /\ MainInv)'
  BY DEF HandlerInv, StartInv, MainInv, Stops
<1>3. (LateInv /\ WaitInv /\ ReportedMatchesFlag)'
  BY DEF LateInv, WaitInv, ReportedMatchesFlag
<1> QED BY <1>1, <1>2, <1>3 DEF IInv

\* What a step of the composition is to the service process: one of its own
\* steps, none, or its creation anew.
LEMMA StepOfProcess == StartupNext => [Next]_vars \/ CreateProcess
<1> SUFFICES ASSUME StartupNext PROVE [Next]_vars \/ CreateProcess
  OBVIOUS
<1>1. ASSUME NEW l \in Launches, LaunchStep(l) \/ CallFails(l)
      PROVE  UNCHANGED vars \/ CreateProcess
  BY <1>1 DEF LaunchStep, CallFails, Prepare, ChooseMode, CheckAdmin, LookUp, Create,
              StartService, AlreadyRunning, NothingToStart
<1>2. CASE ScmStarts \/ Remove
  BY <1>2 DEF ScmStarts, Remove
<1>3. CASE ServiceStep \/ ServiceGivesUp
  BY <1>3 DEF ServiceStep, ServicePrepare, RunService, ServiceEnds, ServiceGivesUp, Next
<1>4. ASSUME NEW c \in Controls, Serving(Receive(c)) PROVE Next
  BY <1>4 DEF Serving, Next
<1>5. CASE Serving(Handler) \/ Serving(RegisterFails) \/ Serving(Main) \/ Serving(Worker)
  BY <1>5 DEF Serving, Next
<1>6. CASE NothingLeft
  BY <1>6 DEF NothingLeft, allVars
<1> QED BY <1>1, <1>2, <1>3, <1>4, <1>5, <1>6 DEF StartupNext

\* Every step keeps the invariant.
LEMMA StartupStepInv == StartupInv /\ [StartupNext]_allVars => StartupInv'
<1> SUFFICES ASSUME StartupInv, [StartupNext]_allVars PROVE StartupInv'
  OBVIOUS
<1> USE DEF StartupInv, StartupTypeOK, ProcessInv, RegisteredHasData
<1>1. IInv'
  <2>1. CASE StartupNext
    <3>1. CASE [Next]_vars BY <3>1, StepIInv
    <3>2. CASE CreateProcess BY <3>2, CreatedIsFresh, FreshIInv
    <3> QED BY <2>1, <3>1, <3>2, StepOfProcess
  <2>2. CASE UNCHANGED allVars BY <2>2, StepIInv DEF allVars
  <2> QED BY <2>1, <2>2
<1>2. TypeOK'
  BY <1>1 DEF IInv
<1>3. ASSUME NEW l \in Launches, LaunchStep(l) \/ CallFails(l) PROVE StartupInv'
  <2> USE DEF LaunchTo, LaunchPcs, ServePcs
  <2>1. CASE CallFails(l)
    BY <1>1, <1>2, <2>1, InitKept DEF CallFails, vars
  <2>2. CASE Prepare(l)
    BY <1>1, <1>2, <2>2, InitKept DEF Prepare, vars
  <2>3. CASE ChooseMode(l) \/ CheckAdmin(l)
    BY <1>1, <1>2, <2>3, InitKept DEF ChooseMode, CheckAdmin, vars
  <2>4. CASE LookUp(l) \/ NothingToStart(l) \/ AlreadyRunning(l)
    BY <1>1, <1>2, <2>4, InitKept DEF LookUp, NothingToStart, AlreadyRunning, vars
  <2>5. CASE Create(l)
    BY <1>1, <1>2, <2>5, InitKept DEF Create, vars
  <2>6. CASE StartService(l)
    BY <1>1, <1>2, <2>6, CreatedIsFresh DEF StartService, CreateProcess
  <2> QED BY <1>3, <2>1, <2>2, <2>3, <2>4, <2>5, <2>6 DEF LaunchStep
<1>4. CASE ScmStarts
  BY <1>1, <1>2, <1>4, CreatedIsFresh DEF ScmStarts, CreateProcess, ServePcs
<1>5. CASE Remove
  BY <1>1, <1>2, <1>5, InitKept DEF Remove, vars
<1>6. CASE ServicePrepare
  BY <1>1, <1>2, <1>6, InitKept DEF ServicePrepare, ServePcs, vars
<1>7. CASE RunService \/ ServiceGivesUp
  <2>1. ASSUME NEW pc \in {"registered", "failure"}, Answer(pc), data' = data
        PROVE  /\ launch' \in [Launches -> LaunchPcs]
               /\ \A l \in Launches : launch'[l] # "new" => data' \/ launch'[l] = "failure"
    BY <2>1 DEF Answer, LaunchPcs
  <2>2. CASE RunService
    <3>1. serve' = "dispatched" /\ UNCHANGED <<entry, data, meddled>> /\ Answer("registered")
      BY <2>2 DEF RunService
    <3> QED BY <1>1, <1>2, <2>1, <3>1 DEF ServePcs
  <2>3. CASE ServiceGivesUp
    <3>1. serve' = "none" /\ meddled' = TRUE /\ UNCHANGED <<entry, data>> /\ Answer("failure")
      BY <2>3 DEF ServiceGivesUp
    <3>2. Init'
      BY <2>3, InitKept DEF ServiceGivesUp
    <3> QED BY <1>1, <1>2, <2>1, <3>1, <3>2 DEF ServePcs
  <2> QED BY <1>7, <2>2, <2>3
<1>8. CASE ServiceEnds
  BY <1>1, <1>2, <1>8 DEF ServiceEnds, DispatcherReturns, ServePcs
<1>9. ASSUME serve = "dispatched", UNCHANGED startVars PROVE StartupInv'
  BY <1>1, <1>2, <1>9 DEF startVars
<1>10. CASE UNCHANGED allVars
  BY <1>1, <1>2, <1>10, InitKept DEF allVars, startVars, vars
<1> QED BY <1>3, <1>4, <1>5, <1>6, <1>7, <1>8, <1>9, <1>10
        DEF StartupNext, ServiceStep, Serving, NothingLeft

\* The invariant holds throughout.
LEMMA StartupInvariance == StartupSpec => []StartupInv
BY StartupInitInv, StartupStepInv, PTL DEF StartupSpec

\* Whoever registered the service, its data exist (manager.cpp:79-123).
THEOREM DataOfRegistered == StartupSpec => []RegisteredHasData
<1>1. StartupInv => RegisteredHasData
  BY DEF StartupInv
<1> QED BY <1>1, StartupInvariance, PTL

\* In every life: types, late cycles, the status shown, quiet after the end.
THEOREM LivesAreSafe == StartupSpec => [](TypeOK /\ ReportedMatchesFlag /\ StoppedMeansQuiet)
<1>1. StartupInv => TypeOK /\ ReportedMatchesFlag /\ StoppedMeansQuiet
  BY DEF StartupInv, IInv, MainInv, StoppedMeansQuiet
<1> QED BY <1>1, StartupInvariance, PTL

\* A process created anew is a restart of the contract, or changes nothing of it.
LEMMA CreationRefines == StartupInv /\ CreateProcess => [Contract!Next]_Contract!vars
<1> SUFFICES ASSUME StartupInv, CreateProcess PROVE [Contract!Next]_Contract!vars
  OBVIOUS
<1> USE DEF Go, InCycle, CreateProcess
<1>1. CASE Init
  BY <1>1 DEF Init, Contract!vars
<1>2. CASE ~alive
  <2>1. main = "stopped"
    BY <1>2 DEF StartupInv, IInv, MainInv
  <2> QED BY <2>1 DEF Contract!Next, Contract!Restart
<1> QED BY <1>1, <1>2 DEF StartupInv, ProcessInv

\* The lives of the service, one after the other, keep the promise of
\* ServiceContract.
THEOREM LivesKeepContract == StartupSpec => KeepsContract
<1>1. StartupInit => Contract!Init
  BY InitRefines DEF StartupInit
<1>2. StartupInv /\ [StartupNext]_allVars => [Contract!Next]_Contract!vars
  <2> SUFFICES ASSUME StartupInv, [StartupNext]_allVars PROVE [Contract!Next]_Contract!vars
    OBVIOUS
  <2>1. CASE [Next]_vars BY <2>1, StepRefines DEF StartupInv
  <2>2. CASE CreateProcess BY <2>2, CreationRefines
  <2>3. CASE UNCHANGED allVars BY <2>3, StepRefines DEF allVars, StartupInv
  <2> QED BY <2>1, <2>2, <2>3, StepOfProcess
<1> QED BY <1>1, <1>2, StartupInvariance, PTL DEF StartupSpec, KeepsContract, Contract!Spec
=============================================================================
