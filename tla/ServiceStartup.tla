--------------------------- MODULE ServiceStartup ---------------------------
(***************************************************************************)
(* How the service comes to run: manager::run in every process started     *)
(* from the executable, the registration with the service control manager  *)
(* (SCM), and the lives of the service process, one after another.         *)
(*                                                                         *)
(*   - users start the executable (Launches): with arguments it cycles in  *)
(*     the console, without it registers the service and starts it;        *)
(*   - the SCM starts the executable of a registered service, when a       *)
(*     launch asks for it, an administrator does, or the machine boots;    *)
(*   - once that process has called StartServiceCtrlDispatcherW it is the  *)
(*     process of ServiceLifecycle, until the dispatcher returns.          *)
(*                                                                         *)
(* Every process opens the storage before it knows which of these it is.   *)
(* One action is one call to the SCM or one step of manager::run between   *)
(* such calls.  The SCM is external: it keeps one entry of the service and *)
(* starts at most one process for it.                                      *)
(***************************************************************************)
EXTENDS ServiceLifecycle

CONSTANT Launches     \* starts of the executable by users

VARIABLES
    launch,     \* launch[l]: where manager::run of this launch is
    serve,      \* where manager::run of the service process is, or "none"
    entry,      \* the SCM has an entry of the service, started automatically
    data,       \* the data directory and the database exist
    meddled     \* an operating-system call failed, or the entry was removed

startVars == <<launch, serve, entry, data, meddled>>
allVars   == <<vars, startVars>>

LaunchPcs == {"new", "mode", "admin", "lookup", "create", "connect", "starting",
              "console", "registered", "notService", "failure"}
ServePcs  == {"none", "new", "session", "dispatched"}

StartupTypeOK ==
    /\ TypeOK
    /\ launch \in [Launches -> LaunchPcs]
    /\ serve \in ServePcs
    /\ entry \in BOOLEAN /\ data \in BOOLEAN /\ meddled \in BOOLEAN

\* A machine on which the program never ran.
StartupInit ==
    /\ Init
    /\ launch = [l \in Launches |-> "new"]
    /\ serve = "none"
    /\ entry = FALSE /\ data = FALSE /\ meddled = FALSE

-----------------------------------------------------------------------------
(* manager::run of a launch                                                *)

LaunchTo(l, pc) == launch' = [launch EXCEPT ![l] = pc]

\* The call this launch is about to make fails for a reason outside the
\* program: manager::run returns EXIT_FAILURE.
CallFails(l) ==
    /\ launch[l] \in {"new", "lookup", "create", "connect"}
    /\ LaunchTo(l, "failure")
    /\ meddled' = TRUE
    /\ UNCHANGED <<vars, serve, entry, data>>

\* Mutant of Prepare: the storage is opened where the service starts to work.
MutPrepare(l) ==
    /\ launch[l] = "new" /\ LaunchTo(l, "mode")
    /\ UNCHANGED <<vars, serve, entry, data, meddled>>

\* The directories are made and the storage opened, whatever the mode.
Prepare(l) ==
    /\ launch[l] = "new" /\ LaunchTo(l, "mode")
    /\ data' = TRUE
    /\ UNCHANGED <<vars, serve, entry, meddled>>

\* With arguments: the console.  Without, in a session of a user or one that
\* cannot be read: registration.  In session 0, as the SCM starts services, the
\* launch takes itself for one; StartServiceCtrlDispatcherW fails and it exits.
ChooseMode(l) ==
    /\ launch[l] = "mode"
    /\ \E pc \in {"console", "admin", "notService"} : LaunchTo(l, pc)
    /\ UNCHANGED <<vars, serve, entry, data, meddled>>

\* check_admin_privileges(): the user may or may not create services.
CheckAdmin(l) ==
    /\ launch[l] = "admin"
    /\ \E pc \in {"lookup", "failure"} : LaunchTo(l, pc)
    /\ UNCHANGED <<vars, serve, entry, data, meddled>>

\* OpenServiceW finds the entry, or not.  The ChangeServiceConfigW that follows
\* on an existing entry may be refused and is not waited for.
LookUp(l) ==
    /\ launch[l] = "lookup"
    /\ LaunchTo(l, IF entry THEN "connect" ELSE "create")
    /\ UNCHANGED <<vars, serve, entry, data, meddled>>

\* CreateServiceW, which the SCM refuses when the entry exists by now.
Create(l) ==
    /\ launch[l] = "create"
    /\ LaunchTo(l, IF entry THEN "failure" ELSE "connect")
    /\ entry' = TRUE
    /\ UNCHANGED <<vars, serve, data, meddled>>

-----------------------------------------------------------------------------
(* Starting the service                                                    *)

\* The SCM creates the process of the service: a fresh one, flags included.
CreateProcess ==
    /\ serve = "none" /\ serve' = "new"
    /\ running' = TRUE /\ paused' = FALSE /\ alive' = TRUE
    /\ reported' = "START_PENDING"
    /\ main' = "register" /\ worker' = "none"
    /\ slice' = 0 /\ ctl' = "none" /\ step' = 0 /\ late' = 0

\* StartServiceW creates the process and waits for its dispatcher.
StartService(l) ==
    /\ launch[l] = "connect" /\ entry
    /\ LaunchTo(l, "starting")
    /\ CreateProcess
    /\ UNCHANGED <<entry, data, meddled>>

\* ERROR_SERVICE_ALREADY_RUNNING, which is as good: the SCM has a process of
\* the service, in whatever state that is.
AlreadyRunning(l) ==
    /\ launch[l] = "connect" /\ entry /\ serve # "none"
    /\ LaunchTo(l, "registered")
    /\ UNCHANGED <<vars, serve, entry, data, meddled>>

\* OpenServiceW finds no entry: it was removed meanwhile.
NothingToStart(l) ==
    /\ launch[l] = "connect" /\ ~entry
    /\ LaunchTo(l, "failure")
    /\ UNCHANGED <<vars, serve, entry, data, meddled>>

\* The machine boots, or an administrator starts or removes the service.
ScmStarts ==
    /\ entry /\ CreateProcess
    /\ UNCHANGED <<launch, entry, data, meddled>>

Remove ==
    /\ entry /\ serve = "none"
    /\ entry' = FALSE /\ meddled' = TRUE
    /\ UNCHANGED <<vars, launch, serve, data>>

LaunchStep(l) ==
    \/ Prepare(l) \/ ChooseMode(l) \/ CheckAdmin(l) \/ LookUp(l) \/ Create(l)
    \/ StartService(l) \/ AlreadyRunning(l) \/ NothingToStart(l)

-----------------------------------------------------------------------------
(* manager::run of the service process                                     *)

\* The launch that waits in StartServiceW hears how the start went.
Answer(pc) == launch' = [l \in Launches |-> IF launch[l] = "starting" THEN pc ELSE launch[l]]

ServicePrepare ==
    /\ serve = "new" /\ serve' = "session"
    /\ data' = TRUE
    /\ UNCHANGED <<vars, launch, entry, meddled>>

\* The storage does not open, or the session cannot be read: then the process
\* takes itself for a launch, finds its own entry and its own process, and ends.
ServiceGivesUp ==
    /\ serve \in {"new", "session"} /\ serve' = "none"
    /\ Answer("failure")
    /\ meddled' = TRUE
    /\ UNCHANGED <<vars, entry, data>>

\* Mutant of RunService: the session is asked for the wrong way round, and the
\* process of the service registers itself and ends.
MutRunService ==
    /\ serve = "session" /\ serve' = "none"
    /\ Answer("failure")
    /\ UNCHANGED <<vars, entry, data, meddled>>

\* Session 0: run_service, whose dispatcher connects to the SCM.
RunService ==
    /\ serve = "session" /\ serve' = "dispatched"
    /\ Answer("registered")
    /\ UNCHANGED <<vars, entry, data, meddled>>

\* The threads of the process and the controls sent to it.
Serving(act) == serve = "dispatched" /\ act /\ UNCHANGED startVars

\* The dispatcher returns, and manager::run.
ServiceEnds ==
    /\ serve = "dispatched" /\ DispatcherReturns
    /\ serve' = "none"
    /\ UNCHANGED <<launch, entry, data, meddled>>

ServiceStep == ServicePrepare \/ RunService \/ ServiceEnds

-----------------------------------------------------------------------------
\* Nothing is left to do for any launch, and no service is registered or its
\* process never reports again.
NothingLeft ==
    /\ (~entry /\ serve = "none") \/ main = "failed"
    /\ \A l \in Launches : launch[l] \in {"console", "registered", "notService", "failure"}
    /\ UNCHANGED allVars

StartupNext ==
    \/ \E l \in Launches : LaunchStep(l) \/ CallFails(l)
    \/ ScmStarts \/ Remove
    \/ ServiceStep \/ ServiceGivesUp
    \/ \E c \in Controls : Serving(Receive(c))
    \/ Serving(Handler) \/ Serving(RegisterFails) \/ Serving(Main) \/ Serving(Worker)
    \/ NothingLeft

StartupSpec == StartupInit /\ [][StartupNext]_allVars

\* Every process and thread the operating system runs makes progress, and the
\* calls of a cycle return.  Nothing makes anybody start, stop or remove.
StartupFairSpec ==
    /\ StartupSpec
    /\ \A l \in Launches : WF_allVars(LaunchStep(l))
    /\ WF_allVars(ServiceStep)
    /\ WF_allVars(Serving(Handler)) /\ WF_allVars(Serving(Main)) /\ WF_allVars(Serving(Worker))

-----------------------------------------------------------------------------
\* What the steps above keep, inductively: a process not yet dispatched is
\* fresh, without a process the last one ended or none ever served, and a launch
\* past its start has opened the data.
ProcessInv ==
    /\ serve \in {"new", "session"} => Init
    /\ serve = "none" => Init \/ ~alive
    /\ \A l \in Launches : launch[l] # "new" => data \/ launch[l] = "failure"

\* A registered service finds its data: whoever put the entry there had opened
\* the storage before, also when the launches race and some of them fail
\* (manager.cpp:79-102 before :123).
RegisteredHasData == entry => data

\* The inductive invariant of the composition.
StartupInv == StartupTypeOK /\ IInv /\ ProcessInv /\ RegisteredHasData

\* A launch with the rights to register gets the service to run, whichever
\* launch registers it first, unless a call fails from outside or somebody
\* removes the entry (manager.cpp:115-129, windows_service.cpp:154-253).
LaunchServes ==
    \A l \in Launches : launch[l] = "lookup" ~> serve = "dispatched" \/ meddled

\* Never paused nor stopped, a service that is served cycles for ever, in every
\* life and whatever its cycles throw (service.h:31, windows_service.cpp:92-102).
CyclesForEver ==
    [](Go /\ main # "failed") /\ <>[](serve = "dispatched") => []<>InCycle
=============================================================================
