------------------------- MODULE UpdateCycle_proofs -------------------------
(***************************************************************************)
(* Theorems about UpdateCycle, for any calendars, jobs, accounts, devices  *)
(* and texts: a cycle drives the updater the way DeviceUpdater assumes, so *)
(* that what is proved of it holds in the service.                         *)
(***************************************************************************)
EXTENDS UpdateCycle, DeviceUpdater_proofs, SequenceTheorems

\* The parts of a text make one.
LEMMA DraftType ==
  ASSUME NEW c \in SUBSET Urls, NEW j \in {Absent, "items", "none"},
         NEW b \in {Absent} \cup SUBSET JobSet
  PROVE  /\ Draft(c, j, b) \in Drafts
         /\ Draft(c, j, b).calendar = c /\ Draft(c, j, b).jira = j /\ Draft(c, j, b).jenkins = b
  BY DEF Draft, Drafts

LEMMA BlankType == Blank \in Drafts /\ Blank.jira = Absent /\ Blank.jenkins = Absent
  BY DraftType DEF Blank

LEMMA JobsType ==
  /\ Len(Jobs) \in Nat
  /\ \A i \in 1..Len(Jobs) : Jobs[i] \in JobSet
  BY CycleAssumption DEF JobSet

-----------------------------------------------------------------------------
\* Each step of the service is one of the updater, or none.
LEMMA StepDrives == CycleTypeOK /\ [CycleNext]_cycleVars => [Next]_vars
<1> SUFFICES ASSUME CycleTypeOK, [CycleNext]_cycleVars PROVE [Next]_vars
  OBVIOUS
<1>1. CASE BeginCycle
  BY <1>1 DEF BeginCycle
<1>2. ASSUME NEW found \in SUBSET Urls, ListSources(found) PROVE [Next]_vars
  BY <1>2 DEF ListSources
<1>3. CASE NoDivoomAccount
  BY <1>3 DEF NoDivoomAccount
<1>4. ASSUME NEW c \in Credentials, ReadAccount(c) PROVE [Next]_vars
  BY <1>4 DEF ReadAccount, Next
<1>5. CASE Exception
  BY <1>5 DEF Exception
<1>6. ASSUME NEW e \in SUBSET Urls, GetEvents(e) PROVE [Next]_vars
  BY <1>6 DEF GetEvents
<1>7. CASE NullStorage \/ NoJira \/ NoJenkins \/ JobsAsked
  BY <1>7 DEF NullStorage, NoJira, NoJenkins, JobsAsked
<1>8. ASSUME NEW a \in JiraAnswers, NEW r \in Issues(a), AskJira(a, r) PROVE [Next]_vars
  BY <1>8 DEF AskJira
<1>9. ASSUME NEW a \in JenkinsAnswers, NEW r \in Builds(a), AskJenkins(a, r) PROVE [Next]_vars
  BY <1>9 DEF AskJenkins
<1>10. CASE CallUpdate
  <2>1. Render[draft] \in Texts
    BY CycleAssumption DEF CycleTypeOK
  <2> QED BY <1>10, <2>1 DEF CallUpdate, Next
<1>11. CASE UpdaterStep
  BY <1>11 DEF UpdaterStep, Next
<1>12. CASE TokenExpires
  BY <1>12 DEF TokenExpires, Next
<1>13. CASE CycleRestart
  BY <1>13 DEF CycleRestart, Next
<1>14. CASE UNCHANGED cycleVars
  BY <1>14 DEF cycleVars
<1> QED
  BY <1>1, <1>2, <1>3, <1>4, <1>5, <1>6, <1>7, <1>8, <1>9, <1>10, <1>11, <1>12, <1>13, <1>14
     DEF CycleNext, CycleStep

-----------------------------------------------------------------------------
\* The type of the cycle's own variables.
LEMMA InitCycleType == CycleInit => CycleTypeOK
  BY BlankType, JobsType DEF CycleInit, Init, CycleTypeOK

LEMMA StepCycleType == CycleTypeOK /\ IInv /\ [CycleNext]_cycleVars => CycleTypeOK'
<1> SUFFICES ASSUME CycleTypeOK, IInv, [CycleNext]_cycleVars PROVE CycleTypeOK'
  OBVIOUS
<1>1. CASE BeginCycle
  BY <1>1, BlankType, JobsType DEF CycleTypeOK, At, To, BeginCycle, NoAccount, vars
<1>2. ASSUME NEW found \in SUBSET Urls, ListSources(found) PROVE CycleTypeOK'
  BY <1>2, BlankType, JobsType DEF CycleTypeOK, At, To, ListSources, vars
<1>3. CASE NoDivoomAccount
  BY <1>3, BlankType, JobsType DEF CycleTypeOK, At, To, NoDivoomAccount, vars
<1>4. ASSUME NEW c \in Credentials, ReadAccount(c) PROVE CycleTypeOK'
  BY <1>4, BlankType, JobsType DEF CycleTypeOK, At, To, ReadAccount
<1>5. CASE Exception
  BY <1>5, BlankType, JobsType DEF CycleTypeOK, At, To, Exception, vars
<1>6. ASSUME NEW e \in SUBSET Urls, GetEvents(e) PROVE CycleTypeOK'
  <2>1. draft' = Draft(e, Absent, Absent)
    BY <1>6 DEF GetEvents
  <2>2. draft' \in Drafts /\ draft'.jira = Absent /\ draft'.jenkins = Absent
    <3>1. e \in SUBSET Urls /\ Absent \in {Absent, "items", "none"} /\ Absent \in {Absent} \cup SUBSET JobSet
      OBVIOUS
    <3>2. /\ Draft(e, Absent, Absent) \in Drafts
          /\ Draft(e, Absent, Absent).jira = Absent /\ Draft(e, Absent, Absent).jenkins = Absent
      BY <3>1, DraftType
    <3> QED BY <2>1, <3>2
  <2> QED BY <1>6, <2>2, JobsType DEF CycleTypeOK, At, To, GetEvents, vars
<1>7. CASE NullStorage \/ NoJira
  <2>1. CASE NullStorage
    BY <2>1, JobsType DEF CycleTypeOK, At, To, NullStorage, vars
  <2>2. CASE NoJira
    BY <2>2, JobsType DEF CycleTypeOK, At, To, NoJira, vars
  <2> QED BY <1>7, <2>1, <2>2
<1>8. ASSUME NEW a \in JiraAnswers, NEW r \in Issues(a), AskJira(a, r) PROVE CycleTypeOK'
  <2>1. r \in {"items", "none", "crash"} /\ draft.calendar \in SUBSET Urls
    BY DEF CycleTypeOK, Issues, Drafts
  <2>2. CASE r = "crash"
    BY <1>8, <2>2, JobsType DEF CycleTypeOK, At, To, AskJira, vars
  <2>3. CASE r # "crash"
    <3>1. draft' = Draft(draft.calendar, r, Absent)
      BY <1>8, <2>3 DEF AskJira
    <3>2. r \in {Absent, "items", "none"}
      BY <2>1, <2>3
    <3>3. draft' \in Drafts /\ draft'.jenkins = Absent
      BY <2>1, <3>1, <3>2, DraftType
    <3> QED BY <1>8, <2>3, <3>3, JobsType DEF CycleTypeOK, At, To, AskJira, vars
  <2> QED BY <2>2, <2>3
<1>9. ASSUME NEW a \in JenkinsAnswers, NEW r \in Builds(a), AskJenkins(a, r) PROVE CycleTypeOK'
  <2>1. draft.calendar \in SUBSET Urls /\ draft.jira \in {Absent, "items", "none"}
    BY DEF CycleTypeOK, Drafts
  <2> DEFINE b == (IF job = 1 THEN {} ELSE draft.jenkins) \cup (IF r THEN {Jobs[job]} ELSE {})
  <2>2. b \in SUBSET JobSet
    <3>1. job # 1 => draft.jenkins \in SUBSET JobSet
      BY <1>9 DEF CycleTypeOK, At, AskJenkins, Drafts
    <3>2. Jobs[job] \in JobSet
      BY <1>9, JobsType DEF CycleTypeOK, AskJenkins
    <3> QED BY <3>1, <3>2
  <2>3. draft' \in Drafts /\ draft'.jenkins = b
    <3>1. draft' = Draft(draft.calendar, draft.jira, b)
      BY <1>9 DEF AskJenkins, WithJob
    <3>2. b \in {Absent} \cup SUBSET JobSet
      BY <2>2
    <3> HIDE DEF b
    <3>3. /\ Draft(draft.calendar, draft.jira, b) \in Drafts
          /\ Draft(draft.calendar, draft.jira, b).jenkins = b
      BY <2>1, <3>2, DraftType
    <3> QED BY <3>1, <3>3
  <2>4. draft'.jenkins # Absent
    BY <2>2, <2>3, CycleAssumption DEF Absent
  <2>5. job' \in 1..(Len(Jobs) + 1) /\ job' # 1
    BY <1>9, JobsType DEF CycleTypeOK, AskJenkins
  <2> QED BY <1>9, <2>3, <2>4, <2>5 DEF CycleTypeOK, At, To, AskJenkins, vars
<1>10. CASE NoJenkins \/ JobsAsked
  BY <1>10, JobsType DEF CycleTypeOK, At, To, NoJenkins, JobsAsked, vars
<1>11. CASE CallUpdate
  BY <1>11, BlankType, JobsType DEF CycleTypeOK, At, To, CallUpdate
<1>12. CASE UpdaterStep
  <2>1. pc # "idle"
    BY <1>12 DEF UpdaterStep, Requesting, Crash, RequestAt, Login, GetDevices, GetConfig,
                 SetConfig, Record
  <2>2. delivered' \subseteq Devices
    BY <1>12 DEF CycleTypeOK, UpdaterStep, IInv, TypeOK
  <2> QED BY <1>12, <2>1, <2>2 DEF CycleTypeOK, UpdaterStep
<1>13. CASE TokenExpires
  BY <1>13 DEF CycleTypeOK, TokenExpires, Expire, cycle
<1>14. CASE CycleRestart
  BY <1>14, BlankType, JobsType DEF CycleTypeOK, CycleRestart, NoAccount
<1>15. CASE UNCHANGED cycleVars
  BY <1>15 DEF CycleTypeOK, cycleVars, vars, cycle
<1> QED
  BY <1>1, <1>2, <1>3, <1>4, <1>5, <1>6, <1>7, <1>8, <1>9, <1>10, <1>11, <1>12, <1>13, <1>14, <1>15
     DEF CycleNext, CycleStep

-----------------------------------------------------------------------------
\* What the properties of a cycle rest on.
LEMMA InitCycleInv == CycleInit => CycleInv
<1> SUFFICES ASSUME CycleInit PROVE CycleInv
  OBVIOUS
<1>1. IInv /\ CycleTypeOK
  BY InitIInv, InitCycleType DEF CycleInit
<1>2. CallsInv /\ SkipIsSound
  BY DEF CycleInit, Init, CallsInv, SkipIsSound
<1> QED BY <1>1, <1>2 DEF CycleInv

LEMMA StepCalls == CycleInv /\ [CycleNext]_cycleVars => CallsInv'
<1> SUFFICES ASSUME CycleInv, [CycleNext]_cycleVars PROVE CallsInv'
  OBVIOUS
<1> USE DEF CycleInv, CallsInv
<1>1. CASE BeginCycle
  BY <1>1 DEF BeginCycle, vars
<1>2. ASSUME NEW found \in SUBSET Urls, ListSources(found) PROVE CallsInv'
  BY <1>2 DEF ListSources, vars
<1>3. CASE NoDivoomAccount
  BY <1>3 DEF NoDivoomAccount, vars
<1>4. ASSUME NEW c \in Credentials, ReadAccount(c) PROVE CallsInv'
  <2>1. c # NoAccount /\ account' = c /\ pc = "idle"
    BY <1>4, ConstantsAssumption DEF ReadAccount, NoAccount, At
  <2>2. cred' = c /\ pc' \in {"idle", "login"}
    BY <1>4, <2>1 DEF ReadAccount, UpdateCredentials, vars
  <2> QED BY <2>1, <2>2
<1>5. CASE Exception
  BY <1>5 DEF Exception, vars
<1>6. ASSUME NEW e \in SUBSET Urls, GetEvents(e) PROVE CallsInv'
  BY <1>6 DEF GetEvents, vars
<1>7. CASE NullStorage \/ NoJira \/ NoJenkins \/ JobsAsked
  BY <1>7 DEF NullStorage, NoJira, NoJenkins, JobsAsked, vars
<1>8. ASSUME NEW a \in JiraAnswers, NEW r \in Issues(a), AskJira(a, r) PROVE CallsInv'
  BY <1>8 DEF AskJira, vars
<1>9. ASSUME NEW a \in JenkinsAnswers, NEW r \in Builds(a), AskJenkins(a, r) PROVE CallsInv'
  BY <1>9 DEF AskJenkins, vars
<1>10. CASE CallUpdate
  BY <1>10 DEF CallUpdate, Update, session, vars
<1>11. CASE UpdaterStep
  <2>1. pc # "idle" /\ cred' = cred /\ (pc' \in {"get", "set"} => UNCHANGED <<text, recorded>>)
    BY <1>11 DEF UpdaterStep, Requesting, Crash, RequestAt, Login, GetDevices, GetConfig,
                 SetConfig, Record, session, loop
  <2>2. pc' \in {"get", "set"} => pc \in {"get", "set"}
    BY <1>11 DEF UpdaterStep, Requesting, Crash, Login, GetDevices, GetConfig, SetConfig, Record
  <2>3. account # NoAccount /\ account' = account
    BY <1>11, <2>1 DEF UpdaterStep
  <2> QED BY <2>1, <2>2, <2>3
<1>12. CASE TokenExpires
  BY <1>12 DEF TokenExpires, Expire, session, loop, cycle
<1>13. CASE CycleRestart
  BY <1>13 DEF CycleRestart, Restart
<1>14. CASE UNCHANGED cycleVars
  BY <1>14 DEF cycleVars, vars, cycle
<1> QED
  BY <1>1, <1>2, <1>3, <1>4, <1>5, <1>6, <1>7, <1>8, <1>9, <1>10, <1>11, <1>12, <1>13, <1>14
     DEF CycleNext, CycleStep

\* Only the updater's own steps and a restart change what a device shows, what is
\* recorded, or for whom it was recorded.
LEMMA OthersKeepTexts ==
  CycleNext /\ ~UpdaterStep /\ ~CycleRestart =>
    shown' = shown /\ recorded' = recorded /\ delivered' = delivered /\ (pc # "idle" => pc' = pc)
<1> SUFFICES ASSUME CycleNext, ~UpdaterStep, ~CycleRestart
             PROVE  /\ shown' = shown /\ recorded' = recorded /\ delivered' = delivered
                    /\ pc # "idle" => pc' = pc
  OBVIOUS
<1> USE DEF At, To, vars, cloud, session, loop
<1>1. CASE BeginCycle
  BY <1>1 DEF BeginCycle
<1>2. ASSUME NEW found \in SUBSET Urls, ListSources(found) PROVE UNCHANGED <<vars, delivered>>
  BY <1>2 DEF ListSources
<1>3. CASE NoDivoomAccount \/ Exception \/ NullStorage \/ NoJira \/ NoJenkins \/ JobsAsked
  BY <1>3 DEF NoDivoomAccount, Exception, NullStorage, NoJira, NoJenkins, JobsAsked
<1>4. ASSUME NEW c \in Credentials, ReadAccount(c)
      PROVE  UNCHANGED <<shown, recorded, delivered>> /\ pc = "idle"
  BY <1>4 DEF ReadAccount, UpdateCredentials
<1>5. ASSUME NEW e \in SUBSET Urls, GetEvents(e) PROVE UNCHANGED <<vars, delivered>>
  BY <1>5 DEF GetEvents
<1>6. ASSUME NEW a \in JiraAnswers, NEW r \in Issues(a), AskJira(a, r)
      PROVE  UNCHANGED <<vars, delivered>>
  BY <1>6 DEF AskJira
<1>7. ASSUME NEW a \in JenkinsAnswers, NEW r \in Builds(a), AskJenkins(a, r)
      PROVE  UNCHANGED <<vars, delivered>>
  BY <1>7 DEF AskJenkins
<1>8. CASE CallUpdate
  BY <1>8 DEF CallUpdate, Update
<1>9. CASE TokenExpires
  BY <1>9 DEF TokenExpires, Expire, cycle
<1> QED BY <1>1, <1>2, <1>3, <1>4, <1>5, <1>6, <1>7, <1>8, <1>9 DEF CycleNext, CycleStep

LEMMA StepSkip == CycleInv /\ [CycleNext]_cycleVars => SkipIsSound'
<1> SUFFICES ASSUME CycleInv, [CycleNext]_cycleVars PROVE SkipIsSound'
  OBVIOUS
<1> USE DEF CycleInv, SkipIsSound
<1>1. CASE CycleNext /\ ~UpdaterStep /\ ~CycleRestart
  BY <1>1, OthersKeepTexts
<1>2. CASE UpdaterStep
  <2>1. CASE Record
    <3>1. text # recorded /\ cur = Null /\ rest = {}
      BY <2>1 DEF Record, Remaining, CallsInv, IInv, LoopInv
    <3>2. \A d \in devices \ failed : shown[d] \in {text, NoSlot, Empty}
      BY <2>1, <3>1, ConstantsAssumption DEF Record, IInv, TypeOK, LoopInv
    <3>3. delivered' = devices \ failed /\ recorded' = text /\ shown' = shown
      BY <1>2, <2>1, <3>1 DEF UpdaterStep, Record, cloud
    <3> QED BY <3>2, <3>3
  <2>2. CASE \E a \in Answers : Login(a) \/ (\E lan \in SUBSET Devices : GetDevices(a, lan))
    BY <1>2, <2>2 DEF UpdaterStep, Login, GetDevices, loop, cloud
  <2>3. CASE pc' \in {"get", "set", "crashed"}
    BY <2>3
  <2>4. (\E a \in Answers : Crash(a))
          \/ (\E a \in Answers, d \in Devices : GetConfig(d, a))
          \/ (\E a \in Answers, applied \in BOOLEAN : SetConfig(a, applied))
        => pc' \in {"get", "set", "crashed"}
    BY DEF Crash, GetConfig, SetConfig
  <2> QED BY <1>2, <2>1, <2>2, <2>3, <2>4 DEF UpdaterStep, Requesting
<1>3. CASE CycleRestart
  BY <1>3, ConstantsAssumption DEF CycleRestart, Restart
<1>4. CASE UNCHANGED cycleVars
  BY <1>4 DEF cycleVars, vars, cycle
<1> QED BY <1>1, <1>2, <1>3, <1>4

\* Every step of the service keeps the cycle's invariant.
LEMMA StepCycleInv == CycleInv /\ [CycleNext]_cycleVars => CycleInv'
<1> SUFFICES ASSUME CycleInv, [CycleNext]_cycleVars PROVE CycleInv'
  OBVIOUS
<1>1. IInv'
  BY StepDrives, StepIInv DEF CycleInv
<1>2. CycleTypeOK'
  BY StepCycleType DEF CycleInv
<1> QED BY <1>1, <1>2, StepCalls, StepSkip DEF CycleInv

LEMMA CycleInvariance == CycleSpec => []CycleInv
BY InitCycleInv, StepCycleInv, PTL DEF CycleSpec

-----------------------------------------------------------------------------
\* A cycle makes one operation of the updater after another, none while requests are
\* under way: the theorems of DeviceUpdater_proofs hold of the service (service.cpp:76-97,
\* :172).
LEMMA CycleDrives == CycleSpec => Spec
<1>1. CycleInit => Init
  BY DEF CycleInit
<1>2. CycleInv /\ [CycleNext]_cycleVars => [Next]_vars
  BY StepDrives DEF CycleInv
<1> QED BY <1>1, <1>2, CycleInvariance, PTL DEF CycleSpec, Spec

\* Every part of the cycle keeps its type, and a request is under way only in the
\* stages that make one.
THEOREM CycleTypeCorrect == CycleSpec => []CycleTypeOK
<1>1. CycleInv => CycleTypeOK
  BY DEF CycleInv
<1> QED BY <1>1, CycleInvariance, PTL

\* Every request is made for the account that was last found in the storage, also when
\* it is not there any more, and none before one was found (service.cpp:186-191,
\* device_updater.cpp:24-36, :92-106).
THEOREM CycleAccount == CycleSpec => []AccountInUse
<1>1. CycleInv /\ pc # "idle" => account # NoAccount /\ cred = account
  BY DEF CycleInv, CallsInv
<1>2. CycleInv /\ pc \in {"list", "get", "set"} => user # Null /\ user \in {Null, Zero, cred}
  BY DEF CycleInv, IInv, TypeOK, LoopInv, SessionOwner
<1>3. CycleInv => AccountInUse
  BY <1>1, <1>2 DEF AccountInUse
<1> QED BY <1>3, CycleInvariance, PTL

\* A text that is not sent again is still shown wherever it was delivered.
THEOREM SkipSound == CycleSpec => []SkipIsSound
<1>1. CycleInv => SkipIsSound
  BY DEF CycleInv
<1> QED BY <1>1, CycleInvariance, PTL

\* Theorem Delivered of the updater, carried over to the service.
THEOREM CycleDelivered == CycleSpec => RecordedAsDelivered
BY CycleDrives, Delivered

-----------------------------------------------------------------------------
\* The one request whose answer can end the process.
LEMMA CrashAtList == ASSUME NEW a \in Answers, Crash(a) PROVE pc = "list"
<1>1. /\ pc \in {"login", "list", "get", "set"} /\ RequestAt[pc] \in Requests
      /\ RequestAt[pc] = "list" => pc = "list"
  BY DEF Crash, RequestAt, Requests
<1>2. Execute(RequestAt[pc], a) = "crash"
  BY DEF Crash
<1> QED BY <1>1, <1>2, OnlyListCrashes

\* A step that ends the process answers a request for the device list or is of the Jira stage.
LEMMA StepEnds == CycleNext /\ ~Gone /\ Gone' => pc = "list" \/ stage = "jira"
<1> SUFFICES ASSUME CycleNext, ~Gone, Gone' PROVE pc = "list" \/ stage = "jira"
  OBVIOUS
<1> USE DEF Gone
<1>1. CASE UpdaterStep
  <2>1. pc' = "crashed"
    BY <1>1 DEF UpdaterStep
  <2>2. \E a \in Answers : Crash(a)
    BY <1>1, <2>1 DEF UpdaterStep, Requesting, Login, GetDevices, GetConfig, SetConfig, Record
  <2> QED BY <2>2, CrashAtList
<1>2. CASE TokenExpires
  BY <1>2 DEF TokenExpires, Expire, cycle
<1>3. CASE CycleRestart
  BY <1>3 DEF CycleRestart, Restart
<1>4. CASE CycleNext /\ ~UpdaterStep /\ ~CycleRestart /\ ~TokenExpires
  <2>1. pc' # "crashed"
    BY <1>4 DEF CycleNext, CycleStep, BeginCycle, ListSources, NoDivoomAccount, ReadAccount,
                UpdateCredentials, Exception, GetEvents, NullStorage, NoJira, AskJira, NoJenkins,
                AskJenkins, JobsAsked, CallUpdate, Update, At, vars
  <2>2. stage' = "crashed"
    BY <2>1
  <2> QED
    BY <1>4, <2>2 DEF CycleNext, CycleStep, BeginCycle, ListSources, NoDivoomAccount, ReadAccount,
                Exception, GetEvents, NullStorage, NoJira, AskJira, NoJenkins, AskJenkins,
                JobsAsked, CallUpdate, At, To
<1> QED BY <1>1, <1>2, <1>3, <1>4

\* No exception of the storage, of the calendar or of Jenkins and no answer to a login
\* or to a request for a layout ends the process (service.cpp:76-97, :121,
\* client.cpp:47-56, jenkins/src/client.cpp:28-75).
THEOREM EndsOnlySo == CycleSpec => ProcessEnds
<1>1. [CycleNext]_cycleVars => [~Gone /\ Gone' => pc = "list" \/ stage = "jira"]_cycleVars
  BY StepEnds
<1> QED BY <1>1, PTL DEF CycleSpec, ProcessEnds
=============================================================================
