----------------------------- MODULE UpdateCycle -----------------------------
(***************************************************************************)
(* One cycle of core::service after another: get_db_info() reads calendars *)
(* and the Divoom account from the storage, process_cycle() puts a text    *)
(* together from the calendar, Jira and Jenkins and hands it to the device *)
(* updater of DeviceUpdater.                                               *)
(*                                                                         *)
(* Other processes may change the storage at any time, so that every read  *)
(* of it returns anything: a value, nothing (not stored, or a busy         *)
(* database), or an exception.  The calendar manager gives the events of   *)
(* some of its sources, or an exception (EventManager); Jira and Jenkins   *)
(* answer anything.  An exception ends the cycle and run() goes on.        *)
(***************************************************************************)
EXTENDS DeviceUpdater, Integers, Sequences

CONSTANTS
    Urls,           \* calendars the storage may list
    Jobs,           \* the Jenkins jobs, a sequence; the code has four
    Render          \* the text made of what was read: a function

VARIABLES
    opened,     \* storage_ is not null
    stage,      \* what the cycle does next; "wait" between two, "crashed" after one
    urls,       \* calendar_urls_ of the event manager
    job,        \* index of the job to be asked
    draft,      \* the local text of process_cycle(), part by part
    account,    \* ghost: the account of Divoom the storage held when one was last found
    delivered   \* ghost: the devices no request failed for when a text was recorded

cycle     == <<opened, stage, urls, job, draft, account, delivered>>
cycleVars == <<vars, cycle>>

\* No account was found so far; Jira or Jenkins is not configured.
NoAccount == Null
Absent    == Null

JobSet == {Jobs[i] : i \in DOMAIN Jobs}

Draft(calendar, jira, jenkins) ==
    [calendar |-> calendar, jira |-> jira, jenkins |-> jenkins]

Blank == Draft({}, Absent, Absent)

\* What a text is made of: sources with events, what Jira has, jobs with builds.
Drafts == [calendar : SUBSET Urls, jira : {Absent, "items", "none"},
           jenkins : {Absent} \cup SUBSET JobSet]

ASSUME CycleAssumption ==
    /\ Jobs \in Seq(JobSet) /\ \A some \in SUBSET JobSet : Null # some
    /\ Render \in [Drafts -> Texts]

CycleInit ==
    /\ Init
    /\ opened \in BOOLEAN
    /\ stage = "wait" /\ urls = {} /\ job = 1 /\ draft = Blank
    /\ account = NoAccount /\ delivered = {}

\* Types; the parts of the text still to come are absent.
CycleTypeOK ==
    /\ opened \in BOOLEAN
    /\ stage \in {"wait", "sources", "account", "events", "jira", "jenkins", "update", "crashed"}
    /\ urls \subseteq Urls
    /\ job \in 1..(Len(Jobs) + 1)
    /\ draft \in Drafts
    /\ account \in Credentials \cup {NoAccount}
    /\ delivered \subseteq Devices
    /\ stage \in {"sources", "account", "jira", "jenkins", "update", "crashed"} => pc = "idle"
    /\ stage \in {"wait", "sources", "account", "events"} => draft = Blank
    /\ stage = "jira" => draft.jira = Absent /\ draft.jenkins = Absent
    /\ stage # "jenkins" => job = 1
    /\ stage = "jenkins" => (draft.jenkins = Absent <=> job = 1)

-----------------------------------------------------------------------------
(* service.cpp: run, get_db_info                                           *)

\* A stage begins when the updater's part of the last one is over.
At(s) == stage = s /\ pc = "idle"

To(s) == stage' = s /\ UNCHANGED <<opened, delivered>>

\* Without a storage get_db_info() returns at once: core::service takes a null one,
\* which the daemon's create_service_core() passes on unchecked.
BeginCycle ==
    /\ At("wait") /\ To(IF opened THEN "sources" ELSE "events")
    /\ UNCHANGED <<vars, urls, job, draft, account>>

\* Sources are only added, disabled ones too; found are those the storage lists.
ListSources(found) ==
    /\ At("sources") /\ To("account")
    /\ urls' = urls \cup found
    /\ UNCHANGED <<vars, job, draft, account>>

\* No account is stored any more, or it cannot be read: the updater is not told, and
\* the cycle goes on with the credentials it has.
NoDivoomAccount ==
    /\ At("account") /\ To("events")
    /\ UNCHANGED <<vars, urls, job, draft, account>>

\* Mutant of ReadAccount: a session once opened is kept.
MutReadAccount(c) ==
    /\ At("account") /\ To("events")
    /\ account' = c
    /\ IF c = cred \/ user \in Credentials THEN UNCHANGED vars ELSE UpdateCredentials(c)
    /\ UNCHANGED <<urls, job, draft>>

ReadAccount(c) ==
    /\ At("account") /\ To("events")
    /\ account' = c
    /\ IF c = cred THEN UNCHANGED vars ELSE UpdateCredentials(c)
    /\ UNCHANGED <<urls, job, draft>>

\* The storage throws, or the calendar's parser: run() logs it.
Exception ==
    /\ \/ At("sources") \/ At("account") \/ At("events")
       \/ At("jira") /\ opened
       \/ At("jenkins") /\ job = 1
    /\ To("wait") /\ draft' = Blank
    /\ UNCHANGED <<vars, urls, job, account>>

-----------------------------------------------------------------------------
(* service.cpp: process_cycle; jira/src/client.cpp, jenkins/src/client.cpp *)

\* get_next_events() and the formatter: e are the sources events came from.
GetEvents(e) ==
    /\ At("events") /\ e \subseteq urls /\ To("jira")
    /\ draft' = Draft(e, Absent, Absent)
    /\ UNCHANGED <<vars, urls, job, account>>

\* An account is asked for through the null pointer.
NullStorage ==
    /\ At("jira") /\ ~opened /\ To("crashed")
    /\ UNCHANGED <<vars, urls, job, draft, account>>

NoJira ==
    /\ At("jira") /\ opened /\ To("jenkins")
    /\ UNCHANGED <<vars, urls, job, draft, account>>

\* What Jira answers: no 200, a login page, no JSON, JSON without "issues", a list
\* with an item that cannot be read, a list.
JiraAnswers == {"failed", "loginPage", "notJson", "noIssues", "badIssue", "issues"}

\* What GetActiveUserIssues returns.  To look up a key that a constant
\* document does not have is undefined: it ends the process or finds nothing.
Issues(a) ==
    CASE a = "issues"   -> {"items", "none"}
      [] a = "badIssue" -> {"items", "none", "crash"}
      [] a = "noIssues" -> {"none", "crash"}
      [] OTHER          -> {"none"}

AskJira(a, r) ==
    /\ At("jira") /\ opened /\ r \in Issues(a)
    /\ IF r = "crash" THEN To("crashed") /\ UNCHANGED draft
       ELSE To("jenkins") /\ draft' = Draft(draft.calendar, r, Absent)
    /\ UNCHANGED <<vars, urls, job, account>>

NoJenkins ==
    /\ At("jenkins") /\ job = 1 /\ To("update")
    /\ UNCHANGED <<vars, urls, job, draft, account>>

\* What Jenkins answers: a page, nothing, a rejection or an error as JSON, no JSON, a
\* list with an item that cannot be read, a list.
JenkinsAnswers == {"html", "failed", "rejected", "apiError", "notJson", "badBuild", "builds"}

\* Whether GetUserBuilds returns builds of the user.
Builds(a) == IF a \in {"badBuild", "builds"} THEN {TRUE, FALSE} ELSE {FALSE}

\* Adds what a job gave to the text.
WithJob(r) ==
    Draft(draft.calendar, draft.jira,
          (IF job = 1 THEN {} ELSE draft.jenkins) \cup (IF r THEN {Jobs[job]} ELSE {}))

\* Mutant of AskJenkins: after a job without builds the loop starts over.
MutAskJenkins(a, r) ==
    /\ At("jenkins") /\ job <= Len(Jobs) /\ r \in Builds(a) /\ To("jenkins")
    /\ draft' = WithJob(r)
    /\ job' = IF r THEN job + 1 ELSE 1
    /\ UNCHANGED <<vars, urls, account>>

AskJenkins(a, r) ==
    /\ At("jenkins") /\ job <= Len(Jobs) /\ r \in Builds(a) /\ To("jenkins")
    /\ draft' = WithJob(r)
    /\ job' = job + 1
    /\ UNCHANGED <<vars, urls, account>>

\* Mutant of JobsAsked: the next cycle begins behind the last job.
MutJobsAsked ==
    /\ At("jenkins") /\ job > Len(Jobs) /\ To("update")
    /\ UNCHANGED <<vars, urls, job, draft, account>>

JobsAsked ==
    /\ At("jenkins") /\ job > Len(Jobs) /\ To("update") /\ job' = 1
    /\ UNCHANGED <<vars, urls, draft, account>>

\* update() returns at once when the text's hash is the recorded one, or when there
\* is no list or session.
CallUpdate ==
    /\ At("update") /\ To("wait")
    /\ IF Render[draft] # recorded /\ listed /\ user # Null
       THEN Update(Render[draft]) ELSE UNCHANGED vars
    /\ draft' = Blank
    /\ UNCHANGED <<urls, job, account>>

-----------------------------------------------------------------------------
\* The updater goes on inside the call the cycle made.
UpdaterStep ==
    /\ Requesting
    /\ delivered' = IF recorded' # recorded THEN devices \ failed ELSE delivered
    /\ UNCHANGED <<opened, stage, urls, job, draft, account>>

TokenExpires == (\E c \in Credentials : Expire(c)) /\ UNCHANGED cycle

\* The process ends and the service starts anew, with a storage or without.
CycleRestart ==
    /\ Restart
    /\ opened' \in BOOLEAN
    /\ stage' = "wait" /\ urls' = {} /\ job' = 1 /\ draft' = Blank
    /\ account' = NoAccount /\ delivered' = {}

\* The steps of a cycle that has begun.
CycleStep ==
    \/ \E found \in SUBSET Urls : ListSources(found)
    \/ NoDivoomAccount \/ (\E c \in Credentials : ReadAccount(c))
    \/ Exception
    \/ \E e \in SUBSET Urls : GetEvents(e)
    \/ NullStorage \/ NoJira
    \/ \E a \in JiraAnswers : \E r \in Issues(a) : AskJira(a, r)
    \/ NoJenkins
    \/ \E a \in JenkinsAnswers : \E r \in Builds(a) : AskJenkins(a, r)
    \/ JobsAsked \/ CallUpdate
    \/ UpdaterStep

CycleNext == BeginCycle \/ CycleStep \/ TokenExpires \/ CycleRestart

CycleSpec == CycleInit /\ [][CycleNext]_cycleVars

\* Requests are answered and a cycle that has begun is executed; no cycle has to begin.
FairCycleSpec == CycleSpec /\ WF_cycleVars(CycleStep)

-----------------------------------------------------------------------------
\* The credentials of the updater are those last found, if there were any; else it has
\* made no request and has no list.  Only a new text is being sent.
CallsInv ==
    /\ cred = IF account = NoAccount THEN NoCredentials ELSE account
    /\ account = NoAccount => pc = "idle" /\ ~listed
    /\ pc \in {"get", "set"} => text # recorded

\* The process has ended by itself.
Gone == stage = "crashed" \/ pc = "crashed"

\* Whatever becomes of the stored account, every request is made for the account the
\* storage held when the service last found one: a login sends that account, any other
\* request the session of its login or, after a failed one, none.  The code holds on to
\* that account, and to no older one, when the storage has none any more or cannot be
\* read, and makes no request before it found one (service.cpp:186-191,
\* device_updater.cpp:24-36, :92-106).
AccountInUse ==
    /\ pc # "idle" => account # NoAccount
    /\ pc = "login" => cred = account
    /\ pc \in {"list", "get", "set"} => user \in {Zero, account}

\* A text whose hash is recorded may be skipped: the devices it was delivered to still
\* show it, even after updates that failed and texts that came back
\* (device_updater.cpp:41-44, :64).
SkipIsSound ==
    recorded \in Texts /\ pc \in {"idle", "login", "list"} =>
        \A d \in delivered : shown[d] \in {recorded, NoSlot, Empty}

\* The inductive invariant the safety properties follow from.
CycleInv == IInv /\ CycleTypeOK /\ CallsInv /\ SkipIsSound

\* The process ends by itself only at an answer to the device list, an answer of Jira,
\* or without a storage: no other answer and no exception ends it
\* (devices.cpp:25-39, jira/src/client.cpp:11-16, service.cpp:80-84, :121).
ProcessEnds == [][~Gone /\ Gone' => pc = "list" \/ stage = "jira"]_cycleVars

\* Every cycle comes to its end, or to the process's, whatever the calendar, Jira,
\* Jenkins and the cloud answer (service.cpp:76-91).
CycleEnds == stage # "wait" \/ pc # "idle" ~> (stage = "wait" /\ pc = "idle") \/ Gone
=============================================================================
