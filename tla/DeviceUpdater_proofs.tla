------------------------ MODULE DeviceUpdater_proofs ------------------------
(***************************************************************************)
(* Theorems about DivoomClient and DeviceUpdater, for any credentials,     *)
(* devices and texts.                                                      *)
(***************************************************************************)
EXTENDS DeviceUpdater, TLAPS

\* client::execute lets no exception out, whatever the request and the answer:
\* the catch clauses of device_updater::update cannot be entered
\* (client.cpp:184-225, device_updater.cpp:65-75).
THEOREM ExecuteNeverThrows ==
    \A req \in Requests, a \in Answers : Execute(req, a) \in {"true", "false", "crash"}
BY DEF Requests, Answers, Rejections, NoResponse, Execute, Handle, ParseJson, HandleNull,
       HandleIncomplete

\* Only the list handlers end the process, and only on an answer without a
\* document (devices.cpp:25-29).
LEMMA OnlyListCrashes ==
    \A req \in Requests, a \in Answers :
        Execute(req, a) = "crash" <=> req = "list" /\ a \in {"notJson", "apiError"}
BY DEF Requests, Answers, Rejections, NoResponse, Execute, Handle, ParseJson, HandleNull,
       HandleIncomplete

\* A command succeeds only if the cloud answered OK.
LEMMA CommandSucceeds ==
    \A a \in Answers : Execute("command", a) = "true" => a \in {"ok", "incomplete"}
BY DEF Answers, Rejections, NoResponse, Execute, Handle, ParseJson, HandleNull, HandleIncomplete

-----------------------------------------------------------------------------
\* The initial state satisfies the inductive invariant.
LEMMA InitIInv == Init => IInv
<1> SUFFICES ASSUME Init PROVE IInv
  OBVIOUS
<1> USE DEF Init
<1>1. TypeOK
  <2>1. listed \in BOOLEAN /\ rejected \in BOOLEAN /\ ~listed
    BY Zenon
  <2>2. shown \in [Devices -> Layouts]
    BY DEF Layouts
  <2> QED BY <2>1, <2>2 DEF TypeOK, Layouts
<1>2. SessionOwner /\ LoopInv
  BY DEF SessionOwner, LoopInv
<1> QED BY <1>1, <1>2 DEF IInv

\* Items with the text in its place.
LEMMA WithTextLayout ==
    ASSUME NEW l \in Layouts, NEW t \in Texts
    PROVE  WithText(l, t) \in Layouts /\ WithText(l, t) \in {t, NoSlot, Empty}
BY DEF WithText, Layouts

\* Every step keeps it.
LEMMA StepIInv == IInv /\ [Next]_vars => IInv'
<1> SUFFICES ASSUME IInv, [Next]_vars PROVE IInv'
  OBVIOUS
<1> USE ConstantsAssumption DEF IInv, TypeOK, SessionOwner, LoopInv, session, loop, cloud
<1>1. ASSUME NEW c \in Credentials, UpdateCredentials(c) PROVE IInv'
  BY <1>1 DEF UpdateCredentials
<1>2. ASSUME NEW t \in Texts, Update(t) PROVE IInv'
  BY <1>2 DEF Update
<1>3. ASSUME NEW a \in Answers, Crash(a) PROVE IInv'
  BY <1>3 DEF Crash
<1>4. ASSUME NEW a \in Answers, Login(a) PROVE IInv'
  BY <1>4 DEF Login, SessionAfter
<1>5. ASSUME NEW a \in Answers, NEW lan \in SUBSET Devices, GetDevices(a, lan) PROVE IInv'
  BY <1>5 DEF GetDevices
<1>6. ASSUME NEW a \in Answers, NEW d \in Devices, GetConfig(d, a) PROVE IInv'
  <2>1. text \in Texts
    BY <1>6 DEF GetConfig
  <2>2. items' \in Layouts /\ items' \in {text, NoSlot, Empty}
    BY <1>6, <2>1, WithTextLayout DEF GetConfig, Layouts
  <2>3. rejected' \in BOOLEAN
    BY <1>6, Zenon DEF GetConfig
  <2> QED BY <1>6, <2>2, <2>3 DEF GetConfig
<1>7. ASSUME NEW a \in Answers, NEW applied \in BOOLEAN, SetConfig(a, applied) PROVE IInv'
  <2> USE <1>7 DEF SetConfig
  <2>1. rejected' \in BOOLEAN
    BY Zenon
  <2>2. shown' \in [Devices -> Layouts] /\ failed' \in SUBSET Devices /\ Empty \in Layouts
    BY DEF Layouts
  <2>3. \A d \in Devices \ {cur} : shown'[d] = shown[d]
    OBVIOUS
  <2>4. cur \notin failed' => shown'[cur] = items
    <3>1. SUFFICES ASSUME Succeeds(a) PROVE applied
      OBVIOUS
    <3>2. a \in {"ok", "incomplete"}
      BY <3>1, CommandSucceeds DEF Succeeds, RequestAt
    <3>3. user \in valid
      BY <3>2 DEF Returns, Incoming, Authorised
    <3> QED BY <3>2, <3>3 DEF Applied, NoResponse
  <2> QED BY <2>1, <2>2, <2>3, <2>4
<1>8. CASE Record
  BY <1>8 DEF Record, LeaveLoop, Layouts
<1>9. ASSUME NEW c \in Credentials, Expire(c) PROVE IInv'
  BY <1>9 DEF Expire
<1>10. CASE Restart
  BY <1>10 DEF Restart, LeaveLoop, Layouts
<1>11. CASE UNCHANGED vars
  BY <1>11 DEF vars
<1> QED
  BY <1>1, <1>2, <1>3, <1>4, <1>5, <1>6, <1>7, <1>8, <1>9, <1>10, <1>11 DEF Next, Requesting

\* The inductive invariant holds throughout.
LEMMA Invariance == Spec => []IInv
BY InitIInv, StepIInv, PTL DEF Spec

\* Every variable keeps its type and no null pointer is dereferenced by update.
THEOREM TypeCorrect == Spec => []TypeOK
<1>1. IInv => TypeOK
  BY DEF IInv
<1> QED BY <1>1, Invariance, PTL

\* The session in use is never that of other credentials.
THEOREM SessionOwned == Spec => []SessionOwner
<1>1. IInv => SessionOwner
  BY DEF IInv
<1> QED BY <1>1, Invariance, PTL

\* The step that records a text finds it on every device of the list for which
\* no request failed and which has a place for it.
LEMMA StepDelivers ==
    IInv /\ [Next]_vars =>
        [recorded' \in Texts \ {recorded} =>
            \A d \in devices \ failed : shown[d] \in {recorded', NoSlot, Empty}]_vars
<1> SUFFICES ASSUME IInv, Next, recorded' \in Texts \ {recorded}
             PROVE  \A d \in devices \ failed : shown[d] \in {recorded', NoSlot, Empty}
  BY DEF vars
<1>1. Record
  BY ConstantsAssumption
     DEF Next, Requesting, UpdateCredentials, Update, Crash, Login, GetDevices, GetConfig,
         SetConfig, Expire, Restart
<1>2. cur = Null /\ rest = {} /\ recorded' = text
  BY <1>1 DEF IInv, LoopInv, Record, Remaining
<1> QED BY <1>1, <1>2, ConstantsAssumption DEF Record, IInv, TypeOK, LoopInv

\* A text is recorded only when every listed device was served or had a request
\* fail.
THEOREM Delivered == Spec => RecordedAsDelivered
BY Invariance, StepDelivers, PTL DEF Spec, RecordedAsDelivered
=============================================================================
