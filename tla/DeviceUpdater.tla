---------------------------- MODULE DeviceUpdater ----------------------------
(***************************************************************************)
(* core::device_updater: it logs in to the Divoom cloud when the stored    *)
(* credentials change, keeps the session and the device list it got then,  *)
(* and writes a text to every listed device when the text's hash differs   *)
(* from the one it recorded last.                                          *)
(*                                                                         *)
(* update_credentials and update are its operations; one action is the     *)
(* start of an operation or one request to the cloud, which answers        *)
(* whatever it likes as long as it never accepts an invalid token.         *)
(* Hashes are taken to be injective and no text hashes to the initial 0.   *)
(* update()'s retry_with_login has no action: execute() lets no exception  *)
(* through, so its catch clauses are never entered (theorem                *)
(* ExecuteNeverThrows in DeviceUpdater_proofs).                            *)
(***************************************************************************)
EXTENDS DivoomClient, FiniteSets

CONSTANTS
    Credentials,    \* (login, password) pairs the storage may hold
    Accepted,       \* those the cloud accepts
    NoCredentials,  \* the empty pair a new updater starts with
    Devices,
    Texts,
    NoText,         \* no text recorded yet
    Null,           \* an empty unique_ptr
    Zero,           \* user_info{}: token 0, which no login returns
    Factory,        \* a device's items before the service wrote any text
    NoSlot,         \* a layout without an item of type 25
    Empty           \* an empty item list

ASSUME ConstantsAssumption ==
    /\ Accepted \subseteq Credentials
    /\ NoCredentials \notin Credentials
    /\ Null \notin Credentials \cup {NoCredentials, Zero}
    /\ Zero \notin Credentials \cup {NoCredentials}
    /\ Null \notin Devices
    /\ NoText \notin Texts

VARIABLES
    cred,       \* login_ and password_
    user,       \* user_info_: Null, Zero, or the credentials its token is for
    listed,     \* devices_ is not null
    devices,    \* what it points to
    recorded,   \* previous_text_hash_
    pc,         \* "idle" between operations, else the request to send next
    text,       \* the argument of the running update()
    rest,       \* devices its loop has still to visit
    cur,        \* the device being updated, Null between two
    items,      \* the item list to send to it
    valid,      \* cloud: credentials whose last token is still valid
    shown,      \* cloud: the items of each device
    failed,     \* ghost: devices a request of this update() failed for
    rejected    \* ghost: a request of this update() was answered tokenExpired

vars == <<cred, user, listed, devices, recorded, pc, text, rest, cur, items,
          valid, shown, failed, rejected>>

cloud   == <<valid, shown>>
session == <<cred, user, listed, devices>>
loop    == <<text, rest, cur, items, failed, rejected>>

Layouts == Texts \cup {Factory, NoSlot, Empty}

\* Types, and where a pointer is dereferenced it is not null: whoever has a
\* device list has a session, and a request goes to a device of the list.
TypeOK ==
    /\ cred \in Credentials \cup {NoCredentials}
    /\ user \in Credentials \cup {Null, Zero}
    /\ listed \in BOOLEAN
    /\ devices \in SUBSET Devices
    /\ recorded \in Texts \cup {NoText}
    /\ pc \in {"idle", "login", "list", "get", "set", "crashed"}
    /\ text \in Texts \cup {NoText}
    /\ rest \in SUBSET Devices
    /\ cur \in Devices \cup {Null}
    /\ items \in Layouts
    /\ valid \in SUBSET Credentials
    /\ shown \in [Devices -> Layouts]
    /\ failed \in SUBSET Devices
    /\ rejected \in BOOLEAN
    /\ listed => user # Null
    /\ pc \in {"get", "set"} => listed
    /\ pc = "set" => cur \in devices
    /\ rest \subseteq devices

Init ==
    /\ cred = NoCredentials /\ user = Null /\ listed = FALSE /\ devices = {}
    /\ recorded = NoText /\ pc = "idle"
    /\ text = NoText /\ rest = {} /\ cur = Null /\ items = Empty
    /\ failed = {} /\ rejected = FALSE
    /\ valid = {}
    /\ shown \in [Devices -> {Factory, NoSlot}]

\* update() returns: its locals are gone.
LeaveLoop == /\ text' = NoText /\ rest' = {} /\ cur' = Null /\ items' = Empty
             /\ failed' = {} /\ rejected' = FALSE

\* The process ends, by a crash or from outside, and the service starts anew.
Restart ==
    /\ cred' = NoCredentials /\ user' = Null /\ listed' = FALSE /\ devices' = {}
    /\ recorded' = NoText /\ pc' = "idle"
    /\ LeaveLoop
    /\ UNCHANGED cloud

-----------------------------------------------------------------------------
(* The cloud                                                               *)

\* The request each place of the updater sends, and whether the cloud finds
\* its password or token good.
RequestAt == [login |-> "login", list |-> "list", get |-> "getConfig", set |-> "command"]

Authorised ==
    CASE pc = "login" -> cred \in Accepted
      [] pc = "list"  -> TRUE
      [] OTHER        -> user \in valid

\* The answers that may come now.
Incoming == IF Authorised THEN Answers ELSE Answers \ {"ok", "incomplete"}

\* Handling an answer ends the process: no catch clause sees it.
Crash(a) ==
    /\ pc \in DOMAIN RequestAt /\ (pc = "get" => rest # {})
    /\ a \in Incoming /\ Execute(RequestAt[pc], a) = "crash"
    /\ pc' = "crashed"
    /\ UNCHANGED <<session, recorded, loop, cloud>>

\* The request that is sent from here succeeds, or fails without a crash.
Succeeds(a) == Execute(RequestAt[pc], a) = "true"
Returns(a)  == a \in Incoming /\ Execute(RequestAt[pc], a) # "crash"

\* A token expires, or another client's login invalidates it.
Expire(c) ==
    /\ c \in valid
    /\ valid' = valid \ {c}
    /\ UNCHANGED <<session, recorded, pc, loop, shown>>

-----------------------------------------------------------------------------
(* update_credentials, login, get_devices                                  *)

\* Unchanged credentials change nothing; other ones start login().
UpdateCredentials(c) ==
    /\ pc = "idle" /\ c # cred
    /\ cred' = c /\ pc' = "login"
    /\ UNCHANGED <<user, listed, devices, recorded, loop, cloud>>

\* Mutant of SessionAfter: a failed login keeps the old session.
MutSessionAfter(a) == IF Succeeds(a) THEN cred ELSE user

\* Mutant of SessionAfter: a failed login leaves no session object.
MutNoSession(a) == IF Succeeds(a) THEN cred ELSE Null

\* client::login returns user_info{} when the request failed.
SessionAfter(a) == IF Succeeds(a) THEN cred ELSE Zero

Login(a) ==
    /\ pc = "login" /\ Returns(a)
    /\ user' = SessionAfter(a)
    /\ valid' = IF a = "ok" THEN valid \cup {cred} ELSE valid
    /\ pc' = "list"
    /\ UNCHANGED <<cred, listed, devices, recorded, loop, shown>>

\* Device/ReturnSameLANDevice needs no token; lan is what it lists.  A failed
\* request leaves an empty list.
GetDevices(a, lan) ==
    /\ pc = "list" /\ Returns(a)
    /\ listed' = TRUE
    /\ devices' = IF Succeeds(a) THEN lan ELSE {}
    /\ pc' = "idle"
    /\ UNCHANGED <<cred, user, recorded, loop, cloud>>

-----------------------------------------------------------------------------
(* update, update_device                                                   *)

\* The text is new and there are a list and a session; else update() returns.
Update(t) ==
    /\ pc = "idle"
    /\ t # recorded /\ listed /\ user # Null
    /\ text' = t /\ rest' = devices /\ pc' = "get"
    /\ UNCHANGED <<session, recorded, cur, items, failed, rejected, cloud>>

\* Items of type 25 get the text.
WithText(l, t) == IF l \in {NoSlot, Empty} THEN l ELSE t

\* get_clock_config of the next device: clock_config{} when it failed.
GetConfig(d, a) ==
    /\ pc = "get" /\ d \in rest /\ Returns(a)
    /\ rest' = rest \ {d} /\ cur' = d
    /\ items' = WithText(IF a = "ok" THEN shown[d] ELSE Empty, text)
    /\ failed' = IF Succeeds(a) THEN failed ELSE failed \cup {d}
    /\ rejected' = (rejected \/ a = "tokenExpired")
    /\ pc' = "set"
    /\ UNCHANGED <<session, recorded, text, cloud>>

\* The cloud applies an authorised request it answers OK, and may have applied
\* one whose answer was lost or garbled.
Applied(a) == IF user \notin valid THEN {FALSE}
              ELSE CASE a \in {"ok", "incomplete"}          -> {TRUE}
                     [] a \in NoResponse \cup {"notJson"}    -> {FALSE, TRUE}
                     [] OTHER                                -> {FALSE}

\* The result of set_clock_config is logged and not acted on.
SetConfig(a, applied) ==
    /\ pc = "set" /\ Returns(a) /\ applied \in Applied(a)
    /\ shown' = IF applied THEN [shown EXCEPT ![cur] = items] ELSE shown
    /\ failed' = IF Succeeds(a) THEN failed ELSE failed \cup {cur}
    /\ rejected' = (rejected \/ a = "tokenExpired")
    /\ cur' = Null /\ items' = Empty /\ pc' = "get"
    /\ UNCHANGED <<session, recorded, text, rest, valid>>

\* Mutant of Remaining: the text is recorded before the last device is updated.
MutRemaining == {d \in rest : Cardinality(rest) # 1}

\* Devices the loop over devices_ has not visited.
Remaining == rest

\* Mutant of Record: a text that did not reach every device is not recorded.
MutRecord ==
    /\ pc = "get" /\ Remaining = {}
    /\ recorded' = IF failed = {} THEN text ELSE recorded
    /\ pc' = "idle"
    /\ LeaveLoop
    /\ UNCHANGED <<session, cloud>>

\* The loop is over: the text is recorded, whatever the requests returned.
Record ==
    /\ pc = "get" /\ Remaining = {}
    /\ recorded' = text /\ pc' = "idle"
    /\ LeaveLoop
    /\ UNCHANGED <<session, cloud>>

-----------------------------------------------------------------------------
Requesting ==
    \/ \E a \in Answers : Crash(a)
    \/ \E a \in Answers : Login(a)
    \/ \E a \in Answers, lan \in SUBSET Devices : GetDevices(a, lan)
    \/ \E a \in Answers, d \in Devices : GetConfig(d, a)
    \/ \E a \in Answers, applied \in BOOLEAN : SetConfig(a, applied)
    \/ Record

Next ==
    \/ \E c \in Credentials : UpdateCredentials(c)
    \/ \E t \in Texts : Update(t)
    \/ Requesting
    \/ \E c \in Credentials : Expire(c)
    \/ Restart

Spec == Init /\ [][Next]_vars

\* Every request is answered; nobody has to call the updater.
FairSpec == Spec /\ WF_vars(Requesting)
-----------------------------------------------------------------------------
\* What the loop of update() has done so far: the device being updated is set
\* aside, and every device behind it shows the text unless a request failed.
LoopInv ==
    /\ pc = "login" => cred \in Credentials
    /\ pc = "list" => user # Null
    /\ pc \notin {"set", "crashed"} => cur = Null
    /\ pc \in {"idle", "login", "list"} => rest = {}
    /\ pc \in {"get", "set"} => text \in Texts
    /\ pc = "set" => items \in {text, NoSlot, Empty}
    /\ pc \in {"get", "set"} =>
          \A d \in devices \ (rest \cup failed \cup {cur}) : shown[d] \in {text, NoSlot, Empty}

\* Between a change of the credentials and the next one, no request carries a
\* token that was issued for other credentials: a failed login clears the
\* session (device_updater.cpp:24-36, :92-106; client.cpp:47-56).
SessionOwner == pc \in {"idle", "list", "get", "set"} => user \in {Null, Zero, cred}

\* The inductive invariant the safety properties follow from.
IInv == TypeOK /\ SessionOwner /\ LoopInv

\* A text is recorded as written only when every device of the list shows it,
\* has no place for it, or had a request fail (device_updater.cpp:60-64).
RecordedAsDelivered ==
    [][recorded' \in Texts \ {recorded} =>
          \A d \in devices \ failed : shown[d] \in {recorded', NoSlot, Empty}]_vars

\* device_updater.cpp:51-58 logs "Token error: {}. Retrying with login..." and
\* logs in again: a rejected token does not end in a recorded text.
TokenErrorRetried == [][pc = "get" /\ pc' = "idle" /\ recorded' = text => ~rejected]_vars

\* The tests expect update_credentials to survive whatever the cloud answers
\* (device_updater_test.cpp:38-46).
CredentialsSurvived == pc # "crashed"
=============================================================================
