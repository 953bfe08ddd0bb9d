---------------------------- MODULE SettingsStore ----------------------------
(***************************************************************************)
(* What i_settings_storage promises, for either backend: a map from keys   *)
(* (an account's service, a source's URL, a meta key) to values.  A change *)
(* is seen at once by whoever has the store open and reaches the disk as a *)
(* whole; after a crash the store opens with what reached the disk last.   *)
(* Lose and OpenBlank are the exceptions a backend has to own up to: they  *)
(* can happen only where the backend says that its writing is not atomic,  *)
(* or that it may take settings it cannot read for none.                   *)
(***************************************************************************)
CONSTANTS Keys, Values, Absent,
          Torn      \* what is on disk cannot be read

VARIABLES
    mem,        \* the settings as the open store shows them
    durable,    \* the settings as the next opening will find them
    up,         \* the store is open
    lossy,      \* the backend is inside a step that is not atomic
    blind       \* the backend takes what is on disk for nothing

vars == <<mem, durable, up>>

Docs    == [Keys -> Values \cup {Absent}]
Default == [k \in Keys |-> Absent]

Init == mem = Default /\ durable = Default /\ up = FALSE

Open == ~up /\ durable # Torn /\ up' = TRUE /\ mem' = durable /\ UNCHANGED durable

\* The settings are there and the store opens without them.
OpenBlank == ~up /\ blind /\ up' = TRUE /\ mem' = Default /\ UNCHANGED durable

Put(k, v) == up /\ mem' = [mem EXCEPT ![k] = v] /\ UNCHANGED <<durable, up>>

Clear == up /\ mem' = Default /\ UNCHANGED <<durable, up>>

\* All changes so far reach the disk together.
Persist == up /\ durable' = mem /\ UNCHANGED <<mem, up>>

Lose == up /\ lossy /\ durable' \in {Default, Torn} /\ UNCHANGED <<mem, up>>

\* The process closes the store or dies; what was only in memory is gone.
Down == up /\ up' = FALSE /\ mem' = Default /\ UNCHANGED durable

Next ==
    \/ Open \/ OpenBlank \/ Persist \/ Lose \/ Clear \/ Down
    \/ \E k \in Keys, v \in Values \cup {Absent} : Put(k, v)

Spec == Init /\ [][Next]_vars
=============================================================================
