-------------------------- MODULE ServiceContract --------------------------
(***************************************************************************)
(* What the service promises to whoever starts, pauses and stops it,       *)
(* without threads, flags or status reports: the update cycles run one at  *)
(* a time, a pause or a stop lets at most one more cycle begin, and the    *)
(* service ends only between cycles and works again only if it is started  *)
(* anew.                                                                   *)
(***************************************************************************)
EXTENDS Naturals

VARIABLES
    go,     \* the main loop is told to keep cycling
    busy,   \* an update cycle is executing
    late,   \* cycles begun since the loop was last told to quit
    ended   \* the service has reported that it stopped

vars == <<go, busy, late, ended>>

Init == go = TRUE /\ busy = FALSE /\ late = 0 /\ ended = FALSE

\* A cycle begins: freely while told to go, once more after being told to quit.
Begin ==
    /\ ~ended /\ ~busy
    /\ go \/ late = 0
    /\ busy' = TRUE
    /\ late' = IF go THEN late ELSE late + 1
    /\ UNCHANGED <<go, ended>>

Finish == busy /\ busy' = FALSE /\ UNCHANGED <<go, late, ended>>

\* A pause or a stop takes effect.
Quit == go /\ go' = FALSE /\ UNCHANGED <<busy, late, ended>>

\* A pause is lifted.
Resume == ~go /\ ~ended /\ go' = TRUE /\ late' = 0 /\ UNCHANGED <<busy, ended>>

\* The service reports that it has stopped.
End == ~go /\ ~busy /\ ~ended /\ ended' = TRUE /\ UNCHANGED <<go, busy, late>>

\* A service that ended is started anew, in a process of its own.
Restart == ended /\ go' = TRUE /\ busy' = FALSE /\ late' = 0 /\ ended' = FALSE

Next == Begin \/ Finish \/ Quit \/ Resume \/ End \/ Restart

Spec == Init /\ [][Next]_vars
=============================================================================
