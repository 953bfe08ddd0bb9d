-------------------------- MODULE MCServiceStartup --------------------------
(***************************************************************************)
(* ServiceStartup for TLC: two launches, which race for the entry, and two *)
(* waiting slices between cycles, so that a flag can change before,        *)
(* between and after the checks of the wait.                               *)
(***************************************************************************)
EXTENDS ServiceStartup

CONSTANTS l1, l2

MCLaunches == {l1, l2}
=============================================================================
