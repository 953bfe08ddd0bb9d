------------------------- MODULE MCServiceLifecycle -------------------------
(***************************************************************************)
(* ServiceLifecycle for TLC: two waiting slices between cycles, so that a  *)
(* flag can change before, between and after the checks of the wait.       *)
(***************************************************************************)
EXTENDS ServiceLifecycle
=============================================================================
