-------------------------- MODULE MCDeviceUpdater --------------------------
(***************************************************************************)
(* DeviceUpdater for TLC.  Two credentials, one of them not accepted, show *)
(* a change of account and a failed login; two devices show a loop in      *)
(* which one request fails; two texts show a change and a way back.        *)
(***************************************************************************)
EXTENDS DeviceUpdater

CONSTANTS good, bad, d1, d2, t1, t2
=============================================================================
