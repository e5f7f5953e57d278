---------------------------- MODULE MCHeartbeat ----------------------------
(***************************************************************************)
(* Instances of Heartbeat for TLC.                                         *)
(***************************************************************************)
EXTENDS Heartbeat

CONSTANT eurusd    \* model value

=============================================================================
