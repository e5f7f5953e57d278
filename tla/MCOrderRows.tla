---------------------------- MODULE MCOrderRows ----------------------------
(***************************************************************************)
(* Instances of OrderRows for TLC.                                         *)
(***************************************************************************)
EXTENDS OrderRows

CONSTANTS sys, alice    \* model values

\* One user trades with herself, and can pay for some of her orders only.
MCInitCash == (alice :> 1)

MCInitAsset == (alice :> 1)

=============================================================================
