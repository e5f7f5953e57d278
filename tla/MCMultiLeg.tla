----------------------------- MODULE MCMultiLeg -----------------------------
(***************************************************************************)
(* Instances of MultiLeg for TLC.                                          *)
(***************************************************************************)
EXTENDS MultiLeg

CONSTANTS sys, alice    \* model values

MCUsers == {sys, alice}

\* Enough for most orders, so that takers and makers are seldom refused.
MCInitCash == (sys :> 0) @@ (alice :> 4)

MCInitAsset == (sys :> 0) @@ (alice :> 3)

=============================================================================
