--------------------------- MODULE MCBalanceRows ---------------------------
(***************************************************************************)
(* Instances of BalanceRows for TLC.                                       *)
(***************************************************************************)
EXTENDS BalanceRows

CONSTANTS sys, alice, bob    \* model values

\* alice can pay for everything, bob for some of his bids; he owns nothing and
\* may have a row or not.
MCInitCash == (alice :> 4) @@ (bob :> 2)

MCInitAsset == (alice :> 4) @@ (bob :> 0)

=============================================================================
