---------------------------- MODULE MCSpotEngine ----------------------------
(***************************************************************************)
(* Instances of SpotEngine for TLC.                                        *)
(***************************************************************************)
EXTENDS SpotEngine

CONSTANTS sys, alice, bob    \* model values

MCUsers == {sys, alice, bob}

\* Enough for some orders and not for all of them.  The balances of the
\* system user are never read or written.
MCInitCash == (sys :> 0) @@ (alice :> 3) @@ (bob :> 2)

MCInitAsset == (sys :> 0) @@ (alice :> 1) @@ (bob :> 2)

=============================================================================
