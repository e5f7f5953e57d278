------------------------ MODULE MCOrderBookPublisher ------------------------
(***************************************************************************)
(* Instances of OrderBookPublisher for TLC.                                *)
(***************************************************************************)
EXTENDS OrderBookPublisher

CONSTANTS sys, alice    \* model values

\* One user trades with herself, and can pay for some of her orders only.
MCInitCash == (alice :> 2)

MCInitAsset == (alice :> 1)

=============================================================================
