------------------------------- MODULE MCAuth -------------------------------
(***************************************************************************)
(* Instances of Auth for TLC.                                              *)
(***************************************************************************)
EXTENDS Auth

CONSTANTS r1, r2    \* model values

=============================================================================
