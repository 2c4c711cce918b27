---------------------------- MODULE MCAfcSession -----------------------------
(* AfcSession with two values: one full block, and two blocks of which the  *)
(* second is short.                                                         *)
EXTENDS AfcSession, TLC

CONSTANTS v1, v2

TwoLengths == v1 :> 1 @@ v2 :> 2
=============================================================================
