---------------------------- MODULE MCRequestPath ----------------------------
(* Model values for checking RequestPath with TLC.                          *)
EXTENDS RequestPath, TLC

CONSTANTS p1, p2, a1, a2, r1, d1, d2
=============================================================================
