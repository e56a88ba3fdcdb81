------------------------------ MODULE MCStore ------------------------------
(* Model values for checking Store with TLC. *)
EXTENDS Store

CONSTANTS c1, c2, c3, t1, t2, a
=============================================================================
