-------------------------- MODULE MCTaskPlatform --------------------------
(* Model values for checking TaskPlatform with TLC. *)
EXTENDS TaskPlatform

CONSTANTS i1, i2, h1, h2, g1, a, b
=============================================================================
