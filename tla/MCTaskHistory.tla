--------------------------- MODULE MCTaskHistory ---------------------------
(* Model values for checking TaskHistory with TLC. *)
EXTENDS TaskHistory

CONSTANTS i1, i2, h1, h2, g1, a, b
=============================================================================
