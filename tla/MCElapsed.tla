----------------------------- MODULE MCElapsed -----------------------------
(* An instance of Elapsed for TLC: seconds of three microseconds.          *)
EXTENDS Elapsed
=============================================================================
