------------------------------ MODULE MCCalls ------------------------------
(* An instance of Calls for TLC.                                           *)
EXTENDS Calls
=============================================================================
