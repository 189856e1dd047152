------------------------------ MODULE MCServer ------------------------------
(* The instance of Server for TLC needs nothing of its own.                *)
EXTENDS Server
=============================================================================
