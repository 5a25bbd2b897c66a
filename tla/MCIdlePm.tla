------------------------------ MODULE MCIdlePm ------------------------------
(* App 02 with each of the three pauses its main.c offers. *)
EXTENDS IdlePm

MCPauses == 1..3
MCHandled == 1..3
=============================================================================
