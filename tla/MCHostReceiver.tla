--------------------------- MODULE MCHostReceiver ---------------------------
(* Six frames over a counter of four values, so that it wraps. *)
EXTENDS HostReceiver
=============================================================================
