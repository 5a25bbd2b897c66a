---------------------------- MODULE MCUdpSender ----------------------------
(***************************************************************************)
(* The streamer of app 08 has no parameters: its state space is finite as  *)
(* it stands.                                                              *)
(***************************************************************************)
EXTENDS UdpSender

=============================================================================
