----------------------------- MODULE MCWifiLink -----------------------------
(***************************************************************************)
(* The two backoff constants of wifi_connect.c in seconds; four troubles   *)
(* are enough for the backoff to reach its cap, and for any two failures   *)
(* to overlap.                                                             *)
(***************************************************************************)
EXTENDS WifiLink

=============================================================================
