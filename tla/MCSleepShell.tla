---------------------------- MODULE MCSleepShell ----------------------------
(* App 07a with two of its three modes: what is said of a switch does not
   depend on which other mode it goes to. *)
EXTENDS SleepShell

CONSTANTS HP, LP
MCModes == {HP, LP}

(* What pm_current_mode() reports is the mode the SoC is in, whenever the
   shell waits for input. *)
ModeIsReal == at["shell"] = "prompt" => mode = hw
=============================================================================
