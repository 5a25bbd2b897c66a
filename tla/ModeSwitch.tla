----------------------------- MODULE ModeSwitch -----------------------------
(***************************************************************************)
(* What power_manager.h promises the callers of pm_switch_to(): between    *)
(* two calls the SoC sits at the operating point of pm_current_mode(), and *)
(* a call moves both of them or neither.                                   *)
(***************************************************************************)
CONSTANTS Modes, BootMode

VARIABLES
  reported,   \* pm_current_mode()
  point       \* mode whose voltage, RRAM trim and core clock are in effect

Init == reported = BootMode /\ point = BootMode

Switch(m) == reported' = m /\ point' = m

Next == \E m \in Modes : Switch(m)

Spec == Init /\ [][Next]_<<reported, point>>

=============================================================================
