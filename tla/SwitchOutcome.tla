---------------------------- MODULE SwitchOutcome ----------------------------
(***************************************************************************)
(* What is left of ModeSwitch for the callers of pm_switch_to() where the  *)
(* calls below it may fail half-way.  Between two calls the SoC sits at    *)
(* the operating point of pm_current_mode() or at that of no mode, never   *)
(* at another mode's; and a call that returns 0 has got there, unless it   *)
(* has left the warning that `probe` prints (power_manager.h: "so silent   *)
(* lock failures are catchable").                                          *)
(***************************************************************************)
CONSTANTS Modes, BootMode,
          Nowhere           \* no mode's operating point

VARIABLES
  reported,   \* pm_current_mode(), as the caller finds it
  point,      \* mode whose operating point is in effect
  warned      \* the last PLL lock failed

Init == reported = BootMode /\ point = BootMode /\ warned = FALSE

\* A call has begun, or has failed: where it came from, or nowhere.
Linger == point' \in {reported, Nowhere} /\ UNCHANGED reported

Switch(m) == reported' = m /\ point' = m

\* A call that returned 0 on a clock that is not the mode's.
Unlocked(m) == warned' /\ reported' = m /\ point' = Nowhere

Next == Linger \/ \E m \in Modes : Switch(m) \/ Unlocked(m)

Spec == Init /\ [][Next]_<<reported, point, warned>>

=============================================================================
