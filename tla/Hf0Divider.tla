----------------------------- MODULE Hf0Divider -----------------------------
(***************************************************************************)
(* The divider-only DVFS strategy (power_manager_hf0_divider.c), the one   *)
(* the build selects: DPLL_LP0 stays at its boot frequency and only the    *)
(* CLK_HF0 divider follows the mode.  The six trans_* helpers have two     *)
(* shapes.  Down: divider, voltage, RRAM; a failed voltage step puts the   *)
(* divider of the source mode back.  Up: voltage, RRAM, divider; a failed  *)
(* voltage step leaves nothing to undo.                                    *)
(*                                                                         *)
(* Each PDL call is a step of its own: the heartbeat thread and every ISR  *)
(* run at whatever clock and voltage the calls so far have left.           *)
(***************************************************************************)
EXTENDS PowerManager

CONSTANT Hf0Divide      \* CY_SYSCLK_CLKHF_* divider of each mode

ASSUME DivideAssumption ==
  /\ Hf0Divide \in [Modes -> Nat \ {0}]
  /\ Hf0Divide[PM_MODE_HP] = 1
  /\ \A m \in Modes : DpllMHz \div Hf0Divide[m] <= CeilingMHz[m]
  /\ \A m, n \in Modes : Hf0Divide[m] = Hf0Divide[n] => m = n

Init == Boot

-----------------------------------------------------------------------------
(***************************************************************************)
(* Cy_SysClk_ClkHfSetDivider(0, .) ahead of the voltage step (down only).  *)
(***************************************************************************)
LowerClock ==
  /\ pc = "strategy" /\ Down
  /\ div' = Hf0Divide[target]
  /\ pc' = "enter"
  /\ UNCHANGED <<mode, call, rc, volt, rram, pll, leds, busy, console>>

(***************************************************************************)
(* pm_syspm_enter() succeeds: the marker is written, the rail moves.       *)
(***************************************************************************)
EnterOk ==
  /\ \/ pc = "strategy" /\ ~Down
     \/ pc = "enter"
  /\ fifo' = fifo \cup {"raw"}
  /\ volt' = target
  /\ pc' = "rram"
  /\ UNCHANGED <<mode, call, rc, rram, pll, div, leds, busy, ring, baud>>

\* Mutant: a failed voltage step does not put the divider back.
EnterFailNoUndo ==
  /\ MayFail
  /\ \/ pc = "strategy" /\ ~Down
     \/ pc = "enter"
  /\ fifo' = fifo \cup {"raw"}
  /\ rc' = "EIO"
  /\ pc' = "returned"
  /\ UNCHANGED <<mode, call, hardware, leds, busy, ring, baud>>

(***************************************************************************)
(* pm_syspm_enter() fails and leaves the rail alone.  On the way down the  *)
(* helper restores the source divider; the message is printed, -EIO goes   *)
(* back.                                                                   *)
(***************************************************************************)
EnterFail ==
  /\ MayFail
  /\ \/ pc = "strategy" /\ ~Down
     \/ pc = "enter"
  /\ fifo' = fifo \cup {"raw"}
  /\ div' = IF Down THEN Hf0Divide[source] ELSE div
  /\ rc' = "EIO"
  /\ pc' = "returned"
  /\ UNCHANGED <<mode, call, volt, rram, pll, leds, busy, ring, baud>>

\* Mutant: the RRAM trim is forgotten.
TrimRramSkipped ==
  /\ pc = "rram"
  /\ IF Down THEN pc' = "returned" /\ rc' = "ok"
             ELSE pc' = "raise" /\ rc' = rc
  /\ UNCHANGED <<mode, call, hardware, leds, busy, console>>

(***************************************************************************)
(* Cy_RRAM_SetVoltageMode(): the last step on the way down, the middle one *)
(* on the way up.                                                          *)
(***************************************************************************)
TrimRram ==
  /\ pc = "rram"
  /\ rram' = target
  /\ IF Down THEN pc' = "returned" /\ rc' = "ok"
             ELSE pc' = "raise" /\ rc' = rc
  /\ UNCHANGED <<mode, call, volt, pll, div, leds, busy, console>>

RaiseClock ==
  /\ pc = "raise"
  /\ div' = Hf0Divide[target]
  /\ rc' = "ok"
  /\ pc' = "returned"
  /\ UNCHANGED <<mode, call, volt, rram, pll, leds, busy, console>>

(***************************************************************************)
(* pm_strategy_needs_uart_retune() is false: CLK_HF10 never moves.         *)
(***************************************************************************)
NeedsUartRetune == FALSE

\* The PDL masks interrupts within one call; here they are on between calls.
Next ==
  \/ Orchestration(NeedsUartRetune, FALSE)
  \/ LowerClock
  \/ EnterOk
  \/ EnterFail
  \/ TrimRram
  \/ RaiseClock

(***************************************************************************)
(* The shell thread runs on and the UART shifts its bytes out; whether the *)
(* user types a command is the user's business.                            *)
(***************************************************************************)
SwitchStep ==
  \/ LowerClock \/ EnterOk \/ EnterFail \/ TrimRram \/ RaiseClock
  \/ SwitchFail \/ SwitchCommit(NeedsUartRetune) \/ Report

Spec == Init /\ [][Next]_vars /\ WF_vars(SwitchStep)

-----------------------------------------------------------------------------
PcValues == {"idle", "strategy", "enter", "rram", "raise", "returned",
             "report"}

(***************************************************************************)
(* Every variable keeps its type, and a strategy is only ever asked for a  *)
(* change of mode.                                                         *)
(***************************************************************************)
TypeOK ==
  /\ mode \in Modes /\ source \in Modes /\ target \in Modes
  /\ volt \in Modes /\ rram \in Modes /\ leds \in Modes
  /\ pc \in PcValues
  /\ rc \in Result
  /\ pll = DpllMHz /\ baud = DpllMHz
  /\ div \in {Hf0Divide[m] : m \in Modes}
  /\ busy \in BOOLEAN /\ fifo \subseteq Writers /\ ring \in 0..RingBytes

(***************************************************************************)
(* README "Direction rule": the CPU stays inside the SRAM/RRAM timing      *)
(* window at all times.  After every PDL call of every transition, failed  *)
(* ones and retries included, the core clock is within the limit of the    *)
(* voltage in effect and of the RRAM trim in effect.                       *)
(***************************************************************************)
ClockInWindow == CoreClockFits /\ RramClockFits

(***************************************************************************)
(* The operating point of a mode is its voltage, its RRAM trim and its     *)
(* divider together.                                                       *)
(***************************************************************************)
AtPoint(m) == volt = m /\ rram = m /\ div = Hf0Divide[m]

(***************************************************************************)
(* The pm-busy pulse an instrument records covers the whole transient:     *)
(* while the pin is low the hardware is at the operating point of some     *)
(* mode, never between two.                                                *)
(***************************************************************************)
PulseCoversTransient == ~busy => \E m \in Modes : AtPoint(m)

(***************************************************************************)
(* The state of the hardware at each control point, failures included:     *)
(* the inductive strengthening of the two safety properties above and of   *)
(* SwitchIsAtomic.                                                         *)
(***************************************************************************)
InCall == source = mode /\ source # target /\ busy

ControlInv ==
  /\ pc \in {"idle", "report"} => AtPoint(mode) /\ ~busy
  /\ pc = "strategy" => InCall /\ AtPoint(source)
  /\ pc = "enter" => /\ InCall /\ Down
                     /\ volt = source /\ rram = source
                     /\ div = Hf0Divide[target]
  /\ pc = "rram" => /\ InCall
                    /\ volt = target /\ rram = source
                    /\ div = Hf0Divide[IF Down THEN target ELSE source]
  /\ pc = "raise" => /\ InCall /\ ~Down
                     /\ volt = target /\ rram = target
                     /\ div = Hf0Divide[source]
  /\ pc = "returned" => InCall /\ AtPoint(IF rc = "ok" THEN target ELSE source)

NoMode == 3     \* no pm_mode_t: between two operating points

(***************************************************************************)
(* pm_switch_to() is all or nothing for its callers: between calls the     *)
(* hardware is at the operating point of pm_current_mode(), whichever      *)
(* voltage steps failed before.                                            *)
(***************************************************************************)
PointBetweenCalls ==
  IF pc # "idle" THEN mode
  ELSE IF \E m \in Modes : AtPoint(m) THEN CHOOSE m \in Modes : AtPoint(m)
  ELSE NoMode

Promise == INSTANCE ModeSwitch WITH
  BootMode <- PM_MODE_HP, reported <- mode, point <- PointBetweenCalls

SwitchIsAtomic == Promise!Spec

(***************************************************************************)
(* ModeSwitch is the stronger promise: as the other two strategies, this   *)
(* one implements SwitchOutcome, and it never needs the warning.           *)
(***************************************************************************)
Outcome == INSTANCE SwitchOutcome WITH
  BootMode <- PM_MODE_HP, Nowhere <- NoMode, reported <- mode,
  point <- PointBetweenCalls, warned <- FALSE

OutcomeIsKnown == Outcome!Spec

=============================================================================
