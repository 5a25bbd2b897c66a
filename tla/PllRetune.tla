------------------------------ MODULE PllRetune ------------------------------
(***************************************************************************)
(* The PLL-retune DVFS strategy (power_manager_pll_retune.c): DPLL_LP0     *)
(* itself is reprogrammed by SysPm callbacks, to a safe intermediate       *)
(* before the voltage step and to the mode's own frequency after it.  The  *)
(* CLK_HF0 divider stays at 1 and CLK_HF10, which feeds the console UART,  *)
(* moves with the PLL.                                                     *)
(*                                                                         *)
(* What the PDL does with a callback's error status is not in this         *)
(* repository: LockFails allows it to give up and to carry on.  A voltage  *)
(* step that fails is taken to leave the rail alone and to skip the        *)
(* AFTER_TRANSITION callback.                                              *)
(***************************************************************************)
EXTENDS PowerManager

CONSTANTS
  FinalMHz,             \* DPLL_FREQ_HP_HZ, _LP_HZ, _ULP_HZ
  IntermediateLpMHz,    \* DPLL_FREQ_INTERMEDIATE_LP_HZ
  IntermediateUlpMHz    \* DPLL_FREQ_INTERMEDIATE_ULP_HZ

ASSUME FrequencyAssumption ==
  /\ FinalMHz \in [Modes -> Nat]
  /\ FinalMHz[PM_MODE_HP] = DpllMHz
  /\ \A m \in Modes : FinalMHz[m] <= CeilingMHz[m]
  /\ \A m \in Modes : FinalMHz[m] \notin {IntermediateLpMHz, IntermediateUlpMHz}
  /\ IntermediateLpMHz \in Nat /\ IntermediateLpMHz <= CeilingMHz[PM_MODE_LP]
  /\ IntermediateUlpMHz \in Nat /\ IntermediateUlpMHz <= CeilingMHz[PM_MODE_ULP]
  /\ IhoMHz <= CeilingMHz[PM_MODE_ULP]

VARIABLE latched     \* s_last_pll_enable_st and s_last_pll_configure_st

allVars == <<vars, latched>>

Init == Boot /\ latched = "none"

-----------------------------------------------------------------------------
\* Mutant: lp_cb does not ask Cy_SysPm_IsSystemUlp().
IntermediateByTarget ==
  IF target = PM_MODE_ULP THEN IntermediateUlpMHz ELSE IntermediateLpMHz

(***************************************************************************)
(* The intermediate each BEFORE_TRANSITION callback asks for: only lp_cb   *)
(* looks at the voltage it starts from (Cy_SysPm_IsSystemUlp).             *)
(***************************************************************************)
IntermediateMHz ==
  IF target = PM_MODE_ULP \/ (target = PM_MODE_LP /\ volt = PM_MODE_ULP)
  THEN IntermediateUlpMHz
  ELSE IntermediateLpMHz

(***************************************************************************)
(* pm_syspm_enter() writes its marker and calls into the PDL, which holds  *)
(* the Cy_SysLib critical section until it returns.                        *)
(***************************************************************************)
TraceEnter ==
  /\ pc = "strategy"
  /\ fifo' = fifo \cup {"raw"}
  /\ pc' = "flushBefore"
  /\ UNCHANGED <<mode, call, rc, hardware, leds, busy, ring, baud, latched>>

Masked == pc \in {"flushBefore", "lockBefore", "step", "trim", "flushAfter",
                  "lockAfter"}

\* Mutant: no diag_trace_flush() before the PLL is disabled.
DisablePllUnflushed ==
  /\ \/ pc = "flushBefore" /\ pc' = "lockBefore"
     \/ pc = "flushAfter"  /\ pc' = "lockAfter"
  /\ pll' = IhoMHz
  /\ UNCHANGED <<mode, call, rc, volt, rram, div, leds, busy, console, latched>>

(***************************************************************************)
(* pm_pll_reconfigure(), first half: diag_trace_flush() waits for the      *)
(* FIFO and the shift register, then the PLL is disabled and CLK_PATH0     *)
(* falls back to the IHO.                                                  *)
(***************************************************************************)
DisablePll ==
  /\ fifo = {}
  /\ \/ pc = "flushBefore" /\ pc' = "lockBefore"
     \/ pc = "flushAfter"  /\ pc' = "lockAfter"
  /\ pll' = IhoMHz
  /\ UNCHANGED <<mode, call, rc, volt, rram, div, leds, busy, console, latched>>

(***************************************************************************)
(* Second half, when PllConfigure and PllEnable both succeed.              *)
(***************************************************************************)
LockIntermediate ==
  /\ pc = "lockBefore"
  /\ pll' = IntermediateMHz
  /\ latched' = "locked"
  /\ pc' = "step"
  /\ UNCHANGED <<mode, call, rc, volt, rram, div, leds, busy, console>>

LockFinal ==
  /\ pc = "lockAfter"
  /\ pll' = FinalMHz[target]
  /\ latched' = "locked"
  /\ rc' = "ok"
  /\ pc' = "returned"
  /\ UNCHANGED <<mode, call, volt, rram, div, leds, busy, console>>

(***************************************************************************)
(* pm_strategy_transition() learns of the failure: it prints the status    *)
(* and returns -EIO.                                                       *)
(***************************************************************************)
GiveUp ==
  /\ rc' = "EIO"
  /\ fifo' = fifo \cup {"raw"}
  /\ pc' = "returned"

(***************************************************************************)
(* PllConfigure or PllEnable fails in a callback: the PLL stays bypassed,  *)
(* the status is latched for `probe`, and the PDL either reports the       *)
(* callback's CY_SYSPM_FAIL or carries on.                                 *)
(***************************************************************************)
LockFails ==
  /\ MayFail
  /\ pc \in {"lockBefore", "lockAfter"}
  /\ latched' = "failed"
  /\ \/ GiveUp
     \/ /\ pc = "lockBefore"
        /\ pc' = "step" /\ UNCHANGED <<rc, fifo>>
     \/ /\ pc = "lockAfter"
        /\ pc' = "returned" /\ rc' = "ok" /\ UNCHANGED fifo
  /\ UNCHANGED <<mode, call, hardware, leds, busy, ring, baud>>

StepOk ==
  /\ pc = "step"
  /\ volt' = target
  /\ pc' = "trim"
  /\ UNCHANGED <<mode, call, rc, rram, pll, div, leds, busy, console, latched>>

StepFails ==
  /\ MayFail
  /\ pc = "step"
  /\ GiveUp
  /\ UNCHANGED <<mode, call, hardware, leds, busy, ring, baud, latched>>

\* Mutant: the AFTER callback trims the RRAM for the mode it came from.
TrimRramStale ==
  /\ pc = "trim"
  /\ rram' = source
  /\ pc' = "flushAfter"
  /\ UNCHANGED <<mode, call, rc, volt, pll, div, leds, busy, console, latched>>

\* AFTER_TRANSITION starts with Cy_RRAM_SetVoltageMode().
TrimRram ==
  /\ pc = "trim"
  /\ rram' = target
  /\ pc' = "flushAfter"
  /\ UNCHANGED <<mode, call, rc, volt, pll, div, leds, busy, console, latched>>

\* Mutant: the console is left at the divider of the old CLK_HF10.
NoUartRetune == FALSE

NeedsUartRetune == TRUE

(***************************************************************************)
(* pm_switch_to() after the commit, interrupts on: diag_trace_flush()      *)
(* waits for the FIFO and the shift register, and uart_configure()         *)
(* recomputes the SCB divider from CLK_HF10.  The TX interrupt may come    *)
(* before, between and after them.                                         *)
(***************************************************************************)
FlushUart ==
  /\ pc = "retune" /\ fifo = {}
  /\ pc' = "configure"
  /\ UNCHANGED <<mode, call, rc, hardware, leds, busy, console, latched>>

ConfigureUart ==
  /\ pc = "configure"
  /\ baud' = pll
  /\ pc' = "report"
  /\ UNCHANGED <<mode, call, rc, hardware, leds, busy, ring, fifo, latched>>

UartRetune == FlushUart \/ ConfigureUart

StrategyStep ==
  \/ TraceEnter
  \/ DisablePll
  \/ LockIntermediate
  \/ LockFinal
  \/ LockFails
  \/ StepOk
  \/ StepFails
  \/ TrimRram

Next ==
  \/ Orchestration(NeedsUartRetune, Masked) /\ UNCHANGED latched
  \/ StrategyStep
  \/ UartRetune

(***************************************************************************)
(* The shell thread runs on and the UART, whose clock never stops, shifts  *)
(* its bytes out; commands are the user's business.                        *)
(***************************************************************************)
SwitchStep ==
  \/ StrategyStep
  \/ UartRetune
  \/ /\ SwitchFail \/ SwitchCommit(NeedsUartRetune) \/ Report
     /\ UNCHANGED latched

Spec == /\ Init /\ [][Next]_allVars
        /\ WF_allVars(SwitchStep)
        /\ WF_allVars(Drain /\ UNCHANGED latched)

-----------------------------------------------------------------------------
PllTypeOK ==
  /\ {mode, source, target, volt, rram, leds} \subseteq Modes
  /\ pc \in {"idle", "strategy", "flushBefore", "lockBefore", "step", "trim",
             "flushAfter", "lockAfter", "returned", "retune", "configure",
             "report"}
  /\ rc \in Result
  /\ {pll, baud} \subseteq
       {IhoMHz, IntermediateLpMHz, IntermediateUlpMHz}
         \cup {FinalMHz[m] : m \in Modes}
  /\ div = 1
  /\ busy \in BOOLEAN
  /\ ring \in 0..RingBytes /\ fifo \subseteq Writers
  /\ latched \in {"none", "locked", "failed"}

(***************************************************************************)
(* No PLL, voltage or RRAM change leaves the core clock outside the limit  *)
(* of the voltage or of the trim, failed transitions and whatever follows  *)
(* them included; only hp_cb, called at the ULP voltage, is not covered.   *)
(***************************************************************************)
RetuneStaysInside ==
  [][ hardware' # hardware /\ ~(target = PM_MODE_HP /\ volt = PM_MODE_ULP)
      => (CoreClockFits /\ RramClockFits)' ]_allVars

(***************************************************************************)
(* What hp_cb at the ULP voltage may do at worst: whatever failed before,  *)
(* the core clock is within the limit of the voltage, or the voltage is    *)
(* still ULP and the PLL at the LP intermediate.                           *)
(***************************************************************************)
RetuneWorstCase ==
  CoreClockFits \/ (volt = PM_MODE_ULP /\ pll = IntermediateLpMHz)

(***************************************************************************)
(* A switch that pm_switch_to() reports as done has moved voltage, RRAM    *)
(* trim and, unless `probe` would show a failed lock, the PLL.             *)
(***************************************************************************)
SuccessReachesTarget ==
  [][ mode' # mode => /\ volt' = mode' /\ rram' = mode'
                      /\ latched = "locked" => pll' = FinalMHz[mode'] ]_allVars

(***************************************************************************)
(* The operating point of a mode is its voltage, its RRAM trim and a PLL   *)
(* that has locked at its frequency.                                       *)
(***************************************************************************)
AtPoint(m) ==
  volt = m /\ rram = m /\ pll = FinalMHz[m] /\ latched # "failed"

NoMode == 3     \* no pm_mode_t: between two operating points

PointBetweenCalls ==
  IF pc = "idle" /\ (\E m \in Modes : AtPoint(m))
  THEN CHOOSE m \in Modes : AtPoint(m) ELSE NoMode

ReportedToCaller == IF pc \in {"retune", "configure", "report"} THEN source ELSE mode

(***************************************************************************)
(* Whichever steps of whichever transitions failed before, a caller never  *)
(* finds the SoC at the operating point of a mode that is not the reported *)
(* one, and finds it at the reported one's after every call that returned  *)
(* 0 without a failed lock (pm_switch_to(): "0 on success").               *)
(***************************************************************************)
Outcome == INSTANCE SwitchOutcome WITH
  BootMode <- PM_MODE_HP, Nowhere <- NoMode, reported <- ReportedToCaller,
  point <- PointBetweenCalls, warned <- latched = "failed"

OutcomeIsKnown == Outcome!Spec

(***************************************************************************)
(* diag_trace_flush(): no byte is in flight while CLK_HF10 moves.          *)
(***************************************************************************)
NoByteAcrossRetune == [][ pll' # pll => fifo = {} ]_allVars

(***************************************************************************)
(* Console-integrity contract, as far as the code keeps it.  Unless the    *)
(* last transition that came back had failed, TRACE and printk leave at    *)
(* the rate the UART was configured for; what the shell printed may leave  *)
(* at a stale one, but only between the return of Cy_SysPm_SystemEnter*    *)
(* and uart_configure(), when the TX interrupt finds its ring not empty.   *)
(* A failed transition leaves rc and the divider as they are until one     *)
(* succeeds: prompts, commands without effect and the start of the next    *)
(* transition are not covered before that.                                 *)
(***************************************************************************)
ConsoleReadable ==
  baud # pll /\ rc = "ok" =>
    \/ fifo = {}
    \/ fifo = {"shell"} /\ pc \in {"returned", "retune", "configure"}

(***************************************************************************)
(* How far pm_switch_to() is from its return, the bytes in the FIFO and in *)
(* the ring included: every step of the shell thread, of the UART and of   *)
(* the TX interrupt brings it nearer, failed ones too, so that a switch is *)
(* over after 23 + 2 * RingBytes of them.                                  *)
(***************************************************************************)
StepsLeft ==
  CASE pc = "strategy"   -> 11 [] pc = "flushBefore" -> 10
    [] pc = "lockBefore" -> 9  [] pc = "step"        -> 8
    [] pc = "trim"       -> 7  [] pc = "flushAfter"  -> 6
    [] pc = "lockAfter"  -> 5  [] pc = "returned"    -> 4
    [] pc = "retune"     -> 3  [] pc = "configure"   -> 2
    [] pc = "report"     -> 1  [] pc = "idle"        -> 0

Distance ==
  IF pc = "idle" THEN 0
  ELSE 2 * (StepsLeft + ring) + (IF fifo = {} THEN 0 ELSE 1)

SwitchIsBounded ==
  [][ pc # "idle" => Distance' \in 0..(Distance - 1) ]_allVars

(***************************************************************************)
(* Every command gives the prompt back: no flush of a transition waits for *)
(* a byte that is not there, or for bytes that never end.                  *)
(***************************************************************************)
CommandReturns == busy ~> (pc = "idle" /\ ~busy)

=============================================================================
