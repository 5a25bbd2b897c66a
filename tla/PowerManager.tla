---------------------------- MODULE PowerManager ----------------------------
(***************************************************************************)
(* Orchestration of the HP / LP / ULP switch of apps 06 and 07a: the shell *)
(* handlers of shell_cmds.c and pm_switch_to() of power_manager.c, over    *)
(* the hardware they steer.  The DVFS strategy, which is chosen at compile *)
(* time, is the business of the modules that extend this one: a strategy   *)
(* takes over when pc = "strategy" and gives control back with pc =        *)
(* "returned" and its result in rc, as power_manager_internal.h lays down. *)
(*                                                                         *)
(* The shell thread is the only caller, so there is one pc.  Beside it run *)
(* the UART, which drains its FIFO at its own pace, and the TX interrupt,  *)
(* which moves what the shell has printed from its ring to the FIFO as     *)
(* long as interrupts are on.  TRACE and printk write to the FIFO itself.  *)
(***************************************************************************)
EXTENDS Naturals

CONSTANTS
  DpllMHz,          \* DPLL_LP0 at boot, from the devicetree overlay
  IhoMHz,           \* the internal oscillator: what a disabled DPLL passes on
  CeilingMHz,       \* CM33 limit of each mode (AN237976, power_manager.h)
  MayFail,          \* may Cy_SysPm_SystemEnter* and the PLL calls report errors
  RingBytes         \* room in the TX ring of the shell's serial backend

(***************************************************************************)
(* pm_mode_t, ordered by performance.                                      *)
(***************************************************************************)
PM_MODE_ULP == 0
PM_MODE_LP  == 1
PM_MODE_HP  == 2
Modes       == {PM_MODE_ULP, PM_MODE_LP, PM_MODE_HP}

Result == {"ok", "EIO"}
Writers == {"raw", "shell"}     \* TRACE and printk; shell_print by its ring

ASSUME CeilingAssumption ==
  /\ DpllMHz \in Nat
  /\ IhoMHz \in Nat
  /\ CeilingMHz \in [Modes -> Nat]
  /\ \A m, n \in Modes : m <= n => CeilingMHz[m] <= CeilingMHz[n]
  /\ DpllMHz <= CeilingMHz[PM_MODE_HP]
  /\ MayFail \in BOOLEAN

ASSUME RingAssumption == RingBytes \in Nat

VARIABLES
  mode,      \* s_current_mode
  pc,        \* where the shell thread is
  source,    \* the arguments of the running or last transition
  target,
  rc,        \* what the last pm_strategy_transition() returned
  volt,      \* mode whose core voltage the buck delivers
  rram,      \* mode programmed by the last Cy_RRAM_SetVoltageMode
  pll,       \* MHz that CLK_PATH0 carries
  div,       \* CLK_HF0 divider
  leds,      \* mode the red and green LEDs show
  busy,      \* the pm-busy pin, P3.1
  ring,      \* bytes the shell has printed that wait for the TX interrupt
  fifo,      \* whose bytes are in the SCB2 TX FIFO or shift register
  baud       \* pll for which the SCB baud divider was computed

hardware == <<volt, rram, pll, div>>
console  == <<ring, fifo, baud>>
call     == <<source, target>>
vars     == <<mode, pc, source, target, rc, hardware, leds, busy, console>>

(***************************************************************************)
(* The CM33 core clock.  CLK_HF10, the SCB's clock, is pll / 4, so two     *)
(* values of pll are two values of CLK_HF10.                               *)
(***************************************************************************)
Hf0MHz(p, d) == p \div d

\* Mutant: the direction is computed from swapped arguments.
DownSwapped == source < target

Down == target < source

-----------------------------------------------------------------------------
Boot ==
  /\ mode = PM_MODE_HP /\ pc = "idle"
  /\ source = PM_MODE_HP /\ target = PM_MODE_HP /\ rc = "ok"
  /\ volt = PM_MODE_HP /\ rram = PM_MODE_HP /\ pll = DpllMHz /\ div = 1
  /\ leds = PM_MODE_HP /\ busy = FALSE
  /\ ring = 0 /\ fifo = {} /\ baud = DpllMHz

(***************************************************************************)
(* shell_print(): a line is longer than the ring, so that its head is in   *)
(* the FIFO and its tail fills the ring when the call returns.             *)
(***************************************************************************)
ShellPrint == ring' = RingBytes /\ fifo' = fifo \cup {"shell"}

(***************************************************************************)
(* `ulp`, `lp` or `hp` when the mode is the current one: the LEDs are      *)
(* driven and the texts printed, pm_switch_to returns 0 at once.           *)
(***************************************************************************)
SwitchNoop(m) ==
  /\ pc = "idle" /\ m = mode
  /\ leds' = m
  /\ ShellPrint
  /\ UNCHANGED <<mode, pc, call, rc, hardware, busy, baud>>

(***************************************************************************)
(* The same command for another mode: the LEDs show the target before      *)
(* anything changes, the pin rises and the strategy is called.             *)
(***************************************************************************)
SwitchBegin(m) ==
  /\ pc = "idle" /\ m # mode
  /\ leds' = m
  /\ ShellPrint
  /\ source' = mode /\ target' = m
  /\ busy' = TRUE
  /\ pc' = "strategy"
  /\ UNCHANGED <<mode, rc, hardware, baud>>

\* Mutant: the error return comes before the pin falls.
SwitchFailBusy ==
  /\ pc = "returned" /\ rc # "ok"
  /\ ring' = RingBytes /\ fifo' = Writers
  /\ pc' = "idle"
  /\ UNCHANGED <<mode, call, rc, hardware, leds, busy, baud>>

(***************************************************************************)
(* The strategy failed: the pin falls, TRACE("switch:FAIL") and the shell  *)
(* error go out, and nothing else is put back.                             *)
(***************************************************************************)
SwitchFail ==
  /\ pc = "returned" /\ rc # "ok"
  /\ busy' = FALSE
  /\ ring' = RingBytes /\ fifo' = Writers
  /\ pc' = "idle"
  /\ UNCHANGED <<mode, call, rc, hardware, leds, baud>>

(***************************************************************************)
(* The strategy succeeded: the pin falls and s_current_mode is updated.    *)
(* Then, if the strategy moves CLK_HF10, the console is retuned before     *)
(* anything is printed.                                                    *)
(***************************************************************************)
SwitchCommit(needsRetune) ==
  /\ pc = "returned" /\ rc = "ok"
  /\ busy' = FALSE
  /\ mode' = target
  /\ pc' = IF needsRetune THEN "retune" ELSE "report"
  /\ UNCHANGED <<call, rc, hardware, leds, console>>

(***************************************************************************)
(* printk, TRACE and the probe, then the handler's own line.               *)
(***************************************************************************)
Report ==
  /\ pc = "report"
  /\ ring' = RingBytes /\ fifo' = Writers
  /\ pc' = "idle"
  /\ UNCHANGED <<mode, call, rc, hardware, leds, busy, baud>>

(***************************************************************************)
(* The UART shifts the last byte out.                                      *)
(***************************************************************************)
Drain ==
  /\ fifo # {}
  /\ fifo' = {}
  /\ UNCHANGED <<mode, pc, call, rc, hardware, leds, busy, ring, baud>>

(***************************************************************************)
(* The TX interrupt of the shell's serial backend: some of the ring goes   *)
(* to the FIFO, whatever the baud divider is worth at that moment.         *)
(***************************************************************************)
TxInterrupt(masked) ==
  /\ ~masked
  /\ \E n \in 0..(RingBytes - 1) : n < ring /\ ring' = n
  /\ fifo' = fifo \cup {"shell"}
  /\ UNCHANGED <<mode, pc, call, rc, hardware, leds, busy, baud>>

Orchestration(needsRetune, masked) ==
  \/ \E m \in Modes : SwitchNoop(m) \/ SwitchBegin(m)
  \/ SwitchFail
  \/ SwitchCommit(needsRetune)
  \/ Report
  \/ Drain
  \/ TxInterrupt(masked)

-----------------------------------------------------------------------------
(***************************************************************************)
(* Predicates the properties of both strategies are built from.            *)
(***************************************************************************)

\* The core clock respects the limit of the voltage it runs at.
CoreClockFits == Hf0MHz(pll, div) <= CeilingMHz[volt]

\* The core fetches code from RRAM no faster than its programmed trim allows.
RramClockFits == Hf0MHz(pll, div) <= CeilingMHz[rram]

=============================================================================
