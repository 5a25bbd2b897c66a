-------------------------- MODULE PllRetune_proofs --------------------------
(***************************************************************************)
(* What PllRetune.tla promises, for every set of frequencies that          *)
(* satisfies CeilingAssumption and FrequencyAssumption, and whichever PLL  *)
(* and voltage steps fail.                                                 *)
(*                                                                         *)
(* Three inductive invariants, each on its own matter.  ConsoleInv: once   *)
(* the first flush of a transition is past, nothing is queued until the    *)
(* UART has been retuned.  EnvelopeInv: which voltage, trim and PLL        *)
(* frequency meet at each control point.  OutcomeInv: what a transition    *)
(* that failed, or that never locked, leaves behind.                       *)
(***************************************************************************)
EXTENDS PllRetune, TLAPS

(***************************************************************************)
(* Every variable keeps its type.                                          *)
(***************************************************************************)
THEOREM PllTypeCorrect == Spec => []PllTypeOK
<1>1. Init => PllTypeOK
  <2> SUFFICES ASSUME Init PROVE PllTypeOK
    OBVIOUS
  <2>1. fifo \subseteq Writers /\ ring \in 0..RingBytes
    BY RingAssumption DEF Init, Boot
  <2> QED
    BY <2>1, CeilingAssumption, FrequencyAssumption
       DEF Init, Boot, PllTypeOK, Modes, PM_MODE_ULP, PM_MODE_LP, PM_MODE_HP,
           Result
<1>2. PllTypeOK /\ [Next]_allVars => PllTypeOK'
  <2> SUFFICES ASSUME PllTypeOK, [Next]_allVars PROVE PllTypeOK'
    OBVIOUS
  <2> USE CeilingAssumption, FrequencyAssumption, RingAssumption
  <2> USE DEF PllTypeOK, Result, Writers, ShellPrint, hardware, console, call
  <2>1. ASSUME NEW m \in Modes, SwitchNoop(m), UNCHANGED latched
        PROVE  PllTypeOK'
    <3>1. fifo' \subseteq Writers /\ ring' \in 0..RingBytes
      BY <2>1 DEF SwitchNoop
    <3> HIDE DEF Writers, ShellPrint
    <3> QED
      BY <2>1, <3>1 DEF SwitchNoop
  <2>2. ASSUME NEW m \in Modes, SwitchBegin(m), UNCHANGED latched
        PROVE  PllTypeOK'
    BY <2>2 DEF SwitchBegin
  <2>3. CASE SwitchFail /\ UNCHANGED latched
    <3>1. fifo' \subseteq Writers /\ ring' \in 0..RingBytes
      BY <2>3 DEF SwitchFail
    <3> HIDE DEF Writers
    <3> QED
      BY <2>3, <3>1 DEF SwitchFail
  <2>4. CASE SwitchCommit(NeedsUartRetune) /\ UNCHANGED latched
    BY <2>4 DEF SwitchCommit, NeedsUartRetune
  <2>5. CASE UartRetune
    BY <2>5 DEF UartRetune, FlushUart, ConfigureUart
  <2>6. CASE Report /\ UNCHANGED latched
    BY <2>6 DEF Report
  <2>7. CASE Drain /\ UNCHANGED latched
    BY <2>7 DEF Drain
  <2>8. CASE TraceEnter
    BY <2>8 DEF TraceEnter
  <2>9. CASE DisablePll
    BY <2>9 DEF DisablePll
  <2>10. CASE LockIntermediate
    BY <2>10 DEF LockIntermediate, IntermediateMHz
  <2>11. CASE LockFinal
    BY <2>11 DEF LockFinal
  <2>12. CASE LockFails
    BY <2>12 DEF LockFails, GiveUp
  <2>13. CASE StepOk
    BY <2>13 DEF StepOk
  <2>14. CASE StepFails
    BY <2>14 DEF StepFails, GiveUp
  <2>15. CASE TrimRram
    BY <2>15 DEF TrimRram
  <2>16. CASE TxInterrupt(Masked) /\ UNCHANGED latched
    BY <2>16 DEF TxInterrupt, Masked
  <2>17. CASE UNCHANGED allVars
    BY <2>17 DEF allVars, vars
  <2>18. QED
    BY <2>1, <2>2, <2>3, <2>4, <2>5, <2>6, <2>7, <2>8, <2>9, <2>10, <2>11,
       <2>12, <2>13, <2>14, <2>15, <2>16, <2>17
       DEF Next, Orchestration, StrategyStep
<1>3. QED
  BY <1>1, <1>2, PTL DEF Spec

-----------------------------------------------------------------------------
(***************************************************************************)
(* Between the first flush and the return of Cy_SysPm_SystemEnter* nothing *)
(* is in the FIFO, and until the UART has been retuned nothing but what    *)
(* the shell had printed; elsewhere the UART runs at its rate, unless a    *)
(* transition has failed.                                                  *)
(***************************************************************************)
Silent == {"lockBefore", "step", "trim", "flushAfter", "lockAfter"}

ConsoleInv ==
  /\ pc \in Silent => fifo = {}
  /\ pc \in {"returned", "retune", "configure"} /\ rc = "ok"
     => fifo \subseteq {"shell"}
  /\ pc \in {"idle", "strategy", "flushBefore", "report"} /\ rc = "ok"
     => baud = pll
  /\ pc \in {"report", "retune", "configure"} => rc = "ok"

LEMMA ConsoleCorrect == Spec => []ConsoleInv
<1> USE DEF ConsoleInv, Silent
<1>1. Init => ConsoleInv
  BY DEF Init, Boot
<1>2. PllTypeOK /\ ConsoleInv /\ [Next]_allVars => ConsoleInv'
  <2> SUFFICES ASSUME PllTypeOK, ConsoleInv, [Next]_allVars PROVE ConsoleInv'
    OBVIOUS
  <2> USE DEF PllTypeOK, Result, Writers, ShellPrint, hardware, console, call
  <2>1. ASSUME NEW m \in Modes, SwitchNoop(m) PROVE ConsoleInv'
    BY <2>1 DEF SwitchNoop
  <2>2. ASSUME NEW m \in Modes, SwitchBegin(m) PROVE ConsoleInv'
    BY <2>2 DEF SwitchBegin
  <2>3. CASE SwitchFail
    BY <2>3 DEF SwitchFail
  <2>4. CASE SwitchCommit(NeedsUartRetune)
    BY <2>4 DEF SwitchCommit, NeedsUartRetune
  <2>5. CASE UartRetune
    BY <2>5 DEF UartRetune, FlushUart, ConfigureUart
  <2>6. CASE Report
    BY <2>6 DEF Report
  <2>7. CASE Drain
    BY <2>7 DEF Drain
  <2>8. CASE TraceEnter
    BY <2>8 DEF TraceEnter
  <2>9. CASE DisablePll
    BY <2>9 DEF DisablePll
  <2>10. CASE LockIntermediate
    BY <2>10 DEF LockIntermediate
  <2>11. CASE LockFinal
    BY <2>11 DEF LockFinal
  <2>12. CASE LockFails
    BY <2>12 DEF LockFails, GiveUp
  <2>13. CASE StepOk
    BY <2>13 DEF StepOk
  <2>14. CASE StepFails
    BY <2>14 DEF StepFails, GiveUp
  <2>15. CASE TrimRram
    BY <2>15 DEF TrimRram
  <2>16. CASE TxInterrupt(Masked) /\ UNCHANGED latched
    BY <2>16 DEF TxInterrupt, Masked
  <2>17. CASE UNCHANGED allVars
    BY <2>17 DEF allVars, vars
  <2>18. QED
    BY <2>1, <2>2, <2>3, <2>4, <2>5, <2>6, <2>7, <2>8, <2>9, <2>10, <2>11,
       <2>12, <2>13, <2>14, <2>15, <2>16, <2>17
       DEF Next, Orchestration, StrategyStep
<1>3. QED
  BY <1>1, <1>2, PllTypeCorrect, PTL DEF Spec

(***************************************************************************)
(* Unless the last transition that came back had failed, only what the     *)
(* shell had printed before a transition can leave at a stale rate, and    *)
(* only between the return of Cy_SysPm_SystemEnter* and uart_configure().  *)
(***************************************************************************)
THEOREM ConsoleAlwaysReadable == Spec => []ConsoleReadable
<1>1. PllTypeOK /\ ConsoleInv => ConsoleReadable
  BY DEF PllTypeOK, ConsoleInv, Silent, ConsoleReadable
<1>2. QED
  BY <1>1, PllTypeCorrect, ConsoleCorrect, PTL

(***************************************************************************)
(* No byte is in flight while CLK_HF10 moves.                              *)
(***************************************************************************)
THEOREM NoByteEverCrosses == Spec => NoByteAcrossRetune
<1>1. ConsoleInv /\ [Next]_allVars => [pll' # pll => fifo = {}]_allVars
  <2> SUFFICES ASSUME ConsoleInv, Next, pll' # pll PROVE fifo = {}
    OBVIOUS
  <2>1. DisablePll \/ LockIntermediate \/ LockFinal
    BY DEF Next, Orchestration, StrategyStep, SwitchNoop, SwitchBegin,
           SwitchFail, SwitchCommit, UartRetune, FlushUart, ConfigureUart,
           Report, Drain, TxInterrupt, TraceEnter,
           LockFails, StepOk, StepFails, TrimRram, hardware
  <2>2. QED
    BY <2>1 DEF ConsoleInv, Silent, DisablePll, LockIntermediate, LockFinal
<1>2. QED
  BY <1>1, ConsoleCorrect, PTL DEF Spec, NoByteAcrossRetune

-----------------------------------------------------------------------------
(***************************************************************************)
(* Voltage and trim move together, and the PLL waits for them at the       *)
(* intermediate or on the IHO.                                             *)
(***************************************************************************)
EnvelopeInv ==
  /\ pc # "trim" => rram = volt
  /\ pc \in {"lockBefore", "lockAfter"} => pll = IhoMHz
  /\ pc = "step" => pll \in {IhoMHz, IntermediateMHz}
  /\ pc = "trim" => volt = target /\ pll <= CeilingMHz[target]
  /\ pc \in {"flushAfter", "lockAfter"} => volt = target
  /\ pc = "returned" /\ rc = "ok"
     => volt = target /\ (latched = "locked" => pll = FinalMHz[target])

(***************************************************************************)
(* The IHO and the intermediate fit the voltage a transition ends at.      *)
(***************************************************************************)
LEMMA IntermediateFits ==
  ASSUME PllTypeOK
  PROVE  /\ IhoMHz \in Nat /\ IntermediateMHz \in Nat
         /\ \A m \in Modes : IhoMHz <= CeilingMHz[m]
         /\ IntermediateMHz <= CeilingMHz[target]
         /\ ~(target = PM_MODE_HP /\ volt = PM_MODE_ULP)
            => IntermediateMHz <= CeilingMHz[volt]
<1> USE CeilingAssumption, FrequencyAssumption
<1> USE DEF Modes, PM_MODE_ULP, PM_MODE_LP, PM_MODE_HP
<1>1. target \in Modes /\ volt \in Modes
  BY DEF PllTypeOK
<1>2. \A m \in Modes : CeilingMHz[m] \in Nat
  OBVIOUS
<1>3. \A m \in Modes : CeilingMHz[PM_MODE_ULP] <= CeilingMHz[m]
  OBVIOUS
<1>4. CeilingMHz[PM_MODE_LP] <= CeilingMHz[PM_MODE_HP]
  OBVIOUS
<1>5. /\ IhoMHz \in Nat /\ IhoMHz <= CeilingMHz[PM_MODE_ULP]
      /\ IntermediateUlpMHz \in Nat
      /\ IntermediateUlpMHz <= CeilingMHz[PM_MODE_ULP]
      /\ IntermediateLpMHz \in Nat
      /\ IntermediateLpMHz <= CeilingMHz[PM_MODE_LP]
  OBVIOUS
<1> HIDE CeilingAssumption, FrequencyAssumption
<1>6. QED
  BY <1>1, <1>2, <1>3, <1>4, <1>5 DEF IntermediateMHz

LEMMA EnvelopeCorrect == Spec => []EnvelopeInv
<1> USE DEF EnvelopeInv
<1>1. Init => EnvelopeInv
  BY DEF Init, Boot
<1>2. PllTypeOK /\ EnvelopeInv /\ [Next]_allVars => EnvelopeInv'
  <2> SUFFICES ASSUME PllTypeOK, EnvelopeInv, [Next]_allVars
               PROVE  EnvelopeInv'
    OBVIOUS
  <2> USE DEF ShellPrint, hardware, console, call
  <2>1. ASSUME NEW m \in Modes, SwitchNoop(m), UNCHANGED latched
        PROVE  EnvelopeInv'
    BY <2>1 DEF SwitchNoop
  <2>2. ASSUME NEW m \in Modes, SwitchBegin(m), UNCHANGED latched
        PROVE  EnvelopeInv'
    BY <2>2 DEF SwitchBegin
  <2>3. CASE SwitchFail /\ UNCHANGED latched
    BY <2>3 DEF SwitchFail
  <2>4. CASE SwitchCommit(NeedsUartRetune) /\ UNCHANGED latched
    BY <2>4 DEF SwitchCommit, NeedsUartRetune
  <2>5. CASE UartRetune
    BY <2>5 DEF UartRetune, FlushUart, ConfigureUart
  <2>6. CASE Report /\ UNCHANGED latched
    BY <2>6 DEF Report
  <2>7. CASE Drain /\ UNCHANGED latched
    BY <2>7 DEF Drain, IntermediateMHz
  <2>8. CASE TraceEnter
    BY <2>8 DEF TraceEnter
  <2>9. CASE DisablePll
    BY <2>9 DEF DisablePll
  <2>10. CASE LockIntermediate
    BY <2>10 DEF LockIntermediate, IntermediateMHz
  <2>11. CASE LockFinal
    BY <2>11 DEF LockFinal
  <2>12. CASE LockFails
    BY <2>12 DEF LockFails, GiveUp
  <2>13. CASE StepOk
    BY <2>13, IntermediateFits DEF StepOk, PllTypeOK
  <2>14. CASE StepFails
    BY <2>14 DEF StepFails, GiveUp
  <2>15. CASE TrimRram
    BY <2>15 DEF TrimRram
  <2>16. CASE TxInterrupt(Masked) /\ UNCHANGED latched
    BY <2>16 DEF TxInterrupt, Masked, IntermediateMHz
  <2>17. CASE UNCHANGED allVars
    BY <2>17 DEF allVars, vars, IntermediateMHz
  <2>18. QED
    BY <2>1, <2>2, <2>3, <2>4, <2>5, <2>6, <2>7, <2>8, <2>9, <2>10, <2>11,
       <2>12, <2>13, <2>14, <2>15, <2>16, <2>17
       DEF Next, Orchestration, StrategyStep
<1>3. QED
  BY <1>1, <1>2, PllTypeCorrect, PTL DEF Spec

(***************************************************************************)
(* The divider of CLK_HF0 is 1, so the core runs at the PLL's frequency.   *)
(***************************************************************************)
LEMMA UndividedClock == ASSUME NEW p \in Nat PROVE Hf0MHz(p, 1) = p
  BY DEF Hf0MHz

(***************************************************************************)
(* No PLL, voltage or RRAM change leaves the core clock outside the limits *)
(* in effect, except under hp_cb at the ULP voltage.                       *)
(***************************************************************************)
THEOREM RetuneAlwaysInside == Spec => RetuneStaysInside
<1>1. PllTypeOK /\ PllTypeOK' /\ EnvelopeInv /\ [Next]_allVars
      => [ hardware' # hardware /\ ~(target = PM_MODE_HP /\ volt = PM_MODE_ULP)
           => (CoreClockFits /\ RramClockFits)' ]_allVars
  <2> SUFFICES ASSUME PllTypeOK, PllTypeOK', EnvelopeInv, Next,
                      hardware' # hardware,
                      ~(target = PM_MODE_HP /\ volt = PM_MODE_ULP)
               PROVE  (CoreClockFits /\ RramClockFits)'
    OBVIOUS
  <2> DEFINE Fits == pll' <= CeilingMHz[volt'] /\ pll' <= CeilingMHz[rram']
  <2>1. /\ volt \in Modes /\ rram \in Modes /\ target \in Modes
        /\ \A m \in Modes : CeilingMHz[m] \in Nat
    BY CeilingAssumption DEF PllTypeOK
  <2>2. ASSUME DisablePll PROVE Fits
    BY <2>1, <2>2, IntermediateFits DEF DisablePll
  <2>3. ASSUME LockIntermediate PROVE Fits
    BY <2>1, <2>3, IntermediateFits DEF LockIntermediate, EnvelopeInv
  <2>4. ASSUME LockFinal PROVE Fits
    BY <2>1, <2>4, FrequencyAssumption DEF LockFinal, EnvelopeInv
  <2>5. ASSUME StepOk PROVE Fits
    BY <2>1, <2>5, IntermediateFits DEF StepOk, EnvelopeInv
  <2>6. ASSUME TrimRram PROVE Fits
    BY <2>1, <2>6 DEF TrimRram, EnvelopeInv
  <2>7. DisablePll \/ LockIntermediate \/ LockFinal \/ StepOk \/ TrimRram
    BY DEF Next, Orchestration, StrategyStep, SwitchNoop, SwitchBegin,
           SwitchFail, SwitchCommit, UartRetune, FlushUart, ConfigureUart,
           Report, Drain, TxInterrupt, TraceEnter,
           LockFails, StepFails, hardware
  <2>8. Fits
    BY <2>2, <2>3, <2>4, <2>5, <2>6, <2>7
  <2>9. pll' \in Nat /\ div' = 1
    BY CeilingAssumption, FrequencyAssumption, IntermediateFits DEF PllTypeOK
  <2>10. Hf0MHz(pll', div') = pll'
    BY <2>9, UndividedClock
  <2>11. QED
    BY <2>8, <2>10 DEF CoreClockFits, RramClockFits
<1>2. QED
  BY <1>1, PllTypeCorrect, EnvelopeCorrect, PTL DEF Spec, RetuneStaysInside

(***************************************************************************)
(* hp_cb at the ULP voltage leaves the PLL at the LP intermediate at       *)
(* worst, even when the voltage step fails after it and the transition is  *)
(* given up: the next one starts by disabling the PLL.                     *)
(***************************************************************************)
THEOREM RetuneWorstCaseHolds == Spec => []RetuneWorstCase
<1> DEFINE Worst == \/ pll <= CeilingMHz[volt]
                    \/ volt = PM_MODE_ULP /\ pll = IntermediateLpMHz
<1>1. Init => Worst
  BY CeilingAssumption DEF Init, Boot
<1>2. PllTypeOK /\ EnvelopeInv /\ Worst /\ [Next]_allVars => Worst'
  <2> SUFFICES ASSUME PllTypeOK, EnvelopeInv, Worst, [Next]_allVars
               PROVE  Worst'
    OBVIOUS
  <2>1. /\ volt \in Modes /\ target \in Modes
        /\ \A m \in Modes : CeilingMHz[m] \in Nat
    BY CeilingAssumption DEF PllTypeOK
  <2>2. CASE DisablePll
    BY <2>1, <2>2, IntermediateFits DEF DisablePll
  <2>3. CASE LockIntermediate
    <3>1. pll' = IntermediateMHz /\ volt' = volt
      BY <2>3 DEF LockIntermediate
    <3>2. CASE target = PM_MODE_HP /\ volt = PM_MODE_ULP
      BY <3>1, <3>2 DEF IntermediateMHz, PM_MODE_ULP, PM_MODE_LP, PM_MODE_HP
    <3>3. CASE ~(target = PM_MODE_HP /\ volt = PM_MODE_ULP)
      BY <3>1, <3>3, IntermediateFits
    <3> QED
      BY <3>2, <3>3
  <2>4. CASE LockFinal
    BY <2>1, <2>4, FrequencyAssumption DEF LockFinal, EnvelopeInv
  <2>5. CASE StepOk
    BY <2>1, <2>5, IntermediateFits DEF StepOk, EnvelopeInv
  <2>6. CASE UNCHANGED <<volt, pll>>
    BY <2>6
  <2>7. \/ DisablePll \/ LockIntermediate \/ LockFinal \/ StepOk
        \/ UNCHANGED <<volt, pll>>
    BY DEF Next, Orchestration, StrategyStep, SwitchNoop, SwitchBegin,
           SwitchFail, SwitchCommit, UartRetune, FlushUart, ConfigureUart,
           Report, Drain, TxInterrupt, TraceEnter,
           LockFails, StepFails, TrimRram, hardware, allVars, vars
  <2> QED
    BY <2>2, <2>3, <2>4, <2>5, <2>6, <2>7
<1>3. PllTypeOK /\ Worst => RetuneWorstCase
  <2> SUFFICES ASSUME PllTypeOK, Worst PROVE RetuneWorstCase
    OBVIOUS
  <2>1. pll \in Nat /\ div = 1
    BY CeilingAssumption, FrequencyAssumption, IntermediateFits DEF PllTypeOK
  <2>2. Hf0MHz(pll, div) = pll
    BY <2>1, UndividedClock
  <2> QED
    BY <2>2 DEF RetuneWorstCase, CoreClockFits
<1> QED
  BY <1>1, <1>2, <1>3, PllTypeCorrect, EnvelopeCorrect, PTL DEF Spec

(***************************************************************************)
(* A switch reported as done has moved voltage, trim and, unless its last  *)
(* lock failed, the PLL.                                                   *)
(***************************************************************************)
THEOREM SuccessAlwaysReaches == Spec => SuccessReachesTarget
<1>1. EnvelopeInv /\ [Next]_allVars
      => [ mode' # mode => /\ volt' = mode' /\ rram' = mode'
                           /\ latched = "locked" => pll' = FinalMHz[mode'] ]_allVars
  <2> SUFFICES ASSUME EnvelopeInv, Next, mode' # mode
               PROVE  /\ volt' = mode' /\ rram' = mode'
                      /\ latched = "locked" => pll' = FinalMHz[mode']
    OBVIOUS
  <2>1. SwitchCommit(NeedsUartRetune)
    BY DEF Next, Orchestration, StrategyStep, SwitchNoop, SwitchBegin,
           SwitchFail, UartRetune, FlushUart, ConfigureUart, Report, Drain,
           TxInterrupt, TraceEnter, DisablePll,
           LockIntermediate, LockFinal, LockFails, StepOk, StepFails, TrimRram
  <2>2. QED
    BY <2>1 DEF SwitchCommit, EnvelopeInv, hardware
<1>2. QED
  BY <1>1, EnvelopeCorrect, PTL DEF Spec, SuccessReachesTarget

-----------------------------------------------------------------------------
(***************************************************************************)
(* A PLL that is not locked at any mode's frequency: bypassed after a      *)
(* failed lock, or left at an intermediate.                                *)
(***************************************************************************)
Astray == latched = "failed" \/ pll \in {IntermediateLpMHz, IntermediateUlpMHz}

OutcomeInv ==
  /\ pc \notin {"idle", "retune", "configure", "report"} => source = mode
  /\ pc \in {"idle", "strategy", "flushBefore"} => Astray \/ AtPoint(mode)
  /\ pc = "step" => Astray
  /\ pc = "returned" => IF rc = "ok" THEN latched = "failed" \/ AtPoint(target)
                                     ELSE Astray
  /\ pc \in {"retune", "configure", "report"} => latched = "failed" \/ AtPoint(mode)

LEMMA OutcomeCorrect == Spec => []OutcomeInv
<1> USE DEF OutcomeInv, Astray, AtPoint
<1>1. Init => OutcomeInv
  BY FrequencyAssumption DEF Init, Boot
<1>2. PllTypeOK /\ EnvelopeInv /\ OutcomeInv /\ [Next]_allVars => OutcomeInv'
  <2> SUFFICES ASSUME PllTypeOK, EnvelopeInv, OutcomeInv, [Next]_allVars
               PROVE  OutcomeInv'
    OBVIOUS
  <2> USE DEF ShellPrint, hardware, console, call
  <2>1. ASSUME NEW m \in Modes, SwitchNoop(m), UNCHANGED latched
        PROVE  OutcomeInv'
    BY <2>1 DEF SwitchNoop
  <2>2. ASSUME NEW m \in Modes, SwitchBegin(m), UNCHANGED latched
        PROVE  OutcomeInv'
    BY <2>2 DEF SwitchBegin
  <2>3. CASE SwitchFail /\ UNCHANGED latched
    BY <2>3 DEF SwitchFail
  <2>4. CASE SwitchCommit(NeedsUartRetune) /\ UNCHANGED latched
    BY <2>4 DEF SwitchCommit, NeedsUartRetune
  <2>5. CASE UartRetune
    BY <2>5 DEF UartRetune, FlushUart, ConfigureUart
  <2>6. CASE Report /\ UNCHANGED latched
    BY <2>6 DEF Report
  <2>7. CASE Drain /\ UNCHANGED latched
    BY <2>7 DEF Drain
  <2>8. CASE TraceEnter
    BY <2>8 DEF TraceEnter
  <2>9. CASE DisablePll
    BY <2>9 DEF DisablePll
  <2>10. CASE LockIntermediate
    BY <2>10 DEF LockIntermediate, IntermediateMHz
  <2>11. CASE LockFinal
    BY <2>11 DEF LockFinal, EnvelopeInv
  <2>12. CASE LockFails
    BY <2>12 DEF LockFails, GiveUp
  <2>13. CASE StepOk
    BY <2>13 DEF StepOk
  <2>14. CASE StepFails
    BY <2>14 DEF StepFails, GiveUp
  <2>15. CASE TrimRram
    BY <2>15 DEF TrimRram
  <2>16. CASE TxInterrupt(Masked) /\ UNCHANGED latched
    BY <2>16 DEF TxInterrupt, Masked
  <2>17. CASE UNCHANGED allVars
    BY <2>17 DEF allVars, vars
  <2>18. QED
    BY <2>1, <2>2, <2>3, <2>4, <2>5, <2>6, <2>7, <2>8, <2>9, <2>10, <2>11,
       <2>12, <2>13, <2>14, <2>15, <2>16, <2>17
       DEF Next, Orchestration, StrategyStep
<1>3. QED
  BY <1>1, <1>2, PllTypeCorrect, EnvelopeCorrect, PTL DEF Spec

(***************************************************************************)
(* Between two calls the SoC is at the reported mode's point, or the PLL   *)
(* is astray and it is at none.                                            *)
(***************************************************************************)
LEMMA PointIsOwn ==
  ASSUME PllTypeOK, OutcomeInv
  PROVE  PointBetweenCalls = IF pc = "idle" /\ ~Astray THEN mode ELSE NoMode
<1>1. mode \in Modes
  BY DEF PllTypeOK
<1>2. \A m \in Modes : AtPoint(m) => ~Astray
  BY FrequencyAssumption DEF AtPoint, Astray
<1>3. \A m, n \in Modes : AtPoint(m) /\ AtPoint(n) => m = n
  BY DEF AtPoint
<1>4. pc = "idle" /\ ~Astray => AtPoint(mode)
  BY DEF OutcomeInv
<1>5. QED
  BY <1>1, <1>2, <1>3, <1>4 DEF PointBetweenCalls

(***************************************************************************)
(* The PLL strategy implements SwitchOutcome, whichever of its steps fail: *)
(* a caller is never told of one mode at the operating point of another,   *)
(* and a call that returned 0 without a failed lock has got there.  The    *)
(* last step of a call is the Switch or the Unlocked, all others Linger.   *)
(***************************************************************************)
THEOREM PllOutcomeAlwaysKnown == Spec => OutcomeIsKnown
<1> DEFINE seen == <<ReportedToCaller, PointBetweenCalls, latched = "failed">>
<1>1. Init => Outcome!Init
  <2> SUFFICES ASSUME Init PROVE Outcome!Init
    OBVIOUS
  <2>1. AtPoint(PM_MODE_HP) /\ PM_MODE_HP \in Modes
    BY FrequencyAssumption DEF Init, Boot, AtPoint, Modes
  <2>2. \A m \in Modes : AtPoint(m) => m = PM_MODE_HP
    BY <2>1 DEF AtPoint
  <2>3. PointBetweenCalls = PM_MODE_HP
    BY <2>1, <2>2 DEF PointBetweenCalls, Init, Boot
  <2>4. QED
    BY <2>3 DEF Init, Boot, Outcome!Init, ReportedToCaller
<1>2. /\ PllTypeOK /\ PllTypeOK' /\ OutcomeInv /\ OutcomeInv' /\ [Next]_allVars
      => [Outcome!Next]_seen
  <2> SUFFICES ASSUME PllTypeOK, PllTypeOK', OutcomeInv, OutcomeInv',
                      [Next]_allVars
               PROVE  [Outcome!Next]_seen
    OBVIOUS
  <2> DEFINE Own  == IF pc = "idle" /\ ~Astray THEN mode ELSE NoMode
             OwnP == IF pc' = "idle" /\ ~Astray' THEN mode' ELSE NoMode
  <2>1. PointBetweenCalls = Own
    BY PointIsOwn
  <2>2. PointBetweenCalls' = OwnP
    <3>1. (PllTypeOK /\ OutcomeInv => PointBetweenCalls = Own)'
      BY PointIsOwn, PTL
    <3>2. QED
      BY <3>1 DEF NoMode
  <2>3. CASE Report /\ UNCHANGED latched
    <3>1. ReportedToCaller' = mode' /\ mode' \in Modes /\ pc' = "idle"
      BY <2>3 DEF Report, ReportedToCaller, PllTypeOK
    <3>2. CASE Astray'
      <4>1. latched' = "failed"
        BY <2>3, <3>2, FrequencyAssumption
           DEF Report, OutcomeInv, AtPoint, Astray, PllTypeOK, hardware
      <4>2. QED
        BY <2>2, <3>1, <3>2, <4>1 DEF Outcome!Next, Outcome!Unlocked
    <3>3. CASE ~Astray'
      BY <2>2, <3>1, <3>3 DEF Outcome!Next, Outcome!Switch
    <3>4. QED
      BY <3>2, <3>3
  <2>4. CASE ~Report
    <3>1. ReportedToCaller' = ReportedToCaller
      BY <2>4 DEF Next, Orchestration, StrategyStep, SwitchNoop, SwitchBegin,
           SwitchFail, SwitchCommit, NeedsUartRetune, UartRetune, FlushUart,
           ConfigureUart, Drain, TxInterrupt,
           TraceEnter, DisablePll, LockIntermediate, LockFinal, LockFails,
           GiveUp, StepOk, StepFails, TrimRram, OutcomeInv, ReportedToCaller,
           call, allVars, vars
    <3>2. OwnP \in {ReportedToCaller', NoMode}
      BY DEF ReportedToCaller
    <3>3. QED
      BY <2>2, <3>1, <3>2 DEF Outcome!Next, Outcome!Linger
  <2>5. Report => UNCHANGED latched
    BY DEF Next, Orchestration, StrategyStep, SwitchNoop, SwitchBegin,
           SwitchFail, SwitchCommit, UartRetune, FlushUart, ConfigureUart, Drain,
           TxInterrupt, TraceEnter, DisablePll,
           LockIntermediate, LockFinal, LockFails, GiveUp, StepOk, StepFails,
           TrimRram, Report, allVars
  <2>6. QED
    BY <2>3, <2>4, <2>5
<1>3. QED
  BY <1>1, <1>2, PllTypeCorrect, OutcomeCorrect, PTL
     DEF Spec, OutcomeIsKnown, Outcome!Spec

-----------------------------------------------------------------------------
(***************************************************************************)
(* A step of the shell thread brings the return nearer by at least two,    *)
(* which pays for a byte it may put into the FIFO; so does a step of the   *)
(* TX interrupt.                                                           *)
(***************************************************************************)
LEMMA Paid ==
  ASSUME NEW k \in Nat, NEW l \in Nat, NEW r \in Nat, NEW q \in Nat,
         NEW b \in {0, 1}, NEW c \in {0, 1},
         \/ l + q < k + r
         \/ l = k /\ q = r /\ b = 1 /\ c = 0
  PROVE  2 * (l + q) + c \in 0..(2 * (k + r) + b - 1)
OBVIOUS

(***************************************************************************)
(* pm_switch_to() is over after 23 + 2 * RingBytes steps of its own, of    *)
(* the UART and of the TX interrupt: none of them, and no failure, leads   *)
(* back.  Only the flushes wait, and only for bytes that are in the FIFO,  *)
(* which the interrupt can fill again no longer than the ring lasts.       *)
(***************************************************************************)
THEOREM SwitchAlwaysBounded == Spec => SwitchIsBounded
<1> DEFINE Nearer == pc # "idle" => Distance' \in 0..(Distance - 1)
<1>1. PllTypeOK /\ PllTypeOK' /\ [Next]_allVars => [Nearer]_allVars
  <2> SUFFICES ASSUME PllTypeOK, PllTypeOK', Next, pc # "idle"
               PROVE  Distance' \in 0..(Distance - 1)
    OBVIOUS
  <2> DEFINE Bit(f) == IF f = {} THEN 0 ELSE 1
  <2>1. /\ ring \in Nat /\ ring' \in Nat
        /\ Bit(fifo) \in {0, 1} /\ Bit(fifo') \in {0, 1}
    BY RingAssumption DEF PllTypeOK
  <2>2. StepsLeft \in 1..11
    BY DEF PllTypeOK, StepsLeft
  <2>3. Distance = 2 * (StepsLeft + ring) + Bit(fifo)
    BY DEF Distance
  <2>4. ASSUME pc' = "idle" PROVE Distance' \in 0..(Distance - 1)
    <3>1. Distance' = 0
      BY <2>4 DEF Distance
    <3> HIDE DEF StepsLeft, Distance, Bit
    <3> QED
      BY <2>1, <2>2, <2>3, <3>1
  <2>5. ASSUME NEW k \in Nat, NEW l \in Nat, NEW r \in Nat, NEW q \in Nat,
               StepsLeft = k, StepsLeft' = l, ring = r, ring' = q,
               pc' # "idle",
               \/ l + q < k + r
               \/ l = k /\ q = r /\ fifo # {} /\ fifo' = {}
        PROVE  Distance' \in 0..(Distance - 1)
    <3>1. PICK b \in {0, 1}, c \in {0, 1} : Bit(fifo) = b /\ Bit(fifo') = c
      BY <2>1
    <3>2. Distance = 2 * (k + r) + b /\ Distance' = 2 * (l + q) + c
      BY <2>3, <2>5, <3>1 DEF Distance
    <3>3. fifo # {} /\ fifo' = {} => b = 1 /\ c = 0
      BY <3>1
    <3> DEFINE before == 2 * (k + r) + b
               after  == 2 * (l + q) + c
    <3>4. after \in 0..(before - 1)
      BY <2>5, <3>3, Paid
    <3>5. Distance = before /\ Distance' = after
      BY <3>2
    <3> HIDE DEF before, after, Distance
    <3> QED
      BY <3>4, <3>5, Zenon
  <2>6. ASSUME ring' = ring, pc' # "idle",
               NEW k \in Nat, NEW l \in Nat, l < k,
               StepsLeft = k, StepsLeft' = l
        PROVE  Distance' \in 0..(Distance - 1)
    <3>1. PICK r \in Nat : ring = r
      BY <2>1
    <3>2. l + r < k + r
      BY <2>6
    <3> HIDE DEF StepsLeft, Distance
    <3> QED
      BY <2>5, <2>6, <3>1, <3>2
  <2>7. CASE SwitchFail \/ Report
    BY <2>4, <2>7 DEF SwitchFail, Report
  <2>8. CASE SwitchCommit(NeedsUartRetune)
    <3>1. ring' = ring /\ pc = "returned" /\ pc' = "retune"
      BY <2>8 DEF SwitchCommit, NeedsUartRetune, console
    <3>2. StepsLeft = 4 /\ StepsLeft' = 3
      BY <3>1 DEF StepsLeft
    <3> QED
      BY <2>6, <3>1, <3>2
  <2>9. CASE FlushUart
    <3>1. ring' = ring /\ pc = "retune" /\ pc' = "configure"
      BY <2>9 DEF FlushUart, console
    <3>2. StepsLeft = 3 /\ StepsLeft' = 2
      BY <3>1 DEF StepsLeft
    <3> QED
      BY <2>6, <3>1, <3>2
  <2>10. CASE ConfigureUart
    <3>1. ring' = ring /\ pc = "configure" /\ pc' = "report"
      BY <2>10 DEF ConfigureUart
    <3>2. StepsLeft = 2 /\ StepsLeft' = 1
      BY <3>1 DEF StepsLeft
    <3> QED
      BY <2>6, <3>1, <3>2
  <2>11. CASE Drain \/ TxInterrupt(Masked)
    <3>1. pc' = pc
      BY <2>11 DEF Drain, TxInterrupt
    <3>2. StepsLeft' = StepsLeft
      BY <3>1 DEF StepsLeft
    <3>3. PICK k \in Nat : StepsLeft = k /\ StepsLeft' = k
      <4> HIDE DEF StepsLeft
      <4>1. StepsLeft \in Nat
        BY <2>2
      <4> QED
        BY <3>2, <4>1, Zenon
    <3>4. PICK r \in Nat, q \in Nat : ring = r /\ ring' = q
      BY <2>1
    <3>5. CASE Drain
      <4>1. q = r /\ fifo # {} /\ fifo' = {}
        BY <3>4, <3>5 DEF Drain
      <4> QED
        BY <2>5, <3>1, <3>3, <3>4, <4>1
    <3>6. CASE TxInterrupt(Masked)
      <4>1. q < r
        BY <3>4, <3>6 DEF TxInterrupt
      <4>2. k + q < k + r
        BY <4>1
      <4> QED
        BY <2>5, <3>1, <3>3, <3>4, <4>2
    <3> QED
      BY <2>11, <3>5, <3>6
  <2>12. CASE TraceEnter
    <3>1. ring' = ring /\ pc = "strategy" /\ pc' = "flushBefore"
      BY <2>12 DEF TraceEnter
    <3>2. StepsLeft = 11 /\ StepsLeft' = 10
      BY <3>1 DEF StepsLeft
    <3> QED
      BY <2>6, <3>1, <3>2
  <2>13. CASE DisablePll
    <3>1. ring' = ring
      BY <2>13 DEF DisablePll, console
    <3>2. CASE pc = "flushBefore" /\ pc' = "lockBefore"
      <4>1. StepsLeft = 10 /\ StepsLeft' = 9
        BY <3>2 DEF StepsLeft
      <4> QED
        BY <2>6, <3>1, <3>2, <4>1
    <3>3. CASE pc = "flushAfter" /\ pc' = "lockAfter"
      <4>1. StepsLeft = 6 /\ StepsLeft' = 5
        BY <3>3 DEF StepsLeft
      <4> QED
        BY <2>6, <3>1, <3>3, <4>1
    <3> QED
      BY <2>13, <3>2, <3>3 DEF DisablePll
  <2>14. CASE LockIntermediate \/ LockFinal \/ LockFails
    <3>1. ring' = ring
      BY <2>14 DEF LockIntermediate, LockFinal, LockFails, console
    <3>2. \/ pc = "lockBefore" /\ pc' \in {"step", "returned"}
          \/ pc = "lockAfter" /\ pc' = "returned"
      BY <2>14 DEF LockIntermediate, LockFinal, LockFails, GiveUp
    <3>3. CASE pc = "lockBefore" /\ pc' = "step"
      <4>1. StepsLeft = 9 /\ StepsLeft' = 8
        BY <3>3 DEF StepsLeft
      <4> QED
        BY <2>6, <3>1, <3>3, <4>1
    <3>4. CASE pc = "lockBefore" /\ pc' = "returned"
      <4>1. StepsLeft = 9 /\ StepsLeft' = 4
        BY <3>4 DEF StepsLeft
      <4> QED
        BY <2>6, <3>1, <3>4, <4>1
    <3>5. CASE pc = "lockAfter" /\ pc' = "returned"
      <4>1. StepsLeft = 5 /\ StepsLeft' = 4
        BY <3>5 DEF StepsLeft
      <4> QED
        BY <2>6, <3>1, <3>5, <4>1
    <3> QED
      BY <3>2, <3>3, <3>4, <3>5
  <2>15. CASE StepOk \/ TrimRram \/ StepFails
    <3>1. ring' = ring
      BY <2>15 DEF StepOk, TrimRram, StepFails, console
    <3>2. CASE StepOk
      <4>1. pc = "step" /\ pc' = "trim"
        BY <3>2 DEF StepOk
      <4>2. StepsLeft = 8 /\ StepsLeft' = 7
        BY <4>1 DEF StepsLeft
      <4> QED
        BY <2>6, <3>1, <4>1, <4>2
    <3>3. CASE TrimRram
      <4>1. pc = "trim" /\ pc' = "flushAfter"
        BY <3>3 DEF TrimRram
      <4>2. StepsLeft = 7 /\ StepsLeft' = 6
        BY <4>1 DEF StepsLeft
      <4> QED
        BY <2>6, <3>1, <4>1, <4>2
    <3>4. CASE StepFails
      <4>1. pc = "step" /\ pc' = "returned"
        BY <3>4 DEF StepFails, GiveUp
      <4>2. StepsLeft = 8 /\ StepsLeft' = 4
        BY <4>1 DEF StepsLeft
      <4> QED
        BY <2>6, <3>1, <4>1, <4>2
    <3> QED
      BY <2>15, <3>2, <3>3, <3>4
  <2>16. ASSUME NEW m \in Modes PROVE ~SwitchNoop(m) /\ ~SwitchBegin(m)
    BY DEF SwitchNoop, SwitchBegin
  <2> QED
    BY <2>7, <2>8, <2>9, <2>10, <2>11, <2>12, <2>13, <2>14, <2>15, <2>16
       DEF Next, Orchestration, StrategyStep, UartRetune
<1> QED
  BY <1>1, PllTypeCorrect, PTL DEF Spec, SwitchIsBounded

=============================================================================
