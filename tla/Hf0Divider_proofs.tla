------------------------- MODULE Hf0Divider_proofs -------------------------
(***************************************************************************)
(* What Hf0Divider.tla promises, for every clock tree that satisfies       *)
(* CeilingAssumption and DivideAssumption.                                 *)
(*                                                                         *)
(* ControlInv says what the hardware looks like at each control point; it  *)
(* is inductive together with TypeOK, and the safety properties follow     *)
(* from the two without another induction.                                 *)
(***************************************************************************)
EXTENDS Hf0Divider, Integers, TLAPS

(***************************************************************************)
(* What the writers of the console leave in the ring and in the FIFO.      *)
(***************************************************************************)
LEMMA ConsoleTypes ==
  /\ 0 \in 0..RingBytes
  /\ RingBytes \in 0..RingBytes
  /\ \A n \in 0..(RingBytes - 1) : n \in 0..RingBytes
  /\ \A f \in SUBSET Writers :
       f \cup {"shell"} \in SUBSET Writers /\ f \cup {"raw"} \in SUBSET Writers
<1>1. RingBytes \in Nat
  BY RingAssumption
<1>2. {"shell"} \in SUBSET Writers /\ {"raw"} \in SUBSET Writers
  BY DEF Writers
<1> QED
  BY <1>1, <1>2

(***************************************************************************)
(* Every variable keeps its type (pm_switch_to and its six helpers).         *)
(***************************************************************************)
THEOREM TypeCorrect == Spec => []TypeOK
<1>1. Init => TypeOK
  <2> SUFFICES ASSUME Init PROVE TypeOK
    OBVIOUS
  <2>1. fifo \subseteq Writers /\ ring \in 0..RingBytes
    BY ConsoleTypes DEF Init, Boot
  <2> QED
    BY <2>1, CeilingAssumption, DivideAssumption
       DEF Init, Boot, TypeOK, Modes, PM_MODE_ULP, PM_MODE_LP, PM_MODE_HP,
           PcValues, Result
<1>2. TypeOK /\ [Next]_vars => TypeOK'
  <2> SUFFICES ASSUME TypeOK, [Next]_vars PROVE TypeOK'
    OBVIOUS
  <2> USE RingAssumption
  <2> USE DEF TypeOK, PcValues, Result, Writers, ShellPrint, hardware,
              console, call
  <2>1. ASSUME NEW m \in Modes, SwitchNoop(m) PROVE TypeOK'
    <3>1. fifo' \subseteq Writers /\ ring' \in 0..RingBytes
      BY <2>1, ConsoleTypes DEF SwitchNoop
    <3> HIDE DEF Writers, ShellPrint
    <3> QED
      BY <2>1, <3>1 DEF SwitchNoop
  <2>2. ASSUME NEW m \in Modes, SwitchBegin(m) PROVE TypeOK'
    BY <2>2 DEF SwitchBegin
  <2>3. CASE SwitchFail
    <3>1. fifo' \subseteq Writers /\ ring' \in 0..RingBytes
      BY <2>3 DEF SwitchFail
    <3> HIDE DEF Writers
    <3> QED
      BY <2>3, <3>1 DEF SwitchFail
  <2>4. CASE SwitchCommit(NeedsUartRetune)
    BY <2>4 DEF SwitchCommit, NeedsUartRetune
  <2>5. CASE Report
    BY <2>5 DEF Report
  <2>6. CASE Drain
    BY <2>6 DEF Drain
  <2>7. CASE LowerClock
    BY <2>7 DEF LowerClock
  <2>8. CASE EnterOk
    BY <2>8 DEF EnterOk
  <2>9. CASE EnterFail
    BY <2>9 DEF EnterFail
  <2>10. CASE TrimRram
    BY <2>10 DEF TrimRram
  <2>11. CASE RaiseClock
    BY <2>11 DEF RaiseClock
  <2>12. CASE TxInterrupt(FALSE)
    BY <2>12 DEF TxInterrupt
  <2>13. CASE UNCHANGED vars
    BY <2>13 DEF vars
  <2>14. QED
    BY <2>1, <2>2, <2>3, <2>4, <2>5, <2>6, <2>7, <2>8, <2>9, <2>10,
       <2>11, <2>12, <2>13 DEF Next, Orchestration
<1>3. QED
  BY <1>1, <1>2, PTL DEF Spec

(***************************************************************************)
(* The hardware at each control point, whichever voltage steps fail.       *)
(***************************************************************************)
LEMMA ControlCorrect == Spec => []ControlInv
<1> USE CeilingAssumption, DivideAssumption
<1> USE DEF ControlInv, InCall, AtPoint, Down
<1>1. Init => ControlInv
  BY DEF Init, Boot, Modes, PM_MODE_HP
<1>2. TypeOK /\ ControlInv /\ [Next]_vars => ControlInv'
  <2> SUFFICES ASSUME TypeOK, ControlInv, [Next]_vars PROVE ControlInv'
    OBVIOUS
  <2> USE DEF TypeOK, PcValues, Result, hardware, console, call, Modes,
           PM_MODE_ULP, PM_MODE_LP, PM_MODE_HP
  <2>1. ASSUME NEW m \in Modes, SwitchNoop(m) PROVE ControlInv'
    BY <2>1 DEF SwitchNoop
  <2>2. ASSUME NEW m \in Modes, SwitchBegin(m) PROVE ControlInv'
    BY <2>2 DEF SwitchBegin
  <2>3. CASE SwitchFail
    BY <2>3 DEF SwitchFail
  <2>4. CASE SwitchCommit(NeedsUartRetune)
    BY <2>4 DEF SwitchCommit, NeedsUartRetune
  <2>5. CASE Report
    BY <2>5 DEF Report
  <2>6. CASE Drain
    BY <2>6 DEF Drain
  <2>7. CASE LowerClock
    BY <2>7 DEF LowerClock
  <2>8. CASE EnterOk
    BY <2>8 DEF EnterOk
  <2>9. CASE EnterFail
    BY <2>9 DEF EnterFail
  <2>10. CASE TrimRram
    BY <2>10 DEF TrimRram
  <2>11. CASE RaiseClock
    BY <2>11 DEF RaiseClock
  <2>12. CASE TxInterrupt(FALSE)
    BY <2>12 DEF TxInterrupt
  <2>13. CASE UNCHANGED vars
    BY <2>13 DEF vars
  <2>14. QED
    BY <2>1, <2>2, <2>3, <2>4, <2>5, <2>6, <2>7, <2>8, <2>9, <2>10,
       <2>11, <2>12, <2>13 DEF Next, Orchestration
<1>3. QED
  BY <1>1, <1>2, TypeCorrect, PTL DEF Spec

(***************************************************************************)
(* A mode's own clock fits every mode at least as fast: the table fact     *)
(* both directions of a switch lean on.                                    *)
(***************************************************************************)
LEMMA SlowerPointFits ==
  ASSUME NEW m \in Modes, NEW n \in Modes, m <= n
  PROVE  Hf0MHz(DpllMHz, Hf0Divide[m]) <= CeilingMHz[n]
<1>1. /\ DpllMHz \div Hf0Divide[m] <= CeilingMHz[m]
      /\ CeilingMHz[m] <= CeilingMHz[n]
  BY CeilingAssumption, DivideAssumption
<1>2. /\ CeilingMHz[m] \in Nat /\ CeilingMHz[n] \in Nat
      /\ DpllMHz \div Hf0Divide[m] \in Int
  BY CeilingAssumption, DivideAssumption
<1>3. QED
  BY <1>1, <1>2 DEF Hf0MHz

(***************************************************************************)
(* The core clock is within the limit of the voltage and of the RRAM trim  *)
(* in effect after every PDL call of every transition.                     *)
(***************************************************************************)
THEOREM ClockAlwaysInWindow == Spec => []ClockInWindow
<1>1. TypeOK /\ ControlInv => ClockInWindow
  <2> SUFFICES ASSUME TypeOK, ControlInv PROVE ClockInWindow
    OBVIOUS
  <2>1. PICK m \in Modes : div = Hf0Divide[m] /\ m <= volt /\ m <= rram
    BY DEF TypeOK, ControlInv, InCall, AtPoint, Down, PcValues, Result, Modes,
           PM_MODE_ULP, PM_MODE_LP, PM_MODE_HP
  <2>2. Hf0MHz(pll, div) <= CeilingMHz[volt]
    BY <2>1, SlowerPointFits DEF TypeOK
  <2>3. Hf0MHz(pll, div) <= CeilingMHz[rram]
    BY <2>1, SlowerPointFits DEF TypeOK
  <2>4. QED
    BY <2>2, <2>3 DEF ClockInWindow, CoreClockFits, RramClockFits
<1>2. QED
  BY <1>1, TypeCorrect, ControlCorrect, PTL

(***************************************************************************)
(* The pm-busy pulse covers every state between two operating points.      *)
(***************************************************************************)
THEOREM PulseAlwaysCovers == Spec => []PulseCoversTransient
<1>1. TypeOK /\ ControlInv => PulseCoversTransient
  BY DEF TypeOK, PcValues, Result, ControlInv, InCall, PulseCoversTransient
<1>2. QED
  BY <1>1, TypeCorrect, ControlCorrect, PTL

(***************************************************************************)
(* pm_switch_to() is all or nothing: the divider strategy implements the   *)
(* promise of ModeSwitch, every commit being its Switch and every other    *)
(* step a stutter.                                                         *)
(***************************************************************************)
THEOREM SwitchAlwaysAtomic == Spec => SwitchIsAtomic
<1>1. mode \in Modes /\ ControlInv => PointBetweenCalls = mode
  <2> SUFFICES ASSUME mode \in Modes, ControlInv, pc = "idle"
               PROVE  PointBetweenCalls = mode
    BY DEF PointBetweenCalls
  <2>1. mode \in Modes /\ AtPoint(mode)
    BY DEF TypeOK, ControlInv
  <2>2. \A m \in Modes : AtPoint(m) => m = mode
    BY <2>1 DEF AtPoint
  <2>3. QED
    BY <2>1, <2>2 DEF PointBetweenCalls
<1> TypeOK => mode \in Modes
  BY DEF TypeOK
<1>2. Init => Promise!Init
  <2> SUFFICES ASSUME Init PROVE Promise!Init
    OBVIOUS
  <2>1. mode \in Modes /\ ControlInv
    BY CeilingAssumption, DivideAssumption
       DEF Init, Boot, ControlInv, AtPoint, Modes, PM_MODE_ULP, PM_MODE_LP,
           PM_MODE_HP, PcValues
  <2>2. QED
    BY <1>1, <2>1 DEF Init, Boot, Promise!Init
<1>3. /\ PointBetweenCalls = mode /\ (PointBetweenCalls = mode)'
      /\ TypeOK' /\ [Next]_vars
      => [Promise!Next]_<<mode, PointBetweenCalls>>
  <2> SUFFICES ASSUME PointBetweenCalls = mode, (PointBetweenCalls = mode)',
                      TypeOK'
               PROVE  Promise!Next
    OBVIOUS
  <2>1. mode' \in Modes
    BY DEF TypeOK
  <2>2. QED
    BY <2>1 DEF Promise!Next, Promise!Switch
<1>4. QED
  BY <1>1, <1>2, <1>3, TypeCorrect, ControlCorrect, PTL
     DEF Spec, SwitchIsAtomic, Promise!Spec

(***************************************************************************)
(* And so it implements SwitchOutcome, what the three strategies have in   *)
(* common: a Switch of ModeSwitch is one of SwitchOutcome.                 *)
(***************************************************************************)
THEOREM OutcomeAlwaysKnown == Spec => OutcomeIsKnown
<1>1. Promise!Init => Outcome!Init
  BY DEF Promise!Init, Outcome!Init
<1>2. [Promise!Next]_<<mode, PointBetweenCalls>>
      => [Outcome!Next]_<<mode, PointBetweenCalls, FALSE>>
  <2> SUFFICES ASSUME [Promise!Next]_<<mode, PointBetweenCalls>>
               PROVE  [Outcome!Next]_<<mode, PointBetweenCalls, FALSE>>
    OBVIOUS
  <2>1. CASE Promise!Next
    BY <2>1 DEF Promise!Next, Promise!Switch, Outcome!Next, Outcome!Switch
  <2>2. CASE UNCHANGED <<mode, PointBetweenCalls>>
    BY <2>2
  <2> QED
    BY <2>1, <2>2
<1> QED
  BY <1>1, <1>2, SwitchAlwaysAtomic, PTL
     DEF SwitchIsAtomic, Promise!Spec, OutcomeIsKnown, Outcome!Spec

=============================================================================
