------------------------- MODULE SecureSwitch_proofs -------------------------
(***************************************************************************)
(* What SecureSwitch.tla promises, for every clock tree that satisfies     *)
(* SecureAssumption, whatever trims the boot leaves, however late the buck *)
(* and whichever PSA calls fail.                                           *)
(*                                                                         *)
(* First the trim tables, whose tuples are evaluated register by register; *)
(* then SwitchInv, what holds at each control point, which is inductive    *)
(* together with TypeOK; the safety properties follow from it.             *)
(***************************************************************************)
EXTENDS SecureSwitch, Integers, TLAPS

(***************************************************************************)
(* Of several writes to one register, apply_trim_seq() leaves the last.    *)
(***************************************************************************)
LEMMA LastWriteStays ==
  ASSUME NEW n \in Nat, NEW seq, DOMAIN seq = 1 .. n, NEW regs,
         NEW i \in TrimRegs, NEW k \in 1 .. n, seq[k][1] = i,
         \A j \in 1 .. n : seq[j][1] = i => j <= k
  PROVE  Applied(seq, regs)[i] = seq[k][2]
<1> DEFINE Writes == {j \in DOMAIN seq : seq[j][1] = i}
<1>1. k \in Writes /\ \A j \in Writes : j <= k
  OBVIOUS
<1>2. ASSUME NEW l \in Writes, \A j \in Writes : j <= l PROVE l = k
  BY <1>1, <1>2
<1>3. (CHOOSE l \in Writes : \A j \in Writes : j <= l) = k
  BY <1>1, <1>2
<1>4. QED
  BY <1>1, <1>3 DEF Applied

\* A table of n writes that ends on value v for register i.
EndsOn(seq, n, i, v) ==
  /\ DOMAIN seq = 1 .. n
  /\ \E k \in 1 .. n : /\ seq[k] = <<i, v>>
                      /\ \A j \in 1 .. n : seq[j][1] = i => j <= k

\* A table of n writes none of which is to register i.
Spares(seq, n, i) ==
  /\ DOMAIN seq = 1 .. n
  /\ \A j \in 1 .. n : seq[j][1] # i

(***************************************************************************)
(* What a table makes of a register it writes, and of one it does not.     *)
(***************************************************************************)
LEMMA WrittenEndsOn ==
  ASSUME NEW n \in Nat, NEW seq, NEW regs, NEW i \in TrimRegs, NEW v,
         EndsOn(seq, n, i, v)
  PROVE  Applied(seq, regs)[i] = v
<1>1. PICK k \in 1 .. n : /\ seq[k] = <<i, v>>
                          /\ \A j \in 1 .. n : seq[j][1] = i => j <= k
  BY DEF EndsOn
<1>2. seq[k][1] = i /\ seq[k][2] = v
  BY <1>1
<1>3. Applied(seq, regs)[i] = seq[k][2]
  BY <1>1, <1>2, LastWriteStays DEF EndsOn
<1>4. QED
  BY <1>2, <1>3

LEMMA UnwrittenStays ==
  ASSUME NEW n \in Nat, NEW seq, NEW regs, NEW i \in TrimRegs,
         Spares(seq, n, i)
  PROVE  Applied(seq, regs)[i] = regs[i]
  BY DEF Applied, Spares

\* The final trims of a mode are a table of the nine registers.
LEMMA FinalTrimRow ==
  ASSUME NEW m \in Modes
  PROVE  FinalTrim[m] = [i \in TrimRegs |-> FinalTrim[m][i]]
<1> DEFINE value(n, i) ==
      IF n = PM_MODE_LP
      THEN CASE i \in 0..1 -> \h743 [] i \in 2..5 -> \h604
             [] i \in 6..7 -> \h22D [] i = 8 -> \hB
      ELSE CASE i \in 0..1 -> \h342 [] i \in 2..3 -> \h202
             [] i \in 4..5 -> \h20B [] i \in 6..7 -> \h1B [] i = 8 -> \hA
<1>1. FinalTrim = [n \in Modes |-> [i \in TrimRegs |-> value(n, i)]]
  BY Zenon DEF FinalTrim
<1> HIDE DEF value
<1>2. FinalTrim[m] = [i \in TrimRegs |-> value(m, i)]
  BY <1>1, Zenon
<1>3. QED
  BY <1>2, Zenon

LEMMA SameTrims ==
  ASSUME NEW m \in Modes, NEW seq, NEW regs,
         \A i \in TrimRegs : Applied(seq, regs)[i] = FinalTrim[m][i]
  PROVE  Applied(seq, regs) = FinalTrim[m]
<1>1. Applied(seq, regs) = [i \in TrimRegs |-> Applied(seq, regs)[i]]
  BY Zenon DEF Applied
<1>2. QED
  BY <1>1, FinalTrimRow, Zenon

(***************************************************************************)
(* The post table of LP -> HP writes all nine registers.                   *)
(***************************************************************************)
LEMMA HpTrimsFinal ==
  ASSUME NEW regs
  PROVE  Applied(trim_lp_to_hp_post, regs) = FinalTrim[PM_MODE_HP]
<1> DEFINE F == FinalTrim[PM_MODE_HP]
<1>1. \A i \in TrimRegs : EndsOn(trim_lp_to_hp_post, 15, i, F[i])
  BY DEF EndsOn, trim_lp_to_hp_post, TrimRegs, FinalTrim, Modes, PM_MODE_LP,
         PM_MODE_HP
<1> HIDE DEF F
<1>2. \A i \in TrimRegs : Applied(trim_lp_to_hp_post, regs)[i] = F[i]
  BY <1>1, WrittenEndsOn
<1>3. QED
  BY <1>2, SameTrims DEF F, Modes

(***************************************************************************)
(* The two tables of HP -> LP together write all nine registers: the post  *)
(* table only registers 4 and 5.                                           *)
(***************************************************************************)
LEMMA LpTrimsFinal ==
  ASSUME NEW regs
  PROVE  Applied(trim_hp_to_lp_post, Applied(trim_hp_to_lp_pre, regs))
           = FinalTrim[PM_MODE_LP]
<1> DEFINE mid == Applied(trim_hp_to_lp_pre, regs)
           F   == FinalTrim[PM_MODE_LP]
<1>1. \A i \in TrimRegs \ {4, 5} : EndsOn(trim_hp_to_lp_pre, 23, i, F[i])
  BY DEF EndsOn, trim_hp_to_lp_pre, TrimRegs, FinalTrim, Modes, PM_MODE_LP,
         PM_MODE_HP
<1>2. \A i \in {4, 5} : EndsOn(trim_hp_to_lp_post, 2, i, F[i])
  BY DEF EndsOn, trim_hp_to_lp_post, FinalTrim, Modes, PM_MODE_LP, PM_MODE_HP,
         TrimRegs
<1>3. \A i \in TrimRegs \ {4, 5} : Spares(trim_hp_to_lp_post, 2, i)
  BY DEF Spares, trim_hp_to_lp_post
<1>4. \A i \in {4, 5} : i \in TrimRegs
  BY DEF TrimRegs
<1> HIDE DEF mid, F
<1>5. \A i \in TrimRegs \ {4, 5} : mid[i] = F[i]
  BY <1>1, WrittenEndsOn DEF mid
<1>6. \A i \in {4, 5} : Applied(trim_hp_to_lp_post, mid)[i] = F[i]
  BY <1>2, <1>4, WrittenEndsOn
<1>7. \A i \in TrimRegs \ {4, 5} : Applied(trim_hp_to_lp_post, mid)[i] = mid[i]
  BY <1>3, UnwrittenStays
<1>8. \A i \in TrimRegs : Applied(trim_hp_to_lp_post, mid)[i] = F[i]
  BY <1>5, <1>6, <1>7
<1>9. QED
  BY <1>8, SameTrims DEF F, mid, Modes

(***************************************************************************)
(* Each of the four tables, applied to register values, leaves such.       *)
(***************************************************************************)
LEMMA TableTyped ==
  ASSUME NEW n \in Nat, NEW seq, NEW regs \in [TrimRegs -> Nat],
         \A i \in TrimRegs :
            Spares(seq, n, i) \/ \E v \in Nat : EndsOn(seq, n, i, v)
  PROVE  Applied(seq, regs) \in [TrimRegs -> Nat]
<1>1. ASSUME NEW i \in TrimRegs PROVE Applied(seq, regs)[i] \in Nat
  <2>1. CASE Spares(seq, n, i)
    BY <2>1, UnwrittenStays
  <2>2. CASE \E v \in Nat : EndsOn(seq, n, i, v)
    BY <2>2, WrittenEndsOn
  <2>3. QED
    BY <2>1, <2>2
<1>2. QED
  BY <1>1 DEF Applied

LEMMA TrimsTyped ==
  ASSUME NEW regs \in [TrimRegs -> Nat]
  PROVE  /\ Applied(trim_hp_to_lp_pre, regs) \in [TrimRegs -> Nat]
         /\ Applied(trim_hp_to_lp_post, regs) \in [TrimRegs -> Nat]
         /\ Applied(trim_lp_to_hp_pre, regs) \in [TrimRegs -> Nat]
         /\ Applied(trim_lp_to_hp_post, regs) \in [TrimRegs -> Nat]
<1> USE DEF EndsOn, Spares, TrimRegs
<1>1. Applied(trim_hp_to_lp_pre, regs) \in [TrimRegs -> Nat]
  <2>1. \A i \in TrimRegs : \E v \in Nat : EndsOn(trim_hp_to_lp_pre, 23, i, v)
    BY DEF trim_hp_to_lp_pre
  <2>2. QED
    BY ONLY <2>1, TableTyped, regs \in [TrimRegs -> Nat]
<1>2. Applied(trim_hp_to_lp_post, regs) \in [TrimRegs -> Nat]
  <2>1. \A i \in TrimRegs : \/ Spares(trim_hp_to_lp_post, 2, i)
                            \/ \E v \in Nat : EndsOn(trim_hp_to_lp_post, 2, i, v)
    BY DEF trim_hp_to_lp_post
  <2>2. QED
    BY ONLY <2>1, TableTyped, regs \in [TrimRegs -> Nat]
<1>3. Applied(trim_lp_to_hp_pre, regs) \in [TrimRegs -> Nat]
  <2>1. \A i \in TrimRegs : \/ Spares(trim_lp_to_hp_pre, 12, i)
                            \/ \E v \in Nat : EndsOn(trim_lp_to_hp_pre, 12, i, v)
    BY DEF trim_lp_to_hp_pre
  <2>2. QED
    BY ONLY <2>1, TableTyped, regs \in [TrimRegs -> Nat]
<1>4. Applied(trim_lp_to_hp_post, regs) \in [TrimRegs -> Nat]
  <2>1. \A i \in TrimRegs : \E v \in Nat : EndsOn(trim_lp_to_hp_post, 15, i, v)
    BY DEF trim_lp_to_hp_post
  <2>2. QED
    BY ONLY <2>1, TableTyped, regs \in [TrimRegs -> Nat]
<1>5. QED
  BY <1>1, <1>2, <1>3, <1>4

-----------------------------------------------------------------------------
(***************************************************************************)
(* Every variable keeps its type, the SRAM trims included.                 *)
(***************************************************************************)
THEOREM SecureTypeCorrect == Spec => []TypeOK
<1> USE SecureAssumption DEF Modes
<1>1. Init => TypeOK
  BY DEF Init, TypeOK, PM_MODE_LP, PM_MODE_HP, PM_MODE_ULP
<1>2. TypeOK /\ [Next]_vars => TypeOK'
  <2> SUFFICES ASSUME TypeOK, [Next]_vars PROVE TypeOK'
    OBVIOUS
  <2> USE DEF TypeOK, supply, result, irq, pins
  <2>1. ASSUME NEW m \in Modes \cup {PM_MODE_ULP}, SwitchIdle(m) PROVE TypeOK'
    BY <2>1 DEF SwitchIdle
  <2>2. ASSUME NEW m \in Modes, SwitchBegin(m) PROVE TypeOK'
    BY <2>2 DEF SwitchBegin
  <2>3. CASE Mask
    BY <2>3 DEF Mask
  <2>4. CASE PreTrim
    BY <2>4, TrimsTyped DEF PreTrim
  <2>5. CASE PsaFails
    BY <2>5 DEF PsaFails
  <2>6. CASE LowerClock
    BY <2>6 DEF LowerClock
  <2>7. CASE SetProfile
    BY <2>7 DEF SetProfile
  <2>8. CASE StatusOk
    BY <2>8 DEF StatusOk
  <2>9. CASE StatusTimesOut
    BY <2>9 DEF StatusTimesOut
  <2>10. CASE PostTrim
    BY <2>10, TrimsTyped DEF PostTrim
  <2>11. CASE Restore
    BY <2>11 DEF Restore
  <2>12. CASE SwitchEnd
    BY <2>12 DEF SwitchEnd
  <2>13. CASE RailSettles
    BY <2>13 DEF RailSettles
  <2>14. CASE UNCHANGED vars
    BY <2>14 DEF vars
  <2>15. QED
    BY <2>1, <2>2, <2>3, <2>4, <2>5, <2>6, <2>7, <2>8,
       <2>9, <2>10, <2>11, <2>12, <2>13, <2>14
       DEF Next, SwitchStep
<1>3. QED
  BY <1>1, <1>2, PTL DEF Spec

(***************************************************************************)
(* Where the hardware is at each control point.  A transition's source is  *)
(* always the current mode; between calls clock, buck and trims are those  *)
(* of the mode if the last transition succeeded; in LP the divider is LP's *)
(* until a transition up has succeeded.                                    *)
(***************************************************************************)
Masked   == {"pre", "call", "buck", "status", "return", "restore"}
Returned == {"return", "restore", "end"}

SwitchInv ==
  /\ busy <=> pc # "idle"
  /\ pc # "idle" => target # mode
  /\ target = mode => Succeeded
  /\ primask <=> pc \in Masked
  /\ ~key
  /\ pc \in {"idle", "mask", "pre", "call"} /\ Succeeded => AtPoint(mode)
  /\ pc \in {"idle", "mask"} /\ Succeeded => Trimmed(mode)
  /\ pc \in {"call", "buck", "status", "return"} /\ target = PM_MODE_LP
     => \E regs \in [TrimRegs -> Nat] : trim = Applied(trim_hp_to_lp_pre, regs)
  /\ pc = "buck" => target = PM_MODE_LP
  /\ pc \in {"buck", "status"} /\ target = PM_MODE_LP => div = Hf0Divide[target]
  /\ pc = "status" => profile = target
  /\ pc \in Returned /\ Succeeded => AtPoint(target)
  /\ pc \in {"restore", "end"} /\ Succeeded => trim = FinalTrim[target]
  /\ mode = PM_MODE_LP /\ (pc \in Returned => ~Succeeded)
     => div = Hf0Divide[PM_MODE_LP]

LEMMA SwitchInvCorrect == Spec => []SwitchInv
<1> USE SecureAssumption
    DEF SwitchInv, AtPoint, Trimmed, Succeeded, Down, Masked, Returned, Modes,
        PM_MODE_ULP, PM_MODE_LP, PM_MODE_HP
<1>1. Init => SwitchInv
  BY DEF Init
<1>2. TypeOK /\ SwitchInv /\ [Next]_vars => SwitchInv'
  <2> SUFFICES ASSUME TypeOK, SwitchInv, [Next]_vars PROVE SwitchInv'
    OBVIOUS
  <2> USE DEF TypeOK, supply, result, irq, pins
  <2>1. ASSUME NEW m \in Modes \cup {PM_MODE_ULP}, SwitchIdle(m) PROVE SwitchInv'
    BY <2>1 DEF SwitchIdle
  <2>2. ASSUME NEW m \in Modes, SwitchBegin(m) PROVE SwitchInv'
    BY <2>2 DEF SwitchBegin
  <2>3. CASE Mask
    BY <2>3 DEF Mask
  <2>4. CASE PreTrim
    BY <2>4 DEF PreTrim
  <2>5. CASE PsaFails
    BY <2>5 DEF PsaFails
  <2>6. CASE LowerClock
    BY <2>6 DEF LowerClock
  <2>7. CASE SetProfile
    BY <2>7 DEF SetProfile
  <2>8. CASE StatusOk
    BY <2>8 DEF StatusOk
  <2>9. CASE StatusTimesOut
    BY <2>9 DEF StatusTimesOut
  <2>10. CASE PostTrim
    BY <2>10, HpTrimsFinal, LpTrimsFinal DEF PostTrim
  <2>11. CASE Restore
    BY <2>11 DEF Restore
  <2>12. CASE SwitchEnd
    BY <2>12 DEF SwitchEnd
  <2>13. CASE RailSettles
    BY <2>13 DEF RailSettles
  <2>14. CASE UNCHANGED vars
    BY <2>14 DEF vars
  <2>15. QED
    BY <2>1, <2>2, <2>3, <2>4, <2>5, <2>6, <2>7, <2>8,
       <2>9, <2>10, <2>11, <2>12, <2>13, <2>14
       DEF Next, SwitchStep
<1> HIDE DEF SwitchInv
<1>3. QED
  BY <1>1, <1>2, SecureTypeCorrect, PTL DEF Spec

(***************************************************************************)
(* With interrupts on, unless the last transition failed, clock, buck and  *)
(* trims are all those of one mode.                                        *)
(***************************************************************************)
THEOREM MaskAlwaysCovers == Spec => []MaskCoversTransition
<1>1. TypeOK /\ SwitchInv => MaskCoversTransition
  <2> SUFFICES ASSUME TypeOK, SwitchInv, ~primask, Succeeded
               PROVE  \E m \in Modes : AtPoint(m) /\ Trimmed(m)
    BY DEF MaskCoversTransition
  <2>1. mode \in Modes /\ target \in Modes
    BY DEF TypeOK
  <2>2. CASE pc \in {"idle", "mask"}
    BY <2>1, <2>2 DEF SwitchInv
  <2>3. CASE pc = "end"
    BY <2>1, <2>3 DEF SwitchInv, Returned, Trimmed
  <2>4. QED
    BY <2>2, <2>3 DEF TypeOK, SwitchInv, Masked
<1>2. QED
  BY <1>1, SecureTypeCorrect, SwitchInvCorrect, PTL

(***************************************************************************)
(* The core clock is within the limit of the voltage the rail delivers,    *)
(* unless the last transition was a failed one down.                       *)
(***************************************************************************)
THEOREM ClockAlwaysFitsRail == Spec => []ClockFitsRail
<1>1. TypeOK /\ SwitchInv => ClockFitsRail
  <2> SUFFICES ASSUME TypeOK, SwitchInv, Succeeded \/ target = PM_MODE_HP
               PROVE  DpllMHz \div div <= CeilingMHz[rail]
    BY DEF ClockFitsRail
  <2>1. div = Hf0Divide[PM_MODE_LP] \/ AtPoint(PM_MODE_HP)
    BY DEF TypeOK, SwitchInv, AtPoint, Returned, Modes, PM_MODE_LP, PM_MODE_HP
  <2>2. rail \in Modes /\ PM_MODE_LP \in Modes /\ PM_MODE_HP \in Modes
    BY DEF TypeOK, Modes
  <2>3. /\ DpllMHz \div Hf0Divide[PM_MODE_LP] \in Int
        /\ CeilingMHz[PM_MODE_LP] \in Nat /\ CeilingMHz[rail] \in Nat
        /\ CeilingMHz[PM_MODE_LP] <= CeilingMHz[rail]
    BY <2>2, SecureAssumption DEF Modes, PM_MODE_LP, PM_MODE_HP
  <2>4. CASE div = Hf0Divide[PM_MODE_LP]
    BY <2>2, <2>3, <2>4, SecureAssumption
  <2>5. CASE AtPoint(PM_MODE_HP)
    BY <2>2, <2>5, SecureAssumption DEF AtPoint
  <2>6. QED
    BY <2>1, <2>4, <2>5
<1>2. QED
  BY <1>1, SecureTypeCorrect, SwitchInvCorrect, PTL

(***************************************************************************)
(* A mode that pm_switch_to() reports has its voltage, its divider and     *)
(* every one of its SRAM trims, whatever transitions failed before.        *)
(***************************************************************************)
THEOREM CommitAlwaysComplete == Spec => CommitIsComplete
<1>1. SwitchInv /\ [Next]_vars
      => [mode' # mode => (AtPoint(mode) /\ trim = FinalTrim[mode])']_vars
  <2> SUFFICES ASSUME SwitchInv, Next, mode' # mode
               PROVE  (AtPoint(mode) /\ trim = FinalTrim[mode])'
    OBVIOUS
  <2>1. SwitchEnd
    BY DEF Next, SwitchStep, SwitchIdle, SwitchBegin, Mask, PreTrim, PsaFails,
           LowerClock, SetProfile, StatusOk, StatusTimesOut, PostTrim, Restore,
           RailSettles
  <2>2. pc = "end" /\ Succeeded /\ mode' = target
    BY <2>1 DEF SwitchEnd
  <2>3. AtPoint(target) /\ trim = FinalTrim[target]
    BY <2>2 DEF SwitchInv, Returned
  <2>4. QED
    BY <2>1, <2>2, <2>3 DEF SwitchEnd, AtPoint, supply
<1>2. QED
  BY <1>1, SwitchInvCorrect, PTL DEF Spec, CommitIsComplete

-----------------------------------------------------------------------------
(***************************************************************************)
(* Outside of a call, and after a call that failed, the divider is that of *)
(* the reported mode: every failure puts it back or has not touched it.    *)
(* The buck and the trims are not so faithful.                             *)
(***************************************************************************)
DividerInv ==
  /\ pc \in {"idle", "mask", "pre", "call"} => div = Hf0Divide[mode]
  /\ pc = "status" /\ target = PM_MODE_HP => div = Hf0Divide[mode]
  /\ pc \in Returned /\ ~Succeeded => div = Hf0Divide[mode]

LEMMA DividerCorrect == Spec => []DividerInv
<1> USE SecureAssumption
    DEF DividerInv, SwitchInv, AtPoint, Succeeded, Down, Returned, Modes,
        PM_MODE_ULP, PM_MODE_LP, PM_MODE_HP
<1>1. Init => DividerInv
  BY DEF Init
<1>2. TypeOK /\ SwitchInv /\ DividerInv /\ [Next]_vars => DividerInv'
  <2> SUFFICES ASSUME TypeOK, SwitchInv, DividerInv, [Next]_vars
               PROVE  DividerInv'
    OBVIOUS
  <2> USE DEF TypeOK, supply, result, irq, pins
  <2>1. ASSUME NEW m \in Modes \cup {PM_MODE_ULP}, SwitchIdle(m)
        PROVE  DividerInv'
    BY <2>1 DEF SwitchIdle
  <2>2. ASSUME NEW m \in Modes, SwitchBegin(m) PROVE DividerInv'
    BY <2>2 DEF SwitchBegin
  <2>3. CASE Mask
    BY <2>3 DEF Mask
  <2>4. CASE PreTrim
    BY <2>4 DEF PreTrim
  <2>5. CASE PsaFails
    BY <2>5 DEF PsaFails
  <2>6. CASE LowerClock
    BY <2>6 DEF LowerClock
  <2>7. CASE SetProfile
    BY <2>7 DEF SetProfile
  <2>8. CASE StatusOk
    BY <2>8 DEF StatusOk
  <2>9. CASE StatusTimesOut
    BY <2>9 DEF StatusTimesOut
  <2>10. CASE PostTrim
    BY <2>10 DEF PostTrim
  <2>11. CASE Restore
    BY <2>11 DEF Restore
  <2>12. CASE SwitchEnd
    BY <2>12 DEF SwitchEnd
  <2>13. CASE RailSettles
    BY <2>13 DEF RailSettles
  <2>14. CASE UNCHANGED vars
    BY <2>14 DEF vars
  <2>15. QED
    BY <2>1, <2>2, <2>3, <2>4, <2>5, <2>6, <2>7, <2>8,
       <2>9, <2>10, <2>11, <2>12, <2>13, <2>14
       DEF Next, SwitchStep
<1> HIDE DEF DividerInv, SwitchInv
<1>3. QED
  BY <1>1, <1>2, SecureTypeCorrect, SwitchInvCorrect, PTL DEF Spec

(***************************************************************************)
(* Dividers differ, so the only mode's point the SoC can be at between two *)
(* calls is the reported mode's.                                           *)
(***************************************************************************)
LEMMA PointIsOwn ==
  ASSUME TypeOK, DividerInv
  PROVE  PointBetweenCalls =
           IF pc = "idle" /\ AtPoint(mode) /\ Trimmed(mode) THEN mode ELSE NoMode
<1>1. mode \in Modes
  BY DEF TypeOK
<1>2. \A m, n \in Modes : Hf0Divide[m] = Hf0Divide[n] => m = n
  BY SecureAssumption DEF Modes
<1>3. pc = "idle" => \A m \in Modes : AtPoint(m) => m = mode
  BY <1>1, <1>2 DEF DividerInv, AtPoint
<1>4. QED
  BY <1>1, <1>3 DEF PointBetweenCalls

(***************************************************************************)
(* The split switch implements SwitchOutcome without a warning: a caller   *)
(* is never told of one mode at the operating point of another, and a call *)
(* that returned 0 has got there, its trims included.  SwitchEnd with a    *)
(* success is the Switch, every other step lingers.                        *)
(***************************************************************************)
THEOREM SecureOutcomeAlwaysKnown == Spec => OutcomeIsKnown
<1> DEFINE seen == <<mode, PointBetweenCalls, FALSE>>
           Own  == IF pc = "idle" /\ AtPoint(mode) /\ Trimmed(mode)
                   THEN mode ELSE NoMode
<1>1. Init => Outcome!Init
  <2> SUFFICES ASSUME Init PROVE Outcome!Init
    OBVIOUS
  <2>1. AtPoint(PM_MODE_HP) /\ Trimmed(PM_MODE_HP) /\ PM_MODE_HP \in Modes
    BY DEF Init, AtPoint, Trimmed, Modes
  <2>2. \A m \in Modes : AtPoint(m) => m = PM_MODE_HP
    BY <2>1 DEF AtPoint
  <2>3. PointBetweenCalls = PM_MODE_HP
    BY <2>1, <2>2 DEF PointBetweenCalls, Init
  <2>4. QED
    BY <2>3 DEF Init, Outcome!Init
<1>2. /\ TypeOK /\ TypeOK' /\ SwitchInv /\ DividerInv /\ DividerInv'
      /\ [Next]_vars
      => [Outcome!Next]_seen
  <2> SUFFICES ASSUME TypeOK, TypeOK', SwitchInv, DividerInv, DividerInv',
                      [Next]_vars
               PROVE  [Outcome!Next]_seen
    OBVIOUS
  <2>1. PointBetweenCalls' = Own'
    <3>1. (TypeOK /\ DividerInv => PointBetweenCalls = Own)'
      BY PointIsOwn, PTL
    <3>2. QED
      BY <3>1
  <2>2. CASE mode' = mode
    <3>1. Own' \in {mode, NoMode}
      BY <2>2
    <3>2. QED
      BY <2>1, <2>2, <3>1 DEF Outcome!Next, Outcome!Linger
  <2>3. CASE mode' # mode
    <3>1. SwitchEnd
      BY <2>3 DEF Next, SwitchStep, SwitchIdle, SwitchBegin, Mask, PreTrim,
             PsaFails, LowerClock, SetProfile, StatusOk, StatusTimesOut,
             PostTrim, Restore, RailSettles, vars
    <3>2. pc = "end" /\ Succeeded /\ mode' = target /\ pc' = "idle"
      BY <2>3, <3>1 DEF SwitchEnd
    <3>3. AtPoint(target) /\ trim = FinalTrim[target]
      BY <3>2 DEF SwitchInv, Returned
    <3>4. AtPoint(mode)' /\ Trimmed(mode)'
      BY <3>1, <3>2, <3>3 DEF SwitchEnd, AtPoint, Trimmed, supply
    <3>5. Own' = mode' /\ mode' \in Modes
      BY <3>2, <3>4 DEF TypeOK
    <3>6. QED
      BY <2>1, <3>5 DEF Outcome!Next, Outcome!Switch
  <2>4. QED
    BY <2>2, <2>3
<1>3. QED
  BY <1>1, <1>2, SecureTypeCorrect, SwitchInvCorrect, DividerCorrect, PTL
     DEF Spec, OutcomeIsKnown, Outcome!Spec

-----------------------------------------------------------------------------
(***************************************************************************)
(* Interrupts are never left masked: PRIMASK is up only between            *)
(* pm_irq_disable() and pm_irq_restore(), and there every step leads       *)
(* forward.  The buck settles once for each profile it is given.           *)
(***************************************************************************)
THEOREM MaskAlwaysBounded == Spec => MaskIsBounded
<1> DEFINE Nearer == primask => Distance' \in 0..(Distance - 1)
<1>1. SwitchInv /\ [Next]_vars => [Nearer]_vars
  <2> SUFFICES ASSUME SwitchInv, Next, primask
               PROVE  Distance' \in 0..(Distance - 1)
    OBVIOUS
  <2>1. pc \in {"pre", "call", "buck", "status", "return", "restore"}
    BY DEF SwitchInv, Masked
  <2> USE DEF Distance, StepsLeft, supply
  <2>2. CASE RailSettles
    BY <2>1, <2>2 DEF RailSettles
  <2>3. CASE PreTrim
    BY <2>3 DEF PreTrim
  <2>4. CASE PsaFails
    BY <2>4 DEF PsaFails
  <2>5. CASE LowerClock
    BY <2>5 DEF LowerClock
  <2>6. CASE SetProfile
    BY <2>6 DEF SetProfile
  <2>7. CASE StatusOk \/ StatusTimesOut
    BY <2>7 DEF StatusOk, StatusTimesOut
  <2>8. CASE PostTrim
    BY <2>8 DEF PostTrim
  <2>9. CASE Restore
    BY <2>9 DEF Restore
  <2>10. ~Mask /\ ~SwitchEnd
    BY <2>1 DEF Mask, SwitchEnd
  <2>11. ASSUME NEW m PROVE ~SwitchIdle(m) /\ ~SwitchBegin(m)
    BY <2>1 DEF SwitchIdle, SwitchBegin
  <2> QED
    BY <2>2, <2>3, <2>4, <2>5, <2>6, <2>7, <2>8, <2>9, <2>10, <2>11
       DEF Next, SwitchStep
<1> QED
  BY <1>1, SwitchInvCorrect, PTL DEF Spec, MaskIsBounded

=============================================================================
