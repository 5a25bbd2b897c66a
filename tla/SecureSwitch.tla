---------------------------- MODULE SecureSwitch ----------------------------
(***************************************************************************)
(* The HP / LP switch of app 07, split between the worlds: the non-secure  *)
(* power_manager.c masks interrupts and writes the SRAM trims, the secure  *)
(* partition z_pm, reached by psa_call(), moves the CLK_HF0 divider and    *)
(* the core buck.  ULP is refused.                                         *)
(*                                                                         *)
(* The buck is the hardware's: it delivers a new profile some time after   *)
(* Cy_SysPm_CoreBuckSetProfile(), and Cy_SysPm_CoreBuckStatus() polls for  *)
(* that until it is there or the poll gives up.  A psa_call() that fails   *)
(* is taken not to have reached the handler.                               *)
(***************************************************************************)
EXTENDS Naturals, Sequences

CONSTANTS
  DpllMHz,      \* DPLL_LP0 as the secure ROM leaves it
  Hf0Divide,    \* hf0_div_for_mode()
  CeilingMHz,   \* CM33 limit of each mode
  BootTrim,     \* SRSS_TRIM_RAM_CTL as the boot leaves it
  MayFail       \* may psa_call() fail and the buck be late

PM_MODE_ULP == 0
PM_MODE_LP  == 1
PM_MODE_HP  == 2
Modes       == {PM_MODE_LP, PM_MODE_HP}

TrimRegs == 0 .. 8

ASSUME SecureAssumption ==
  /\ DpllMHz \in Nat
  /\ Hf0Divide \in [Modes -> Nat \ {0}]
  /\ CeilingMHz \in [Modes -> Nat]
  /\ CeilingMHz[PM_MODE_LP] <= CeilingMHz[PM_MODE_HP]
  /\ \A m \in Modes : DpllMHz \div Hf0Divide[m] <= CeilingMHz[m]
  /\ Hf0Divide[PM_MODE_LP] # Hf0Divide[PM_MODE_HP]
  /\ BootTrim \in [TrimRegs -> Nat]
  /\ MayFail \in BOOLEAN

VARIABLES
  mode,      \* s_current_mode
  pc,        \* where the shell thread is, the partition included
  target,    \* the argument of the running or last transition
  psa_rc,    \* what the last psa_call() returned ...
  s_rc,      \* ... and the status its outvec carried
  primask,   \* PRIMASK of the non-secure CM33
  key,       \* its value before pm_irq_disable()
  trim,      \* SRSS_TRIM_RAM_CTL
  profile,   \* core-buck profile commanded
  rail,      \* mode whose voltage the buck delivers
  div,       \* CLK_HF0 divider
  leds,      \* mode the LEDs show
  busy       \* the pm-busy pin

supply == <<profile, rail>>
result == <<psa_rc, s_rc>>
irq    == <<primask, key>>
pins   == <<leds, busy>>
vars   == <<mode, pc, target, result, irq, trim, supply, div, pins>>

-----------------------------------------------------------------------------
(***************************************************************************)
(* The trim tables: writes <<index, value>>, applied in order.             *)
(***************************************************************************)
trim_hp_to_lp_pre == <<
  <<0, \h343>>, <<1, \h343>>, <<2, \h206>>, <<3, \h206>>, <<4, \h20F>>,
  <<5, \h20F>>, <<6, \h3F>>,  <<7, \h3F>>,  <<8, \hB>>,   <<2, \h204>>,
  <<3, \h204>>, <<4, \h20C>>, <<5, \h20C>>, <<6, \h2D>>,  <<7, \h2D>>,
  <<4, \h204>>, <<5, \h204>>, <<0, \h743>>, <<1, \h743>>, <<2, \h604>>,
  <<3, \h604>>, <<6, \h22D>>, <<7, \h22D>> >>

trim_hp_to_lp_post == << <<4, \h604>>, <<5, \h604>> >>

trim_lp_to_hp_pre == <<
  <<2, \h606>>, <<3, \h606>>, <<4, \h606>>, <<5, \h606>>, <<6, \h23F>>,
  <<7, \h23F>>, <<4, \h607>>, <<5, \h607>>, <<4, \h60F>>, <<5, \h60F>>,
  <<4, \h20F>>, <<5, \h20F>> >>

\* Mutant: the port of steps 7 and 8 misses the one write to register 8.
LpToHpPostPorted == <<
  <<0, \h343>>, <<1, \h343>>, <<2, \h206>>, <<3, \h206>>, <<6, \h3F>>,
  <<7, \h3F>>,  <<0, \h342>>, <<1, \h342>>, <<2, \h202>>, <<3, \h202>>,
  <<4, \h20B>>, <<5, \h20B>>, <<6, \h1B>>,  <<7, \h1B>> >>

trim_lp_to_hp_post == <<
  <<0, \h343>>, <<1, \h343>>, <<2, \h206>>, <<3, \h206>>, <<6, \h3F>>,
  <<7, \h3F>>,  <<8, \hA>>,   <<0, \h342>>, <<1, \h342>>, <<2, \h202>>,
  <<3, \h202>>, <<4, \h20B>>, <<5, \h20B>>, <<6, \h1B>>,  <<7, \h1B>> >>

\* apply_trim_seq(): of several writes to a register the last one stays.
Applied(seq, regs) ==
  [i \in TrimRegs |->
    LET Writes == {k \in DOMAIN seq : seq[k][1] = i}
    IN  IF Writes = {} THEN regs[i]
        ELSE seq[CHOOSE k \in Writes : \A j \in Writes : j <= k][2]]

\* Mutant: z_pm compares source and target the wrong way round.
DownSwapped == mode < target

\* z_pm takes trans_down() if in.target < in.source; the source is the mode.
Down == target < mode

\* Mutant: only the status in the outvec is looked at.
SucceededByStatus == s_rc = "ok"

Succeeded == psa_rc = "success" /\ s_rc = "ok"

Init ==
  /\ mode = PM_MODE_HP /\ pc = "idle" /\ target = PM_MODE_HP
  /\ psa_rc = "success" /\ s_rc = "ok"
  /\ primask = FALSE /\ key = FALSE
  /\ trim = BootTrim
  /\ profile = PM_MODE_HP /\ rail = PM_MODE_HP
  /\ div = Hf0Divide[PM_MODE_HP]
  /\ leds = PM_MODE_HP /\ busy = FALSE

-----------------------------------------------------------------------------
(***************************************************************************)
(* `ulp` is refused with -ENOTSUP and the current mode is a no-op, both    *)
(* after the LEDs have been driven.                                        *)
(***************************************************************************)
SwitchIdle(m) ==
  /\ pc = "idle" /\ m \in {PM_MODE_ULP, mode}
  /\ leds' = m
  /\ UNCHANGED <<mode, pc, target, result, irq, trim, supply, div, busy>>

SwitchBegin(m) ==
  /\ pc = "idle" /\ m # mode
  /\ leds' = m
  /\ busy' = TRUE
  /\ target' = m
  /\ pc' = "mask"
  /\ UNCHANGED <<mode, result, irq, trim, supply, div>>

\* Mutant: PRIMASK is read but not set.
MaskReadsOnly ==
  /\ pc = "mask"
  /\ key' = primask
  /\ pc' = "pre"
  /\ UNCHANGED <<mode, target, result, primask, trim, supply, div, pins>>

\* pm_irq_disable()
Mask ==
  /\ pc = "mask"
  /\ key' = primask /\ primask' = TRUE
  /\ pc' = "pre"
  /\ UNCHANGED <<mode, target, result, trim, supply, div, pins>>

PreTrim ==
  /\ pc = "pre"
  /\ trim' = Applied(IF target = PM_MODE_LP THEN trim_hp_to_lp_pre
                                            ELSE trim_lp_to_hp_pre, trim)
  /\ pc' = "call"
  /\ UNCHANGED <<mode, target, result, irq, supply, div, pins>>

(***************************************************************************)
(* psa_call() fails: out.status keeps its initial 0.                       *)
(***************************************************************************)
PsaFails ==
  /\ MayFail
  /\ pc = "call"
  /\ psa_rc' = "error" /\ s_rc' = "ok"
  /\ pc' = "return"
  /\ UNCHANGED <<mode, target, irq, trim, supply, div, pins>>

\* trans_down() sets the divider first.
LowerClock ==
  /\ pc = "call" /\ Down
  /\ div' = Hf0Divide[target]
  /\ pc' = "buck"
  /\ UNCHANGED <<mode, target, result, irq, trim, supply, pins>>

\* Cy_SysPm_CoreBuckSetProfile() in core_buck_only_enter()
SetProfile ==
  /\ \/ pc = "call" /\ ~Down
     \/ pc = "buck"
  /\ profile' = target
  /\ pc' = "status"
  /\ UNCHANGED <<mode, target, result, irq, trim, rail, div, pins>>

\* The rail arrives at the commanded profile.
RailSettles ==
  /\ rail # profile
  /\ rail' = profile
  /\ UNCHANGED <<mode, pc, target, result, irq, trim, profile, div, pins>>

(***************************************************************************)
(* Cy_SysPm_CoreBuckStatus() finds the profile delivered.  trans_down() is *)
(* done; trans_up() sets the divider now.                                  *)
(***************************************************************************)
StatusOk ==
  /\ pc = "status" /\ rail = profile
  /\ div' = IF Down THEN div ELSE Hf0Divide[target]
  /\ psa_rc' = "success" /\ s_rc' = "ok"
  /\ pc' = "return"
  /\ UNCHANGED <<mode, target, irq, trim, supply, pins>>

(***************************************************************************)
(* The poll gives up.  trans_down() puts the divider of the source mode    *)
(* back; the profile stays written in both directions.                     *)
(***************************************************************************)
StatusTimesOut ==
  /\ MayFail
  /\ pc = "status" /\ rail # profile
  /\ div' = IF Down THEN Hf0Divide[mode] ELSE div
  /\ psa_rc' = "success" /\ s_rc' = "EIO"
  /\ pc' = "return"
  /\ UNCHANGED <<mode, target, irq, trim, supply, pins>>

\* Back in step_transition(): post-trim only after a success.
PostTrim ==
  /\ pc = "return"
  /\ trim' = IF Succeeded
             THEN Applied(IF target = PM_MODE_LP THEN trim_hp_to_lp_post
                                                 ELSE trim_lp_to_hp_post, trim)
             ELSE trim
  /\ pc' = "restore"
  /\ UNCHANGED <<mode, target, result, irq, supply, div, pins>>

\* pm_irq_restore()
Restore ==
  /\ pc = "restore"
  /\ primask' = key
  /\ pc' = "end"
  /\ UNCHANGED <<mode, target, result, key, trim, supply, div, pins>>

\* pm_switch_to(): the pin falls; s_current_mode follows a success only.
SwitchEnd ==
  /\ pc = "end"
  /\ busy' = FALSE
  /\ mode' = IF Succeeded THEN target ELSE mode
  /\ pc' = "idle"
  /\ UNCHANGED <<target, result, irq, trim, supply, div, leds>>

SwitchStep ==
  \/ Mask
  \/ PreTrim
  \/ PsaFails
  \/ LowerClock
  \/ SetProfile
  \/ StatusOk
  \/ StatusTimesOut
  \/ PostTrim
  \/ Restore
  \/ SwitchEnd

Next ==
  \/ \E m \in Modes \cup {PM_MODE_ULP} : SwitchIdle(m)
  \/ \E m \in Modes : SwitchBegin(m)
  \/ SwitchStep
  \/ RailSettles

(***************************************************************************)
(* The shell thread and the partition run on; the buck settles in its own  *)
(* time; commands are the user's business.                                 *)
(***************************************************************************)
Spec == Init /\ [][Next]_vars /\ WF_vars(SwitchStep) /\ WF_vars(RailSettles)

-----------------------------------------------------------------------------
TypeOK ==
  /\ {mode, target, profile, rail} \subseteq Modes
  /\ leds \in Modes \cup {PM_MODE_ULP}
  /\ pc \in {"idle", "mask", "pre", "call", "buck", "status", "return",
             "restore", "end"}
  /\ psa_rc \in {"success", "error"} /\ s_rc \in {"ok", "EIO"}
  /\ {primask, key, busy} \subseteq BOOLEAN
  /\ trim \in [TrimRegs -> Nat]
  /\ div \in {Hf0Divide[m] : m \in Modes}

(***************************************************************************)
(* The trims the ported PDL sequences end on.                              *)
(***************************************************************************)
FinalTrim == [m \in Modes |-> [i \in TrimRegs |->
  IF m = PM_MODE_LP
  THEN CASE i \in 0..1 -> \h743 [] i \in 2..5 -> \h604
         [] i \in 6..7 -> \h22D [] i = 8 -> \hB
  ELSE CASE i \in 0..1 -> \h342 [] i \in 2..3 -> \h202
         [] i \in 4..5 -> \h20B [] i \in 6..7 -> \h1B [] i = 8 -> \hA]]

AtPoint(m) == profile = m /\ rail = m /\ div = Hf0Divide[m]

Trimmed(m) == \/ trim = FinalTrim[m]
              \/ m = PM_MODE_HP /\ trim = BootTrim

(***************************************************************************)
(* Whatever transitions failed before, a mode that pm_switch_to() reports  *)
(* has its voltage, its divider and every one of its SRAM trims.           *)
(***************************************************************************)
CommitIsComplete ==
  [][ mode' # mode => (AtPoint(mode) /\ trim = FinalTrim[mode])' ]_vars

NoMode == 3     \* no pm_mode_t: between two operating points

PointBetweenCalls ==
  IF pc = "idle" /\ (\E m \in Modes : AtPoint(m) /\ Trimmed(m))
  THEN CHOOSE m \in Modes : AtPoint(m) /\ Trimmed(m) ELSE NoMode

(***************************************************************************)
(* Whatever failed before and however late the buck settles, the SoC is    *)
(* never at the operating point of a mode that pm_switch_to() does not     *)
(* report, and is at the reported one's whenever a call returned 0.        *)
(***************************************************************************)
Outcome == INSTANCE SwitchOutcome WITH
  BootMode <- PM_MODE_HP, Nowhere <- NoMode, reported <- mode,
  point <- PointBetweenCalls, warned <- FALSE

OutcomeIsKnown == Outcome!Spec

(***************************************************************************)
(* The mask covers the transition: with interrupts on, unless the last     *)
(* transition failed, clock, buck and trims are all those of one mode.     *)
(***************************************************************************)
MaskCoversTransition ==
  ~primask /\ Succeeded => \E m \in Modes : AtPoint(m) /\ Trimmed(m)

(***************************************************************************)
(* Direction rule: the core clock is within the limit of the voltage the   *)
(* rail delivers, unless the last transition was a failed one down.        *)
(***************************************************************************)
ClockFitsRail ==
  Succeeded \/ target = PM_MODE_HP => DpllMHz \div div <= CeilingMHz[rail]

(***************************************************************************)
(* step_transition() masks interrupts across psa_call() and the buck's     *)
(* poll: every step taken meanwhile, the buck's own included, brings       *)
(* pm_irq_restore() nearer, so that they are back after 15 of them,        *)
(* whichever of the calls fails.                                           *)
(***************************************************************************)
StepsLeft ==
  CASE pc = "pre"    -> 7 [] pc = "call"   -> 6 [] pc = "buck"    -> 5
    [] pc = "status" -> 4 [] pc = "return" -> 3 [] pc = "restore" -> 2
    [] OTHER         -> 1

Distance == 2 * StepsLeft + (IF rail = profile THEN 0 ELSE 1)

MaskIsBounded == [][ primask => Distance' \in 0..(Distance - 1) ]_vars

=============================================================================
