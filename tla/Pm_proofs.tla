------------------------------ MODULE Pm_proofs ------------------------------
(***************************************************************************)
(* Two ways to save power.  What the power-management hooks of app 02      *)
(* (IdlePm) guarantee for every choice of the pause between two blinks:    *)
(* the M33 never sleeps through its wake-up, and the M55 stays down.  What *)
(* the PMU driver and app 05 (PmuDemo) guarantee for every set of          *)
(* devicetree nodes, every size of the P-state table and any number of     *)
(* transitions the engine gives up.                                        *)
(***************************************************************************)
EXTENDS IdlePm, PmuDemo, TLAPS

(***************************************************************************)
(* Type correctness of the hooks, the partition, the tick and the M55.     *)
(***************************************************************************)
THEOREM IdleTypeCorrect == Spec => []TypeOK
<1>1. ASSUME Init PROVE TypeOK
  <2>1. /\ {left, state} \subseteq 0..3
        /\ leds \subseteq {"red", "green", "blue"}
    BY <1>1 DEF Init
  <2>2. {counting, clock, armed, pendTick, pendOther, basepri, primask, bias,
         tick55, pend55, primask55} \subseteq BOOLEAN
    BY <1>1 DEF Init
  <2> QED
    BY <1>1, <2>1, <2>2 DEF Init, TypeOK
<1>2. TypeOK /\ [Next]_vars => TypeOK'
  <2> SUFFICES ASSUME TypeOK, [Next]_vars PROVE TypeOK'
    OBVIOUS
  <2> USE DEF TypeOK, power, m55vars, irqs, masks, deadline, bootVars
  <2>1. CASE Boot
    BY <2>1 DEF Boot, PreemptMcwdt, LptimerInit, PsaAtBoot, BootUnchanged
  <2>2. CASE ActiveOn
    BY <2>2 DEF ActiveOn, BlinkUnchanged
  <2>3. CASE Msleep
    BY <2>3, IdleAssumption DEF Msleep, BlinkUnchanged
  <2>4. CASE Serve
    BY <2>4 DEF Serve
  <2>5. CASE IdleThread
    <3> USE DEF IdleStep
    <3>1. CASE IrqLock
      BY <3>1 DEF IrqLock
    <3>2. CASE PolicyPicks
      BY <3>2 DEF PolicyPicks
    <3>3. CASE Dispatch
      BY <3>3 DEF Dispatch, Colour
    <3>4. CASE SetDeepSleepMode \/ SetBias
      BY <3>4 DEF SetDeepSleepMode, SetBias
    <3>5. CASE Prologue
      BY <3>5 DEF Prologue
    <3>6. CASE Wfi \/ Wakes
      BY <3>6 DEF Wfi, Wakes
    <3>7. CASE LedsOff
      BY <3>7 DEF LedsOff, Colour
    <3>8. CASE ExitPostOps
      BY <3>8 DEF ExitPostOps
    <3>9. CASE Resume
      BY <3>9 DEF Resume
    <3>10. CASE PlainIdle
      BY <3>10 DEF PlainIdle
    <3> QED
      BY <2>5, <3>1, <3>2, <3>3, <3>4, <3>5, <3>6, <3>7, <3>8, <3>9, <3>10
         DEF IdleThread
  <2>6. CASE TimePasses
    BY <2>6 DEF TimePasses
  <2>7. CASE TickFires \/ OtherFires
    BY <2>7 DEF TickFires, OtherFires
  <2>8. CASE M55
    <3>1. CASE ArmM55
      BY <3>1 DEF ArmM55, M33Unchanged
    <3>2. CASE Quiesce
      <4>1. /\ m55' \in {"mask", "wfi"} /\ pend55' = pend55
            /\ tick55' \in BOOLEAN /\ primask55' \in BOOLEAN
        BY <3>2 DEF Quiesce
      <4>2. M33Unchanged
        BY <3>2 DEF Quiesce
      <4> QED
        BY <4>1, <4>2 DEF M33Unchanged
    <3>3. CASE Park
      BY <3>3 DEF Park, M33Unchanged
    <3> QED
      BY <2>8, <3>1, <3>2, <3>3 DEF M55
  <2>9. CASE SysTick55
    <3>1. pend55' \in BOOLEAN
      BY <2>9 DEF SysTick55
    <3> QED
      BY <2>9, <3>1 DEF SysTick55, M33Unchanged
  <2>10. CASE UNCHANGED vars
    BY <2>10 DEF vars
  <2> QED
    BY <2>1, <2>2, <2>3, <2>4, <2>5, <2>6, <2>7, <2>8, <2>9, <2>10
       DEF Next, Cpu
<1> QED
  BY <1>1, <1>2, PTL DEF Spec

(***************************************************************************)
(* Why a sleeping core wakes, in three parts.  TickInv: the clock that     *)
(* lptimer_init set up after the watchdog's counters were stopped has a    *)
(* deadline or its interrupt for a blink that sleeps.                      *)
(***************************************************************************)
TickInv ==
  /\ boot = "lptimer" => ~counting
  /\ boot \in {"layer_b", "ping", "main"} => clock
  /\ boot # "main" => blinky = "active" /\ "green" \notin leds
  /\ armed \/ pendTick <=> blinky = "sleeping"
  /\ ~(armed /\ pendTick)

(***************************************************************************)
(* MaskInv: from the idle thread's lock to the end of the exit hook some   *)
(* mask is up, so that no interrupt is served in between.                  *)
(***************************************************************************)
MaskInv ==
  /\ idle \in {"suspend", "enter", "psa", "bias", "mask", "unlock", "plain"}
       => basepri
  /\ idle \in {"unlock", "wfi", "asleep", "leave", "post"} => primask
  /\ idle = "enter" => state \in Handled

(***************************************************************************)
(* And all the while the blink waits for its deadline.                     *)
(***************************************************************************)
WaitInv == idle \notin {"loop", "resume"} => blinky = "sleeping"

IInv == TickInv /\ MaskInv /\ WaitInv

(***************************************************************************)
(* The three are inductive together: Serve is what TickInv and WaitInv     *)
(* need MaskInv for.                                                       *)
(***************************************************************************)
LEMMA WakeCorrect == Spec => []IInv
<1> USE DEF IInv, TickInv, MaskInv, WaitInv
<1>1. Init => IInv
  BY DEF Init
<1>2. TypeOK /\ IInv /\ [Next]_vars => IInv'
  <2> SUFFICES ASSUME TypeOK, IInv, [Next]_vars PROVE IInv'
    OBVIOUS
  <2> USE DEF TypeOK, power, m55vars, irqs, masks, deadline, bootVars
  <2>1. CASE Boot
    <3>1. CASE PreemptMcwdt
      BY <3>1 DEF PreemptMcwdt, BootUnchanged
    <3>2. CASE LptimerInit
      BY <3>2 DEF LptimerInit, BootUnchanged
    <3>3. CASE PsaAtBoot
      BY <3>3 DEF PsaAtBoot, BootUnchanged
    <3> QED
      BY <2>1, <3>1, <3>2, <3>3 DEF Boot
  <2>2. CASE ActiveOn
    BY <2>2 DEF ActiveOn, BlinkUnchanged
  <2>3. CASE Msleep
    BY <2>3 DEF Msleep, BlinkUnchanged
  <2>4. CASE Serve
    BY <2>4 DEF Serve, Asleep
  <2>5. CASE IdleThread
    <3> USE DEF IdleStep
    <3>1. CASE IrqLock
      BY <3>1 DEF IrqLock
    <3>2. CASE PolicyPicks
      BY <3>2, IdleAssumption DEF PolicyPicks
    <3>3. CASE Dispatch
      BY <3>3 DEF Dispatch, Colour
    <3>4. CASE SetDeepSleepMode \/ SetBias
      BY <3>4 DEF SetDeepSleepMode, SetBias
    <3>5. CASE Prologue
      BY <3>5 DEF Prologue
    <3>6. CASE Wfi \/ Wakes
      BY <3>6 DEF Wfi, Wakes
    <3>7. CASE LedsOff
      BY <3>7 DEF LedsOff, Colour
    <3>8. CASE ExitPostOps
      BY <3>8 DEF ExitPostOps
    <3>9. CASE Resume
      BY <3>9 DEF Resume
    <3>10. CASE PlainIdle
      BY <3>10 DEF PlainIdle
    <3> QED
      BY <2>5, <3>1, <3>2, <3>3, <3>4, <3>5, <3>6, <3>7, <3>8, <3>9, <3>10
         DEF IdleThread
  <2>6. CASE TimePasses
    BY <2>6 DEF TimePasses
  <2>7. CASE TickFires \/ OtherFires
    BY <2>7 DEF TickFires, OtherFires
  <2>8. CASE M55 \/ SysTick55
    BY <2>8 DEF M55, ArmM55, Quiesce, Park, SysTick55, M33Unchanged
  <2>9. CASE UNCHANGED vars
    BY <2>9 DEF vars
  <2> QED
    BY <2>1, <2>2, <2>3, <2>4, <2>5, <2>6, <2>7, <2>8, <2>9 DEF Next, Cpu
<1> HIDE DEF IInv
<1> QED
  BY <1>1, <1>2, IdleTypeCorrect, PTL DEF Spec

(***************************************************************************)
(* pm_irq_prologue and ns_preempt_mcwdt0_disable: a core in WFI has its    *)
(* wake-up ahead or pending, and the blink is not ready while it sleeps.   *)
(***************************************************************************)
THEOREM SleepAlwaysHasWake == Spec => []SleepHasWake
<1>1. IInv => SleepHasWake
  BY DEF IInv, TickInv, WaitInv, SleepHasWake, Asleep, Pending
<1> QED
  BY <1>1, WakeCorrect, PTL

(***************************************************************************)
(* zephyr_quiesce_for_deepsleep() of the M55: SysTick is stopped before    *)
(* PRIMASK goes up, and PRIMASK goes up with nothing pending, so that no   *)
(* WFI falls through and nothing wakes the core.                           *)
(***************************************************************************)
QuietInv == m55 = "mask" => ~tick55

THEOREM M55AlwaysStaysDown == Spec => []M55StaysDown
<1> USE DEF QuietInv, M55StaysDown
<1>1. Init => QuietInv /\ M55StaysDown
  BY DEF Init
<1>2. TypeOK /\ QuietInv /\ M55StaysDown /\ [Next]_vars
      => QuietInv' /\ M55StaysDown'
  <2> SUFFICES ASSUME TypeOK, QuietInv, M55StaysDown, [Next]_vars
               PROVE  QuietInv' /\ M55StaysDown'
    OBVIOUS
  <2>1. CASE ArmM55
    BY <2>1 DEF ArmM55
  <2>2. CASE Quiesce
    BY <2>2 DEF Quiesce
  <2>3. CASE Park
    BY <2>3 DEF Park
  <2>4. CASE SysTick55
    BY <2>4 DEF SysTick55
  <2>5. CASE UNCHANGED m55vars
    BY <2>5 DEF m55vars
  <2>6. M55 \/ SysTick55 \/ UNCHANGED m55vars
    BY DEF Next, Cpu, Boot, PreemptMcwdt, LptimerInit, PsaAtBoot,
           BootUnchanged, ActiveOn, Msleep, BlinkUnchanged, Serve, IdleThread,
           IdleStep, IrqLock, PolicyPicks, Dispatch, SetDeepSleepMode,
           SetBias, Prologue, Wfi, Wakes, LedsOff, ExitPostOps, Resume, PlainIdle,
           TimePasses, TickFires, OtherFires, vars
  <2> QED
    BY <2>1, <2>2, <2>3, <2>4, <2>5, <2>6 DEF M55
<1> QED
  BY <1>1, <1>2, IdleTypeCorrect, PTL DEF Spec

-----------------------------------------------------------------------------
(***************************************************************************)
(* Type correctness of the PMU, its engine and app 05.                     *)
(***************************************************************************)
LEMMA DemoTypes ==
  /\ MaxPstates \in Nat \ {0}
  /\ 0 \in Pstates
  /\ \A p \in Pstates : Level(p) \in Levels /\ Level(p) # 0
  /\ \A i \in 1..Len(Script) : Script[i] \in Pstates
  /\ Len(Script) \in Nat
  /\ \A d \in DtConfigs : d.num \in 1..MaxPstates /\ d.len \in Nat
                         /\ d.enable \in BOOLEAN /\ d.init \in Nat
BY PmuAssumption, DemoAssumption DEF Pstates, Levels, Level

\* A switch under way is one of the script: its place has a target.
Waiting == {"poll", "status", "volt", "freq"}
PlaceInv == pc \in Waiting \cup {"clear"} => at \in 1..Len(Script)

LEMMA DemoTyped == DemoSpec => [](DemoTypeOK /\ PlaceInv)
<1> USE DemoTypes
<1>1. DemoInit => DemoTypeOK /\ PlaceInv
  <2> SUFFICES ASSUME DemoInit PROVE DemoTypeOK /\ PlaceInv
    OBVIOUS
  <2>1. table \in [Pstates -> Levels]
    BY DEF DemoInit, PmuPowerOn, Unprogrammed, Levels
  <2>2. seen \in [p : Pstates, mv : Levels, mhz : Levels]
    BY DEF DemoInit, Levels
  <2>3. 0 \in 0..MaxFaults /\ 1 \in 1..(Len(Script) + 1)
    BY DemoAssumption
  <2>4. /\ dt \in DtConfigs /\ num \in 1..MaxPstates
        /\ req \in Pstates /\ goal \in Pstates /\ curr \in Pstates
        /\ volt \in Levels /\ freq \in Levels
    BY DEF DemoInit, PmuPowerOn, Levels
  <2>5. /\ {en, pending, error, expired, missed} \subseteq BOOLEAN
        /\ modesel = "register" /\ phase = "idle" /\ pc = "init"
        /\ result = "ok" /\ at = 1 /\ faults = 0
    BY DEF DemoInit, PmuPowerOn
  <2> QED
    BY <2>1, <2>2, <2>3, <2>4, <2>5
       DEF DemoTypeOK, PlaceInv, Waiting, Phases
<1>2. DemoTypeOK /\ PlaceInv /\ [DemoNext]_demoVars
        => DemoTypeOK' /\ PlaceInv'
  <2> SUFFICES ASSUME DemoTypeOK, PlaceInv, [DemoNext]_demoVars
               PROVE  DemoTypeOK' /\ PlaceInv'
    OBVIOUS
  <2> USE DEF DemoTypeOK, PlaceInv, Waiting,
              pmuVars, mainVars, ctrl, outputs, status, Phases
  <2>1. CASE DeviceInit
    <3>1. dt.num \in 1..MaxPstates /\ dt.len \in Nat /\ dt.enable \in BOOLEAN
          /\ dt.init \in Nat
      OBVIOUS
    <3>2. Preloaded \in [Pstates -> Levels]
      BY DEF Preloaded, Levels
    <3>3. table' \in [Pstates -> Levels] /\ num' \in 1..MaxPstates
      BY <2>1, <3>1, <3>2 DEF DeviceInit, PmuInit
    <3>4. req' \in Pstates
      BY <2>1, <3>1 DEF DeviceInit, PmuInit, InitRefuses, Pstates
    <3>5. en' \in BOOLEAN /\ pending' \in BOOLEAN
      BY <2>1 DEF DeviceInit, PmuInit
    <3>6. pc' \in {"notready", "setup"}
      BY <2>1 DEF DeviceInit, Goto
    <3> QED
      BY <2>1, <3>3, <3>4, <3>5, <3>6 DEF DeviceInit, PmuInit, Goto
  <2>2. CASE ProgramEntry
    BY <2>2 DEF ProgramEntry, SetPstateEntry, Goto, Pstates
  <2>3. CASE UseFewer
    BY <2>3 DEF UseFewer, SetNumStates, Goto
  <2>4. CASE SelectSignal
    BY <2>4 DEF SelectSignal, SetMode, Goto
  <2>5. CASE EnableDvfs
    BY <2>5 DEF EnableDvfs, Enable, Goto
  <2>6. CASE SetupDone
    BY <2>6 DEF SetupDone, Goto
  <2>7. CASE Request
    BY <2>7 DEF Request, RequestPstate, Target
  <2>8. CASE WaitIdle
    BY <2>8 DEF WaitIdle
  <2>9. CASE ReadStatus \/ ReadVolt
    <3>1. seen' \in [p : Pstates, mv : Levels, mhz : Levels]
      BY <2>9 DEF ReadStatus, ReadVolt
    <3>2. pc' \in {"volt", "freq"}
      BY <2>9 DEF ReadStatus, ReadVolt
    <3> QED
      BY <2>9, <3>1, <3>2 DEF ReadStatus, ReadVolt
  <2>10. CASE ReadFreq
    <3>1. seen' \in [p : Pstates, mv : Levels, mhz : Levels]
      BY <2>10 DEF ReadFreq
    <3>2. /\ pc' \in {"clear", "done", "request"}
          /\ at' \in 1..(Len(Script) + 1)
          /\ pc' = "clear" => at' \in 1..Len(Script)
      BY <2>10, DemoAssumption DEF ReadFreq
    <3> QED
      BY <2>10, <3>1, <3>2 DEF ReadFreq
  <2>11. CASE ClearInjected
    <3>1. at' \in 1..(Len(Script) + 1) /\ pc' = "request"
      BY <2>11 DEF ClearInjected
    <3>2. error' \in BOOLEAN
      BY <2>11 DEF ClearInjected, ClearError
    <3> QED
      BY <2>11, <3>1, <3>2 DEF ClearInjected, ClearError
  <2>12. CASE Expires
    BY <2>12 DEF Expires
  <2>13. CASE Accept /\ UNCHANGED <<mainVars, faults>>
    BY <2>13 DEF Accept
  <2>14. CASE (MoveVolt \/ MoveFreq) /\ UNCHANGED <<mainVars, faults>>
    BY <2>14 DEF MoveVolt, MoveFreq
  <2>15. CASE LoadLevel /\ UNCHANGED <<mainVars, faults>>
    BY <2>15 DEF LoadLevel, Pstates
  <2>16. CASE Fail /\ faults < MaxFaults /\ faults' = faults + 1
              /\ UNCHANGED mainVars
    BY <2>16, DemoAssumption DEF Fail
  <2>17. CASE UNCHANGED demoVars
    BY <2>17 DEF demoVars
  <2> QED
    BY <2>1, <2>2, <2>3, <2>4, <2>5, <2>6, <2>7, <2>8, <2>9, <2>10, <2>11,
       <2>12, <2>13, <2>14, <2>15, <2>16, <2>17
       DEF DemoNext, Main, Setup, Engine
<1> QED
  BY <1>1, <1>2, PTL DEF DemoSpec

THEOREM DemoTypeCorrect == DemoSpec => []DemoTypeOK
BY DemoTyped, PTL

(***************************************************************************)
(* The engine only ever works for an enabled driver, on entries that are   *)
(* programmed: nothing is pending or under way before DVFSEN, and neither  *)
(* NUMSTATES nor the table changes after it.                               *)
(***************************************************************************)
EngineInv ==
  /\ pc \in {"init", "notready"} => ~en
  /\ pc \in Waiting \cup {"request", "clear", "done"} => en
  /\ ~en => phase = "idle" /\ ~pending /\ req = 0
  /\ OnlyProgrammed

\* What pmu_init leaves when it does not refuse to enable DVFS: every entry
\* below num-pstates is programmed and the initial P-state is one of them.
LEMMA InitFillsTable ==
  ASSUME dt \in DtConfigs, dt.enable, ~InitRefuses
  PROVE  /\ TableFits /\ dt.init < dt.num
         /\ \A p \in 0..(dt.num - 1) : Preloaded[p] # 0
<1>1. dt.num \in 1..MaxPstates /\ dt.len \in Nat /\ dt.init \in Nat
  BY DemoTypes
<1>2. TableFits /\ dt.init < dt.num /\ dt.len = 2 * dt.num
  BY <1>1 DEF InitRefuses, TableFits
<1>3. ASSUME NEW p \in 0..(dt.num - 1) PROVE Preloaded[p] # 0
  <2>1. p \in Pstates /\ p < dt.num /\ 2 * p + 1 < dt.len
    BY <1>1, <1>2, DemoTypes DEF Pstates
  <2> QED
    BY <2>1, DemoTypes DEF Preloaded
<1> QED
  BY <1>2, <1>3

LEMMA EngineCorrect == DemoSpec => []EngineInv
<1> USE DemoTypes
<1>1. DemoInit => EngineInv
  BY DEF DemoInit, PmuPowerOn, EngineInv, OnlyProgrammed, Waiting
<1>2. DemoTypeOK /\ EngineInv /\ [DemoNext]_demoVars => EngineInv'
  <2> SUFFICES ASSUME DemoTypeOK, EngineInv, [DemoNext]_demoVars
               PROVE  EngineInv'
    OBVIOUS
  <2> USE DEF DemoTypeOK, EngineInv, OnlyProgrammed, Waiting,
              pmuVars, mainVars, ctrl, outputs, status
  <2>1. CASE DeviceInit
    <3>1. ~en /\ phase' = "idle" /\ en' = (dt.enable /\ ~InitRefuses)
          /\ pending' = en'
      BY <2>1 DEF DeviceInit, PmuInit
    <3>2. pc' = IF InitRefuses THEN "notready" ELSE "setup"
      BY <2>1 DEF DeviceInit, Goto
    <3>3. ~en' => req' = 0
      BY <2>1, <3>1 DEF DeviceInit, PmuInit
    <3>4. en' => \A p \in 0..(num' - 1) : table'[p] # 0
      BY <2>1, <3>1, InitFillsTable DEF DeviceInit, PmuInit
    <3> QED
      BY <3>1, <3>2, <3>3, <3>4
  <2>2. CASE ProgramEntry
    BY <2>2 DEF ProgramEntry, SetPstateEntry, Goto
  <2>3. CASE UseFewer
    BY <2>3 DEF UseFewer, SetNumStates, Goto
  <2>4. CASE SelectSignal
    BY <2>4 DEF SelectSignal, SetMode, Goto
  <2>5. CASE EnableDvfs
    BY <2>5 DEF EnableDvfs, Enable, Goto
  <2>6. CASE SetupDone
    BY <2>6 DEF SetupDone, Goto
  <2>7. CASE Request
    BY <2>7 DEF Request, RequestPstate
  <2>8. CASE WaitIdle
    BY <2>8 DEF WaitIdle
  <2>9. CASE ReadStatus \/ ReadVolt \/ ReadFreq
    BY <2>9 DEF ReadStatus, ReadVolt, ReadFreq
  <2>10. CASE ClearInjected
    BY <2>10 DEF ClearInjected, ClearError
  <2>11. CASE Expires
    BY <2>11 DEF Expires
  <2>12. CASE Accept /\ UNCHANGED <<mainVars, faults>>
    BY <2>12 DEF Accept
  <2>13. CASE (MoveVolt \/ MoveFreq) /\ UNCHANGED <<mainVars, faults>>
    BY <2>13 DEF MoveVolt, MoveFreq
  <2>14. CASE LoadLevel /\ UNCHANGED <<mainVars, faults>>
    BY <2>14 DEF LoadLevel
  <2>15. CASE Fail /\ UNCHANGED mainVars
    BY <2>15 DEF Fail
  <2>16. CASE UNCHANGED demoVars
    BY <2>16 DEF demoVars
  <2> QED
    BY <2>1, <2>2, <2>3, <2>4, <2>5, <2>6, <2>7, <2>8, <2>9, <2>10, <2>11,
       <2>12, <2>13, <2>14, <2>15, <2>16
       DEF DemoNext, Main, Setup, Engine
<1> QED
  BY <1>1, <1>2, DemoTypeCorrect, PTL DEF DemoSpec

(***************************************************************************)
(* The engine never works towards an entry nobody programmed.              *)
(***************************************************************************)
THEOREM OnlyEverProgrammed == DemoSpec => []OnlyProgrammed
<1>1. EngineInv => OnlyProgrammed
  BY DEF EngineInv
<1> QED
  BY <1>1, EngineCorrect, PTL

(***************************************************************************)
(* What becomes of a request in register mode.  While main() waits, the    *)
(* request register holds its target; once the engine has taken it without *)
(* an error it is either on its way there or there; and a wait that        *)
(* returned 0 saw the engine at rest, where it stays until the next        *)
(* request.  The first two conjuncts are the order of a transition: what   *)
(* has moved first is at the goal already.                                 *)
(***************************************************************************)
ServedInv ==
  /\ phase = "freq_up" => volt = table[goal]
  /\ phase = "volt_down" => freq = table[goal]
  /\ pc \in Waiting /\ modesel = "register" =>
       /\ req = Target
       /\ ~pending /\ ~error =>
            IF phase = "idle" THEN curr = req /\ Reached(req) ELSE goal = req
  /\ pc \in {"status", "volt", "freq"} /\ modesel = "register"
       /\ result = "ok" =>
       /\ Idle /\ ~error
       /\ pc \in {"volt", "freq"} => seen.p = Target
       /\ pc = "freq" => seen.mv = table[Target]

LEMMA ServedCorrect == DemoSpec => []ServedInv
<1> USE DemoTypes
<1>1. DemoInit => ServedInv
  BY DEF DemoInit, PmuPowerOn, ServedInv, Waiting
<1>2. /\ DemoTypeOK /\ EngineInv /\ ServedInv
      /\ [DemoNext]_demoVars
      => ServedInv'
  <2> SUFFICES ASSUME DemoTypeOK, EngineInv, ServedInv, [DemoNext]_demoVars
               PROVE  ServedInv'
    OBVIOUS
  <2> USE DEF DemoTypeOK, ServedInv, Waiting, Target, Reached, Idle,
              pmuVars, mainVars, ctrl, outputs, status
  <2>1. CASE DeviceInit
    BY <2>1 DEF DeviceInit, PmuInit, Goto, EngineInv
  <2>2. CASE Setup
    BY <2>2 DEF Setup, ProgramEntry, SetPstateEntry, UseFewer, SetNumStates,
                SelectSignal, SetMode, EnableDvfs, Enable, SetupDone, Goto,
                EngineInv
  <2>3. CASE Request
    BY <2>3 DEF Request, RequestPstate, EngineInv
  <2>4. CASE WaitIdle
    BY <2>4 DEF WaitIdle
  <2>5. CASE ReadStatus
    BY <2>5 DEF ReadStatus
  <2>6. CASE ReadVolt
    BY <2>6 DEF ReadVolt
  <2>7. CASE ReadFreq
    BY <2>7 DEF ReadFreq
  <2>8. CASE ClearInjected
    BY <2>8 DEF ClearInjected, ClearError
  <2>9. CASE Expires
    BY <2>9 DEF Expires
  <2>10. CASE Accept /\ UNCHANGED <<mainVars, faults>>
    <3>1. CASE req < num /\ ~Reached(req)
      BY <2>10, <3>1 DEF Accept
    <3>2. CASE req < num /\ Reached(req)
      <4>1. /\ curr' = req /\ phase' = phase /\ phase = "idle" /\ pending
            /\ UNCHANGED <<req, table, volt, freq, goal, modesel>>
        BY <2>10, <3>2 DEF Accept
      <4> QED
        BY <2>10, <3>2, <4>1
    <3>3. CASE ~(req < num)
      <4>1. req >= num
        BY <3>3 DEF Pstates
      <4>2. error' = TRUE
        BY <2>10, <4>1 DEF Accept
      <4>3. /\ phase' = phase /\ phase = "idle" /\ pending
            /\ UNCHANGED <<req, table, volt, freq, goal, modesel>>
        BY <2>10, <3>3 DEF Accept
      <4> QED
        BY <2>10, <4>2, <4>3
    <3> QED
      BY <3>1, <3>2, <3>3
  <2>11. CASE MoveVolt /\ UNCHANGED <<mainVars, faults>>
    BY <2>11 DEF MoveVolt, Phases
  <2>12. CASE MoveFreq /\ UNCHANGED <<mainVars, faults>>
    BY <2>12 DEF MoveFreq, Phases
  <2>13. CASE LoadLevel /\ UNCHANGED <<mainVars, faults>>
    BY <2>13 DEF LoadLevel
  <2>14. CASE Fail /\ UNCHANGED mainVars
    BY <2>14 DEF Fail
  <2>15. CASE UNCHANGED demoVars
    BY <2>15 DEF demoVars
  <2> QED
    BY <2>1, <2>2, <2>3, <2>4, <2>5, <2>6, <2>7, <2>8, <2>9, <2>10, <2>11,
       <2>12, <2>13, <2>14, <2>15
       DEF DemoNext, Main, Engine
<1> QED
  BY <1>1, <1>2, DemoTypeCorrect, EngineCorrect, PTL DEF DemoSpec

(***************************************************************************)
(* A wait that returned 0 means the target has been reached, and           *)
(* dump_state reads the target's P-state and voltage.                      *)
(***************************************************************************)
THEOREM CleanAlwaysMeansThere == DemoSpec => []CleanMeansThere
<1>1. ServedInv => CleanMeansThere
  BY DEF ServedInv, CleanMeansThere, Waiting, Idle
<1> QED
  BY <1>1, ServedCorrect, PTL

(***************************************************************************)
(* After the injected request.  A wait that did not time out leaves        *)
(* nothing pending above NUMSTATES, so that there is nothing left to set   *)
(* ERROR once it is cleared; from there on only P0 is asked for.           *)
(***************************************************************************)
NoMoreBad == \A j \in at..Len(Script) : Script[j] # BadP

RecoverInv ==
  /\ pc = "done" => NoMoreBad
  /\ pc \in {"status", "volt", "freq", "clear"} /\ ~missed =>
       (pending => req < num)
  /\ faults = 0 /\ ~missed /\ NoMoreBad =>
       /\ ~error /\ (pending => req < num)
       /\ pc \in {"status", "volt", "freq", "done"} => result = "ok"

LEMMA OnlyPZeroLeft ==
  ASSUME NoMoreBad, at \in 1..Len(Script)
  PROVE  Target = 0
BY ScriptAssumption, DemoTypes DEF NoMoreBad, Target

LEMMA RecoverCorrect == DemoSpec => []RecoverInv
<1> USE DemoTypes
<1>1. DemoInit => RecoverInv
  BY DEF DemoInit, PmuPowerOn, RecoverInv
<1>2. /\ DemoTypeOK /\ PlaceInv /\ EngineInv /\ RecoverInv
      /\ [DemoNext]_demoVars
      => RecoverInv'
  <2> SUFFICES ASSUME DemoTypeOK, PlaceInv, EngineInv, RecoverInv,
                      [DemoNext]_demoVars
               PROVE  RecoverInv'
    OBVIOUS
  <2> USE DEF DemoTypeOK, RecoverInv,
              pmuVars, mainVars, ctrl, outputs, status
  <2>1. CASE DeviceInit
    <3>1. error' = error /\ at' = at /\ missed' = missed /\ faults' = faults
          /\ pc' \in {"setup", "notready"}
      BY <2>1 DEF DeviceInit, PmuInit, Goto
    <3>2. pending' => req' < num'
      BY <2>1, InitFillsTable DEF DeviceInit, PmuInit
    <3>3. NoMoreBad' = NoMoreBad
      BY <3>1 DEF NoMoreBad
    <3> QED
      BY <3>1, <3>2, <3>3
  <2>2. CASE Setup
    BY <2>2 DEF Setup, ProgramEntry, SetPstateEntry, UseFewer, SetNumStates,
                SelectSignal, SetMode, EnableDvfs, Enable, SetupDone, Goto,
                EngineInv, NoMoreBad
  <2>3. CASE Request
    <3>1. NoMoreBad => req' < num'
      BY <2>3, OnlyPZeroLeft DEF Request, RequestPstate
    <3>2. NoMoreBad' = NoMoreBad
      BY <2>3 DEF Request, NoMoreBad
    <3> QED
      BY <2>3, <3>1, <3>2 DEF Request, RequestPstate
  <2>4. CASE WaitIdle
    <3>1. NoMoreBad' = NoMoreBad
      BY <2>4 DEF WaitIdle, NoMoreBad
    <3> QED
      BY <2>4, <3>1 DEF WaitIdle, Idle
  <2>5. CASE ReadStatus \/ ReadVolt
    BY <2>5 DEF ReadStatus, ReadVolt, NoMoreBad
  <2>6. CASE ReadFreq
    <3>1. at \in 1..Len(Script)
      BY <2>6 DEF ReadFreq, PlaceInv, Waiting
    <3>2. NoMoreBad' => NoMoreBad
      <4>1. at' \in {at, at + 1} /\ (at' = at + 1 => Script[at] # BadP)
        BY <2>6 DEF ReadFreq, Target
      <4> QED
        BY <3>1, <4>1 DEF NoMoreBad
    <3>3. pc' = "done" => NoMoreBad'
      BY <2>6, <3>1 DEF ReadFreq, NoMoreBad, Target
    <3> QED
      BY <2>6, <3>2, <3>3 DEF ReadFreq
  <2>7. CASE ClearInjected
    BY <2>7 DEF ClearInjected, ClearError
  <2>8. CASE Expires
    BY <2>8 DEF Expires, NoMoreBad
  <2>9. CASE Accept /\ UNCHANGED <<mainVars, faults>>
    <3>1. ~pending' /\ error' = (error \/ req >= num) /\ pending
      BY <2>9 DEF Accept
    <3>2. pending => req < num \/ ~(faults = 0 /\ ~missed /\ NoMoreBad)
      OBVIOUS
    <3>3. NoMoreBad' = NoMoreBad
      BY <2>9 DEF NoMoreBad
    <3> QED
      BY <2>9, <3>1, <3>2, <3>3 DEF Pstates
  <2>10. CASE (MoveVolt \/ MoveFreq) /\ UNCHANGED <<mainVars, faults>>
    BY <2>10 DEF MoveVolt, MoveFreq, NoMoreBad
  <2>11. CASE LoadLevel /\ UNCHANGED <<mainVars, faults>>
    BY <2>11 DEF LoadLevel, NoMoreBad
  <2>12. CASE Fail /\ faults' = faults + 1 /\ UNCHANGED mainVars
    <3>1. faults' # 0 /\ at' = at /\ pc' = pc /\ missed' = missed
          /\ UNCHANGED <<pending, req, num>>
      BY <2>12 DEF Fail
    <3> QED
      BY <3>1 DEF NoMoreBad
  <2>13. CASE UNCHANGED demoVars
    BY <2>13 DEF demoVars, NoMoreBad
  <2> QED
    BY <2>1, <2>2, <2>3, <2>4, <2>5, <2>6, <2>7, <2>8, <2>9, <2>10, <2>11,
       <2>12, <2>13
       DEF DemoNext, Main, Engine
<1> QED
  BY <1>1, <1>2, DemoTyped, EngineCorrect, PTL DEF DemoSpec

(***************************************************************************)
(* The demonstration recovers from the request it injects, for every       *)
(* script that asks for P0 only after it.                                  *)
(***************************************************************************)
THEOREM DemoAlwaysRecovers == DemoSpec => []DemoRecovers
<1>1. RecoverInv => DemoRecovers
  BY DEF RecoverInv, DemoRecovers
<1> QED
  BY <1>1, RecoverCorrect, PTL

(***************************************************************************)
(* Once DVFS is set up, main() is over after 7 steps for each switch of    *)
(* its script, whatever the engine does: a wait ends or its timepoint      *)
(* passes, and that happens once.                                          *)
(***************************************************************************)
THEOREM DemoAlwaysBounded == DemoSpec => DemoIsBounded
<1> DEFINE Nearer == (pc \in InSwitch) => \/ StepsLeft' \in 0..(StepsLeft - 1)
                                         \/ UNCHANGED mainVars
<1>1. DemoTypeOK /\ PlaceInv /\ [DemoNext]_demoVars => [Nearer]_demoVars
  <2> SUFFICES ASSUME DemoTypeOK, PlaceInv, DemoNext, pc \in InSwitch
               PROVE  \/ StepsLeft' \in 0..(StepsLeft - 1)
                      \/ UNCHANGED mainVars
    OBVIOUS
  <2>1. Len(Script) \in Nat
    BY DemoTypes
  <2>2. pc # "request" => at \in 1..Len(Script)
    BY DEF PlaceInv, Waiting, InSwitch
  <2>3. CASE Request
    BY <2>1, <2>3, DemoTypes DEF Request, StepsLeft, DemoTypeOK
  <2>4. CASE WaitIdle
    BY <2>1, <2>2, <2>4 DEF WaitIdle, StepsLeft, DemoTypeOK
  <2>5. CASE ReadStatus
    BY <2>1, <2>2, <2>5 DEF ReadStatus, StepsLeft
  <2>6. CASE ReadVolt
    BY <2>1, <2>2, <2>6 DEF ReadVolt, StepsLeft
  <2>7. CASE ReadFreq
    <3>1. \/ pc' = "clear" /\ at' = at
          \/ pc' = "done" /\ at' = at
          \/ pc' = "request" /\ at' = at + 1
      BY <2>7 DEF ReadFreq
    <3>2. pc = "freq"
      BY <2>7 DEF ReadFreq
    <3> QED
      BY <2>1, <2>2, <3>1, <3>2 DEF StepsLeft
  <2>8. CASE ClearInjected
    BY <2>1, <2>2, <2>8 DEF ClearInjected, StepsLeft
  <2>9. CASE Expires
    BY <2>1, <2>2, <2>9 DEF Expires, StepsLeft
  <2>10. CASE Engine
    BY <2>10 DEF Engine
  <2>11. ~DeviceInit /\ ~Setup
    BY DEF DeviceInit, Setup, ProgramEntry, UseFewer, SelectSignal, EnableDvfs,
           SetupDone, InSwitch
  <2> QED
    BY <2>3, <2>4, <2>5, <2>6, <2>7, <2>8, <2>9, <2>10, <2>11
       DEF DemoNext, Main
<1> QED
  BY <1>1, DemoTyped, PTL DEF DemoSpec, DemoIsBounded

=============================================================================
