-------------------------- MODULE SleepShell_proofs --------------------------
(***************************************************************************)
(* What holds of the sleep commands of app 07a for any set of power modes: *)
(* a deep sleep always has the heartbeat's deadline ahead, SLEEPDEEP never *)
(* reaches the idle thread, no interrupt sees a half-initialised PPC, and  *)
(* only pm_init() makes the reported mode false.                           *)
(***************************************************************************)
EXTENDS SleepShell, TLAPS

(***************************************************************************)
(* The core's step of a thread: it was ready, nothing of a better priority *)
(* was, and its control point moves.                                       *)
(***************************************************************************)
LEMMA OnlyItMoves ==
  ASSUME TypeOK, NEW t \in Threads, NEW from, NEW to, Goes(t, from, to)
  PROVE  /\ at[t] = from /\ at'[t] = to
         /\ \A u \in Threads \ {t} : at'[u] = at[u]
         /\ t \in ready /\ ~asleep
         /\ t = "shell" => ready = {"shell"}
BY DEF TypeOK, Goes, Runs, Threads, Priority

\* main() at its next control point, the other threads where they were.
LEMMA MainMoves ==
  ASSUME TypeOK, NEW from, NEW to \in MainPoints, Goes("main", from, to)
  PROVE  /\ at' \in [Threads -> MainPoints \cup HeartbeatPoints \cup ShellPoints]
         /\ at'["main"] \in MainPoints
         /\ at'["heartbeat"] = at["heartbeat"] /\ at'["shell"] = at["shell"]
BY DEF TypeOK, Goes, Threads

(***************************************************************************)
(* Type correctness of the threads, the core and the CM55.                 *)
(***************************************************************************)
THEOREM ShellTypeCorrect == Spec => []TypeOK
<1> USE DEF MainPoints, HeartbeatPoints, ShellPoints, Window
<1>1. Init => TypeOK
  BY ShellAssumption DEF Init, TypeOK, Threads, Commands
<1>2. TypeOK /\ [Next]_vars => TypeOK'
  <2> SUFFICES ASSUME TypeOK, [Next]_vars PROVE TypeOK'
    OBVIOUS
  <2> USE DEF TypeOK, Threads, irqs, masks, core, power, pins
  <2>1. CASE MainStep
    <3> USE DEF Goes, Stays, k_msleep, MainUnchanged
    <3>1. CASE LayerB
      BY <3>1 DEF LayerB
    <3>2. CASE Fabric
      BY <3>2 DEF Fabric
    <3>3. CASE Release
      BY <3>3 DEF Release
    <3>4. CASE Vote
      BY <3>4 DEF Vote
    <3>5. CASE InitPpc
      <4>1. /\ ppc' \in {"reset", "bus_err", "done"} /\ basepri' \in BOOLEAN
            /\ ready' \subseteq Threads /\ sleeping' \subseteq Threads
            /\ UNCHANGED <<expired, uart, rx>>
        BY <3>5 DEF InitPpc
      <4>2. /\ at' \in [Threads -> MainPoints \cup HeartbeatPoints \cup ShellPoints]
            /\ at'["main"] \in MainPoints
            /\ at'["heartbeat"] = at["heartbeat"] /\ at'["shell"] = at["shell"]
        <5> HIDE DEF Goes, TypeOK
        <5>1. PICK from, to \in MainPoints : Goes("main", from, to)
          BY <3>5 DEF InitPpc
        <5> QED
          BY <5>1, MainMoves
      <4>3. /\ MainUnchanged /\ UNCHANGED <<voted, power, pins, m55>>
        BY <3>5 DEF InitPpc
      <4> HIDE DEF Goes
      <4> QED
        BY <4>1, <4>2, <4>3
    <3>6. CASE Exit
      BY <3>6 DEF Exit
    <3>7. CASE InitGpio
      BY <3>7 DEF InitGpio
    <3>8. CASE pm_init
      BY <3>8, ShellAssumption DEF pm_init
    <3> QED
      BY <2>1, <3>1, <3>2, <3>3, <3>4, <3>5, <3>6, <3>7, <3>8 DEF MainStep
  <2>2. CASE Heartbeat
    <3> USE DEF Goes, k_msleep
    <3>1. /\ ready' \subseteq Threads /\ sleeping' \subseteq Threads
          /\ UNCHANGED <<expired, uart, rx>>
      BY <2>2 DEF Heartbeat
    <3>2. CASE Goes("heartbeat", "start", IF led THEN "toggle" ELSE "end")
      BY <2>2, <3>1, <3>2 DEF Heartbeat
    <3>3. CASE Goes("heartbeat", "toggle", "toggle")
      BY <2>2, <3>1, <3>3 DEF Heartbeat
    <3> QED
      BY <2>2, <3>2, <3>3 DEF Heartbeat
  <2>3. CASE ShellStep
    <3> USE DEF Goes, Stays, ShellGoes, ShellUnchanged, SetBusy
    <3>1. CASE TakeCommand
      <4>1. CASE target' \in {"sleep", "deep_sleep"} /\ Goes("shell", "prompt", "low")
        BY <3>1, <4>1 DEF TakeCommand, Commands
      <4>2. CASE /\ target' \in {"noidle_on", "noidle_off"}
                 /\ Goes("shell", "prompt", "done")
        <5>1. /\ noidle' \in BOOLEAN
              /\ UNCHANGED <<busy, ready, sleeping, expired, uart>>
          BY <3>1, <4>2 DEF TakeCommand
        <5>2. UNCHANGED <<primask, asleep, sleepdeep, power>> /\ rx' = FALSE
          BY <3>1 DEF TakeCommand
        <5>3. target' \in Commands
          BY <4>2 DEF Commands
        <5>4. ShellUnchanged
          BY <3>1 DEF TakeCommand
        <5>5. /\ at' \in [Threads -> MainPoints \cup HeartbeatPoints \cup ShellPoints]
              /\ at'["main"] = at["main"] /\ at'["heartbeat"] = at["heartbeat"]
              /\ at'["shell"] = "done"
          BY <4>2 DEF ShellPoints
        <5> HIDE DEF Goes
        <5> QED
          BY <5>1, <5>2, <5>3, <5>4, <5>5 DEF ShellPoints
      <4>3. ASSUME NEW m \in Modes, target' = m,
                   Goes("shell", "prompt", IF m = mode THEN "done" ELSE "begin")
            PROVE  TypeOK'
        BY <3>1, <4>3 DEF TakeCommand, Commands
      <4> QED
        BY <3>1, <4>1, <4>2, <4>3 DEF TakeCommand
    <3>2. CASE BusyLow
      BY <3>2 DEF BusyLow
    <3>3. CASE MaskWindow
      BY <3>3 DEF MaskWindow
    <3>4. CASE EnterSleep
      BY <3>4 DEF EnterSleep, Pending
    <3>5. CASE ClearSleepDeep
      BY <3>5 DEF ClearSleepDeep
    <3>6. CASE Unmask
      <4>1. {primask', busy'} \subseteq BOOLEAN
        BY <3>6 DEF Unmask
      <4>2. CASE ShellGoes("unmask", "report")
        BY <3>6, <4>1, <4>2 DEF Unmask
      <4>3. CASE ShellGoes("report", "done")
        BY <3>6, <4>1, <4>3 DEF Unmask
      <4> QED
        BY <3>6, <4>2, <4>3 DEF Unmask
    <3>7. CASE SwitchBegin
      BY <3>7 DEF SwitchBegin
    <3>8. CASE Strategy
      <4>1. hw' \in Modes
        BY <3>8 DEF Strategy
      <4>2. CASE ShellGoes("hw", "pulse_end")
        BY <3>8, <4>1, <4>2 DEF Strategy
      <4>3. CASE ShellGoes("hw", "failed")
        BY <3>8, <4>1, <4>3 DEF Strategy
      <4> QED
        BY <3>8, <4>2, <4>3 DEF Strategy
    <3>9. CASE SwitchEnd
      <4>1. mode' \in Modes /\ busy' \in BOOLEAN
        BY <3>9 DEF SwitchEnd
      <4>2. CASE ShellGoes("failed", "done")
        BY <3>9, <4>1, <4>2 DEF SwitchEnd
      <4>3. CASE ShellGoes("pulse_end", "commit")
        BY <3>9, <4>1, <4>3 DEF SwitchEnd
      <4>4. CASE ShellGoes("commit", "done")
        BY <3>9, <4>1, <4>4 DEF SwitchEnd
      <4> QED
        BY <3>9, <4>2, <4>3, <4>4 DEF SwitchEnd
    <3>10. CASE Done
      BY <3>10 DEF Done, BackToPrompt
    <3> QED
      BY <2>3, <3>1, <3>2, <3>3, <3>4, <3>5, <3>6, <3>7, <3>8, <3>9, <3>10
         DEF ShellStep
  <2>4. CASE Idle \/ Wakes
    <3>1. asleep' \in BOOLEAN /\ UNCHANGED <<ready, irqs>> /\ RestUnchanged
      BY <2>4 DEF Idle, Wakes
    <3> QED
      BY <3>1 DEF RestUnchanged
  <2>5. CASE Serve
    <3>1. ready' \subseteq Threads /\ {uart', rx'} \subseteq BOOLEAN
      BY <2>5 DEF Serve
    <3> QED
      BY <2>5, <3>1 DEF Serve, RestUnchanged
  <2>6. CASE Typed
    BY <2>6 DEF Typed, RestUnchanged
  <2>7. ASSUME NEW t \in Threads, Expires(t) PROVE TypeOK'
    BY <2>7 DEF Expires, RestUnchanged
  <2>8. CASE Cm55
    BY <2>8 DEF Cm55
  <2>9. CASE UNCHANGED vars
    BY <2>9 DEF vars
  <2> QED
    BY <2>1, <2>2, <2>3, <2>4, <2>5, <2>6, <2>7, <2>8, <2>9 DEF Next
<1> QED
  BY <1>1, <1>2, PTL DEF Spec

(***************************************************************************)
(* SleepInv: PRIMASK is up exactly while the shell is in its window,       *)
(* SLEEPDEEP is set only between its WFI and the write that clears it, and *)
(* the core does not sleep before the threads are started nor while the    *)
(* heartbeat is ready, which is always somewhere.                          *)
(***************************************************************************)
SleepInv ==
  /\ at["shell"] \in {"wfi", "wake", "unmask"} <=> primask
  /\ sleepdeep => at["shell"] = "wake"
  /\ at["main"] = "layer_b" =>
       ready = {"main"} /\ sleeping = {} /\ ~Pending /\ ~asleep
  /\ asleep => "heartbeat" \notin ready
  /\ led /\ at["main"] # "layer_b" =>
       "heartbeat" \in ready \cup sleeping \cup expired

(***************************************************************************)
(* The shell has the lowest priority of the three threads, so that it      *)
(* executes WFI only when the heartbeat waits for its deadline.            *)
(***************************************************************************)
LEMMA SleepCorrect == Spec => []SleepInv
<1>1. Init => SleepInv
  BY DEF Init, SleepInv, Pending, Threads
<1>2. TypeOK /\ SleepInv /\ [Next]_vars => SleepInv'
  <2> SUFFICES ASSUME TypeOK, SleepInv, [Next]_vars PROVE SleepInv'
    OBVIOUS
  <2> USE DEF SleepInv, Pending, irqs, masks, core, power, pins
  <2>1. CASE MainStep
    <3> USE DEF Stays, k_msleep, MainUnchanged
    <3>0. \A from, to : Goes("main", from, to) =>
            /\ at["main"] = from /\ at'["main"] = to /\ ~asleep
            /\ at'["shell"] = at["shell"]
      BY OnlyItMoves DEF Threads
    <3>1. CASE LayerB
      BY <3>0, <3>1 DEF LayerB
    <3>2. CASE Fabric \/ Release \/ Vote \/ Exit
      BY <3>0, <3>2 DEF Fabric, Release, Vote, Exit
    <3>3. CASE InitPpc
      BY <3>0, <3>3 DEF InitPpc
    <3>4. CASE InitGpio \/ pm_init
      BY <3>0, <3>4 DEF InitGpio, pm_init
    <3> QED
      BY <2>1, <3>1, <3>2, <3>3, <3>4 DEF MainStep
  <2>2. CASE Heartbeat
    <3>0. \A from, to : Goes("heartbeat", from, to) =>
            /\ at["heartbeat"] = from /\ "heartbeat" \in ready /\ ~asleep
            /\ at'["main"] = at["main"] /\ at'["shell"] = at["shell"]
      BY OnlyItMoves DEF Threads
    <3> QED
      BY <2>2, <3>0 DEF Heartbeat, k_msleep
  <2>3. CASE ShellStep
    <3> USE DEF Stays, ShellGoes, ShellUnchanged, SetBusy
    <3>0. \A from, to : Goes("shell", from, to) =>
            /\ at["shell"] = from /\ at'["shell"] = to
            /\ ready = {"shell"} /\ ~asleep
            /\ at'["main"] = at["main"]
      BY OnlyItMoves DEF Threads
    <3>1. CASE TakeCommand
      BY <3>0, <3>1 DEF TakeCommand
    <3>2. CASE BusyLow \/ MaskWindow
      BY <3>0, <3>2 DEF BusyLow, MaskWindow
    <3>3. CASE EnterSleep
      BY <3>0, <3>3 DEF EnterSleep
    <3>4. CASE ClearSleepDeep \/ Unmask
      BY <3>0, <3>4 DEF ClearSleepDeep, Unmask
    <3>5. CASE SwitchBegin \/ Strategy \/ SwitchEnd
      BY <3>0, <3>5 DEF SwitchBegin, Strategy, SwitchEnd
    <3>6. CASE Done
      BY <3>0, <3>6 DEF Done, BackToPrompt
    <3> QED
      BY <2>3, <3>1, <3>2, <3>3, <3>4, <3>5, <3>6 DEF ShellStep
  <2>4. CASE Idle \/ Wakes
    BY <2>4 DEF Idle, Wakes, RestUnchanged
  <2>5. CASE Serve
    BY <2>5 DEF Serve, RestUnchanged
  <2>6. CASE Typed
    BY <2>6 DEF Typed, RestUnchanged
  <2>7. ASSUME NEW t \in Threads, Expires(t) PROVE SleepInv'
    BY <2>7 DEF Expires, RestUnchanged
  <2>8. CASE Cm55
    BY <2>8 DEF Cm55
  <2>9. CASE UNCHANGED vars
    BY <2>9 DEF vars
  <2> QED
    BY <2>1, <2>2, <2>3, <2>4, <2>5, <2>6, <2>7, <2>8, <2>9 DEF Next
<1> HIDE DEF SleepInv
<1> QED
  BY <1>1, <1>2, ShellTypeCorrect, PTL DEF Spec

(***************************************************************************)
(* cmd_deep_sleep: a core in deep sleep has the heartbeat's deadline ahead *)
(* or its tick pending, as long as the heartbeat has its LED.              *)
(***************************************************************************)
THEOREM DeepSleepAlwaysWakes == Spec => []DeepSleepWakes
<1>1. SleepInv => DeepSleepWakes
  BY DEF SleepInv, DeepSleepWakes
<1> QED
  BY <1>1, SleepCorrect, PTL

(***************************************************************************)
(* cmd_deep_sleep, cmd_sleep: the idle thread never sleeps deep, and the   *)
(* shell sleeps with its interrupts pending behind PRIMASK.                *)
(***************************************************************************)
THEOREM IdleAlwaysShallow == Spec => []IdleIsShallow
<1>1. SleepInv => IdleIsShallow
  BY DEF SleepInv, IdleIsShallow
<1> QED
  BY <1>1, SleepCorrect, PTL

(***************************************************************************)
(* The PPC answers with bus errors only between the two init calls, under  *)
(* the irq_lock of app_pse84_cm55_startup.                                 *)
(***************************************************************************)
PpcInv ==
  /\ ppc = "bus_err" => at["main"] = "ppc_half"
  /\ at["main"] \in {"ppc_half", "ppc_end"} => basepri

(***************************************************************************)
(* Nobody but app_pse84_cm55_startup moves BASEPRI or the PPC.             *)
(***************************************************************************)
LEMMA PpcCorrect == Spec => []PpcInv
<1>1. Init => PpcInv
  BY DEF Init, PpcInv, Threads
<1>2. TypeOK /\ PpcInv /\ [Next]_vars => PpcInv'
  <2> SUFFICES ASSUME TypeOK, PpcInv, [Next]_vars PROVE PpcInv'
    OBVIOUS
  <2> USE DEF PpcInv, masks
  <2>1. CASE MainStep
    <3>0. \A from, to : Goes("main", from, to) =>
            at["main"] = from /\ at'["main"] = to
      BY OnlyItMoves DEF Threads
    <3>1. CASE InitPpc
      BY <3>0, <3>1 DEF InitPpc
    <3>2. CASE ~InitPpc
      BY <2>1, <3>0, <3>2 DEF MainStep, LayerB, Fabric, Release, Vote, Exit,
                              InitGpio, pm_init
    <3> QED
      BY <3>1, <3>2
  <2>2. CASE Heartbeat
    <3>0. \A from, to : Goes("heartbeat", from, to) => at'["main"] = at["main"]
      BY OnlyItMoves DEF Threads
    <3> QED
      BY <2>2, <3>0 DEF Heartbeat
  <2>3. CASE ShellStep
    <3>0. \A from, to : Goes("shell", from, to) => at'["main"] = at["main"]
      BY OnlyItMoves DEF Threads
    <3> QED
      BY <2>3, <3>0 DEF ShellStep, TakeCommand, BusyLow, MaskWindow, EnterSleep,
         ClearSleepDeep, Unmask, SwitchBegin, Strategy, SwitchEnd, Done,
         ShellGoes, ShellUnchanged
  <2>4. CASE Idle \/ Wakes \/ Serve \/ Typed \/ \E t \in Threads : Expires(t)
    BY <2>4 DEF Idle, Wakes, Serve, Typed, Expires, RestUnchanged
  <2>5. CASE Cm55
    BY <2>5 DEF Cm55
  <2>6. CASE UNCHANGED vars
    BY <2>6 DEF vars
  <2> QED
    BY <2>1, <2>2, <2>3, <2>4, <2>5, <2>6 DEF Next
<1> HIDE DEF PpcInv
<1> QED
  BY <1>1, <1>2, ShellTypeCorrect, PTL DEF Spec

(***************************************************************************)
(* app_pse84_cm55_startup: no interrupt is served while the PPC answers    *)
(* with bus errors.                                                        *)
(***************************************************************************)
THEOREM PpcWindowAlwaysQuiet == Spec => PpcWindowQuiet
<1>1. PpcInv /\ TypeOK /\ [Next]_vars
      => (ppc = "bus_err" => expired \subseteq expired' /\ (uart => uart'))
  <2> SUFFICES ASSUME PpcInv, TypeOK, [Next]_vars, ppc = "bus_err"
               PROVE  expired \subseteq expired' /\ (uart => uart')
    OBVIOUS
  <2>0. basepri
    BY DEF PpcInv
  <2> USE DEF irqs
  <2>1. CASE MainStep
    BY <2>1 DEF MainStep, LayerB, Fabric, Release, Vote, InitPpc, Exit,
                InitGpio, pm_init, Stays, k_msleep
  <2>2. CASE Heartbeat
    BY <2>2 DEF Heartbeat, k_msleep
  <2>3. CASE ShellStep
    <3>1. CASE TakeCommand
      BY <3>1 DEF TakeCommand
    <3>2. ASSUME Stays("shell") PROVE UNCHANGED irqs
      BY <3>2 DEF Stays
    <3>3. CASE ~TakeCommand
      <4>1. UNCHANGED irqs
        BY <2>3, <3>2, <3>3 DEF ShellStep, BusyLow, MaskWindow, EnterSleep,
           ClearSleepDeep, Unmask, SwitchBegin, Strategy, SwitchEnd, Done,
           BackToPrompt
      <4> QED
        BY <4>1
    <3> QED
      BY <3>1, <3>3
  <2>4. CASE Serve
    BY <2>0, <2>4 DEF Serve
  <2>5. CASE Idle \/ Wakes \/ Typed \/ \E t \in Threads : Expires(t)
    BY <2>5 DEF Idle, Wakes, Typed, Expires
  <2>6. CASE Cm55 \/ UNCHANGED vars
    BY <2>6 DEF Cm55, vars
  <2> QED
    BY <2>1, <2>2, <2>3, <2>4, <2>5, <2>6 DEF Next
<1> QED
  BY <1>1, PpcCorrect, ShellTypeCorrect, PTL DEF Spec, PpcWindowQuiet
-----------------------------------------------------------------------------
(***************************************************************************)
(* A step of the mode bookkeeping: every step but pm_init() keeps a true   *)
(* report true, and every step whatever leaves hw and target alone between *)
(* a strategy that succeeded and its commit.                               *)
(***************************************************************************)
LEMMA ReportStep ==
  ASSUME TypeOK, [Next]_vars
  PROVE  /\ ReportedIsReal /\ ~pm_init => ReportedIsReal'
         /\ ReportedIsReal /\ at["shell"] \in {"pulse_end", "commit"}
            => ReportedIsReal'
         /\ at'["shell"] \in {"pulse_end", "commit"}
            => ReportedIsReal' \/ at["shell"] \in {"pulse_end", "commit"}
         /\ at["main"] = "end" => ~pm_init /\ at'["main"] = "end"
         /\ at'["main"] # "end" => ~pm_init
<1> USE DEF ReportedIsReal, power
<1>1. CASE MainStep
  <2>0. \A from, to : Goes("main", from, to) =>
          at["main"] = from /\ at'["main"] = to /\ at'["shell"] = at["shell"]
    BY OnlyItMoves DEF Threads
  <2>1. CASE pm_init
    BY <2>0, <2>1 DEF pm_init, MainUnchanged
  <2>2. CASE LayerB \/ Fabric \/ Release \/ Vote
    BY <2>0, <2>2 DEF LayerB, Fabric, Release, Vote, pm_init, MainUnchanged
  <2>3. CASE InitPpc \/ Exit \/ InitGpio
    BY <2>0, <2>3 DEF InitPpc, Exit, InitGpio, pm_init, MainUnchanged
  <2> QED
    BY <1>1, <2>1, <2>2, <2>3 DEF MainStep
<1>2. CASE ~MainStep
  <2>0. /\ \A from, to : Goes("shell", from, to) =>
             /\ at["shell"] = from /\ at'["shell"] = to
             /\ at'["main"] = at["main"]
        /\ \A from, to : Goes("heartbeat", from, to) =>
             at'["shell"] = at["shell"] /\ at'["main"] = at["main"]
    BY OnlyItMoves DEF Threads
  <2>1. ~pm_init
    BY <1>2 DEF MainStep
  <2>2. CASE Heartbeat
    BY <2>0, <2>1, <2>2 DEF Heartbeat
  <2>3. CASE TakeCommand
    <3>1. \E to \in {"low", "done", "begin"} : Goes("shell", "prompt", to)
      BY <2>3 DEF TakeCommand
    <3>2. /\ at["shell"] = "prompt" /\ at'["shell"] \in {"low", "done", "begin"}
          /\ at'["main"] = at["main"]
      BY <2>0, <3>1
    <3>3. UNCHANGED power
      BY <2>3 DEF TakeCommand
    <3> QED
      BY <2>1, <3>2, <3>3
  <2>4. CASE \/ BusyLow \/ MaskWindow \/ EnterSleep \/ ClearSleepDeep \/ Unmask
             \/ SwitchBegin \/ Done
    <3> DEFINE Outside == ShellPoints \ {"pulse_end", "commit"}
    <3>1. \E from, to \in Outside : Goes("shell", from, to)
      BY <2>4 DEF BusyLow, MaskWindow, EnterSleep, ClearSleepDeep, Unmask,
             SwitchBegin, Done, ShellGoes, ShellPoints, Window
    <3>2. /\ at["shell"] \in Outside /\ at'["shell"] \in Outside
          /\ at'["main"] = at["main"]
      BY <2>0, <3>1
    <3>3. UNCHANGED power
      BY <2>4 DEF BusyLow, MaskWindow, EnterSleep, ClearSleepDeep, Unmask,
             SwitchBegin, Done
    <3> QED
      BY <2>1, <3>2, <3>3
  <2>5. CASE Strategy
    BY <2>0, <2>1, <2>5 DEF Strategy, ShellGoes
  <2>6. CASE SwitchEnd
    <3>0. UNCHANGED <<hw, target>>
      BY <2>6 DEF SwitchEnd, ShellGoes
    <3>1. CASE Goes("shell", "failed", "done") /\ UNCHANGED mode
      BY <2>0, <2>1, <3>0, <3>1
    <3>2. CASE Goes("shell", "pulse_end", "commit")
      BY <2>0, <2>1, <3>0, <3>2
    <3>3. CASE Goes("shell", "commit", "done") /\ mode' = target
      BY <2>0, <2>1, <3>0, <3>3
    <3> QED
      BY <2>6, <3>1, <3>2, <3>3 DEF SwitchEnd, ShellGoes
  <2>7. CASE Idle \/ Wakes \/ Serve \/ Typed \/ (\E t \in Threads : Expires(t))
    BY <2>1, <2>7 DEF Idle, Wakes, Serve, Typed, Expires, RestUnchanged
  <2>8. CASE Cm55 \/ UNCHANGED vars
    BY <2>1, <2>8 DEF Cm55, vars
  <2> QED
    BY <1>2, <2>2, <2>3, <2>4, <2>5, <2>6, <2>7, <2>8 DEF Next, ShellStep
<1> QED
  BY <1>1, <1>2

(***************************************************************************)
(* pm_init() is the only step that can make the reported mode false.       *)
(***************************************************************************)
THEOREM InitAloneForgets == Spec => OnlyInitForgets
<1>1. TypeOK /\ [Next]_vars
      => [ReportedIsReal /\ ~ReportedIsReal' => pm_init]_vars
  BY ReportStep
<1> QED
  BY <1>1, ShellTypeCorrect, PTL DEF Spec, OnlyInitForgets

(***************************************************************************)
(* Until main() has returned from pm_init() the reported mode is real, and *)
(* so it is whenever a strategy has succeeded and its commit is ahead,     *)
(* whatever pm_init() overwrote before.                                    *)
(***************************************************************************)
THEOREM RealUntilInit ==
  Spec => []( at["main"] # "end" \/ at["shell"] \in {"pulse_end", "commit"}
              => ReportedIsReal )
<1> DEFINE Inv == at["main"] # "end" \/ at["shell"] \in {"pulse_end", "commit"}
                  => ReportedIsReal
<1>1. Init => Inv
  BY DEF Init, ReportedIsReal, Threads
<1>2. TypeOK /\ Inv /\ [Next]_vars => Inv'
  BY ReportStep
<1> QED
  BY <1>1, <1>2, ShellTypeCorrect, PTL DEF Spec

(***************************************************************************)
(* A report that is true once main() is over, as after any switch that     *)
(* succeeds then, stays true for ever, whichever transitions fail.         *)
(***************************************************************************)
THEOREM RealForGood ==
  Spec => [](at["main"] = "end" /\ ReportedIsReal => []ReportedIsReal)
<1> DEFINE Settled == at["main"] = "end" /\ ReportedIsReal
<1>1. TypeOK /\ Settled /\ [Next]_vars => Settled'
  BY ReportStep
<1>2. Settled => ReportedIsReal
  OBVIOUS
<1> HIDE DEF Settled
<1>3. Spec => [](Settled => []ReportedIsReal)
  BY <1>1, <1>2, ShellTypeCorrect, PTL DEF Spec
<1> QED
  BY <1>3 DEF Settled
=============================================================================
