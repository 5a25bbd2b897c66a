----------------------------- MODULE SleepShell -----------------------------
(***************************************************************************)
(* App 07a on one M33 core: main() bringing up the CM55 with a k_msleep    *)
(* between its steps, the heartbeat thread, the shell thread with the      *)
(* sleep, deep_sleep, noidle and mode commands, Zephyr's idle thread, the  *)
(* LPTIMER and console interrupts, and the CM55 parking beside them.       *)
(***************************************************************************)
EXTENDS Naturals

CONSTANTS Modes,   \* power modes the mode commands name, PM_MODE_HP first
          PM_MODE_HP

ASSUME ShellAssumption == PM_MODE_HP \in Modes

VARIABLES
  at,               \* control point of each thread
  ready,            \* threads ready to run
  sleeping,         \* threads in k_msleep() whose deadline is ahead
  expired,          \* deadlines passed, tick interrupt pending
  uart, rx,         \* console interrupt pending; bytes buffered
  basepri, primask, \* the two masks
  asleep,           \* the core waits in WFI
  sleepdeep,        \* SCB_SCR.SLEEPDEEP
  voted,            \* the plain DEEPSLEEP mode is voted for
  noidle,           \* s_prevent_idle
  target,           \* what the command in progress is to do
  mode, hw,         \* s_current_mode; the mode the hardware is in
  gpio, busy,       \* the pins are configured; the pm-busy output
  led,              \* the heartbeat's LED device is ready
  ppc,              \* the PPC: untouched, answering bus errors, initialised
  m55               \* the CM55

irqs == <<sleeping, expired, uart, rx>>
masks == <<basepri, primask>>
core == <<asleep, sleepdeep, voted>>
power == <<mode, hw>>
pins == <<gpio, busy>>
vars == <<at, ready, irqs, masks, core, noidle, target, power, pins, led, ppc,
          m55>>

Threads == {"main", "heartbeat", "shell"}

\* A mistaken form of the next operator, as the comment beside
\* HEARTBEAT_PRIORITY has it: well below the shell.
PriorityAsCommented(t) ==
  CASE t = "main" -> 0 [] t = "shell" -> 9 [] OTHER -> 10
\* main() 0, HEARTBEAT_PRIORITY 10, the shell the lowest application priority
Priority(t) == CASE t = "main" -> 0 [] t = "heartbeat" -> 10 [] OTHER -> 14

Window == {"mask", "wfi", "wake", "unmask"}
Commands == {"sleep", "deep_sleep", "noidle_on", "noidle_off"} \cup Modes

MainPoints == {"layer_b", "fabric", "release", "vote", "ppc", "ppc_half",
               "ppc_end", "exit", "gpio", "init", "end"}
HeartbeatPoints == {"start", "toggle", "end"}
ShellPoints == Window \cup {"prompt", "low", "report", "done", "begin", "hw",
                           "failed", "pulse_end", "commit"}

TypeOK ==
  /\ at \in [Threads -> MainPoints \cup HeartbeatPoints \cup ShellPoints]
  /\ at["main"] \in MainPoints
  /\ at["heartbeat"] \in HeartbeatPoints
  /\ at["shell"] \in ShellPoints
  /\ ready \subseteq Threads /\ sleeping \subseteq Threads
  /\ expired \subseteq Threads
  /\ {uart, rx, basepri, primask, asleep, sleepdeep, voted, noidle, gpio, busy,
      led} \subseteq BOOLEAN
  /\ target \in Commands
  /\ at["shell"] \in {"begin", "hw", "pulse_end", "commit"} => target \in Modes
  /\ mode \in Modes /\ hw \in Modes
  /\ ppc \in {"reset", "bus_err", "done"}
  /\ m55 \in {"held", "arm", "quiesce", "asleep"}

\* The static constructors: HP, nothing configured, the CM55 in reset.
Init ==
  /\ at = [t \in Threads |-> CASE t = "main" -> "layer_b"
                               [] t = "heartbeat" -> "start"
                               [] OTHER -> "prompt"]
  /\ ready = {"main"}
  /\ sleeping = {} /\ expired = {} /\ uart = FALSE /\ rx = FALSE
  /\ basepri = FALSE /\ primask = FALSE
  /\ asleep = FALSE /\ sleepdeep = FALSE /\ voted = FALSE
  /\ noidle = FALSE /\ target = PM_MODE_HP
  /\ mode = PM_MODE_HP /\ hw = PM_MODE_HP
  /\ gpio = FALSE /\ busy = FALSE /\ led \in BOOLEAN
  /\ ppc = "reset" /\ m55 = "held"

(* The scheduler: the ready thread of the best priority runs, after every
   interrupt that is pending and not masked. *)
Pending == expired # {} \/ uart
Served == Pending => basepri \/ primask
Runs(t) ==
  /\ t \in ready /\ ~asleep /\ Served
  /\ \A u \in ready : Priority(t) <= Priority(u)
Goes(t, from, to) ==
  Runs(t) /\ at[t] = from /\ at' = [at EXCEPT ![t] = to]
Stays(t) == UNCHANGED <<ready, irqs>>
k_msleep(t) ==
  /\ ready' = ready \ {t} /\ sleeping' = sleeping \cup {t}
  /\ UNCHANGED <<expired, uart, rx>>

(* main() *)
MainUnchanged == UNCHANGED <<primask, asleep, sleepdeep, noidle, target, led>>

\* pm_deep_sleep_init, PRE_KERNEL_2; then the kernel starts the threads.
LayerB ==
  /\ Goes("main", "layer_b", "fabric")
  /\ voted' = TRUE
  /\ ready' = {"main", "heartbeat"}
  /\ UNCHANGED <<irqs, basepri, power, pins, ppc, m55>>
  /\ MainUnchanged

\* app_pse84_cm55_startup: every STEP ends in k_msleep(10).
Fabric ==
  /\ Goes("main", "fabric", "release") /\ k_msleep("main")
  /\ UNCHANGED <<basepri, voted, power, pins, ppc, m55>> /\ MainUnchanged
Release ==
  /\ Goes("main", "release", "vote") /\ k_msleep("main")
  /\ m55' = "arm"
  /\ UNCHANGED <<basepri, voted, power, pins, ppc>> /\ MainUnchanged
Vote ==
  /\ Goes("main", "vote", "ppc") /\ k_msleep("main")
  /\ voted' = TRUE
  /\ UNCHANGED <<basepri, power, pins, ppc, m55>> /\ MainUnchanged

\* A mistaken form of the next operator: no irq_lock().
InitPpcUnlocked ==
  /\ \/ /\ Goes("main", "ppc", "ppc_half") /\ Stays("main")
        /\ ppc' = "bus_err" /\ UNCHANGED basepri
     \/ /\ Goes("main", "ppc_half", "ppc_end") /\ Stays("main")
        /\ ppc' = "done" /\ UNCHANGED basepri
     \/ /\ Goes("main", "ppc_end", "exit") /\ k_msleep("main")
        /\ UNCHANGED <<basepri, ppc>>
  /\ UNCHANGED <<voted, power, pins, m55>> /\ MainUnchanged

\* irq_lock(), cy_ppc0_init(), cy_ppc1_init(), irq_unlock(), STEP
InitPpc ==
  /\ \/ /\ Goes("main", "ppc", "ppc_half") /\ Stays("main")
        /\ basepri' = TRUE /\ ppc' = "bus_err"
     \/ /\ Goes("main", "ppc_half", "ppc_end") /\ Stays("main")
        /\ ppc' = "done" /\ UNCHANGED basepri
     \/ /\ Goes("main", "ppc_end", "exit") /\ k_msleep("main")
        /\ basepri' = FALSE /\ UNCHANGED ppc
  /\ UNCHANGED <<voted, power, pins, m55>> /\ MainUnchanged

Exit ==
  /\ Goes("main", "exit", "gpio") /\ k_msleep("main")
  /\ UNCHANGED <<basepri, voted, power, pins, ppc, m55>> /\ MainUnchanged

\* gpio_indicators_init: the pins become outputs at their inactive level.
InitGpio ==
  /\ Goes("main", "gpio", "init") /\ Stays("main")
  /\ gpio' = TRUE /\ busy' = FALSE
  /\ UNCHANGED <<basepri, voted, power, ppc, m55>> /\ MainUnchanged

\* pm_init; main() returns.
pm_init ==
  /\ Goes("main", "init", "end")
  /\ mode' = PM_MODE_HP
  /\ ready' = ready \ {"main"}
  /\ UNCHANGED <<irqs, basepri, voted, hw, pins, ppc, m55>> /\ MainUnchanged

MainStep ==
  LayerB \/ Fabric \/ Release \/ Vote \/ InitPpc \/ Exit \/ InitGpio \/ pm_init

(* heartbeat_entry *)
Heartbeat ==
  /\ \/ /\ Goes("heartbeat", "start", IF led THEN "toggle" ELSE "end")
        /\ ready' = IF led THEN ready ELSE ready \ {"heartbeat"}
        /\ UNCHANGED irqs
     \/ Goes("heartbeat", "toggle", "toggle") /\ k_msleep("heartbeat")
  /\ UNCHANGED <<masks, core, noidle, target, power, pins, led, ppc, m55>>

(* The shell thread.  A pin write does nothing before the pin is an output. *)
ShellUnchanged == UNCHANGED <<basepri, voted, gpio, led, ppc, m55>>
SetBusy(level) == busy' = (gpio /\ level)
BackToPrompt == ready' = (IF rx THEN ready ELSE ready \ {"shell"}) /\ UNCHANGED irqs

\* The command dispatched: its handler up to its first blocking call.  Of a mode
\* command that includes the comparison with s_current_mode, whose second read,
\* for the source, main() might still precede: the source is not modelled.
TakeCommand ==
  /\ rx' = FALSE
  /\ \/ /\ Goes("shell", "prompt", "low")
        /\ target' \in {"sleep", "deep_sleep"}
        /\ SetBusy(TRUE)
        /\ ready' = ready \ {"shell"} /\ sleeping' = sleeping \cup {"shell"}
        /\ UNCHANGED noidle
     \/ /\ Goes("shell", "prompt", "done")
        /\ target' \in {"noidle_on", "noidle_off"}
        /\ noidle' = (target' = "noidle_on")
        /\ UNCHANGED <<busy, ready, sleeping>>
     \/ \E m \in Modes :
        /\ Goes("shell", "prompt", IF m = mode THEN "done" ELSE "begin")
        /\ target' = m
        /\ UNCHANGED <<busy, ready, sleeping, noidle>>
  /\ UNCHANGED <<expired, uart, primask, asleep, sleepdeep, power>>
  /\ ShellUnchanged

ShellGoes(from, to) ==
  Goes("shell", from, to) /\ ShellUnchanged /\ UNCHANGED <<noidle, target>>

\* cmd_sleep and cmd_deep_sleep after k_msleep(20)
BusyLow ==
  /\ ShellGoes("low", "mask") /\ Stays("shell")
  /\ SetBusy(FALSE)
  /\ UNCHANGED <<primask, asleep, sleepdeep, power>>

\* __disable_irq(), irq_unlock(0)
MaskWindow ==
  /\ ShellGoes("mask", "wfi") /\ Stays("shell")
  /\ primask' = TRUE
  /\ UNCHANGED <<busy, asleep, sleepdeep, power>>

\* WFI, with SLEEPDEEP set by CpuEnterDeepSleep; it falls through when an
\* interrupt is pending.
EnterSleep ==
  /\ ShellGoes("wfi", "wake") /\ Stays("shell")
  /\ sleepdeep' = (target = "deep_sleep")
  /\ asleep' = ~Pending
  /\ UNCHANGED <<primask, busy, power>>

\* A mistaken form of the next operator: SLEEPDEEP stays set.
LeaveDeep ==
  /\ ShellGoes("wake", "unmask") /\ Stays("shell")
  /\ UNCHANGED <<primask, busy, asleep, sleepdeep, power>>
\* SCB_SCR &= ~SLEEPDEEP
ClearSleepDeep ==
  /\ ShellGoes("wake", "unmask") /\ Stays("shell")
  /\ sleepdeep' = FALSE
  /\ UNCHANGED <<primask, busy, asleep, power>>

\* A mistaken form of the next operator: __enable_irq() is missing.
UnmaskNothing ==
  /\ \/ ShellGoes("unmask", "report") /\ UNCHANGED <<primask, busy>>
     \/ ShellGoes("report", "done") /\ UNCHANGED primask /\ SetBusy(TRUE)
  /\ Stays("shell") /\ UNCHANGED <<asleep, sleepdeep, power>>
\* __enable_irq(), then the report under pm-busy
Unmask ==
  /\ \/ ShellGoes("unmask", "report") /\ primask' = FALSE /\ UNCHANGED busy
     \/ ShellGoes("report", "done") /\ UNCHANGED primask /\ SetBusy(TRUE)
  /\ Stays("shell") /\ UNCHANGED <<asleep, sleepdeep, power>>

(* pm_switch_to: the pulse around the strategy, then the commit. *)
SwitchBegin ==
  /\ ShellGoes("begin", "hw") /\ Stays("shell")
  /\ SetBusy(TRUE)
  /\ UNCHANGED <<primask, asleep, sleepdeep, power>>

\* pm_strategy_transition of the strategy the build selects: it switches, or it
\* fails with the hardware put back.  The second is so of a source that is true;
\* after pm_init() forgot the mode the undo takes the wrong one.
Strategy ==
  /\ \/ ShellGoes("hw", "pulse_end") /\ hw' = target
     \/ ShellGoes("hw", "failed") /\ UNCHANGED hw
  /\ Stays("shell") /\ UNCHANGED <<busy, mode, primask, asleep, sleepdeep>>

SwitchEnd ==
  /\ \/ ShellGoes("failed", "done") /\ SetBusy(FALSE) /\ UNCHANGED mode
     \/ ShellGoes("pulse_end", "commit") /\ SetBusy(FALSE) /\ UNCHANGED mode
     \/ ShellGoes("commit", "done") /\ mode' = target /\ UNCHANGED busy
  /\ Stays("shell") /\ UNCHANGED <<hw, primask, asleep, sleepdeep>>

\* The handler returns, pm-busy low.
Done ==
  /\ ShellGoes("done", "prompt") /\ BackToPrompt
  /\ SetBusy(FALSE)
  /\ UNCHANGED <<primask, asleep, sleepdeep, power>>

ShellStep ==
  TakeCommand \/ BusyLow \/ MaskWindow \/ EnterSleep \/ ClearSleepDeep
  \/ Unmask \/ SwitchBegin \/ Strategy \/ SwitchEnd \/ Done

(* Idle, interrupts and time *)
RestUnchanged ==
  UNCHANGED <<at, masks, sleepdeep, voted, noidle, target, power, pins, led,
              ppc, m55>>

\* arch_cpu_idle with the noidle hook
Idle ==
  /\ ready = {} /\ ~asleep /\ ~Pending /\ ~noidle
  /\ asleep' = TRUE
  /\ UNCHANGED <<ready, irqs>> /\ RestUnchanged

Wakes ==
  /\ asleep /\ Pending /\ asleep' = FALSE
  /\ UNCHANGED <<ready, irqs>> /\ RestUnchanged

\* The tick readies the sleepers whose time has come, the console the shell.
Serve ==
  /\ Pending /\ ~asleep /\ ~basepri /\ ~primask
  /\ ready' = ready \cup expired
              \cup (IF uart /\ at["shell"] = "prompt" THEN {"shell"} ELSE {})
  /\ expired' = {} /\ uart' = FALSE /\ rx' = (rx \/ uart)
  /\ UNCHANGED <<sleeping, asleep>> /\ RestUnchanged

Expires(t) ==
  /\ t \in sleeping
  /\ sleeping' = sleeping \ {t} /\ expired' = expired \cup {t}
  /\ UNCHANGED <<ready, uart, rx, asleep>> /\ RestUnchanged

\* SCB2 does not receive while the SoC is in system deep sleep.
SystemDeepSleep == asleep /\ sleepdeep /\ voted /\ m55 = "asleep"
Typed ==
  /\ at["main"] # "layer_b" /\ ~uart /\ ~SystemDeepSleep
  /\ uart' = TRUE
  /\ UNCHANGED <<ready, sleeping, expired, rx, asleep>> /\ RestUnchanged

(* The CM55: arms its deep-sleep mode, quiesces and parks. *)
Cm55 ==
  /\ \/ m55 = "arm" /\ m55' = "quiesce"
     \/ m55 = "quiesce" /\ m55' = "asleep"
  /\ UNCHANGED <<at, ready, irqs, masks, core, noidle, target, power, pins,
                 led, ppc>>

Next ==
  \/ MainStep \/ Heartbeat \/ ShellStep
  \/ Idle \/ Wakes \/ Serve \/ Typed
  \/ \E t \in Threads : Expires(t)
  \/ Cm55

Spec == Init /\ [][Next]_vars

(* Deadlines pass, the core executes and is not kept from a thread by
   interrupts for ever; nobody need type. *)
FairSpec ==
  /\ Spec
  /\ WF_vars(Wakes) /\ WF_vars(Serve)
  /\ SF_vars(MainStep) /\ SF_vars(Heartbeat) /\ SF_vars(ShellStep)
  /\ \A t \in Threads : WF_vars(Expires(t))
  /\ WF_vars(Cm55)
-----------------------------------------------------------------------------
(* With the heartbeat running, a core in deep sleep has a deadline ahead or a
   tick pending: the shell's own k_msleep(20) is over by then, and the console
   cannot wake it (cmd_deep_sleep.c, wake source). *)
DeepSleepWakes ==
  asleep /\ sleepdeep /\ led => sleeping # {} \/ expired # {}

(* The idle thread never sleeps with SLEEPDEEP set, and the shell sleeps only
   where its interrupts stay pending (cmd_deep_sleep.c, step 5 and prologue). *)
IdleIsShallow ==
  asleep => IF at["shell"] = "wake" THEN primask ELSE ~sleepdeep

(* No interrupt is served while the PPC answers with bus errors
   (pse84_boot_local.c: the irq_lock across the two calls). *)
PpcWindowQuiet ==
  [][ppc = "bus_err" => expired \subseteq expired' /\ (uart => uart')]_vars

(* What pm_current_mode() reports, or is about to once the command in progress
   has committed, is the mode the SoC is in. *)
ReportedIsReal ==
  IF at["shell"] \in {"pulse_end", "commit"} THEN hw = target ELSE mode = hw

(* pm_init() is the only step that can make the reported mode false: "records
   the initial mode" (power_manager.h), it overwrites that of a switch made
   while main() still sleeps between its bring-up steps. *)
OnlyInitForgets == [][ReportedIsReal /\ ~ReportedIsReal' => pm_init]_vars

(* Whatever is typed, and when, the heartbeat goes on for ever: the blue LED
   is the pure indicator of CPU liveness diag.c calls it. *)
HeartbeatGoesOn ==
  led => []<>("heartbeat" \in sleeping) /\ []<>("heartbeat" \in ready)

=============================================================================
