------------------------------- MODULE IdlePm -------------------------------
(***************************************************************************)
(* App 02: the power-management hooks of the non-secure M33, run by        *)
(* Zephyr's idle thread between two blinks of main(), over the LPTIMER     *)
(* tick, the z_pm secure partition and the M55 that parks beside it.       *)
(*                                                                         *)
(* Sleep states are numbers in the order of the overlay's residencies:     *)
(* 1 SUSPEND_TO_IDLE, 2 STANDBY substate 1, 3 STANDBY substate 2; 0 stands *)
(* for none.  The time left to main()'s deadline is the deepest state it   *)
(* still pays for.                                                         *)
(***************************************************************************)
EXTENDS Naturals

CONSTANTS Pauses,   \* values of SLEEP_BETWEEN_BLINKS_MS, as such depths
          Handled   \* states pm_state_set() has a handler for

ASSUME IdleAssumption == Pauses \subseteq 0..3 /\ Handled = 1..3

VARIABLES
  pause,            \* SLEEP_BETWEEN_BLINKS_MS of this build
  boot,             \* init level reached
  counting,         \* the MCWDT0 counters run
  clock,            \* lptimer_init succeeded: deadlines are programmed
  blinky,           \* main(): "active", "sleeping" or "ready" to run again
  left,             \* time left to the deadline
  armed,            \* the deadline has not fired
  pendTick, pendOther,   \* interrupts pending
  basepri, primask, \* the two masks
  idle,             \* control point of the idle thread
  state,            \* the state it enters
  leds,             \* indicators that are on
  mode, bias,       \* SRSS: deep-sleep mode, BGREF/core-buck bias
  m55, tick55, pend55, primask55   \* the M55 and its SysTick

power == <<mode, bias>>
m55vars == <<m55, tick55, pend55, primask55>>
irqs == <<pendTick, pendOther>>
masks == <<basepri, primask>>
deadline == <<left, armed>>
bootVars == <<pause, boot, counting, clock>>
vars == <<bootVars, blinky, deadline, irqs, masks, idle, state, leds, power,
          m55vars>>

Pending == pendTick \/ pendOther
Asleep == idle \in {"asleep", "plain_asleep"}

TypeOK ==
  /\ pause \in Pauses
  /\ boot \in {"mcwdt", "lptimer", "layer_b", "ping", "main"}
  /\ blinky \in {"active", "sleeping", "ready"}
  /\ {left, state} \subseteq 0..3
  /\ idle \in {"loop", "suspend", "enter", "psa", "bias", "mask", "unlock",
               "wfi", "asleep", "leave", "post", "resume", "plain",
               "plain_asleep"}
  /\ leds \subseteq {"red", "green", "blue"}
  /\ mode \in {"boot", "deepsleep"}
  /\ m55 \in {"arm", "quiesce", "mask", "wfi", "asleep"}
  /\ {counting, clock, armed, pendTick, pendOther, basepri, primask, bias,
      tick55, pend55, primask55} \subseteq BOOLEAN

\* The boot ROM may leave the watchdog's counters running.
Init ==
  /\ pause \in Pauses
  /\ boot = "mcwdt" /\ counting \in BOOLEAN /\ clock = FALSE
  /\ blinky = "active" /\ left = 0 /\ armed = FALSE
  /\ pendTick = FALSE /\ pendOther = FALSE
  /\ basepri = FALSE /\ primask = FALSE
  /\ idle = "loop" /\ state = 0
  /\ leds = {}
  /\ mode = "boot" /\ bias = FALSE
  /\ m55 = "arm" /\ tick55 = TRUE /\ pend55 = FALSE /\ primask55 = FALSE

BootUnchanged ==
  UNCHANGED <<pause, blinky, deadline, irqs, masks, idle, state, leds, power,
              m55vars>>

\* A mistaken form of the next operator: the counters are left alone.
PreemptNothing ==
  /\ boot = "mcwdt" /\ boot' = "lptimer"
  /\ UNCHANGED <<counting, clock>>
  /\ BootUnchanged

\* ns_preempt_mcwdt0_disable, PRE_KERNEL_1
PreemptMcwdt ==
  /\ boot = "mcwdt" /\ boot' = "lptimer"
  /\ counting' = FALSE
  /\ UNCHANGED clock
  /\ BootUnchanged

\* lptimer_init, PRE_KERNEL_2: fails silently on a running counter.
LptimerInit ==
  /\ boot = "lptimer" /\ boot' = "layer_b"
  /\ clock' = ~counting
  /\ counting' = TRUE
  /\ BootUnchanged

\* z_pm_layer_b_init and the ping: logged, whatever they return.
PsaAtBoot ==
  /\ \/ boot = "layer_b" /\ boot' = "ping"
     \/ boot = "ping" /\ boot' = "main"
  /\ UNCHANGED <<counting, clock>>
  /\ BootUnchanged

Boot == PreemptMcwdt \/ LptimerInit \/ PsaAtBoot

(* The blink: the thread runs while idle is at the top of its loop. *)
BlinkUnchanged ==
  UNCHANGED <<bootVars, irqs, masks, idle, state, power, m55vars>>

ActiveOn ==
  /\ boot = "main" /\ idle = "loop"
  /\ \/ blinky = "ready"
     \/ blinky = "active" /\ "green" \notin leds
  /\ blinky' = "active" /\ leds' = leds \cup {"green"}
  /\ UNCHANGED deadline
  /\ BlinkUnchanged

Msleep ==
  /\ blinky = "active" /\ "green" \in leds
  /\ blinky' = "sleeping"
  /\ leds' = leds \ {"green"}
  /\ left' = pause /\ armed' = clock
  /\ BlinkUnchanged

(* Time and interrupts *)
TimePasses ==
  /\ armed /\ left > 0
  /\ left' = left - 1
  /\ UNCHANGED <<bootVars, blinky, armed, irqs, masks, idle, state, leds,
                 power, m55vars>>
TickFires ==
  /\ armed /\ left = 0
  /\ armed' = FALSE /\ pendTick' = TRUE
  /\ UNCHANGED <<bootVars, blinky, left, pendOther, masks, idle, state, leds,
                 power, m55vars>>
OtherFires ==
  /\ ~pendOther /\ pendOther' = TRUE
  /\ UNCHANGED <<bootVars, blinky, deadline, pendTick, masks, idle, state,
                 leds, power, m55vars>>

\* An unmasked interrupt is served at once; the tick makes main() ready.
Serve ==
  /\ Pending /\ ~basepri /\ ~primask /\ ~Asleep
  /\ pendTick' = FALSE /\ pendOther' = FALSE
  /\ blinky' = IF pendTick THEN "ready" ELSE blinky
  /\ UNCHANGED <<bootVars, deadline, masks, idle, state, leds, power, m55vars>>

(* The idle thread.  Interrupts that are neither masked nor served come
   first; a state is entered with the scheduler locked. *)
IdleStep(from, to) ==
  /\ idle = from /\ idle' = to
  /\ Pending => basepri \/ primask \/ Asleep
  /\ UNCHANGED <<bootVars, blinky, deadline, irqs, m55vars>>

IrqLock ==
  /\ blinky = "sleeping"
  /\ IdleStep("loop", "suspend")
  /\ basepri' = TRUE
  /\ UNCHANGED <<primask, state, leds, power>>

\* The residency policy: the deepest state the time left pays for.
PolicyPicks ==
  /\ LET forever == ~armed /\ ~pendTick IN
     /\ IdleStep("suspend", IF ~forever /\ left = 0 THEN "plain" ELSE "enter")
     /\ state' = IF forever THEN 3 ELSE left
  /\ UNCHANGED <<masks, leds, power>>

Colour(s) == CASE s = 1 -> {"red"} [] s = 2 -> {"blue"} [] OTHER -> {"red", "blue"}

\* pm_state_set: a state without a handler would return at once.
Dispatch ==
  /\ IF state \in Handled
     THEN /\ IdleStep("enter", IF state = 3 THEN "psa" ELSE "mask")
          /\ leds' = leds \cup Colour(state)
     ELSE IdleStep("enter", "post") /\ leds' = leds
  /\ UNCHANGED <<masks, state, power>>

\* z_pm_set_deep_sleep_mode: refused with nothing written, or the mode and then
\* the bias; either way the CPU goes on to deep sleep.  What is written stays.
SetDeepSleepMode ==
  /\ \/ IdleStep("psa", "bias") /\ mode' = "deepsleep"
     \/ IdleStep("psa", "mask") /\ UNCHANGED mode
  /\ UNCHANGED <<bias, masks, state, leds>>
SetBias ==
  /\ IdleStep("bias", "mask")
  /\ bias' = TRUE
  /\ UNCHANGED <<mode, masks, state, leds>>

\* A mistaken form of the next two operators: BASEPRI first.
UnlockFirst ==
  /\ \/ IdleStep("mask", "unlock") /\ basepri' = FALSE /\ UNCHANGED primask
     \/ IdleStep("unlock", "wfi") /\ primask' = TRUE /\ UNCHANGED basepri
  /\ UNCHANGED <<state, leds, power>>

\* pm_irq_prologue: PRIMASK, then BASEPRI
Prologue ==
  /\ \/ IdleStep("mask", "unlock") /\ primask' = TRUE /\ UNCHANGED basepri
     \/ IdleStep("unlock", "wfi") /\ basepri' = FALSE /\ UNCHANGED primask
  /\ UNCHANGED <<state, leds, power>>

\* WFI falls through on a pending interrupt, masked by PRIMASK or not.
Wfi ==
  /\ IdleStep("wfi", IF Pending THEN "leave" ELSE "asleep")
  /\ UNCHANGED <<masks, state, leds, power>>
Wakes ==
  /\ Pending
  /\ IdleStep("asleep", "leave")
  /\ UNCHANGED <<masks, state, leds, power>>

LedsOff ==
  /\ IdleStep("leave", "post")
  /\ leds' = leds \ Colour(state)
  /\ UNCHANGED <<masks, state, power>>

\* pm_state_exit_post_ops
ExitPostOps ==
  /\ IdleStep("post", "resume")
  /\ primask' = FALSE
  /\ UNCHANGED <<basepri, state, leds, power>>

\* The scheduler is unlocked.
Resume ==
  /\ IdleStep("resume", "loop")
  /\ state' = 0
  /\ UNCHANGED <<masks, leds, power>>

\* k_cpu_idle, when no state pays: PRIMASK, BASEPRI, WFI, and unmask.
PlainIdle ==
  /\ \/ IdleStep("plain", "plain_asleep") /\ primask' = TRUE /\ basepri' = FALSE
     \/ Pending /\ IdleStep("plain_asleep", "loop") /\ primask' = FALSE /\ UNCHANGED basepri
  /\ UNCHANGED <<state, leds, power>>

IdleThread ==
  IrqLock \/ PolicyPicks \/ Dispatch \/ SetDeepSleepMode \/ SetBias \/ Prologue
  \/ Wfi \/ Wakes \/ LedsOff \/ ExitPostOps \/ Resume \/ PlainIdle

(* The M55: arms deep sleep, stops SysTick, masks, and sleeps for good. *)
M33Unchanged ==
  UNCHANGED <<bootVars, blinky, deadline, irqs, masks, idle, state, leds, power>>

ArmM55 ==
  /\ m55 = "arm" /\ m55' = "quiesce"
  /\ UNCHANGED <<tick55, pend55, primask55>> /\ M33Unchanged

\* A mistaken form of the next operator: masked before SysTick is stopped.
MaskFirst ==
  /\ \/ m55 = "quiesce" /\ ~pend55 /\ m55' = "mask" /\ primask55' = TRUE /\ UNCHANGED tick55
     \/ m55 = "mask" /\ m55' = "wfi" /\ tick55' = FALSE /\ UNCHANGED primask55
  /\ UNCHANGED pend55 /\ M33Unchanged

\* zephyr_quiesce_for_deepsleep
Quiesce ==
  /\ \/ m55 = "quiesce" /\ m55' = "mask" /\ tick55' = FALSE /\ UNCHANGED primask55
     \/ m55 = "mask" /\ ~pend55 /\ m55' = "wfi" /\ primask55' = TRUE /\ UNCHANGED tick55
  /\ UNCHANGED pend55 /\ M33Unchanged

Park ==
  /\ m55 = "wfi" /\ ~pend55 /\ m55' = "asleep"
  /\ UNCHANGED <<tick55, pend55, primask55>> /\ M33Unchanged

SysTick55 ==
  /\ \/ tick55 /\ ~pend55 /\ pend55' = TRUE
     \/ pend55 /\ ~primask55 /\ pend55' = FALSE
  /\ UNCHANGED <<m55, tick55, primask55>> /\ M33Unchanged

M55 == ArmM55 \/ Quiesce \/ Park

Cpu == Boot \/ ActiveOn \/ Msleep \/ Serve \/ IdleThread
Next == Cpu \/ TimePasses \/ TickFires \/ OtherFires \/ M55 \/ SysTick55

Spec == Init /\ [][Next]_vars

(* Each processor executes, also between interrupts that keep coming, time
   passes and SysTick is served; other interrupts need not come. *)
FairSpec ==
  /\ Spec
  /\ WF_vars(Boot \/ ActiveOn \/ Msleep) /\ WF_vars(Serve) /\ SF_vars(IdleThread)
  /\ WF_vars(TimePasses) /\ WF_vars(TickFires)
  /\ SF_vars(M55) /\ WF_vars(SysTick55)
-----------------------------------------------------------------------------
(* The M33 never sleeps while the blink is ready to run, and never without an
   interrupt that will come or has come (power.c, pm_irq_prologue: the wake
   must stay pending until WFI; ns_preempt_mcwdt0_disable: a tick there is). *)
SleepHasWake == Asleep => blinky = "sleeping" /\ (armed \/ Pending)

(* The blink goes on for ever, through every state the overlay declares. *)
BlinksForever == []<>(blinky = "active")

(* zephyr_quiesce_for_deepsleep(): once the M55 is at its WFI nothing is
   pending, nothing will be, and PRIMASK is up: the first WFI is the last. *)
M55StaysDown ==
  m55 \in {"wfi", "asleep"} => primask55 /\ ~pend55 /\ ~tick55

(* The M55 ends in deep sleep for good, so that the SoC can follow. *)
M55Parks == <>[](m55 = "asleep")
=============================================================================
