# A TLA+ development for zephyr_playground

The repository holds Zephyr applications for the Infineon PSOC Edge 84, two
drivers and a few host scripts. This directory models the parts of it whose
correctness depends on order, failure or concurrency, checks the models with
TLC on small instances, and proves the most important results with TLAPS for
every value of the parameters. Paths below are relative to `src/`.

## 1. Inventory

| part | state it keeps | operations | hard behaviour |
|---|---|---|---|
| DVFS orchestration: `apps/06_…/src/power_manager.c`, `shell_cmds.c` (and the identical copies of app 07a) | `s_current_mode`, LEDs, pm-busy pin, SCB baud divider | `ulp`, `lp`, `hp`, `probe`; `pm_switch_to()` | failure in the middle; what the next command finds |
| HF0-divider strategy: `power_manager_hf0_divider.c` | CLK_HF0 divider, core voltage, RRAM trim | six `trans_*` helpers | order of clock, voltage and trim; undo |
| PLL-retune strategy: `power_manager_pll_retune.c` | DPLL_LP0, latched PLL status | SysPm callbacks, `pm_pll_reconfigure()` | callbacks around an external step; the console clock moves |
| console trace and heartbeat: `diag.c` | SCB2 TX FIFO, beside the shell's TX ring; an LED | `diag_trace`, `diag_trace_flush`, heartbeat thread | unbounded spin; the thread whose deadline ends a deep sleep |
| sleep commands: `cmd_sleep.c`, `cmd_deep_sleep.c`, `cmd_noidle.c` (apps 06, 07, 07a) | PRIMASK/BASEPRI, SLEEPDEEP, `s_prevent_idle` | `sleep`, `deep_sleep`, `noidle` | a wake-up lost or missing, a bit left behind |
| CM55 release: `apps/07a_…/pse84_boot_local.c`, `cm55/src/main.c` | PPC attributes, the CM55 | `app_pse84_cm55_startup()` | interrupts inside the PPC window; the shell runs meanwhile |
| TF-M power shell: `apps/07_…` | `s_current_mode`, SRAM trim (non-secure), divider and buck (secure) | HP/LP switch over a PSA call | partial failure across the security boundary |
| PM hooks: `apps/02_…` | deep-sleep mode and bias, PRIMASK/BASEPRI | `pm_state_set`, `pm_state_exit_post_ops`, `z_pm` op, boot hooks | wake-up lost between unmask and WFI, sticky mode, a tick that never starts |
| PMU driver: `modules/pmu`, its demo `apps/05_…` | DVFS registers | init, table, request, wait, clear error | timeout against late completion, sticky error |
| BGT60TR13C driver: `modules/bgt60tr13c` | sensor registers, FIFO, `fifo_ready` semaphore | init, config, FIFO limit, frame start/stop, ISR, wait, burst read | edge interrupt on a level, sticky status read before the data, FIFO overrun, resets that complete later |
| radar streamers: `apps/10_…/src/main.c`, `apps/09_…/src/main.c` | `seq`, counters | set-up, acquisition loop, stop | timeouts against late frames, early returns |
| Wi-Fi link: `apps/10_…/src/wifi_connect.c` | `link_up`, `link_up_sem`, `backoff_ms`, work item | connect work, two `net_mgmt` callbacks, `wait_up` | two threads without a lock, retries, lost links |
| UDP streamer: `apps/08_…/src/main.c` | `udp_state`, one static thread | `udp server/start/stop/status` | shell against sender, join timeout, thread reuse |
| host receiver: `apps/10_…/host/udp_server.py` | `last_seq`, `lost`, counters | one pass of the receive loop | loss, duplicates, reordering, a board that restarts, the counter's wrap |
| boot register sequences, other host scripts, examples | – | – | see `PROJECT.json` |

The parts interact by calls within one application; only the drivers are
shared between applications. Within an application the concurrency is: shell
thread, worker threads, main() while it sleeps, ISRs, the system work queue,
the `net_mgmt` thread, the second core, and hardware that runs on (UART,
sensor, PLL, buck, DVFS engine). Nothing is stored across a restart, so a
restart of a board is its initial state again; only the host receiver lives
through one, and its module has it.

What makes each part correct:

* DVFS: the core clock fits voltage and RRAM trim after every single call; a
  switch is all or nothing for its callers; the pm-busy pulse covers the
  transient; no byte is on the wire while its clock moves; commands return.
* TF-M switch: a reported mode has all its trims, whatever failed before; nothing
  can interrupt between two operating points.
* Sleep: a core never sleeps without a wake-up ahead or pending; nothing of a
  deep sleep is left for the next idle; threads that should go on do.
* PMU: a wait that returns 0 means the target is reached; a transition never
  goes to an entry nobody programmed; the demo recovers from its injected error.
* Radar: a sensor that chirps is configured as asked; a packet is one whole
  frame, in step with the frame boundaries; corrupted data is noticed; a loop
  that keeps up never stops; nobody leaves the sensor running.
* Wi-Fi: never stranded, never two attempts at once, the flag and the semaphore
  follow DHCP, the link comes back.
* UDP: at most one sender, told to stop means stops, the flag tells the truth.
* Host: the loss count is the number of frames lost while packets come in order;
  what a duplicate, a late packet or a restart adds to it is known.

`PROJECT.json` lists the hazards at their lines with the properties that cover
them, and the ones no property covers with the reason.

## 2. Modules

| module | what it is |
|---|---|
| `PowerManager` | orchestration shared by both strategies: the shell handlers, `pm_switch_to()`, the console's FIFO and the shell's TX ring; one action per stretch of code between two hardware effects |
| `ModeSwitch` | abstract specification: what `power_manager.h` promises a caller |
| `SwitchOutcome` | abstract specification: what is left of `ModeSwitch` where calls fail half-way; between two calls the SoC is at the reported mode's operating point or at no mode's, never at another's |
| `Hf0Divider` | the strategy the build selects; EXTENDS `PowerManager`, refines `ModeSwitch` |
| `PllRetune` | the other strategy; EXTENDS `PowerManager`, refines `SwitchOutcome` |
| `SecureSwitch` | the HP/LP switch of app 07: shell handlers, `step_transition()`, PSA call, partition, buck; refines `SwitchOutcome` |
| `SleepShell` | app 07a on one core: `main()` releasing the CM55, heartbeat, shell with the sleep and mode commands, idle thread, tick and console interrupts |
| `IdlePm` | app 02: boot hooks, idle thread and PM hooks, LPTIMER tick, partition, the M55 parking |
| `PmuDvfs` | the PMU driver's operations, one operator each, and the DVFS engine |
| `PmuDemo` | app 05's `main()` on `PmuDvfs`, which it EXTENDS |
| `RadarBringUp` | radar driver init, configuration, reset, start and stop, with `main()` of apps 09 and 10 around the loop |
| `RadarStream` | app 10's loop: sensor FIFO, IRQ line, ISR, driver and acquisition |
| `HostReceiver` | the sequence numbers of app 10, the network, and the receiver's loss count |
| `UdpSender` | shell handlers and sender thread of app 08 |
| `WifiLink` | work queue, event thread, waiting main thread, driver and DHCP |
| `MC*` | instances for TLC |
| `*_proofs` | theorems: about the module of that name, and in `Radar_proofs` about `RadarStream` and `RadarBringUp`, in `Udp_proofs` about `UdpSender` and `HostReceiver`, in `Pm_proofs` about `IdlePm` and `PmuDemo` |

The names of states and actions follow the code. Operators called *Mutant* or *a
mistaken form* in a comment are broken variants of the definition below them,
kept to show that a property can fail; no specification uses them.

### PowerManager, Hf0Divider, PllRetune

`mode` is `s_current_mode`; `volt`, `rram`, `pll`, `div` are what the PDL calls
have programmed; `pc` is the point the shell thread has reached. Every PDL call
is a step of its own, since the heartbeat thread and every ISR run at the clock
and the voltage between two calls. The six `trans_*` helpers of the divider
strategy have two shapes: down (divider, voltage, RRAM, with the divider put
back on failure) and up (voltage, RRAM, divider). CLK_HF10 is a fixed fraction
of `pll`, so `baud` records the `pll` the SCB divider was computed for.

The console has two writers. TRACE and printk write to the TX FIFO themselves;
the shell's backend is interrupt-driven (`prj.conf`), so that what `shell_print()`
leaves in its ring is moved to the FIFO by the TX interrupt, whenever interrupts
are on and at whatever rate the divider then gives. `fifo` is the set of
writers with bytes in flight and `ring` the bytes that wait, `RingBytes` at
most. Interrupts are off (`Masked`) inside `Cy_SysPm_SystemEnter*` only: the ring may
refill the FIFO after it returns, and again between `diag_trace_flush()` and
`uart_configure()`, which are two steps.

`Cy_SysPm_SystemEnter*` is outside this repository. Assumed of it: a failing call
leaves the rail at the source voltage and does not run the AFTER_TRANSITION
callback; it may heed or ignore the error a callback returns. For HP <-> ULP it
crosses LP internally; a failure half-way is outside the assumption (a hazard
without a property).

### SecureSwitch

The non-secure side masks interrupts (`primask`, `key`), writes SRAM trims before
and after the call, and keeps `mode`; the partition moves `div` and `profile`. The
trim tables are the code's, and `Applied` is `apply_trim_seq()`: the last write to
a register stays. The buck is a process of its own: `rail` follows `profile` some
time later, and `CoreBuckStatus` succeeds only once it has. A `psa_call()` that
fails has not reached the partition and leaves status 0 in the outvec, as the
client's initialiser has it. `BootTrim` is arbitrary, since the boot ROM sets it.
LP/ULP branches of the partition are unreachable: its one client refuses ULP.

### SleepShell

`at` is the control point of each thread, `ready` and `sleeping` are the kernel's
queues, and a thread runs only while no thread of a better priority is ready and
no unmasked interrupt is pending: main() at 0, the heartbeat at 10, the shell
at 14. A deadline may pass at any time. The core sleeps in WFI (`asleep`) from
the idle thread or from the window of a sleep command, where PRIMASK is set and
BASEPRI clear; WFI falls through on a pending interrupt. `SystemDeepSleep` is
the state in which SCB2 receives nothing: SLEEPDEEP, the vote, and a CM55 that
has parked. A mode command is its pulse, its strategy as one step that succeeds or
leaves the hardware as it was, and its commit; what goes on inside the strategy
is `Hf0Divider`'s subject. That a failure leaves the hardware as it was is so of a
true source only: once `pm_init()` has forgotten the mode, the undo restores the
wrong divider. No property here depends on it. A pin write does nothing before the pin is configured.

### IdlePm

Time is measured in how deep a sleep it still pays for (`left`); the policy
takes the deepest state that the time left pays for. `pm_irq_prologue()` is two
steps, PRIMASK and BASEPRI, and an interrupt may come before, between and after.
`mode` and `bias` are the two things `z_pm_set_deep_sleep_mode` writes, in two steps
(a refused call writes neither), and nothing takes back; that the bias therefore
governs the plain deep sleep too is a finding, not a property. At boot the counters of MCWDT0 may be running; the LPTIMER
driver then fails silently, and no deadline is ever armed. The M55 has a pending
bit for its SysTick and a mask.

### PmuDvfs, PmuDemo

An operating point is one number, its level; 0 is an entry nobody programmed.
The engine takes a pending request, refuses it with ERROR when it is above
NUMSTATES, and moves voltage and frequency in the order of the direction; it
may give up anywhere or never move. Assumed of it: TRANSPENDING rises in the same
bus access as the request's write, so that a poll cannot come between. `PmuDemo`
adds the application: the devicetree nodes of `DtConfigs` are right, incomplete
and wrong; an application may program what init left; the demo asks, waits,
reads three registers one by one, injects a request and clears the error.
`DemoRecovers` speaks of the last wait's result and of ERROR; that the target is then
reached is `CleanMeansThere`, in software mode only.

### RadarBringUp, RadarStream

`RadarBringUp` follows one sensor through init, `config()`, `set_fifo_limit()`,
`start_frame()`, a loop, and the stop. Every step may fail the way its code
returns. A reset takes effect when its bit clears, which the sensor decides; the
poll counts SOFT_RESET_TIMEOUT down. Assumed: a transfer that fails has no effect on
the sensor, and the board declares `irq-gpios` as both overlays do. Both
applications compile `scb3_clock_fix.c`, which may or may not get CLK_HF10 running.

`RadarStream` begins at a started sensor. The FIFO holds words in order, so counts
describe it: `fill`, and the positions inside a frame of the next word to be
read and written. A frame shifted against the packet boundary is a burst that
does not start at position 0. `edge` is the latched GPIO edge, `fifo_ready` the
semaphore. The burst is read word by word while the sensor writes on. Time is
measured in completed frames (one per 5 ms). `lost`, `crooked`, `short`, `wire`,
`late` are history variables. The header byte of a burst is taken to be GSR0 as
it is before the data is clocked out, which is when it is shifted out.

### HostReceiver

A datagram is the true number of its frame; its packet carries the number modulo
`SeqSpace`. `first`, `top`, `orderly` and `late` are history variables. The network
loses, duplicates and reorders; a restart sets the board's number back while old
datagrams are in flight. Assumed: neither an outage nor the flight of a datagram is
as long as the sequence space (248 days at 5 ms a frame), and a board does not
restart after it has gone through it once. What the count is worth then is said
in two properties: exact while packets come in order, and one sequence space too
much for every packet that does not come after the one before it. So 5, 5, 6
leaves `lost` at 2^32 - 1, and 5, 6, 0 at 2^32 - 7.

### UdpSender

A destination is empty, has an address, or is whole; an interval is short or
longer than the five seconds of the join. The sender (priority 7) outranks the
shell thread, which is why clearing the flag and returning is one step. The join
times out on a sender in a long sleep or blocked in `zsock_sendto()` or
`zsock_close()`.
`k_thread_create()` on a thread that is alive is outside the kernel's contract; the
model drops the old incarnation.

### WifiLink

A callback is the sequence of its effects (`Steps`), taken one by one, with the
work queue and `main()` in between. Assumed of the world: an accepted request is
answered by exactly one CONNECT_RESULT; a lost association takes its address
along; events are neither dropped nor reordered; a delay of five seconds
outlasts a callback. `backoff_ms` is shared by two threads without a lock; its
read-modify-write is one step of the model because `BackoffUnshared` says that the
two threads are never both about to do it. That rests on the assumptions above: an
attempt is rejected, and so slowed down by the work queue, only when no callback
that would slow it down is under way. A missing interface counts as a trouble.

## 3. Runs

| run | instance | question |
|---|---|---|
| `pm_hf0` | 200 MHz, dividers 1/3/4, ceilings 200/80/50, any voltage step may fail | timing window, busy pulse, atomic switch |
| `pm_pll` | 200/80/50 MHz, intermediates 75 and 41, any PLL or voltage step may fail, a ring of two bytes | envelope, what success and failure leave (refinement of `SwitchOutcome`), console integrity, flushes end |
| `sec` | 400 MHz, dividers 2/6, ceilings 200/80, late buck and failing calls | what a reported mode guarantees, what the mask covers, where the direction rule holds |
| `shell` | two modes, LED present or not | deep sleep has its wake-up, idle is shallow, the PPC window is quiet, the heartbeat goes on |
| `shell_early` | the same | **violated**: the reported mode is not the real one |
| `idle` | the three pauses `main.c` offers, counters running or not | no sleep without a wake-up, the blink and the M55's parking |
| `pmu` | ten entries, the demo's script, six devicetree nodes, one transition given up | what a clean wait means, what the engine may go to, recovery, termination |
| `bringup` | both applications, a table of three registers, a FIFO of four words, six limits, a reset budget of two polls | a running sensor is configured, nobody leaves it running, resets return |
| `radar` | frames of 2 words, FIFO of 7, wait of 2 frames | packets, noise, timeouts, streaming forever |
| `host` | six frames over a counter of four values, three in flight, two duplicates or restarts | the loss count, in order and out of order |
| `udp` | no parameters | flag, thread reuse, the sender ends |
| `wifi` | backoff 5 to 30 (seconds), four troubles | stranding, double attempts, the unlocked backoff, flag and token, reconnection |

Each run checks what is hard to see in its module and is seen to fail under a
broken variant. The type invariants are not in the runs: they are proved, all
of them, and so are the properties of which no run has room (section 5).

Bounds. The DVFS instances are the real clock trees, and their state space has no
bound but the ring's, whose contents matter by being there or not and by how
many interrupts empty it (the proofs have it of any size); nor has that of `shell`, `idle` and `udp`. In `shell`, what is said of a switch
does not depend on which other mode it goes to, so two modes are enough. In
`radar`, two words to a frame are the least with which a burst can meet a
half-written frame; a FIFO of three frames and a half overflows in the middle
of a frame, as the real one does (FIFO size is no multiple of the frame); TLC
reaches overrun, underrun, lost edges, stale tokens and timeouts. In `bringup`,
three registers have one before and one after SFCTL, the reset
budget (2^32 - 1 in the code) is scaled to two polls so that it runs out, and
the limits include the ones the driver refuses and the one that wraps. In
`pmu`, the script is the demo's own and one given-up transition is
enough to leave the engine short of its target under any of its waits. In
`host`, six frames wrap a counter of four values, and two faults combine a
restart with a duplicate. In `wifi`, four troubles take the backoff 5, 10, 20,
30, 30 to its cap and let any two failures overlap; the number of troubles
bounds the state space.

Fairness. Weak fairness on threads and ISRs that are ready to run, on deadlines,
on the UART (its clock always runs), on the buck and on the sensor while it
chirps. User commands, failures and losses are never fair. In `WifiLink` the driver
answers an accepted request and DHCP binds on a link that lasts, and `Troubles`
bounds the misbehaviour: `ReconnectsInTheEnd` says that the link comes up for good
*once the world is kind*. In `PmuDemo` nothing is assumed of the engine, in
`RadarBringUp` nothing of the sensor. Strong fairness appears in `IdlePm` (idle thread,
M55) and `SleepShell` (the three threads): their steps are disabled while an
unmasked interrupt waits to be served, and it is assumed that interrupts which
keep coming do not keep a core from its threads for ever. Nothing stronger than
the kernel's own scheduling is asked of priorities: those are guards.

CHECK_DEADLOCK is off where the system really stops: `radar`, `bringup` and `pmu`
(`main()` returns or sleeps for ever), `wifi` (a link that is up has nothing left to do
once the troubles are used up), `host` (all frames received, all faults used)
and `shell` (without the heartbeat, a deep sleep does not end: a finding).

## 4. Findings

`shell_early` checks one statement of the code about itself and finds it violated. The
others were met while modelling; `PROJECT.json` quotes the lines. Where
one limits a property, the property states exactly what is left.

1. `pm_init()` of app 07a forgets a mode switched to while `main()` still sleeps
   between its bring-up steps (`shell_early`). That is all it can forget: no other
   step makes a true report false (`OnlyInitForgets`), and once `main()` is over a
   true report stays true (`RealForGood`).
2. PLL strategy, ULP to HP: the intermediate of `pm_syspm_hp_cb` is 75 MHz whatever the
   voltage (`RetuneStaysInside` excepts that step).
3. PLL strategy: after a failed lock past the voltage step, the command for the
   reported mode is a no-op although the SoC is not in it. The failure path
   prints on a stale baud divider, and so does everything after it until a switch
   succeeds (`ConsoleReadable` is stated for `rc = "ok"`). Without any failure, the
   tail of "switching to ..." may still leave at the stale rate, from the shell's
   ring, against "No diagnostic bytes may be emitted" in between; `ConsoleReadable`
   says that nothing else does.
   What a failure leaves is nobody's operating point, not another mode's
   (`OutcomeIsKnown`).
4. Radar: one burst that ends a frame late stops the stream, despite the
   announced slack of ten (`StopsOnlyWhenLate`).
5. `udp stop` says "Stopped" after a join that timed out (`ReuseOnlyWhenGone` excepts such
   a sender); `udp server` with a bad address keeps `configured`.
6. `wifi_connect_wait_up()` returns -EAGAIN early; `wifi_connect_start()` never fails as
   its header says.
7. `trans_down()` of app 07 restores 200 MHz when the buck is late, although the LP
   profile stays written, and interrupts come back; `hp` is then a no-op
   (`ClockFitsRail`, `MaskCoversTransition`; `OutcomeIsKnown` says what is left, as in 3).
   `ulp` is refused, after the LEDs have shown it.
8. App 07a: the heartbeat outranks the shell, against its comment, and it, not the
   handler's own `k_msleep(20)`, is what ends a deep sleep (`DeepSleepWakes` is stated
   for a heartbeat that runs). The CM55 is released before the PPC is
   opened. `irq_lock()` is not PRIMASK.
9. App 02: once substate 2 has been entered, substate 1 sleeps with the bias its
   comment keeps from it.
10. PMU: the initial request is written before, not after, DVFSEN, and the binding
    names a function the API does not have.
11. App 10 leaves its socket open on three error returns; `set_fifo_limit(0)` wraps
    to the whole FIFO (`RunsAsConfigured` says so); the logger of app 08 ends on JSON that is
    not an object.

## 5. Proofs

All theorems are checked by TLAPS with Z3, Zenon and LS4; none relies on a
concrete clock tree, FIFO size, mode set, pause, backoff or number of troubles.

* `Hf0Divider_proofs`, from `CeilingAssumption` and `DivideAssumption` (each mode's
  divided clock fits its ceiling, ceilings grow with the mode, HP is undivided,
  dividers differ). `ClockInWindow` is not inductive: it says nothing of where
  the rail is when the divider moves. `ControlInv` says for each control point
  where voltage, trim and divider are; it is inductive with `TypeOK`. The
  safety properties follow from it by arithmetic on the ceilings, and
  `SwitchIsAtomic`, the refinement of `ModeSwitch`, from it step by step: only
  the return to `idle` changes what the abstract specification sees. Since a step
  of `ModeSwitch` is one of `SwitchOutcome`, this strategy implements that as well
  (`OutcomeAlwaysKnown`), like the other two.
* `PllRetune_proofs`, from `FrequencyAssumption`. `ConsoleInv` (between the flush and
  the retune nothing of TRACE or printk is in the FIFO, and nothing of the shell
  while interrupts are off, unless the transition failed) gives the console
  results, for a ring of any size; `EnvelopeInv` (which clock is possible at which control
  point and voltage) gives `RetuneStaysInside` and, for the case that one leaves
  out, `RetuneWorstCase`: hp_cb at the ULP voltage, and a voltage step that fails
  after it, leave the PLL at the LP intermediate and never above. `MayFail` is
  arbitrary.
  `OutcomeInv` says what a transition that failed, or never locked, leaves: a PLL
  that is at no mode's frequency. From it `PllOutcomeAlwaysKnown`, the refinement of
  `SwitchOutcome`; it needs the intermediates to be no mode's frequency, as they are
  in the code, and the assumption says so. `SwitchAlwaysBounded` counts the steps of
  `pm_switch_to()` down, those of the UART and of the TX interrupt included: each flush
  may wait for bytes the ring sends after it, but the ring is finite and nobody
  fills it meanwhile.
* `Radar_proofs`. For the loop, from `SizeAssumption`: `PacketIsItsFrame` rests on a
  status invariant: as long as the sticky bit is clear, nothing was lost and
  the read position between bursts is a frame boundary. `StopsOnlyWhenLate` rests on
  a timing invariant: while the loop keeps up, the FIFO holds less than a frame
  when the sensor writes, and a full one comes with its edge (`FrameIsAnnounced`).
  For the bring-up,
  from `BringUpAssumption`, four invariants, each inductive with the ones before it:
  `ReadyInv` (a driver that came up has line, clock and pin), `ResetInv` (which reset
  may still be under way where: without it, a late SW reset could undo the
  table of a running sensor), `ConfigInv` (how far the table and the limit have
  got) and `StopInv`. `Cref`'s arithmetic is three lemmas, the wrapping one included.
  `ResetAlwaysBounded` is the safety half of `ResetReturns`.
* `SecureSwitch_proofs`, from `SecureAssumption`. The trim tables are evaluated by
  lemmas about the last write to a register: the post table of LP to HP writes
  all nine, the two of HP to LP write all nine together, so what a failed
  transition left behind cannot survive a success. `SwitchInv` says for each control
  point where mask, buck, divider and trims are; `CommitIsComplete`,
  `MaskCoversTransition` and `ClockFitsRail` follow. `MaskAlwaysBounded` counts the steps
  to `pm_irq_restore()` down: interrupts stay off for the transition and no longer,
  on every error path. `DividerInv` (outside of a call the
  divider is the reported mode's, since every failure puts it back) gives the
  refinement of `SwitchOutcome`; it needs the two dividers to differ.
* `Udp_proofs`. For the sender, which has no parameters: `ThreadInv` relates the
  flag, the step of the command, the place of the thread and an abandoned join;
  `IdleMeansGone`, which no run repeats, is proved with it. `StopAlwaysBounded` is
  the safety half of `SenderEnds`. For the receiver, from `HostAssumption` (the space
  is not empty), for any number of frames and faults and any network: `SpanInv`
  bounds how far anything in flight is ahead of or behind the last frame received, so
  that the lemmas on `%` determine the receiver's gap: the distance of the two
  frames, and a whole space more when it is not positive. `CountInv`, which adds the
  state before the first packet, then gives `LateCostsSpace`. `LossIsExact` is the case
  in which nothing was late.
* `Pm_proofs`. For app 02, from `IdleAssumption`: `SleepHasWake` is not inductive; it
  needs to know that a deadline is armed or has fired from the moment main()
  sleeps (`TickInv`, which goes back to the boot hook), that the tick is not served
  between the policy and WFI (`MaskInv`), and that main() sleeps there (`WaitInv`).
  `M55StaysDown` needs SysTick to be stopped before the mask goes up (`QuietInv`).
  For the PMU, from `PmuAssumption`, `DemoAssumption` and `ScriptAssumption` (after the
  injected request only P0 is asked for, as `main()` does): `EngineInv` (nothing is
  under way before DVFSEN, and table and NUMSTATES stay after it) gives
  `OnlyProgrammed`. `CleanMeansThere` needs `ServedInv`: what becomes of a request at each
  phase of the engine, an earlier one that a wait gave up on included.
  `DemoRecovers` needs `RecoverInv`: a wait that did not time out leaves nothing
  pending above NUMSTATES that could set ERROR again once it is cleared.
  `DemoAlwaysBounded` counts the steps of main() down, 7 for each switch of its script.
* `SleepShell_proofs`, from `ShellAssumption`. `OnlyItMoves` is the shape of a thread's
  step; `SleepInv` says where the heartbeat is whenever the shell is inside its
  window: not ready, since it outranks the shell, so armed or pending. `PpcInv`
  says that the PPC answers with errors only between main()'s two calls, and that
  BASEPRI is up there. `ReportStep` looks at the mode bookkeeping step by step: only
  `pm_init()` can make a true report false, and a strategy that has succeeded
  keeps its result until its commit. `InitAloneForgets`, `RealUntilInit` and
  `RealForGood` follow.
* `WifiLink_proofs`, from `BackoffAssumption`. Its invariants relate queues, so they
  follow the items one by one: `TodoInv` (what is left of a callback is a suffix of
  an event's steps), `TokenIInv` with it; `RetryIInv` (there is exactly one owner of the next
  attempt: the item, the work function, an event or a step) gives `NeverStranded` and
  `OneAttempt`; `AddressIInv` (which queued event last spoke of the address) gives
  `LinkFollowsAddress`. `BackoffInv` says what of a callback is over when an attempt
  starts, and gives `BackoffUnshared`.

Proved and in no run, since each run has only the properties it needs: the
refinement `OutcomeIsKnown` of `SecureSwitch` and of `Hf0Divider`, `SuccessReachesTarget` of
`PllRetune` (beside the refinement it says where voltage and trim are after a failed
lock), `RetuneWorstCase`, `MaskIsBounded`, `OnlyInitForgets`, and what the liveness properties leave to
safety: `SwitchIsBounded`, `FrameIsAnnounced`, `M55StaysDown`, `DemoIsBounded`, `ResetIsBounded` and
`StopIsBounded`. TLC agrees with each of them on the
instances of section 3; adding its name to the cfg repeats that.

Model-checked only: the nine liveness properties (`CommandReturns`, `KeepsStreaming`,
`SenderEnds`, `ReconnectsInTheEnd`, `DemoEnds`, `BlinksForever`, `M55Parks`, `HeartbeatGoesOn`,
`ResetReturns`), since TLAPS cannot reason about fairness and ENABLED. What each of
them rests on is a theorem: steps that only lead forward (`SwitchIsBounded`,
`StopIsBounded`, `DemoIsBounded`, `ResetIsBounded`), and a cause that is there whenever the
thread waits (`FrameIsAnnounced`, `NeverStranded`, `SleepHasWake`, `DeepSleepWakes`) or that is gone
for good (`M55StaysDown`). Every safety invariant and every action property of the
passing runs is a theorem.

## 6. Not modelled

Wall-clock time, voltages and currents as numbers, the PDL's own register
sequences, message texts, counters that are only printed, the byte unpacking
of the radar driver, its test mode and raw register calls (no application uses
them), the PMU's raw control writes, the one-shot ops of app 07's partition
(ping, retune, probe), the straight-line boot register sequences, the
Layer-B writes in which the sleep commands of apps 06 and 07 differ,
measurement scripts, plotting, and the examples. Single reasons are in
`PROJECT.json`.

## 7. What is left

1. The sequence numbers of `RadarStream` and `HostReceiver` composed in one module: they
   share only `build_packet()`'s counter, which `SendFrame` moves for every frame.
2. The set-up that precedes `DemoIsBounded` (an application that programs its own
   table); that it ends is part of `DemoEnds`, which TLC checks.
3. The failure half-way of HP <-> ULP inside the PDL, and net_mgmt events that are
   dropped: both leave the assumptions named above.
