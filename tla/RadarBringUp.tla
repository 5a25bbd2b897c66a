---------------------------- MODULE RadarBringUp ----------------------------
(***************************************************************************)
(* The life of a radar sensor around its streaming loop: the clock fix and *)
(* the driver's init, then main() of app 09 (a number of frames, stop) or  *)
(* of app 10 (Wi-Fi, socket, frames until something fails, stop), over a   *)
(* sensor that performs the resets it is asked for in its own time.        *)
(*                                                                         *)
(* Any SPI transfer may fail; one that does has no effect on the sensor.   *)
(* The streaming loop itself is RadarStream's subject.                     *)
(***************************************************************************)
EXTENDS Naturals, Sequences

CONSTANTS
  radar_regs,         \* the registers of the configurator's table, in order
  FIFO_SIZE,          \* FIFO words
  Limits,             \* what set_fifo_limit() is asked for
  SOFT_RESET_TIMEOUT, \* polls of a reset bit
  NUM_FRAMES

ASSUME BringUpAssumption ==
  /\ radar_regs \in Seq(STRING)
  /\ \E i \in 1..Len(radar_regs) : radar_regs[i] = "SFCTL"
  /\ FIFO_SIZE \in Nat \ {0}
  /\ Limits \subseteq Nat
  /\ SOFT_RESET_TIMEOUT \in Nat \ {0}
  /\ NUM_FRAMES \in Nat

VARIABLES
  app,       \* "app09" or "app10"
  hf10,      \* CLK_HF10 runs
  stage,     \* where init and then main() is
  ready,     \* the driver's init succeeded
  wired,     \* the semaphore and the IRQ callback are in place
  n,         \* table entries written, frames read
  tmp,       \* the register read back
  timeout,   \* polls left
  ctx,       \* who resets: "config" or "stop"
  limit,     \* samples asked for
  sock,      \* app 10: the socket is open
  (* the sensor *)
  reset,     \* its reset pin is asserted
  resetting, \* reset bits in MAIN that have not cleared
  running,   \* it chirps
  regs,      \* registers that hold the table's value
  sfctl      \* FIFO_CREF and MISO_HS_READ

host == <<app, hf10, ready, wired, limit, sock>>
sensorVars == <<reset, resetting, running, regs, sfctl>>
bringUpVars == <<host, stage, n, tmp, timeout, ctx, sensorVars>>

RESET_SW == "SW"
RESET_FSM == "FSM"
SFCTL == [cref : 0..(FIFO_SIZE - 1), hs : BOOLEAN]
SfctlReset == [cref |-> 0, hs |-> FALSE]

InitPoints ==
  {"spi", "assert", "release", "mode", "chip_id", "wire", "callback"}
ResetPoints == {"reset_read", "reset_write", "reset_poll"}
EndPoints == {"failed", "done"}

BringUpTypeOK ==
  /\ app \in {"app09", "app10"}
  /\ hf10 \in BOOLEAN /\ ready \in BOOLEAN /\ wired \in BOOLEAN
  /\ stage \in {"hf10", "main", "net", "sock", "config", "regs", "limit_read",
             "limit_write", "start_read", "start_write", "wait", "get",
             "stop", "close"} \cup InitPoints \cup ResetPoints \cup EndPoints
  /\ n \in Nat
  /\ tmp \in SFCTL /\ sfctl \in SFCTL
  /\ timeout \in 0..SOFT_RESET_TIMEOUT
  /\ ctx \in {"config", "stop"}
  /\ limit \in Limits
  /\ sock \in BOOLEAN /\ reset \in BOOLEAN /\ running \in BOOLEAN
  /\ resetting \subseteq {RESET_SW, RESET_FSM}
  /\ regs \subseteq {radar_regs[i] : i \in 1..Len(radar_regs)}

\* A sensor that lost power with the board: nothing configured.
BringUpInit ==
  /\ app \in {"app09", "app10"}
  /\ hf10 \in BOOLEAN /\ ready = FALSE /\ wired = FALSE
  /\ stage = "hf10" /\ n = 0 /\ tmp = SfctlReset
  /\ timeout = 0 /\ ctx = "config"
  /\ limit \in Limits /\ sock = FALSE
  /\ reset = FALSE /\ resetting = {} /\ running = FALSE
  /\ regs = {} /\ sfctl = SfctlReset

Step(from, to) == stage = from /\ stage' = to
Spi(from, to) == hf10 /\ Step(from, to)
Locals == <<n, tmp, timeout, ctx>>

(* Driver init *)
\* ensure_clk_hf10_enabled, compiled into both apps; that it fails is not
\* looked at.
EnsureClkHf10 ==
  /\ Step("hf10", "spi")
  /\ hf10' \in {hf10, TRUE}
  /\ UNCHANGED <<app, ready, wired, limit, sock, Locals, sensorVars>>

\* Any device not ready, GPIO call or transfer that fails, or another chip.
InitFails ==
  /\ stage \in InitPoints /\ stage' = "main"
  /\ UNCHANGED <<host, Locals, sensorVars>>

\* spi_is_ready, the reset pin as an output, bgt60tr13c_hard_reset
HardReset ==
  /\ \/ Step("spi", "assert") /\ reset' = TRUE
        /\ UNCHANGED <<regs, sfctl, running>>
     \/ Step("assert", "release") /\ reset' = TRUE
        /\ regs' = {} /\ sfctl' = SfctlReset /\ running' = FALSE
     \/ Step("release", "mode") /\ reset' = FALSE
        /\ UNCHANGED <<regs, sfctl, running>>
  /\ UNCHANGED <<host, Locals, resetting>>

SetSpiMode ==
  /\ Spi("mode", "chip_id")
  /\ sfctl' = SfctlReset
  /\ UNCHANGED <<host, Locals, reset, resetting, running, regs>>

VerifyChipId ==
  /\ Spi("chip_id", "wire")
  /\ UNCHANGED <<host, Locals, sensorVars>>

\* The semaphore before the interrupt, the callback last.
WireIrq ==
  /\ \/ Step("wire", "callback") /\ UNCHANGED <<ready, wired>>
     \/ Step("callback", "main") /\ wired' = TRUE /\ ready' = TRUE
  /\ UNCHANGED <<app, hf10, limit, sock, Locals, sensorVars>>

DriverInit ==
  EnsureClkHf10 \/ InitFails \/ HardReset \/ SetSpiMode \/ VerifyChipId \/ WireIrq

(* main() *)
DeviceIsReady ==
  /\ Step("main", IF ~ready THEN "failed"
                  ELSE IF app = "app10" THEN "net" ELSE "config")
  /\ UNCHANGED <<host, Locals, sensorVars>>

\* wifi_connect_start may fail; the wait for the link may only time out.
StartWifi ==
  /\ Step("net", "sock") \/ Step("net", "failed")
  /\ UNCHANGED <<host, Locals, sensorVars>>

\* udp_socket_open closes what it opened when it fails.
OpenSocket ==
  /\ \/ Step("sock", "config") /\ sock' = TRUE
     \/ Step("sock", "failed") /\ UNCHANGED sock
  /\ UNCHANGED <<app, hf10, ready, wired, limit, Locals, sensorVars>>

\* bgt60tr13c_config starts with a SW reset.
Config ==
  /\ Step("config", "reset_read") /\ ctx' = "config"
  /\ UNCHANGED <<host, n, tmp, timeout, sensorVars>>

ResetType == IF ctx = "config" THEN RESET_SW ELSE RESET_FSM
AfterReset == IF ctx = "config" THEN "regs" ELSE "close"
ResetFailed == IF ctx = "stop" THEN "close" ELSE "failed"

\* A mistaken form of the next operator: the bits are not polled.
SoftResetUnpolled ==
  /\ \/ Spi("reset_read", "reset_write") /\ UNCHANGED <<resetting, timeout>>
     \/ /\ Spi("reset_write", AfterReset)
        /\ resetting' = resetting \cup {ResetType} /\ UNCHANGED timeout
  /\ n' = 0 /\ UNCHANGED <<host, tmp, ctx, reset, running, regs, sfctl>>

\* A mistaken form of the next operator: the budget is not counted down.
SoftResetForever ==
  /\ \/ Spi("reset_read", "reset_write") /\ UNCHANGED <<resetting, timeout>>
     \/ /\ Spi("reset_write", "reset_poll")
        /\ resetting' = resetting \cup {ResetType}
        /\ timeout' = SOFT_RESET_TIMEOUT
     \/ /\ ResetType \notin resetting /\ Spi("reset_poll", AfterReset)
        /\ UNCHANGED <<resetting, timeout>>
  /\ n' = 0 /\ UNCHANGED <<host, tmp, ctx, reset, running, regs, sfctl>>

\* bgt60tr13c_soft_reset; its last poll may be -ETIMEDOUT.
SoftReset ==
  /\ \/ Spi("reset_read", "reset_write") /\ UNCHANGED <<resetting, timeout>>
     \/ /\ Spi("reset_write", "reset_poll")
        /\ resetting' = resetting \cup {ResetType}
        /\ timeout' = SOFT_RESET_TIMEOUT
     \/ /\ ResetType \notin resetting /\ Spi("reset_poll", AfterReset)
        /\ UNCHANGED <<resetting, timeout>>
     \/ /\ ResetType \in resetting /\ timeout > 1
        /\ Spi("reset_poll", "reset_poll")
        /\ timeout' = timeout - 1 /\ UNCHANGED resetting
     \/ /\ ResetType \in resetting /\ timeout = 1
        /\ Spi("reset_poll", ResetFailed)
        /\ timeout' = 0 /\ UNCHANGED resetting
  /\ n' = 0 /\ UNCHANGED <<host, tmp, ctx, reset, running, regs, sfctl>>

\* A transfer of it fails: the end of the bring-up; what the stop returns is
\* not looked at.
ResetFails ==
  /\ stage \in ResetPoints /\ stage' = ResetFailed /\ timeout' = 0
  /\ UNCHANGED <<host, n, tmp, ctx, sensorVars>>

\* The table, entry by entry; SFCTL without FIFO_CREF and MISO_HS_READ.
WriteTable ==
  /\ IF n < Len(radar_regs)
     THEN /\ Spi("regs", "regs") /\ n' = n + 1
          /\ regs' = regs \cup {radar_regs[n + 1]}
          /\ sfctl' = IF radar_regs[n + 1] = "SFCTL" THEN SfctlReset ELSE sfctl
     ELSE Step("regs", "limit_read") /\ UNCHANGED <<n, regs, sfctl>>
  /\ UNCHANGED <<host, tmp, timeout, ctx, reset, resetting, running>>

\* num_samples/2 - 1 in the field; unsigned, it wraps for 0.
Cref(samples) == ((samples \div 2) + FIFO_SIZE - 1) % FIFO_SIZE
LimitValid(samples) == samples % 2 = 0 /\ samples \div 2 <= FIFO_SIZE

\* bgt60tr13c_set_fifo_limit
SetFifoLimit ==
  /\ \/ /\ LimitValid(limit) /\ Spi("limit_read", "limit_write")
        /\ tmp' = sfctl /\ UNCHANGED sfctl
     \/ /\ Spi("limit_write", "start_read")
        /\ sfctl' = [tmp EXCEPT !.cref = Cref(limit)] /\ UNCHANGED tmp
  /\ UNCHANGED <<host, n, timeout, ctx, reset, resetting, running, regs>>

\* bgt60tr13c_start_frame(true)
StartFrame ==
  /\ \/ Spi("start_read", "start_write") /\ UNCHANGED running
     \/ Spi("start_write", "wait") /\ running' = TRUE
  /\ n' = 0
  /\ UNCHANGED <<host, tmp, timeout, ctx, reset, resetting, regs, sfctl>>

\* A call that fails: main() returns, the socket as it is.
CallFails ==
  /\ stage \in {"regs", "limit_read", "limit_write", "start_read",
               "start_write"}
  /\ stage' = "failed"
  /\ UNCHANGED <<host, Locals, sensorVars>>

(* The loop: app 09 reads NUM_FRAMES, app 10 goes on until one fails. *)
WaitFrame ==
  /\ \/ app = "app09" /\ n = NUM_FRAMES /\ Step("wait", "stop")
     \/ /\ app = "app09" => n < NUM_FRAMES
        /\ Step("wait", "get") \/ Step("wait", "stop")
  /\ UNCHANGED <<host, Locals, sensorVars>>

GetFrame ==
  /\ \/ Spi("get", "wait") /\ n' = (IF app = "app09" THEN n + 1 ELSE n)
     \/ Step("get", "stop") /\ UNCHANGED n
  /\ UNCHANGED <<host, tmp, timeout, ctx, sensorVars>>

\* A mistaken form of the next operator: the loop ends, the sensor goes on.
StopNothing ==
  /\ Step("stop", "close") /\ ctx' = "stop"
  /\ UNCHANGED <<host, n, tmp, timeout, sensorVars>>
\* start_frame(false): an FSM reset
Stop ==
  /\ Step("stop", "reset_read") /\ ctx' = "stop"
  /\ UNCHANGED <<host, n, tmp, timeout, sensorVars>>

\* app 10 closes its socket and returns; app 09 sleeps for ever.
Close ==
  /\ Step("close", "done") /\ sock' = FALSE
  /\ UNCHANGED <<app, hf10, ready, wired, limit, Locals, sensorVars>>

Main ==
  DeviceIsReady \/ StartWifi \/ OpenSocket \/ Config \/ SoftReset \/ ResetFails
  \/ WriteTable \/ SetFifoLimit \/ StartFrame \/ CallFails \/ WaitFrame
  \/ GetFrame \/ Stop \/ Close

(* The sensor: a reset takes effect when its bit clears. *)
SensorResets ==
  /\ \/ /\ RESET_SW \in resetting /\ resetting' = resetting \ {RESET_SW}
        /\ regs' = {} /\ sfctl' = SfctlReset
     \/ /\ RESET_FSM \in resetting /\ resetting' = resetting \ {RESET_FSM}
        /\ UNCHANGED <<regs, sfctl>>
  /\ running' = FALSE
  /\ UNCHANGED <<host, stage, Locals, reset>>

BringUpNext == DriverInit \/ Main \/ SensorResets
BringUpSpec == BringUpInit /\ [][BringUpNext]_bringUpVars
(* The polling thread executes; the sensor may never clear a bit, and no
   transfer need fail. *)
BringUpFairSpec == BringUpSpec /\ WF_bringUpVars(SoftReset)
-----------------------------------------------------------------------------
(* A sensor that chirps has the whole table, which the SW reset has not
   undone, raises its IRQ at the samples asked for, on a line that is wired
   (bgt60tr13c_config: the poll; FIFO_CREF cleared, "user sets it later").
   Whoever asks for no samples gets the whole FIFO. *)
Threshold == 2 * (sfctl.cref + 1)
AskedFor == IF limit = 0 THEN 2 * FIFO_SIZE ELSE limit
RunsAsConfigured ==
  running => /\ regs = {radar_regs[i] : i \in 1..Len(radar_regs)}
             /\ Threshold = AskedFor
             /\ ~sfctl.hs
             /\ wired /\ hf10 /\ ~reset
             /\ RESET_SW \notin resetting

(* Once main() is over, a sensor chirps only if its stop failed. *)
NobodyLeftRunning ==
  stage \in EndPoints /\ running => stage = "done" /\ timeout = 0

(* A soft reset returns whatever the sensor does (SOFT_RESET_TIMEOUT). *)
ResetReturns == stage \in ResetPoints ~> stage \notin ResetPoints

(* The other half of that promise: a reset takes SOFT_RESET_TIMEOUT + 2
   transfers at most, since each of them leaves it or leaves fewer. *)
PollsLeft ==
  CASE stage = "reset_read"  -> SOFT_RESET_TIMEOUT + 2
    [] stage = "reset_write" -> SOFT_RESET_TIMEOUT + 1
    [] OTHER                 -> timeout

ResetIsBounded ==
  [][ {stage, stage'} \subseteq ResetPoints
      => PollsLeft' < PollsLeft \/ UNCHANGED <<stage, timeout>> ]_bringUpVars
=============================================================================
