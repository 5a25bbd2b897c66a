------------------------------ MODULE PmuDvfs ------------------------------
(***************************************************************************)
(* The PMU DVFS driver (modules/pmu, pmu.c) over the DVFS engine it        *)
(* programs.  An operating point of the P-state table (a frequency and a   *)
(* voltage) is a level: 0 is the reset value of an entry nobody has        *)
(* programmed, and of the outputs of a disabled engine.  The engine is     *)
(* external: it is modelled from what the driver and its binding say of    *)
(* DVFSSTATUS, and it may fail or stall at any time.                       *)
(***************************************************************************)
EXTENDS Naturals

CONSTANTS MaxPstates,  \* PMU_MAX_PSTATES, entries of the hardware table
          DtConfigs    \* devicetree nodes: [num, len, enable, init]

ASSUME PmuAssumption ==
  /\ MaxPstates \in Nat \ {0}
  /\ DtConfigs \subseteq
       [num : 1..MaxPstates, len : Nat, enable : BOOLEAN, init : Nat]

VARIABLES dt,       \* the devicetree node of this build
          en, modesel, num,     \* DVFSCTRL: DVFSEN, MODESEL, NUMSTATES
          req,                  \* DVFSPSTATEREQ
          table,                \* DVFSPSTATETABLE
          curr, pending, phase, error,   \* DVFSSTATUS
          goal,                 \* the entry the running transition goes to
          volt, freq            \* CURRVOLTMV and CURRFREQMHZ

ctrl == <<en, modesel, num>>
outputs == <<volt, freq>>
status == <<curr, pending, phase, error>>
pmuVars == <<dt, ctrl, req, table, status, goal, outputs>>

Phases == {"idle", "volt_up", "freq_up", "volt_down", "freq_down"}
Pstates == 0..(MaxPstates - 1)
Levels == 0..MaxPstates

\* The operating point the devicetree gives P-state p.
Level(p) == p + 1
Unprogrammed == [p \in Pstates |-> 0]

\* DVFSSTATUS as wait_idle looks at it
Idle == phase = "idle" /\ ~pending

(***************************************************************************)
(* The driver: one operator per entry of the API, each a register write.   *)
(***************************************************************************)
\* set_pstate_entry with a valid index
SetPstateEntry(p) ==
  /\ table' = [table EXCEPT ![p] = Level(p)]
  /\ UNCHANGED <<dt, ctrl, req, status, goal, outputs>>

SetNumStates(n) ==
  /\ n \in 1..MaxPstates
  /\ num' = n
  /\ UNCHANGED <<dt, en, modesel, req, table, status, goal, outputs>>

SetMode(m) ==
  /\ modesel' = m
  /\ UNCHANGED <<dt, en, num, req, table, status, goal, outputs>>

\* DVFSEN: the engine starts towards DVFSPSTATEREQ.
Enable ==
  /\ en' = TRUE
  /\ pending' = (modesel = "register")
  /\ UNCHANGED <<dt, modesel, num, req, table, curr, phase, error, goal,
                 outputs>>

\* request_pstate: the index is checked against the table, never against
\* NUMSTATES; in signal mode, or disabled, the engine takes no notice.
RequestPstate(p) ==
  /\ p < MaxPstates
  /\ req' = p
  /\ pending' = (pending \/ (en /\ modesel = "register"))
  /\ UNCHANGED <<dt, ctrl, table, curr, phase, error, goal, outputs>>

\* The same with a zero written to ERROR: a mistaken form.
ClearErrorZero ==
  /\ error' = error
  /\ UNCHANGED <<dt, ctrl, req, table, curr, pending, phase, goal, outputs>>

\* clear_error: ERROR is cleared by writing one to it.
ClearError ==
  /\ error' = FALSE
  /\ UNCHANGED <<dt, ctrl, req, table, curr, pending, phase, goal, outputs>>

(***************************************************************************)
(* pmu_init, run once before main(): what it refuses leaves the device not *)
(* ready.  The engine is disabled until the last write, so that the whole  *)
(* sequence is one step.                                                   *)
(***************************************************************************)
TableUnchecked == TRUE   \* a mistaken form of the next operator
TableFits == dt.len \in {0, 2 * dt.num}
InitRefuses ==
  \/ ~TableFits
  \/ dt.enable /\ (dt.len = 0 \/ dt.init >= dt.num)

\* The entries the loop over num_pstates fills from a table of dt.len cells.
Preloaded ==
  [p \in Pstates |-> IF p < dt.num /\ 2 * p + 1 < dt.len THEN Level(p) ELSE 0]

PmuInit ==
  /\ num' = IF TableFits THEN dt.num ELSE num
  /\ table' = IF TableFits THEN Preloaded ELSE table
  /\ req' = IF dt.enable /\ ~InitRefuses THEN dt.init ELSE 0
  /\ en' = (dt.enable /\ ~InitRefuses)
  /\ pending' = en'
  /\ modesel' = "register"
  /\ UNCHANGED <<dt, curr, phase, error, goal, outputs>>

(***************************************************************************)
(* The engine.                                                             *)
(***************************************************************************)
Reached(p) == volt = table[p] /\ freq = table[p]

\* A pending target is refused with ERROR, is there already, or is started:
\* up, the voltage goes first; down, the frequency does.
Accept ==
  /\ en /\ pending /\ phase = "idle"
  /\ pending' = FALSE
  /\ error' = (error \/ req >= num)
  /\ IF req < num /\ ~Reached(req)
     THEN /\ goal' = req
          /\ phase' = IF table[req] > volt THEN "volt_up" ELSE "freq_down"
          /\ UNCHANGED curr
     ELSE /\ curr' = IF req < num THEN req ELSE curr
          /\ UNCHANGED <<goal, phase>>
  /\ UNCHANGED <<dt, ctrl, req, table, outputs>>

MoveVolt ==
  /\ phase \in {"volt_up", "volt_down"}
  /\ volt' = table[goal]
  /\ IF phase = "volt_up"
     THEN phase' = "freq_up" /\ curr' = curr
     ELSE phase' = "idle" /\ curr' = goal
  /\ UNCHANGED <<dt, ctrl, req, table, pending, error, goal, freq>>

MoveFreq ==
  /\ phase \in {"freq_up", "freq_down"}
  /\ freq' = table[goal]
  /\ IF phase = "freq_down"
     THEN phase' = "volt_down" /\ curr' = curr
     ELSE phase' = "idle" /\ curr' = goal
  /\ UNCHANGED <<dt, ctrl, req, table, pending, error, goal, volt>>

\* TRANSTIMEOUT: the transition is given up where it stands.
Fail ==
  /\ phase # "idle"
  /\ phase' = "idle"
  /\ error' = TRUE
  /\ UNCHANGED <<dt, ctrl, req, table, curr, pending, goal, outputs>>

\* In signal mode a load level asks for a P-state.
LoadLevel ==
  /\ en /\ modesel = "signal" /\ ~pending
  /\ \E p \in 0..(num - 1) : req' = p
  /\ pending' = TRUE
  /\ UNCHANGED <<dt, ctrl, table, curr, phase, error, goal, outputs>>

PmuPowerOn ==
  /\ dt \in DtConfigs
  /\ en = FALSE /\ modesel = "register" /\ num = 1
  /\ req = 0
  /\ table = Unprogrammed
  /\ curr = 0 /\ pending = FALSE /\ phase = "idle" /\ error = FALSE
  /\ goal = 0
  /\ volt = 0 /\ freq = 0
=============================================================================
