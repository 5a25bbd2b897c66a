------------------------------ MODULE PmuDemo ------------------------------
(***************************************************************************)
(* App 05: main() walks the P-state table, asks for a P-state above        *)
(* NUMSTATES, clears the error and goes back to P0, on the driver of       *)
(* PmuDvfs.  Before it, an application whose devicetree leaves that to it  *)
(* programs the table and enables DVFS, as the binding says it must.       *)
(***************************************************************************)
EXTENDS PmuDvfs, Sequences

CONSTANTS Script,  \* the targets main() asks for, in order
          BadP,    \* the one it injects
          MaxFaults \* bound on transitions the engine gives up by itself

ASSUME DemoAssumption ==
  Script \in Seq(Pstates) /\ BadP \in Pstates /\ MaxFaults \in Nat

\* main() injects BadP after its walk; from there on it asks for P0 only.
ASSUME ScriptAssumption ==
  \A i \in 1..Len(Script) :
    Script[i] = 0 \/ \E j \in i..Len(Script) : Script[j] = BadP

VARIABLES pc, at,    \* main(): control point, place in Script
          expired,   \* the k_timepoint of the running wait has passed
          result,    \* what wait_idle returned last
          seen,      \* what dump_state has read: P-state, mV, MHz
          missed,    \* history: some wait returned -ETIMEDOUT
          faults     \* history: transitions given up

mainVars == <<pc, at, expired, result, seen, missed>>
demoVars == <<pmuVars, mainVars, faults>>

Target == Script[at]

DemoTypeOK ==
  /\ dt \in DtConfigs
  /\ en \in BOOLEAN /\ modesel \in {"register", "signal"}
  /\ num \in 1..MaxPstates
  /\ req \in Pstates /\ goal \in Pstates /\ curr \in Pstates
  /\ table \in [Pstates -> Levels] /\ volt \in Levels /\ freq \in Levels
  /\ pending \in BOOLEAN /\ phase \in Phases /\ error \in BOOLEAN
  /\ pc \in {"init", "setup", "request", "poll", "status", "volt", "freq",
             "clear", "done", "notready"}
  /\ at \in 1..(Len(Script) + 1)
  /\ expired \in BOOLEAN /\ missed \in BOOLEAN /\ faults \in 0..MaxFaults
  /\ result \in {"ok", "eio", "etimedout"}
  /\ seen \in [p : Pstates, mv : Levels, mhz : Levels]

DemoInit ==
  /\ PmuPowerOn
  /\ pc = "init" /\ at = 1
  /\ expired = FALSE /\ result = "ok" /\ missed = FALSE
  /\ seen = [p |-> 0, mv |-> 0, mhz |-> 0]
  /\ faults = 0

Goto(l) == pc' = l /\ UNCHANGED <<at, expired, result, seen, missed, faults>>

DeviceInit == pc = "init" /\ PmuInit /\ Goto(IF InitRefuses THEN "notready"
                                             ELSE "setup")

(* The application's own programming, when init left DVFS disabled. *)
ProgramEntry ==
  /\ pc = "setup" /\ ~en
  /\ \E p \in 0..(num - 1) :
       /\ table[p] = 0 /\ \A q \in 0..(p - 1) : table[q] # 0
       /\ SetPstateEntry(p)
  /\ Goto("setup")

\* Fewer states than devicetree says; there is an entry for each.
UseFewer == pc = "setup" /\ ~en /\ num > 1 /\ SetNumStates(num - 1) /\ Goto("setup")

SelectSignal ==
  pc = "setup" /\ ~en /\ modesel = "register" /\ SetMode("signal") /\ Goto("setup")

EnableDvfs ==
  /\ pc = "setup" /\ ~en
  /\ \A p \in 0..(num - 1) : table[p] # 0
  /\ Enable
  /\ Goto("setup")

SetupDone == pc = "setup" /\ en /\ Goto("request") /\ UNCHANGED pmuVars

(* main() *)
Request ==
  /\ pc = "request" /\ at <= Len(Script)
  /\ RequestPstate(Target)
  /\ pc' = "poll"
  /\ UNCHANGED <<at, expired, result, seen, missed, faults>>

(* Two mistaken forms of the next operator: BUSY alone is looked at; the
   timepoint is not looked at. *)
WaitIdleBusyOnly ==
  /\ pc = "poll"
  /\ \/ phase = "idle" /\ result' = IF error THEN "eio" ELSE "ok"
     \/ phase # "idle" /\ expired /\ result' = "etimedout"
  /\ pc' = "status"
  /\ expired' = FALSE
  /\ missed' = (missed \/ result' = "etimedout")
  /\ UNCHANGED <<pmuVars, at, seen, faults>>

WaitIdleForever ==
  /\ pc = "poll" /\ Idle
  /\ result' = IF error THEN "eio" ELSE "ok"
  /\ pc' = "status"
  /\ expired' = FALSE
  /\ UNCHANGED <<pmuVars, at, seen, missed, faults>>

\* One reading of DVFSSTATUS; the timepoint is looked at after it.
WaitIdle ==
  /\ pc = "poll"
  /\ \/ Idle /\ result' = IF error THEN "eio" ELSE "ok"
     \/ ~Idle /\ expired /\ result' = "etimedout"
  /\ pc' = "status"
  /\ expired' = FALSE
  /\ missed' = (missed \/ result' = "etimedout")
  /\ UNCHANGED <<pmuVars, at, seen, faults>>

Expires ==
  /\ pc = "poll" /\ ~expired
  /\ expired' = TRUE
  /\ UNCHANGED <<pmuVars, pc, at, result, seen, missed, faults>>

\* dump_state: three registers in three accesses
ReadStatus ==
  /\ pc = "status" /\ pc' = "volt"
  /\ seen' = [seen EXCEPT !.p = curr]
  /\ UNCHANGED <<pmuVars, at, expired, result, missed, faults>>
ReadVolt ==
  /\ pc = "volt" /\ pc' = "freq"
  /\ seen' = [seen EXCEPT !.mv = volt]
  /\ UNCHANGED <<pmuVars, at, expired, result, missed, faults>>
ReadFreq ==
  /\ pc = "freq"
  /\ seen' = [seen EXCEPT !.mhz = freq]
  /\ pc' = IF Target = BadP THEN "clear"
           ELSE IF at = Len(Script) THEN "done" ELSE "request"
  /\ at' = IF pc' = "request" THEN at + 1 ELSE at
  /\ UNCHANGED <<pmuVars, expired, result, missed, faults>>

\* After the injected request main() clears ERROR, whatever the wait returned.
ClearInjected ==
  /\ pc = "clear"
  /\ ClearError
  /\ pc' = "request" /\ at' = at + 1
  /\ UNCHANGED <<expired, result, seen, missed, faults>>

Setup == ProgramEntry \/ UseFewer \/ SelectSignal \/ EnableDvfs \/ SetupDone
Main == DeviceInit \/ Setup \/ Request \/ WaitIdle \/ ReadStatus \/ ReadVolt
        \/ ReadFreq \/ ClearInjected
Engine ==
  \/ (Accept \/ MoveVolt \/ MoveFreq \/ LoadLevel) /\ UNCHANGED <<mainVars, faults>>
  \/ /\ Fail /\ faults < MaxFaults /\ faults' = faults + 1
     /\ UNCHANGED mainVars

DemoNext == Main \/ Expires \/ Engine

DemoSpec == DemoInit /\ [][DemoNext]_demoVars

(* main() runs and time passes; of the engine nothing is assumed. *)
DemoFairSpec == DemoSpec /\ WF_demoVars(Main) /\ WF_demoVars(Expires)
-----------------------------------------------------------------------------
(* A switch whose wait returned 0 has reached its target, and what
   dump_state prints for it is the target's P-state, voltage and frequency,
   although an earlier wait may have timed out on a transition that completed
   under this one (pmu.c wait_idle: "Transition completed cleanly"). *)
CleanMeansThere ==
  /\ pc \in {"status", "volt", "freq"}
  /\ result = "ok" /\ modesel = "register"
  => /\ req = Target /\ curr = Target /\ Reached(Target)
     /\ pc \in {"volt", "freq"} => seen.p = Target
     /\ pc = "freq" => seen.mv = table[Target]

(* The engine never works towards an entry that nobody programmed: pmu_init
   refuses a table that does not fill num-pstates entries, and a request
   above NUMSTATES is never started. *)
OnlyProgrammed ==
  en => /\ \A p \in 0..(num - 1) : table[p] # 0
        /\ phase # "idle" => goal < num

(* The demonstration recovers from the request it injects: if no wait timed
   out and the engine gave nothing up, the last switch, the one after
   clear_error, returns 0 with ERROR clear, which in software mode is at P0 by
   CleanMeansThere. *)
DemoRecovers ==
  pc = "done" /\ ~missed /\ faults = 0 => result = "ok" /\ ~error

(* How far main() is from its end once DVFS is set up: every step of its own
   and every timepoint that passes brings it nearer, and nothing that the
   engine does takes it back, so that it takes 7 steps for a switch. *)
InSwitch == {"request", "poll", "status", "volt", "freq", "clear"}

StepsLeft ==
  7 * (Len(Script) - at) +
  CASE pc = "request" -> 7
    [] pc = "poll"    -> IF expired THEN 5 ELSE 6
    [] pc = "status"  -> 4 [] pc = "volt" -> 3 [] pc = "freq" -> 2
    [] pc = "clear"   -> 1 [] OTHER       -> 0

DemoIsBounded ==
  [][ (pc \in InSwitch) => \/ StepsLeft' \in 0..(StepsLeft - 1)
                           \/ UNCHANGED mainVars ]_demoVars

(* main() ends, even on an engine that never answers. *)
DemoEnds == <>(pc \in {"done", "notready"})
=============================================================================
