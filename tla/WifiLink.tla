------------------------------ MODULE WifiLink ------------------------------
(***************************************************************************)
(* Wi-Fi bring-up and reconnection of app 10 (wifi_connect.c): one         *)
(* delayable work item on the system work queue asks for a connection, the *)
(* callbacks on the net_mgmt event thread move link_up, the semaphore, the *)
(* backoff and the work item, and main() waits for the link once.          *)
(*                                                                         *)
(* A callback runs step by step, with the work queue and main() between    *)
(* any two of them.  The driver and the DHCP client are external: a        *)
(* request that is accepted is answered by one CONNECT_RESULT, a lost      *)
(* association takes its address along, and no event is dropped.           *)
(*                                                                         *)
(* The world may misbehave Troubles times; then it is kind.                *)
(***************************************************************************)
EXTENDS Naturals, Sequences

CONSTANTS
  InitialMs,   \* RECONNECT_INITIAL_MS
  MaxMs,       \* RECONNECT_MAX_MS
  Troubles     \* bound: rejections, failures and losses in a behaviour

ASSUME BackoffAssumption ==
  /\ InitialMs \in Nat \ {0} /\ MaxMs \in Nat /\ InitialMs <= MaxMs
  /\ Troubles \in Nat

VARIABLES
  link_up,      \* the atomic wifi_connect_is_up() reads
  link_up_sem,  \* its count, 0 or 1
  backoff_ms,
  scheduled,    \* connect_work is delayed or queued
  work,         \* where connect_work_fn() is
  todo,         \* what the running callback has still to do
  main,         \* where wifi_connect_wait_up() is, or what it returned
  sta,          \* the driver's association
  bound,        \* DHCP has bound an address
  events,       \* net_mgmt's queue
  trouble       \* bound: misbehaviour so far

manager == <<link_up, link_up_sem, backoff_ms, scheduled>>
world   == <<sta, bound, events, trouble>>
vars    == <<manager, work, todo, main, world>>

Outstanding(event) == \E i \in DOMAIN events : events[i] = event
ToDo(step)         == \E i \in DOMAIN todo : todo[i] = step

Doubled(ms) == IF 2 * ms < MaxMs THEN 2 * ms ELSE MaxMs

-----------------------------------------------------------------------------
(***************************************************************************)
(* wifi_connect_start(): nothing but the first attempt is under way.       *)
(***************************************************************************)
Init ==
  /\ link_up = FALSE /\ link_up_sem = 0
  /\ backoff_ms = InitialMs
  /\ scheduled = TRUE /\ work = "idle" /\ todo = <<>>
  /\ main = "call"
  /\ sta = "idle" /\ bound = FALSE /\ events = <<>> /\ trouble = 0

Misbehave == trouble < Troubles /\ trouble' = trouble + 1

(***************************************************************************)
(* connect_work_fn().  The delay is over, or there was none; seconds long  *)
(* as it is, it outlasts the callback that asked for it.                   *)
(***************************************************************************)
WorkRuns ==
  /\ scheduled /\ work = "idle" /\ ~ToDo("double")
  /\ scheduled' = FALSE
  /\ work' = "connect"
  /\ UNCHANGED <<link_up, link_up_sem, backoff_ms, todo, main, world>>

\* No interface: try again later, at the same pace.
NoInterface ==
  /\ work = "connect"
  /\ Misbehave
  /\ scheduled' = TRUE
  /\ work' = "idle"
  /\ UNCHANGED <<link_up, link_up_sem, backoff_ms, todo, main, sta, bound,
                 events>>

(***************************************************************************)
(* net_mgmt(NET_REQUEST_WIFI_CONNECT) runs through the driver; its answer  *)
(* may be on its way, and handled, before the call is back.                *)
(***************************************************************************)
ConnectAccepted ==
  /\ work = "connect" /\ sta = "idle"
  /\ sta' = "joining"
  /\ work' = "accepted"
  /\ UNCHANGED <<manager, todo, main, bound, events, trouble>>

ConnectReturns ==
  /\ work = "accepted"
  /\ work' = "idle"
  /\ UNCHANGED <<manager, todo, main, world>>

\* A driver that is busy or connected always rejects, an idle one may.
ConnectRejected ==
  /\ work = "connect"
  /\ IF sta = "idle" THEN Misbehave ELSE UNCHANGED trouble
  /\ work' = "rejected"
  /\ UNCHANGED <<manager, todo, main, sta, bound, events>>

\* Mutant: a rejected request is only logged.
RetryNever ==
  /\ work = "rejected"
  /\ work' = "double"
  /\ UNCHANGED <<manager, todo, main, world>>

RetryLater ==
  /\ work = "rejected"
  /\ scheduled' = TRUE
  /\ work' = "double"
  /\ UNCHANGED <<link_up, link_up_sem, backoff_ms, todo, main, world>>

\* The work queue's read and write of backoff_ms, of which SetBackoff below is
\* the other writer: one step, since BackoffUnshared keeps the two apart.
RetrySlower ==
  /\ work = "double"
  /\ backoff_ms' = Doubled(backoff_ms)
  /\ work' = "idle"
  /\ UNCHANGED <<link_up, link_up_sem, scheduled, todo, main, world>>

WorkStep ==
  \/ WorkRuns
  \/ NoInterface
  \/ ConnectAccepted
  \/ ConnectReturns
  \/ ConnectRejected
  \/ RetryLater
  \/ RetrySlower

-----------------------------------------------------------------------------
\* Mutant: the loss of the address asks for a new connection, too.
StepsEager(event) ==
  CASE event = "connect failed" -> <<"schedule", "double">>
    [] event = "connected"      -> <<"fresh">>
    [] event = "disconnected"   -> <<"clear", "reset", "schedule">>
    [] event = "address added"  -> <<"set", "give">>
    [] event = "address gone"   -> <<"clear", "reset", "schedule">>

(***************************************************************************)
(* The callbacks: what handle_wifi_result(), handle_wifi_disconnect() and  *)
(* ipv4_mgmt_event_handler() do, in their order.                           *)
(***************************************************************************)
Steps(event) ==
  CASE event = "connect failed" -> <<"schedule", "double">>
    [] event = "connected"      -> <<"fresh">>
    [] event = "disconnected"   -> <<"clear", "reset", "schedule">>
    [] event = "address added"  -> <<"set", "give">>
    [] event = "address gone"   -> <<"clear", "reset">>

TakeEvent ==
  /\ todo = <<>> /\ events # <<>>
  /\ todo' = Steps(Head(events))
  /\ events' = Tail(events)
  /\ UNCHANGED <<manager, work, main, sta, bound, trouble>>

NextIs(step) == todo # <<>> /\ Head(todo) = step /\ todo' = Tail(todo)

\* Mutant: the flag is never cleared.
SetLinkOnly ==
  /\ \/ NextIs("set") /\ link_up' = TRUE
     \/ NextIs("clear") /\ link_up' = link_up
  /\ UNCHANGED <<link_up_sem, backoff_ms, scheduled, work, main, world>>

SetLink ==
  /\ \/ NextIs("set") /\ link_up' = TRUE
     \/ NextIs("clear") /\ link_up' = FALSE
  /\ UNCHANGED <<link_up_sem, backoff_ms, scheduled, work, main, world>>

\* k_sem_give(): a waiting main() gets the token itself.
Give ==
  /\ NextIs("give")
  /\ IF main = "wait" THEN main' = "up" /\ UNCHANGED link_up_sem
                      ELSE link_up_sem' = 1 /\ UNCHANGED main
  /\ UNCHANGED <<link_up, backoff_ms, scheduled, work, world>>

\* Mutant: the callback wakes main() and leaves the token.
ResetWaiter ==
  /\ NextIs("reset")
  /\ main' = IF main = "wait" THEN "EAGAIN" ELSE main
  /\ UNCHANGED <<manager, work, world>>

\* k_sem_reset(): a waiting main() is sent away with -EAGAIN.
Reset ==
  /\ NextIs("reset")
  /\ link_up_sem' = 0
  /\ main' = IF main = "wait" THEN "EAGAIN" ELSE main
  /\ UNCHANGED <<link_up, backoff_ms, scheduled, work, world>>

\* Mutant: the item is scheduled on an idle work queue only.
ScheduleIfIdle ==
  /\ NextIs("schedule")
  /\ scheduled' = (scheduled \/ work = "idle")
  /\ UNCHANGED <<link_up, link_up_sem, backoff_ms, work, main, world>>

\* k_work_schedule(): nothing more on an item that is scheduled already.
Schedule ==
  /\ NextIs("schedule")
  /\ scheduled' = TRUE
  /\ UNCHANGED <<link_up, link_up_sem, backoff_ms, work, main, world>>

\* The event thread's write of backoff_ms, one step as RetrySlower is.
SetBackoff ==
  /\ \/ NextIs("double") /\ backoff_ms' = Doubled(backoff_ms)
     \/ NextIs("fresh") /\ backoff_ms' = InitialMs
  /\ UNCHANGED <<link_up, link_up_sem, scheduled, work, main, world>>

EventStep ==
  \/ TakeEvent
  \/ SetLink
  \/ Give
  \/ Reset
  \/ Schedule
  \/ SetBackoff

-----------------------------------------------------------------------------
(***************************************************************************)
(* wifi_connect_wait_up(), called once by main().                          *)
(***************************************************************************)
LookAtLink ==
  /\ main = "call"
  /\ main' = IF link_up THEN "up" ELSE "take"
  /\ UNCHANGED <<manager, work, todo, world>>

TakeSem ==
  /\ main = "take"
  /\ IF link_up_sem = 1 THEN link_up_sem' = 0 /\ main' = "up"
                        ELSE main' = "wait" /\ UNCHANGED link_up_sem
  /\ UNCHANGED <<link_up, backoff_ms, scheduled, work, todo, world>>

WaitTimesOut ==
  /\ main = "wait"
  /\ main' = "EAGAIN"
  /\ UNCHANGED <<manager, work, todo, world>>

MainStep == LookAtLink \/ TakeSem \/ WaitTimesOut

-----------------------------------------------------------------------------
(***************************************************************************)
(* The driver and the DHCP client.                                         *)
(***************************************************************************)
Raise(news) == events' = events \o news

Joins ==
  /\ sta = "joining"
  /\ sta' = "joined"
  /\ Raise(<<"connected">>)
  /\ UNCHANGED <<manager, work, todo, main, bound, trouble>>

JoinFails ==
  /\ sta = "joining"
  /\ Misbehave
  /\ sta' = "idle"
  /\ Raise(<<"connect failed">>)
  /\ UNCHANGED <<manager, work, todo, main, bound>>

Binds ==
  /\ sta = "joined" /\ ~bound
  /\ bound' = TRUE
  /\ Raise(<<"address added">>)
  /\ UNCHANGED <<manager, work, todo, main, sta, trouble>>

LosesAddress ==
  /\ bound
  /\ Misbehave
  /\ bound' = FALSE
  /\ Raise(<<"address gone">>)
  /\ UNCHANGED <<manager, work, todo, main, sta>>

LosesLink ==
  /\ sta = "joined"
  /\ Misbehave
  /\ sta' = "idle"
  /\ bound' = FALSE
  /\ IF bound
     THEN \/ Raise(<<"disconnected", "address gone">>)
          \/ Raise(<<"address gone", "disconnected">>)
     ELSE Raise(<<"disconnected">>)
  /\ UNCHANGED <<manager, work, todo, main>>

WorldStep ==
  \/ Joins
  \/ JoinFails
  \/ Binds
  \/ LosesAddress
  \/ LosesLink

Next == WorkStep \/ EventStep \/ MainStep \/ WorldStep

(***************************************************************************)
(* Timers expire and the threads run; the driver answers, and DHCP binds   *)
(* an address on a link that lasts.                                        *)
(***************************************************************************)
Spec == /\ Init /\ [][Next]_vars
        /\ WF_vars(WorkStep) /\ WF_vars(EventStep) /\ WF_vars(LookAtLink)
        /\ WF_vars(Joins \/ JoinFails) /\ WF_vars(Binds)

-----------------------------------------------------------------------------
Event == {"connect failed", "connected", "disconnected", "address added",
          "address gone"}
Step  == {"schedule", "double", "fresh", "clear", "reset", "set", "give"}

TypeOK ==
  /\ {link_up, scheduled, bound} \subseteq BOOLEAN
  /\ link_up_sem \in 0..1
  /\ backoff_ms \in InitialMs..MaxMs
  /\ work \in {"idle", "connect", "accepted", "rejected", "double"}
  /\ todo \in Seq(Step) /\ events \in Seq(Event)
  /\ main \in {"call", "take", "wait", "up", "EAGAIN"}
  /\ sta \in {"idle", "joining", "joined"}
  /\ trouble \in 0..Troubles

(***************************************************************************)
(* No failure leaves the station for good: as long as the driver is idle,  *)
(* an attempt is scheduled, running, or on its way to be scheduled.        *)
(***************************************************************************)
NeverStranded ==
  sta = "idle" => \/ scheduled \/ work \in {"connect", "rejected"}
                  \/ Outstanding("connect failed")
                  \/ Outstanding("disconnected") \/ ToDo("schedule")

(***************************************************************************)
(* A result, a disconnection and a rejection never schedule one attempt    *)
(* too many: connect_work_fn() does not ask for a link that is up or being *)
(* set up.                                                                 *)
(***************************************************************************)
OneAttempt == work = "connect" => sta = "idle"

(***************************************************************************)
(* backoff_ms has no lock.  connect_work_fn() on the work queue and        *)
(* handle_wifi_result() or handle_wifi_disconnect() on the event thread    *)
(* never hold a read of it and a write at the same time, so that neither   *)
(* a doubling nor the reset to RECONNECT_INITIAL_MS is lost.               *)
(***************************************************************************)
BackoffUnshared ==
  work \in {"connect", "rejected", "double"} =>
    ~ToDo("schedule") /\ ~ToDo("double") /\ ~ToDo("fresh")

(***************************************************************************)
(* wifi_connect_is_up() follows DHCP: it is off only by the events that    *)
(* are still to be handled.                                                *)
(***************************************************************************)
LinkFollowsAddress ==
  /\ link_up /\ ~bound => \/ Outstanding("address gone")
                          \/ Outstanding("disconnected") \/ ToDo("clear")
  /\ bound /\ ~link_up => Outstanding("address added") \/ ToDo("set")

(***************************************************************************)
(* A token in link_up_sem is never one of an earlier link: it is taken     *)
(* back with the flag.                                                     *)
(***************************************************************************)
TokenMeansUp == link_up_sem = 1 => link_up \/ ToDo("reset")

(***************************************************************************)
(* Once the world is kind, the link comes up and stays up.                 *)
(***************************************************************************)
ReconnectsInTheEnd == <>[]link_up

=============================================================================
