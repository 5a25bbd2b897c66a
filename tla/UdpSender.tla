------------------------------ MODULE UdpSender ------------------------------
(***************************************************************************)
(* The UDP streamer of app 08: the `udp server`, `udp start` and `udp      *)
(* stop` shell handlers, and the one statically allocated sender thread    *)
(* they create and join, over the udp_state they share without a lock.     *)
(*                                                                         *)
(* Commands that are refused (start unconfigured or while running, stop    *)
(* while not running) and `udp status` change nothing and are not actions. *)
(* Two things are abstracted: a destination is empty, an address without a *)
(* port, or whole; an interval is short or, longer than the five seconds   *)
(* of k_thread_join(), long.                                               *)
(*                                                                         *)
(* k_thread_create() on a thread that still lives is outside the kernel's  *)
(* contract; here it drops the old incarnation and starts from the entry.  *)
(***************************************************************************)
EXTENDS Naturals

Interval == {"short", "long"}

VARIABLES
  cmd,         \* step of the running shell command
  dest,        \* udp_state.dest
  configured,  \* udp_state.configured
  running,     \* udp_state.running
  interval,    \* udp_state.interval_ms
  thread,      \* where udp_sender() is
  nap,         \* the interval the thread last went to sleep for
  abandoned    \* history: this sender outlived the join of a `udp stop`

vars == <<cmd, dest, configured, running, interval, thread, nap,
          abandoned>>

-----------------------------------------------------------------------------
Init ==
  /\ cmd = "none" /\ dest = "empty" /\ configured = FALSE
  /\ running = FALSE /\ interval = "short"
  /\ thread = "dead" /\ nap = "short" /\ abandoned = FALSE

(***************************************************************************)
(* cmd_udp_server(): the old destination is cleared first; an address that *)
(* does not parse returns there and then.                                  *)
(***************************************************************************)
ServerClear ==
  /\ cmd = "none"
  /\ dest' = "empty"
  /\ cmd' = "server"
  /\ UNCHANGED <<configured, running, interval, thread, nap, abandoned>>

ServerInvalid ==
  /\ cmd = "server"
  /\ cmd' = "none"
  /\ UNCHANGED <<dest, configured, running, interval, thread, nap, abandoned>>

ServerAddress ==
  /\ cmd = "server"
  /\ dest' = "portless"
  /\ cmd' = "port"
  /\ UNCHANGED <<configured, running, interval, thread, nap, abandoned>>

ServerPort ==
  /\ cmd = "port"
  /\ dest' = "whole"
  /\ configured' = TRUE
  /\ cmd' = "none"
  /\ UNCHANGED <<running, interval, thread, nap, abandoned>>

(***************************************************************************)
(* cmd_udp_start(): the flag goes up before the thread exists.             *)
(***************************************************************************)
StartAccept ==
  /\ cmd = "none" /\ configured /\ ~running
  /\ interval' \in Interval
  /\ running' = TRUE
  /\ cmd' = "create"
  /\ UNCHANGED <<dest, configured, thread, nap, abandoned>>

StartCreate ==
  /\ cmd = "create"
  /\ thread' = "entry"
  /\ abandoned' = FALSE
  /\ cmd' = "none"
  /\ UNCHANGED <<dest, configured, running, interval, nap>>

(***************************************************************************)
(* cmd_udp_stop(): the flag goes down and the thread is given five seconds *)
(* to notice.  The result of k_thread_join() is not looked at.             *)
(***************************************************************************)
StopFlag ==
  /\ cmd = "none" /\ running
  /\ running' = FALSE
  /\ cmd' = "join"
  /\ UNCHANGED <<dest, configured, interval, thread, nap, abandoned>>

\* Mutant: k_thread_join() with K_NO_WAIT.
JoinPolls ==
  /\ cmd = "join"
  /\ cmd' = "none"
  /\ UNCHANGED <<dest, configured, running, interval, thread, nap, abandoned>>

JoinReturns ==
  /\ cmd = "join" /\ thread = "dead"
  /\ cmd' = "none"
  /\ UNCHANGED <<dest, configured, running, interval, thread, nap, abandoned>>

\* The sender is in a long k_msleep(), or blocked in zsock_sendto() or in
\* zsock_close().
JoinTimesOut ==
  /\ cmd = "join"
  /\ thread \in {"send", "closing"} \/ (thread = "asleep" /\ nap = "long")
  /\ abandoned' = TRUE
  /\ cmd' = "none"
  /\ UNCHANGED <<dest, configured, running, interval, thread, nap>>

ShellCommand == ServerClear \/ StartAccept \/ StopFlag

ShellStep ==
  \/ ServerInvalid
  \/ ServerAddress
  \/ ServerPort
  \/ StartCreate
  \/ JoinReturns
  \/ JoinTimesOut

-----------------------------------------------------------------------------
(***************************************************************************)
(* udp_sender(): a socket that cannot be had ends the stream.  The thread  *)
(* outranks the shell, so clearing the flag and returning is one step.     *)
(***************************************************************************)
SocketOpen ==
  /\ thread = "entry"
  /\ thread' = "check"
  /\ UNCHANGED <<cmd, dest, configured, running, interval, nap, abandoned>>

\* Mutant: the flag stays up when there is no socket.
SocketFailsQuietly ==
  /\ thread = "entry"
  /\ thread' = "dead"
  /\ abandoned' = FALSE
  /\ UNCHANGED <<cmd, dest, configured, running, interval, nap>>

SocketFails ==
  /\ thread = "entry"
  /\ running' = FALSE
  /\ thread' = "dead"
  /\ abandoned' = FALSE
  /\ UNCHANGED <<cmd, dest, configured, interval, nap>>

\* Mutant: the loop has no condition.
CheckNothing ==
  /\ thread = "check"
  /\ thread' = "send"
  /\ UNCHANGED <<cmd, dest, configured, running, interval, nap, abandoned>>

\* The condition of the loop.
CheckRunning ==
  /\ thread = "check"
  /\ thread' = IF running THEN "send" ELSE "closing"
  /\ UNCHANGED <<cmd, dest, configured, running, interval, nap, abandoned>>

\* zsock_close(), which may block, and return.
CloseSocket ==
  /\ thread = "closing"
  /\ thread' = "dead"
  /\ abandoned' = FALSE
  /\ UNCHANGED <<cmd, dest, configured, running, interval, nap>>

\* sendto(), whatever it returns, and k_msleep(interval_ms).
SendAndSleep ==
  /\ thread = "send"
  /\ nap' = interval
  /\ thread' = "asleep"
  /\ UNCHANGED <<cmd, dest, configured, running, interval, abandoned>>

Wake ==
  /\ thread = "asleep"
  /\ thread' = "check"
  /\ UNCHANGED <<cmd, dest, configured, running, interval, nap, abandoned>>

SenderStep ==
  \/ SocketOpen
  \/ SocketFails
  \/ CheckRunning
  \/ CloseSocket
  \/ SendAndSleep
  \/ Wake

Next == ShellCommand \/ ShellStep \/ SenderStep

(***************************************************************************)
(* Both threads run; whether there is another command is the user's        *)
(* business.                                                               *)
(***************************************************************************)
Spec == Init /\ [][Next]_vars /\ WF_vars(ShellStep) /\ WF_vars(SenderStep)

-----------------------------------------------------------------------------
TypeOK ==
  /\ cmd \in {"none", "server", "port", "create", "join"}
  /\ dest \in {"empty", "portless", "whole"}
  /\ {configured, running, abandoned} \subseteq BOOLEAN
  /\ {interval, nap} \subseteq Interval
  /\ thread \in {"dead", "entry", "check", "send", "asleep", "closing"}

(***************************************************************************)
(* udp_thread, its stack and its socket are only ever reused when the last *)
(* sender has returned, unless that sender is one a join gave up on.       *)
(***************************************************************************)
ReuseOnlyWhenGone ==
  [][ cmd = "create" /\ cmd' = "none" => thread = "dead" \/ abandoned ]_vars

(***************************************************************************)
(* When the prompt is back and nothing is streaming, no sender is left     *)
(* behind, but for one a join gave up on.                                  *)
(***************************************************************************)
IdleMeansGone ==
  cmd = "none" /\ ~running => thread = "dead" \/ abandoned

(***************************************************************************)
(* The flag `udp start` and `udp stop` go by stands for a live sender, a   *)
(* sender that got no socket included: neither command is refused for one  *)
(* that is gone.                                                           *)
(***************************************************************************)
RunningMeansAlive == cmd = "none" /\ running => thread # "dead"

(***************************************************************************)
(* A sender that is told to stop returns, if it is not told otherwise.     *)
(***************************************************************************)
SenderEnds == ~running ~> (thread = "dead" \/ running)

(***************************************************************************)
(* The other half of that promise: while the flag is down every step of    *)
(* the sender brings it nearer to its return, so that at most one datagram *)
(* follows the stop.                                                       *)
(***************************************************************************)
StepsLeft ==
  [dead |-> 0, closing |-> 1, check |-> 2, asleep |-> 3, entry |-> 3,
   send |-> 4][thread]

StopIsBounded ==
  [][ ~running' /\ thread' # thread
      => StepsLeft' < StepsLeft \/ cmd = "create" ]_vars

=============================================================================
