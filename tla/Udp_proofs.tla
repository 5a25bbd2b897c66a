----------------------------- MODULE Udp_proofs -----------------------------
(***************************************************************************)
(* The safety properties of both ends of the UDP streams.  Of the sender   *)
(* of app 08 (UdpSender), from one inductive invariant over the four       *)
(* things the shell and the sender thread share: the flag, the step of the *)
(* command, the place of the thread, and whether a join gave up on it.  Of *)
(* the receiver of app 10's packets (HostReceiver), from what its counts   *)
(* and the datagrams in flight have to do with each other.                 *)
(***************************************************************************)
EXTENDS UdpSender, HostReceiver, TLAPS

(***************************************************************************)
(* Type correctness.                                                       *)
(***************************************************************************)
THEOREM UdpTypeCorrect == Spec => []TypeOK
<1>1. Init => TypeOK
  BY DEF Init, TypeOK, Interval
<1>2. TypeOK /\ [Next]_vars => TypeOK'
  <2> SUFFICES ASSUME TypeOK, [Next]_vars PROVE TypeOK'
    OBVIOUS
  <2> USE DEF TypeOK
  <2>1. CASE ShellCommand
    BY <2>1 DEF ShellCommand, ServerClear, StartAccept, StopFlag
  <2>2. CASE ShellStep
    BY <2>2 DEF ShellStep, ServerInvalid, ServerAddress, ServerPort,
                StartCreate, JoinReturns, JoinTimesOut
  <2>3. CASE SenderStep
    BY <2>3 DEF SenderStep, SocketOpen, SocketFails, CheckRunning,
                CloseSocket, SendAndSleep, Wake
  <2>4. CASE UNCHANGED vars
    BY <2>4 DEF vars
  <2> QED
    BY <2>1, <2>2, <2>3, <2>4 DEF Next
<1> QED
  BY <1>1, <1>2, PTL DEF Spec

(***************************************************************************)
(* Who may be where.  A command that is about to create the thread finds   *)
(* none, or one a join gave up on; one that joins has lowered the flag; at *)
(* any other time the flag and a sender that goes on are the same thing.   *)
(* A sender a join gave up on is past its entry and has not returned.      *)
(***************************************************************************)
Gone == thread = "dead" \/ abandoned

ThreadInv ==
  /\ abandoned => thread \notin {"dead", "entry"}
  /\ cmd = "create" => running /\ Gone
  /\ cmd = "join" => ~running
  /\ cmd \notin {"create", "join"} /\ ~running => Gone
  /\ cmd # "create" /\ running => thread \notin {"dead", "closing"}

(***************************************************************************)
(* The invariant is inductive: one case per action of the shell and of the *)
(* sender.                                                                 *)
(***************************************************************************)
LEMMA ThreadCorrect == Spec => []ThreadInv
<1>1. Init => ThreadInv
  BY DEF Init, ThreadInv, Gone
<1>2. TypeOK /\ ThreadInv /\ [Next]_vars => ThreadInv'
  <2> SUFFICES ASSUME TypeOK, ThreadInv, [Next]_vars PROVE ThreadInv'
    OBVIOUS
  <2> USE DEF TypeOK, ThreadInv, Gone
  <2>1. CASE ServerClear    BY <2>1 DEF ServerClear
  <2>2. CASE StartAccept    BY <2>2 DEF StartAccept
  <2>3. CASE StopFlag       BY <2>3 DEF StopFlag
  <2>4. CASE ServerInvalid  BY <2>4 DEF ServerInvalid
  <2>5. CASE ServerAddress  BY <2>5 DEF ServerAddress
  <2>6. CASE ServerPort     BY <2>6 DEF ServerPort
  <2>7. CASE StartCreate    BY <2>7 DEF StartCreate
  <2>8. CASE JoinReturns    BY <2>8 DEF JoinReturns
  <2>9. CASE JoinTimesOut   BY <2>9 DEF JoinTimesOut
  <2>10. CASE SocketOpen    BY <2>10 DEF SocketOpen
  <2>11. CASE SocketFails   BY <2>11 DEF SocketFails
  <2>12. CASE CheckRunning  BY <2>12 DEF CheckRunning
  <2>13. CASE CloseSocket   BY <2>13 DEF CloseSocket
  <2>14. CASE SendAndSleep  BY <2>14 DEF SendAndSleep
  <2>15. CASE Wake          BY <2>15 DEF Wake
  <2>16. CASE UNCHANGED vars
    BY <2>16 DEF vars
  <2> QED
    BY <2>1, <2>2, <2>3, <2>4, <2>5, <2>6, <2>7, <2>8, <2>9, <2>10, <2>11,
       <2>12, <2>13, <2>14, <2>15, <2>16
       DEF Next, ShellCommand, ShellStep, SenderStep
<1> QED
  BY <1>1, <1>2, UdpTypeCorrect, PTL DEF Spec

(***************************************************************************)
(* udp_start and udp_stop go by a flag that stands for a live sender.      *)
(***************************************************************************)
THEOREM RunningAlwaysAlive == Spec => []RunningMeansAlive
<1>1. ThreadInv => RunningMeansAlive
  BY DEF ThreadInv, RunningMeansAlive
<1> QED
  BY <1>1, ThreadCorrect, PTL

(***************************************************************************)
(* With the prompt back and nothing streaming, no sender is left behind    *)
(* but one a join of udp_stop gave up on.                                  *)
(***************************************************************************)
THEOREM IdleAlwaysGone == Spec => []IdleMeansGone
<1>1. ThreadInv => IdleMeansGone
  BY DEF ThreadInv, Gone, IdleMeansGone
<1> QED
  BY <1>1, ThreadCorrect, PTL

(***************************************************************************)
(* k_thread_create() in udp_start gets a thread object nobody uses, unless *)
(* a join gave up on its user.                                             *)
(***************************************************************************)
THEOREM ReuseOnlyEverWhenGone == Spec => ReuseOnlyWhenGone
<1>1. ThreadInv => (cmd = "create" /\ cmd' = "none" => thread = "dead" \/ abandoned)
  BY DEF ThreadInv, Gone
<1> QED
  BY <1>1, ThreadCorrect, PTL DEF ReuseOnlyWhenGone

(***************************************************************************)
(* A sender whose flag is down is nearer to its return with every step.    *)
(***************************************************************************)
THEOREM StopAlwaysBounded == Spec => StopIsBounded
<1>1. TypeOK /\ Next
      => (~running' /\ thread' # thread => StepsLeft' < StepsLeft \/ cmd = "create")
  <2> SUFFICES ASSUME TypeOK, Next, ~running', thread' # thread, cmd # "create"
               PROVE  StepsLeft' < StepsLeft
    OBVIOUS
  <2>1. SenderStep
    BY DEF Next, ShellCommand, ShellStep, ServerClear, StartAccept, StopFlag,
           ServerInvalid, ServerAddress, ServerPort, StartCreate,
           JoinReturns, JoinTimesOut
  <2> QED
    BY <2>1 DEF SenderStep, SocketOpen, SocketFails, CheckRunning,
                CloseSocket, SendAndSleep, Wake, StepsLeft
<1> QED
  BY <1>1, UdpTypeCorrect, PTL DEF Spec, StopIsBounded

-----------------------------------------------------------------------------
(***************************************************************************)
(* The host receiver.  First the arithmetic of the sequence numbers, for   *)
(* every size of the sequence space.                                       *)
(***************************************************************************)
LEMMA Remainder ==
  ASSUME NEW a \in Int
  PROVE  /\ a % SeqSpace \in 0..(SeqSpace - 1)
         /\ \E q \in Int : a = (q * SeqSpace) + (a % SeqSpace)
<1> USE HostAssumption
<1>1. a % SeqSpace \in 0..(SeqSpace - 1)
  OBVIOUS
<1>2. a \div SeqSpace \in Int
  OBVIOUS
<1>3. a = ((a \div SeqSpace) * SeqSpace) + (a % SeqSpace)
  OBVIOUS
<1> QED
  BY <1>1, <1>2, <1>3

LEMMA SmallRemainder ==
  ASSUME NEW q \in Int, NEW r \in 0..(SeqSpace - 1)
  PROVE  ((q * SeqSpace) + r) % SeqSpace = r
BY HostAssumption

\* Two frames at a distance of 1 to SeqSpace, after a whole number of spaces
\* has been added: the gap of their numbers is what is left of the distance.
LEMMA GapOfFrames ==
  ASSUME NEW old \in Int, NEW new \in Int, NEW k \in {0, 1},
         new - old - 1 + (k * SeqSpace) \in 0..(SeqSpace - 1)
  PROVE  ((new % SeqSpace) - (old % SeqSpace) - 1) % SeqSpace
           = new - old - 1 + (k * SeqSpace)
<1> USE HostAssumption
<1>1. PICK p \in Int : old = (p * SeqSpace) + (old % SeqSpace)
  BY Remainder
<1>2. PICK q \in Int : new = (q * SeqSpace) + (new % SeqSpace)
  BY Remainder
<1>3. old % SeqSpace \in Int /\ new % SeqSpace \in Int
  BY Remainder
<1> DEFINE gap == new - old - 1 + (k * SeqSpace)
<1>4. gap \in 0..(SeqSpace - 1) /\ p - q - k \in Int
  OBVIOUS
<1>5. (new % SeqSpace) - (old % SeqSpace) - 1
        = (p * SeqSpace) - (q * SeqSpace) - (k * SeqSpace) + gap
  BY <1>1, <1>2, <1>3
<1>6. (p * SeqSpace) - (q * SeqSpace) - (k * SeqSpace)
        = (p - q - k) * SeqSpace
  OBVIOUS
<1> HIDE DEF gap
<1>7. (new % SeqSpace) - (old % SeqSpace) - 1 = ((p - q - k) * SeqSpace) + gap
  BY <1>5, <1>6
<1>8. (((p - q - k) * SeqSpace) + gap) % SeqSpace = gap
  BY <1>4, SmallRemainder
<1> QED
  BY <1>7, <1>8, Zenon DEF gap

\* One more packet after old: it brings the frames lost between them and,
\* if it comes late, a whole space.
LEMMA OneMore ==
  ASSUME NEW missing \in Int, NEW pkts \in Int, NEW from \in Int,
         NEW old \in Int, NEW new \in Int, NEW l \in Nat, NEW k \in {0, 1},
         missing = (old - from + 1) - pkts + SeqSpace * l
  PROVE  missing + (new - old - 1 + (k * SeqSpace))
           = (new - from + 1) - (pkts + 1) + SeqSpace * (l + k)
<1> USE HostAssumption
<1> DEFINE L == SeqSpace * l
           K == k * SeqSpace
<1>1. L \in Int /\ K \in Int /\ SeqSpace * (l + k) = L + K
  OBVIOUS
<1> HIDE DEF L, K
<1>2. missing = (old - from + 1) - pkts + L
  BY DEF L
<1>3. missing + (new - old - 1 + K) = (new - from + 1) - (pkts + 1) + (L + K)
  BY <1>1, <1>2
<1> QED
  BY <1>1, <1>3, Zenon DEF K

(***************************************************************************)
(* Nothing comes out of the network that was not in it.                    *)
(***************************************************************************)
LEMMA TakenOut ==
  ASSUME NEW S, NEW s \in Seq(S), NEW i \in DOMAIN s
  PROVE  /\ RemoveAt(s, i) \in Seq(S)
         /\ Len(RemoveAt(s, i)) = Len(s) - 1
         /\ \A j \in DOMAIN RemoveAt(s, i) :
               \E k \in DOMAIN s : RemoveAt(s, i)[j] = s[k]
<1> DEFINE before == SubSeq(s, 1, i - 1)
           after == SubSeq(s, i + 1, Len(s))
<1>1. /\ before \in Seq(S) /\ Len(before) = i - 1
      /\ \A j \in 1..(i - 1) : before[j] = s[j]
  OBVIOUS
<1>2. /\ after \in Seq(S) /\ Len(after) = Len(s) - i
      /\ \A j \in 1..(Len(s) - i) : after[j] = s[i + j]
  OBVIOUS
<1>3. RemoveAt(s, i) = before \o after
  BY DEF RemoveAt
<1> HIDE DEF before, after
<1>4. RemoveAt(s, i) \in Seq(S) /\ Len(RemoveAt(s, i)) = Len(s) - 1
  BY <1>1, <1>2, <1>3
<1>5. ASSUME NEW j \in DOMAIN RemoveAt(s, i)
      PROVE  \E k \in DOMAIN s : RemoveAt(s, i)[j] = s[k]
  <2>1. CASE j <= i - 1
    BY <2>1, <1>1, <1>2, <1>3
  <2>2. CASE j > i - 1
    <3>1. j - (i - 1) \in 1..(Len(s) - i) /\ j + 1 \in DOMAIN s
      BY <2>2, <1>4
    <3>2. (before \o after)[j] = after[j - (i - 1)]
      <4>1. j \in 1..(Len(before) + Len(after)) /\ j > Len(before)
        <5>1. j \in Int /\ 1 <= j /\ j <= Len(s) - 1
          BY <1>4
        <5>2. Len(before) = i - 1 /\ Len(after) = Len(s) - i /\ i \in Int
          BY <1>1, <1>2
        <5> QED
          BY <5>1, <5>2, <2>2
      <4>2. (before \o after)[j] = after[j - Len(before)]
        BY <4>1, <1>1, <1>2
      <4> QED
        BY <4>2, <1>1
    <3>3. after[j - (i - 1)] = s[i + (j - (i - 1))]
      BY <3>1, <1>2
    <3>4. i + (j - (i - 1)) = j + 1
      BY <3>1
    <3>5. RemoveAt(s, i)[j] = s[j + 1]
      BY <3>2, <3>3, <3>4, <1>3
    <3> QED
      BY <3>1, <3>5
  <2> QED
    BY <2>1, <2>2, <1>4
<1> QED
  BY <1>4, <1>5

(***************************************************************************)
(* Type correctness of board, network and receiver, for every sequence     *)
(* space and every bound.                                                  *)
(***************************************************************************)
THEOREM HostTypeCorrect == HostSpec => []HostTypeOK
<1> USE HostAssumption
<1>1. HostInit => HostTypeOK
  BY DEF HostInit, HostTypeOK, None
<1>2. HostTypeOK /\ [HostNext]_hostVars => HostTypeOK'
  <2> SUFFICES ASSUME HostTypeOK, [HostNext]_hostVars PROVE HostTypeOK'
    OBVIOUS
  <2> USE DEF HostTypeOK, receiver
  <2>1. CASE SendFrame
    <3>1. /\ Append(net, frame) \in Seq(0..MaxFrames)
          /\ Len(Append(net, frame)) <= MaxFlight
      BY <2>1 DEF SendFrame
    <3>2. net' \in Seq(0..MaxFrames) /\ Len(net') <= MaxFlight
      BY <2>1, <3>1 DEF SendFrame
    <3>3. frame' \in 0..MaxFrames
      BY <2>1 DEF SendFrame
    <3> QED
      BY <2>1, <3>2, <3>3 DEF SendFrame
  <2>2. CASE Lose
    <3>1. net' \in Seq(0..MaxFrames) /\ Len(net') <= MaxFlight
      BY <2>2, TakenOut DEF Lose
    <3> QED
      BY <2>2, <3>1 DEF Lose
  <2>3. CASE Duplicate
    <3>1. PICK i \in DOMAIN net : net' = Append(net, net[i])
      BY <2>3 DEF Duplicate
    <3>2. net[i] \in 0..MaxFrames
      OBVIOUS
    <3>3. net' \in Seq(0..MaxFrames) /\ Len(net') <= MaxFlight
      BY <2>3, <3>1, <3>2 DEF Duplicate
    <3> QED
      BY <2>3, <3>3 DEF Duplicate
  <2>4. CASE Restart
    <3>1. frame' \in 0..MaxFrames /\ faults' \in 0..MaxFaults
      BY <2>4 DEF Restart
    <3>2. top' \in Int
      BY <2>4 DEF Restart
    <3>3. orderly' \in BOOLEAN
      BY <2>4 DEF Restart
    <3> QED
      BY <2>4, <3>1, <3>2, <3>3 DEF Restart
  <2>5. ASSUME NEW i \in DOMAIN net, Receive(i) PROVE HostTypeOK'
    <3>1. net[i] \in 0..MaxFrames /\ net[i] \in Int
      OBVIOUS
    <3>2. net[i] % SeqSpace \in 0..(SeqSpace - 1)
      BY <3>1, Remainder, Zenon
    <3>3. Gap(net[i] % SeqSpace) \in 0..(SeqSpace - 1)
      <4>1. (net[i] % SeqSpace) - last_seq - 1 \in Int
        BY <3>2
      <4> QED
        BY <4>1, Remainder, Zenon DEF Gap
    <3>4. net' \in Seq(0..MaxFrames) /\ Len(net') <= MaxFlight
      BY <2>5, TakenOut DEF Receive
    <3>5. radar_pkts' \in Nat /\ lost' \in Nat
      <4>1. /\ radar_pkts' = radar_pkts + 1
            /\ lost' \in {lost, lost + Gap(net[i] % SeqSpace)}
        BY <2>5, Zenon DEF Receive
      <4>2. Gap(net[i] % SeqSpace) \in Nat
        BY <3>3
      <4> QED
        BY <4>1, <4>2
    <3>6. last_seq' \in -1..(SeqSpace - 1) /\ late' \in Nat
      BY <2>5, <3>2 DEF Receive
    <3>7. first' \in Int /\ top' \in Int
      BY <2>5, <3>1 DEF Receive
    <3>8. orderly' \in BOOLEAN /\ frame' = frame /\ faults' = faults
      BY <2>5 DEF Receive
    <3> QED
      BY <3>4, <3>5, <3>6, <3>7, <3>8
  <2>6. CASE UNCHANGED hostVars
    BY <2>6 DEF hostVars
  <2> QED
    BY <2>1, <2>2, <2>3, <2>4, <2>5, <2>6 DEF HostNext
<1> QED
  BY <1>1, <1>2, PTL DEF HostSpec

(***************************************************************************)
(* How far apart the true numbers may be that the wrap has to tell apart:  *)
(* nothing in flight is a whole space ahead of the last frame received,    *)
(* nor a whole space behind it, and none of them is ahead of the board but *)
(* for the first space of a board that restarted.                          *)
(***************************************************************************)
SpanInv ==
  /\ top >= -1 /\ frame - top <= SeqSpace
  /\ top < frame \/ top < SeqSpace
  /\ \A i \in DOMAIN net :
       /\ (net[i] < frame \/ net[i] < SeqSpace) /\ frame - net[i] <= SeqSpace
       /\ net[i] - top <= SeqSpace /\ top - net[i] < SeqSpace
  /\ \A i, j \in DOMAIN net : net[i] - net[j] < SeqSpace

LEMMA SpanKept ==
  ASSUME SpanInv, UNCHANGED <<frame, top>>,
         \A j \in DOMAIN net' : \E k \in DOMAIN net : net'[j] = net[k]
  PROVE  SpanInv'
<1>1. \A j \in DOMAIN net' :
        /\ (net'[j] < frame' \/ net'[j] < SeqSpace) /\ frame' - net'[j] <= SeqSpace
        /\ net'[j] - top' <= SeqSpace /\ top' - net'[j] < SeqSpace
  BY DEF SpanInv
<1>2. \A i, j \in DOMAIN net' : net'[i] - net'[j] < SeqSpace
  BY DEF SpanInv
<1> QED
  BY <1>1, <1>2 DEF SpanInv

LEMMA SpanCorrect == HostSpec => []SpanInv
<1> USE HostAssumption
<1>1. HostInit => SpanInv
  BY DEF HostInit, SpanInv, None
<1>2. HostTypeOK /\ SpanInv /\ [HostNext]_hostVars => SpanInv'
  <2> SUFFICES ASSUME HostTypeOK, SpanInv, [HostNext]_hostVars
               PROVE  SpanInv'
    OBVIOUS
  <2> USE DEF receiver
  <2>1. CASE SendFrame
    <3>1. /\ frame \in Nat /\ frame' = frame + 1 /\ top' = top /\ top \in Int
          /\ frame - top < SeqSpace
          /\ \A i \in DOMAIN net : frame - net[i] < SeqSpace
      BY <2>1 DEF SendFrame, HostTypeOK
    <3>2. \A i \in DOMAIN net : net[i] \in Nat
      BY DEF HostTypeOK
    <3>3. \A j \in DOMAIN net' :
            net'[j] = frame \/ \E k \in DOMAIN net : net'[j] = net[k]
      <4>1. net' \in {net, Append(net, frame)} /\ net \in Seq(0..MaxFrames)
        BY <2>1 DEF SendFrame, HostTypeOK
      <4> QED
        BY <4>1
    <3>4. top' >= -1 /\ frame' - top' <= SeqSpace /\ (top' < frame' \/ top' < SeqSpace)
      BY <3>1 DEF SpanInv
    <3>5. ASSUME NEW j \in DOMAIN net'
          PROVE  /\ (net'[j] < frame' \/ net'[j] < SeqSpace) /\ frame' - net'[j] <= SeqSpace
                 /\ net'[j] - top' <= SeqSpace /\ top' - net'[j] < SeqSpace
      <4>1. CASE net'[j] = frame
        BY <3>1, <4>1 DEF SpanInv
      <4>2. ASSUME NEW k \in DOMAIN net, net'[j] = net[k]
            PROVE  /\ (net'[j] < frame' \/ net'[j] < SeqSpace) /\ frame' - net'[j] <= SeqSpace
                   /\ net'[j] - top' <= SeqSpace
                   /\ top' - net'[j] < SeqSpace
        BY <3>1, <3>2, <4>2 DEF SpanInv
      <4> QED
        BY <3>3, <4>1, <4>2
    <3>6. ASSUME NEW i \in DOMAIN net', NEW j \in DOMAIN net'
          PROVE  net'[i] - net'[j] < SeqSpace
      <4>1. ASSUME NEW k \in DOMAIN net
            PROVE  frame - net[k] < SeqSpace /\ net[k] - frame < SeqSpace
        BY <3>1, <3>2 DEF SpanInv
      <4>2. frame - frame < SeqSpace
        BY <3>1
      <4>3. \A k, l \in DOMAIN net : net[k] - net[l] < SeqSpace
        BY DEF SpanInv
      <4> QED
        BY <3>3, <4>1, <4>2, <4>3
    <3> QED
      BY <3>4, <3>5, <3>6 DEF SpanInv
  <2>2. CASE Lose
    <3>1. \A j \in DOMAIN net' : \E k \in DOMAIN net : net'[j] = net[k]
      BY <2>2, TakenOut DEF Lose, HostTypeOK
    <3> QED
      BY <2>2, <3>1, SpanKept DEF Lose
  <2>3. CASE Duplicate
    <3>1. PICK i \in DOMAIN net : net' = Append(net, net[i])
      BY <2>3 DEF Duplicate
    <3>2. \A j \in DOMAIN net' : \E k \in DOMAIN net : net'[j] = net[k]
      BY <3>1 DEF HostTypeOK
    <3> QED
      BY <2>3, <3>2, SpanKept DEF Duplicate
  <2>4. CASE Restart
    <3>1. /\ frame' = 0 /\ net' = net /\ top' = top /\ frame <= SeqSpace
          /\ frame \in Nat /\ top \in Int
      BY <2>4 DEF Restart, HostTypeOK
    <3>2. \A i \in DOMAIN net : net[i] \in Nat
      BY DEF HostTypeOK
    <3>3. top' >= -1 /\ frame' - top' <= SeqSpace /\ (top' < frame' \/ top' < SeqSpace)
      BY <3>1 DEF SpanInv
    <3>4. \A i \in DOMAIN net' :
            (net'[i] < frame' \/ net'[i] < SeqSpace) /\ frame' - net'[i] <= SeqSpace
      BY <3>1, <3>2 DEF SpanInv
    <3> QED
      BY <3>1, <3>3, <3>4 DEF SpanInv
  <2>5. ASSUME NEW i \in DOMAIN net, Receive(i) PROVE SpanInv'
    <3>1. /\ frame' = frame /\ top' = net[i] /\ net[i] \in Nat
      BY <2>5 DEF Receive, HostTypeOK
    <3>2. \A j \in DOMAIN net' : \E k \in DOMAIN net : net'[j] = net[k]
      BY <2>5, TakenOut DEF Receive, HostTypeOK
    <3>3. top' >= -1 /\ frame' - top' <= SeqSpace /\ (top' < frame' \/ top' < SeqSpace)
      BY <3>1 DEF SpanInv
    <3>4. ASSUME NEW j \in DOMAIN net'
          PROVE  /\ (net'[j] < frame' \/ net'[j] < SeqSpace) /\ frame' - net'[j] <= SeqSpace
                 /\ net'[j] - top' <= SeqSpace /\ top' - net'[j] < SeqSpace
      <4>1. PICK k \in DOMAIN net : net'[j] = net[k]
        BY <3>2
      <4>2. net[k] \in Nat
        BY DEF HostTypeOK
      <4> QED
        BY <3>1, <4>1, <4>2 DEF SpanInv
    <3>5. \A j, k \in DOMAIN net' : net'[j] - net'[k] < SeqSpace
      BY <3>2 DEF SpanInv
    <3> QED
      BY <3>3, <3>4, <3>5 DEF SpanInv
  <2>6. CASE UNCHANGED hostVars
    BY <2>6 DEF hostVars, SpanInv
  <2> QED
    BY <2>1, <2>2, <2>3, <2>4, <2>5, <2>6 DEF HostNext
<1> QED
  BY <1>1, <1>2, HostTypeCorrect, PTL DEF HostSpec

(***************************************************************************)
(* The receiver's last number is that of the last frame received, the      *)
(* first packet counts one and loses none, and each later one adds its     *)
(* distance from the packet before it, wrapped if that is ahead of it.     *)
(***************************************************************************)
CountInv ==
  /\ last_seq = None => lost = 0 /\ radar_pkts = 0 /\ late = 0
  /\ last_seq # None => last_seq = top % SeqSpace
  /\ LateCostsSpace
  /\ orderly => late = 0

LEMMA CountCorrect == HostSpec => []CountInv
<1> USE HostAssumption
<1>1. HostInit => CountInv
  BY DEF HostInit, CountInv, LateCostsSpace
<1>2. HostTypeOK /\ SpanInv /\ CountInv /\ [HostNext]_hostVars => CountInv'
  <2> SUFFICES ASSUME HostTypeOK, SpanInv, CountInv, [HostNext]_hostVars
               PROVE  CountInv'
    OBVIOUS
  <2>1. CASE /\ UNCHANGED <<last_seq, radar_pkts, lost, first, top, late>>
             /\ orderly' => orderly
    BY <2>1 DEF CountInv, LateCostsSpace
  <2>2. ASSUME NEW i \in DOMAIN net, Receive(i) PROVE CountInv'
    <3> DEFINE seq == net[i] % SeqSpace
    <3>1. net[i] \in Nat /\ net[i] - top <= SeqSpace /\ top - net[i] < SeqSpace
      BY DEF HostTypeOK, SpanInv
    <3>2. seq \in 0..(SeqSpace - 1)
      <4>1. net[i] \in Int
        BY <3>1
      <4> QED
        BY <4>1, Remainder, Zenon
    <3>3. /\ last_seq' = seq /\ radar_pkts' = radar_pkts + 1
          /\ top' = net[i] /\ last_seq' # None
      BY <2>2, <3>2 DEF Receive, None
    <3>4. last_seq' = top' % SeqSpace
      BY <3>3
    <3>5. CASE last_seq = None
      <4>1. lost' = 0 /\ radar_pkts' = 1 /\ late' = 0 /\ first' = net[i]
        BY <2>2, <3>3, <3>5 DEF Receive, CountInv
      <4>2. lost' = (top' - first' + 1) - radar_pkts' + SeqSpace * late'
        BY <3>1, <3>3, <4>1
      <4> QED
        BY <3>3, <3>4, <4>1, <4>2 DEF CountInv, LateCostsSpace
    <3>6. CASE last_seq # None
      <4> DEFINE k == IF net[i] <= top THEN 1 ELSE 0
                 gap == net[i] - top - 1 + (k * SeqSpace)
      <4>1. top \in Int /\ k \in {0, 1} /\ gap \in 0..(SeqSpace - 1)
        BY <3>1 DEF HostTypeOK
      <4>2. ((net[i] % SeqSpace) - (top % SeqSpace) - 1) % SeqSpace = gap
        <5> HIDE DEF k
        <5> QED
          BY <3>1, <4>1, GapOfFrames
      <4>3. Gap(seq) = gap
        BY <3>6, <4>2, Zenon DEF Gap, CountInv
      <4>4. late' = late + k /\ first' = first /\ lost' = lost + Gap(seq)
        BY <2>2, <3>6 DEF Receive, HostTypeOK
      <4>5. lost = (top - first + 1) - radar_pkts + SeqSpace * late
        BY <3>6 DEF CountInv, LateCostsSpace
      <4>6. orderly' => late' = 0
        <5>1. orderly' => orderly /\ net[i] > top
          BY <2>2 DEF Receive
        <5>2. orderly => late = 0
          BY DEF CountInv
        <5>3. net[i] > top => k = 0
          BY <3>1, <4>1
        <5> HIDE DEF k
        <5> QED
          BY <4>4, <5>1, <5>2, <5>3
      <4> HIDE DEF k, seq
      <4>7. lost + gap = (net[i] - first + 1) - (radar_pkts + 1)
                           + SeqSpace * (late + k)
        <5>1. /\ lost \in Int /\ radar_pkts \in Int /\ first \in Int
              /\ late \in Nat /\ net[i] \in Int
          BY <3>1 DEF HostTypeOK
        <5> QED
          BY <4>1, <4>5, <5>1, OneMore
      <4> HIDE DEF gap
      <4>8. lost' = (top' - first' + 1) - radar_pkts' + SeqSpace * late'
        BY <3>3, <4>3, <4>4, <4>7, Zenon
      <4> QED
        BY <3>3, <3>4, <4>6, <4>8, Zenon DEF CountInv, LateCostsSpace
    <3> QED
      BY <3>5, <3>6
  <2> QED
    BY <2>1, <2>2
       DEF HostNext, SendFrame, Lose, Duplicate, Restart, receiver, hostVars
<1> QED
  BY <1>1, <1>2, HostTypeCorrect, SpanCorrect, PTL DEF HostSpec

(***************************************************************************)
(* A packet that does not come after the one before it adds a whole        *)
(* sequence space to the loss, and nothing takes it away again.            *)
(***************************************************************************)
THEOREM LateAlwaysCostsSpace == HostSpec => []LateCostsSpace
<1>1. CountInv => LateCostsSpace
  BY DEF CountInv
<1> QED
  BY <1>1, CountCorrect, PTL

(***************************************************************************)
(* While packets come in order, the receiver's loss is the number of       *)
(* frames that did not arrive, across every wrap of the counter.           *)
(***************************************************************************)
THEOREM LossAlwaysExact == HostSpec => []LossIsExact
<1>1. HostTypeOK /\ CountInv => LossIsExact
  BY HostAssumption DEF HostTypeOK, CountInv, LateCostsSpace, LossIsExact
<1> QED
  BY <1>1, HostTypeCorrect, CountCorrect, PTL

=============================================================================
