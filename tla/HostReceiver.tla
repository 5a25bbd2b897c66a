---------------------------- MODULE HostReceiver ----------------------------
(***************************************************************************)
(* The radar stream from app 10's packets to host/udp_server.py: sequence  *)
(* numbers, a network that loses, duplicates and reorders datagrams, a     *)
(* board that restarts, and the receiver's count of lost frames.           *)
(*                                                                         *)
(* A frame is its true number since the board started; its packet carries  *)
(* that number modulo SeqSpace (2^32 in the code).                         *)
(***************************************************************************)
EXTENDS Integers, Sequences, SequencesExt

CONSTANTS SeqSpace,     \* sequence numbers
          MaxFrames,  \* frames a board streams in this instance
          MaxFlight,  \* datagrams in flight
          MaxFaults   \* duplicates and restarts

ASSUME HostAssumption ==
  /\ SeqSpace \in Nat \ {0} /\ MaxFrames \in Nat
  /\ MaxFlight \in Nat /\ MaxFaults \in Nat

VARIABLES
  frame,      \* frames the board has built since it started
  net,        \* datagrams in flight
  faults,     \* duplicates and restarts so far
  last_seq,   \* None before the first radar packet
  radar_pkts, lost,   \* the receiver's two counts
  first, top, \* true numbers of the first and the last frame received
  orderly,    \* nothing came twice, late or from a restarted board
  late        \* packets that did not come after the one before them

None == -1
receiver == <<last_seq, radar_pkts, lost, first, top, orderly, late>>
hostVars == <<frame, net, faults, receiver>>

HostTypeOK ==
  /\ frame \in 0..MaxFrames
  /\ net \in Seq(0..MaxFrames) /\ Len(net) <= MaxFlight
  /\ faults \in 0..MaxFaults
  /\ last_seq \in -1..(SeqSpace - 1)
  /\ radar_pkts \in Nat /\ lost \in Nat
  /\ first \in Int /\ top \in Int
  /\ orderly \in BOOLEAN /\ late \in Nat

HostInit ==
  /\ frame = 0 /\ net = <<>> /\ faults = 0
  /\ last_seq = None /\ radar_pkts = 0 /\ lost = 0
  /\ first = None /\ top = None /\ orderly = TRUE /\ late = 0

(* The board and the network *)
\* main(): a frame is built, sent or dropped; the number goes up either way.
\* An outage is shorter than the sequence space, and so is the flight of a
\* datagram.
SendFrame ==
  /\ frame < MaxFrames /\ Len(net) < MaxFlight
  /\ frame - top < SeqSpace
  /\ \A i \in DOMAIN net : frame - net[i] < SeqSpace
  /\ frame' = frame + 1
  /\ net' \in {net, Append(net, frame)}
  /\ UNCHANGED <<faults, receiver>>

Lose ==
  /\ \E i \in DOMAIN net : net' = RemoveAt(net, i)
  /\ UNCHANGED <<frame, faults, receiver>>

Duplicate ==
  /\ faults < MaxFaults /\ Len(net) < MaxFlight /\ net # <<>>
  /\ \E i \in DOMAIN net : net' = Append(net, net[i])
  /\ faults' = faults + 1
  /\ UNCHANGED <<frame, receiver>>

\* Frames of the board before it restarted may still be in flight.  Past its
\* first sequence space, which is 248 days of frames, a board does not restart.
Restart ==
  /\ faults < MaxFaults /\ frame <= SeqSpace
  /\ frame' = 0 /\ faults' = faults + 1
  /\ orderly' = FALSE
  /\ UNCHANGED <<net, last_seq, radar_pkts, lost, first, top, late>>

(* The receiver *)
\* A mistaken form of the next operator: the frame itself counts.
GapInclusive(seq) == (seq - last_seq) % SeqSpace
\* A mistaken form of the next operator: a number that goes back is no gap.
GapClamped(seq) == IF seq > last_seq THEN seq - last_seq - 1 ELSE 0
\* gap = (seq - last_seq - 1) & 0xFFFFFFFF
Gap(seq) == (seq - last_seq - 1) % SeqSpace

\* One pass of main()'s loop over the datagram at place i.
Receive(i) ==
  /\ i \in DOMAIN net
  /\ LET seq == net[i] % SeqSpace IN
     /\ radar_pkts' = radar_pkts + 1
     /\ lost' = IF last_seq = None THEN lost ELSE lost + Gap(seq)
     /\ last_seq' = seq
  /\ first' = IF last_seq = None THEN net[i] ELSE first
  /\ top' = net[i]
  /\ orderly' = (orderly /\ net[i] > top)
  /\ late' = IF last_seq # None /\ net[i] <= top THEN late + 1 ELSE late
  /\ net' = RemoveAt(net, i)
  /\ UNCHANGED <<frame, faults>>

HostNext ==
  \/ SendFrame \/ Lose \/ Duplicate \/ Restart
  \/ \E i \in DOMAIN net : Receive(i)

HostSpec == HostInit /\ [][HostNext]_hostVars
-----------------------------------------------------------------------------
(* While packets come in order, "lost" is the number of frames between the
   first and the last received that did not arrive: dropped by the board's
   send or lost on the way, across the wrap of the counter. *)
LossIsExact ==
  orderly /\ last_seq # None => lost = (top - first + 1) - radar_pkts

(* Whatever the order: each packet that does not come after the one before
   it, a duplicate, a late one or the first of a restarted board, costs the
   count a whole sequence space, for good, whatever came between and comes
   after; on top of that "lost" is what LossIsExact says.  5, 5, 6 leaves it
   at 2^32 - 1, and 5, 6, 0 at 2^32 - 7. *)
LateCostsSpace ==
  last_seq # None =>
    lost = (top - first + 1) - radar_pkts + SeqSpace * late
=============================================================================
