---------------------------- MODULE Radar_proofs ----------------------------
(***************************************************************************)
(* What the radar's two modules promise.  RadarStream, for every frame     *)
(* size, FIFO depth and timeout: StatusInv ties everything that can go     *)
(* wrong with a packet to the sticky error bit; OnTimeInv says what the    *)
(* FIFO, the edge and the semaphore look like as long as no burst has      *)
(* overlapped the next chirp.  RadarBringUp, for every register table,     *)
(* FIFO and limit: four invariants say at each control point of init and   *)
(* main() how far the sensor is configured and which reset may be under    *)
(* way.                                                                    *)
(***************************************************************************)
EXTENDS RadarStream, RadarBringUp, Integers, TLAPS

(***************************************************************************)
(* The position after i inside a frame.                                    *)
(***************************************************************************)
LEMMA NextPosition ==
  ASSUME NEW i \in 0..(FrameWords - 1)
  PROVE  (i + 1) % FrameWords = IF i + 1 = FrameWords THEN 0 ELSE i + 1
<1>1. i \in Nat /\ FrameWords \in Nat \ {0} /\ i + 1 <= FrameWords
  BY SizeAssumption
<1>2. CASE i + 1 = FrameWords
  BY <1>1, <1>2
<1>3. CASE i + 1 < FrameWords
  BY <1>1, <1>3
<1>4. QED
  BY <1>1, <1>2, <1>3

(***************************************************************************)
(* Every variable keeps its type.                                          *)
(***************************************************************************)
THEOREM RadarTypeCorrect == Spec => []TypeOK
<1> USE SizeAssumption
<1>1. Init => TypeOK
  <2>1. /\ 0 \in 0..(FrameWords - 1) /\ 0 \in 0..FifoWords
        /\ 0 \in 0..TimeoutFrames /\ 0 \in 0..FrameWords
    OBVIOUS
  <2>2. QED
    BY <2>1 DEF Init, TypeOK
<1>2. TypeOK /\ [Next]_vars => TypeOK'
  <2> SUFFICES ASSUME TypeOK, [Next]_vars PROVE TypeOK'
    OBVIOUS
  <2> USE DEF TypeOK, sensor, burst
  <2>1. CASE Sample
    <3>1. fill' \in 0..FifoWords /\ waited' \in 0..TimeoutFrames
      BY <2>1 DEF Sample, Min
    <3>2. tail' \in 0..(FrameWords - 1)
      BY <2>1, NextPosition DEF Sample
    <3>3. QED
      BY <2>1, <3>1, <3>2 DEF Sample, IrqLine
  <2>2. CASE Isr
    BY <2>2 DEF Isr
  <2>3. CASE TakeToken
    BY <2>3 DEF TakeToken
  <2>4. CASE WaitTimesOut
    BY <2>4 DEF WaitTimesOut
  <2>5. CASE BurstHeader
    <3>1. got' \in 0..FrameWords
      BY <2>5 DEF BurstHeader
    <3>2. {status', short', crooked'} \subseteq BOOLEAN
      BY <2>5 DEF BurstHeader
    <3>3. QED
      BY <2>5, <3>1, <3>2 DEF BurstHeader
  <2>6. CASE PopWord
    <3>1. got' \in 0..FrameWords /\ fill' \in 0..FifoWords
      BY <2>6 DEF PopWord
    <3>2. head' \in 0..(FrameWords - 1)
      BY <2>6, NextPosition DEF PopWord
    <3>3. QED
      BY <2>6, <3>1, <3>2 DEF PopWord
  <2>7. CASE CheckStatus
    BY <2>7 DEF CheckStatus
  <2>8. CASE SpiFails
    BY <2>8 DEF SpiFails
  <2>9. CASE Send
    BY <2>9 DEF Send
  <2>10. CASE StopFrame
    BY <2>10 DEF StopFrame
  <2>11. CASE UNCHANGED vars
    BY <2>11 DEF vars
  <2>12. QED
    BY <2>1, <2>2, <2>3, <2>4, <2>5, <2>6, <2>7, <2>8, <2>9, <2>10, <2>11
       DEF Next, MainStep
<1>3. QED
  BY <1>1, <1>2, PTL DEF Spec

-----------------------------------------------------------------------------
(***************************************************************************)
(* Whatever spoils a packet leaves its mark in the sticky bit, and the     *)
(* next header shows it.                                                   *)
(***************************************************************************)
StatusInv ==
  /\ short \/ lost \/ wire = "corrupt" => gsr0
  /\ pc \in {"wait", "header", "send"} /\ head # 0 => gsr0
  /\ pc \in {"burst", "send"} /\ ~status => ~crooked /\ wire # "corrupt"
  /\ pc = "burst" /\ ~status /\ ~short
     => head = IF got = FrameWords THEN 0 ELSE got
  /\ pc = "send" => ~status

LEMMA StatusCorrect == Spec => []StatusInv
<1> USE SizeAssumption DEF StatusInv
<1>1. Init => StatusInv
  BY DEF Init
<1>2. TypeOK /\ StatusInv /\ [Next]_vars => StatusInv'
  <2> SUFFICES ASSUME TypeOK, StatusInv, [Next]_vars PROVE StatusInv'
    OBVIOUS
  <2> USE DEF TypeOK, sensor, burst
  <2>1. CASE Sample
    BY <2>1 DEF Sample
  <2>2. CASE Isr
    BY <2>2 DEF Isr
  <2>3. CASE TakeToken
    BY <2>3 DEF TakeToken
  <2>4. CASE WaitTimesOut
    BY <2>4 DEF WaitTimesOut
  <2>5. CASE BurstHeader
    BY <2>5 DEF BurstHeader
  <2>6. CASE PopWord
    <3>1. head' = (head + 1) % FrameWords
          => head' = IF head + 1 = FrameWords THEN 0 ELSE head + 1
      BY NextPosition
    <3>2. QED
      BY <2>6, <3>1 DEF PopWord
  <2>7. CASE CheckStatus
    BY <2>7 DEF CheckStatus
  <2>8. CASE SpiFails
    BY <2>8 DEF SpiFails
  <2>9. CASE Send
    BY <2>9 DEF Send
  <2>10. CASE StopFrame
    BY <2>10 DEF StopFrame
  <2>11. CASE UNCHANGED vars
    BY <2>11 DEF vars
  <2>12. QED
    BY <2>1, <2>2, <2>3, <2>4, <2>5, <2>6, <2>7, <2>8, <2>9, <2>10, <2>11
       DEF Next, MainStep
<1>3. QED
  BY <1>1, <1>2, RadarTypeCorrect, PTL DEF Spec

(***************************************************************************)
(* A burst that passes the GSR0 check started on the first word of its     *)
(* frame, with no word lost before it.                                     *)
(***************************************************************************)
THEOREM PacketIsAlwaysItsFrame == Spec => []PacketIsItsFrame
<1>1. StatusInv => PacketIsItsFrame
  BY DEF StatusInv, PacketIsItsFrame
<1>2. QED
  BY <1>1, StatusCorrect, PTL

(***************************************************************************)
(* A corrupt datagram is the last one.                                     *)
(***************************************************************************)
THEOREM NothingEverAfterCorrupt == Spec => NothingAfterCorrupt
<1>1. StatusInv => (pc = "send" => wire # "corrupt")
  BY DEF StatusInv
<1>2. (pc = "send" => wire # "corrupt")
      => [ pc = "send" /\ pc' = "wait" => wire # "corrupt" ]_vars
  OBVIOUS
<1>3. QED
  BY <1>1, <1>2, StatusCorrect, PTL DEF NothingAfterCorrupt

-----------------------------------------------------------------------------
(***************************************************************************)
(* As long as no burst has overlapped the next chirp: the FIFO holds the   *)
(* words of the running chirp and no others, or one frame and its edge or  *)
(* its token, or what is left of that frame while it is read.              *)
(***************************************************************************)
OnTime ==
  /\ ~gsr0 /\ ~lost /\ ~status
  /\ ~(edge /\ fifo_ready)
  /\ edge \/ fifo_ready => pc \in {"wait", "send"} /\ fill = FrameWords /\ tail = 0
  /\ pc \in {"wait", "send"} /\ ~edge /\ ~fifo_ready => fill = tail
  /\ pc = "wait" /\ waited > 0 => edge \/ fifo_ready
  /\ pc = "header" => fill = FrameWords /\ tail = 0
  /\ pc = "burst" => fill = FrameWords - got /\ tail = 0

OnTimeInv ==
  /\ StopsOnlyWhenLate
  /\ ~late /\ pc \notin {"stop", "done"} => OnTime

LEMMA OnTimeCorrect == Spec => []OnTimeInv
<1> USE SizeAssumption DEF OnTimeInv, OnTime, StopsOnlyWhenLate
<1>1. Init => OnTimeInv
  BY DEF Init
<1>2. TypeOK /\ OnTimeInv /\ [Next]_vars => OnTimeInv'
  <2> SUFFICES ASSUME TypeOK, OnTimeInv, [Next]_vars PROVE OnTimeInv'
    OBVIOUS
  <2> USE DEF TypeOK, sensor, burst
  <2>1. CASE Sample
    <3> SUFFICES ASSUME ~late', pc' \notin {"stop", "done"}
                 PROVE  OnTime'
      BY <2>1 DEF Sample
    <3>0. ~late /\ ~edge /\ ~fifo_ready /\ pc' = pc
      BY <2>1, Zenon DEF Sample
    <3>1. /\ ~edge /\ ~fifo_ready /\ pc \in {"wait", "send"}
          /\ fill = tail /\ fill < FifoWords
      <4>1. pc \notin {"header", "burst"}
        BY <2>1, Zenon DEF Sample
      <4>2. pc \in {"wait", "send"}
        BY <3>0, <4>1
      <4>3. OnTime
        BY <3>0, <4>2
      <4>4. QED
        BY <3>0, <4>2, <4>3
    <3>2. fill' = fill + 1
      BY <2>1, <3>1 DEF Sample, Min
    <3>3. tail' = IF tail + 1 = FrameWords THEN 0 ELSE tail + 1
      BY <2>1, NextPosition DEF Sample
    <3>4. edge' <=> fill' = FrameWords
      <4>1. ~IrqLine(fill)
        BY <3>1 DEF IrqLine, FIFO_CREF
      <4>2. IrqLine(fill') <=> fill' = FrameWords
        BY <3>1, <3>2 DEF IrqLine, FIFO_CREF
      <4>3. edge' <=> IrqLine(fill')
        BY <2>1, <3>1, <4>1, Zenon DEF Sample
      <4>4. QED
        BY <4>2, <4>3
    <3>5. pc = "wait" => waited = 0
      BY <3>0, <3>1
    <3>6. pc' = "wait" /\ waited' > 0 => edge'
      BY <2>1, <3>1, <3>2, <3>3, <3>4, <3>5 DEF Sample
    <3>7. ~gsr0' /\ ~lost' /\ ~status' /\ ~fifo_ready' /\ pc' = pc
      BY <2>1, <3>0, <3>1 DEF Sample
    <3>8. QED
      BY <3>1, <3>2, <3>3, <3>4, <3>6, <3>7
  <2>2. CASE Isr
    BY <2>2 DEF Isr
  <2>3. CASE TakeToken
    BY <2>3 DEF TakeToken
  <2>4. CASE WaitTimesOut
    BY <2>4 DEF WaitTimesOut
  <2>5. CASE BurstHeader
    BY <2>5 DEF BurstHeader
  <2>6. CASE PopWord
    BY <2>6 DEF PopWord
  <2>7. CASE CheckStatus
    BY <2>7 DEF CheckStatus
  <2>8. CASE SpiFails
    BY <2>8 DEF SpiFails
  <2>9. CASE Send
    BY <2>9 DEF Send
  <2>10. CASE StopFrame
    BY <2>10 DEF StopFrame
  <2>11. CASE UNCHANGED vars
    BY <2>11 DEF vars
  <2>12. QED
    BY <2>1, <2>2, <2>3, <2>4, <2>5, <2>6, <2>7, <2>8, <2>9, <2>10, <2>11
       DEF Next, MainStep
<1>3. QED
  BY <1>1, <1>2, RadarTypeCorrect, PTL DEF Spec

(***************************************************************************)
(* As long as each burst ends before the next chirp begins, neither a      *)
(* timeout nor the status word ever stops the stream.                      *)
(***************************************************************************)
THEOREM StopsOnlyEverWhenLate == Spec => []StopsOnlyWhenLate
<1>1. OnTimeInv => StopsOnlyWhenLate
  BY DEF OnTimeInv
<1>2. QED
  BY <1>1, OnTimeCorrect, PTL

-----------------------------------------------------------------------------
(***************************************************************************)
(* The bring-up and the stop.  First the FIFO threshold: for a limit the   *)
(* driver accepts, the field it writes asks for that many samples, and for *)
(* the limit 0, which it accepts, for the whole FIFO.                      *)
(***************************************************************************)
LEMMA CrefInField ==
  ASSUME NEW samples \in Nat
  PROVE  Cref(samples) \in 0..(FIFO_SIZE - 1)
<1>1. samples \div 2 \in Nat /\ FIFO_SIZE \in Nat \ {0}
  BY BringUpAssumption
<1>2. (samples \div 2) + FIFO_SIZE - 1 \in Nat
  BY <1>1
<1> QED
  BY <1>1, <1>2 DEF Cref

LEMMA CrefOfLimit ==
  ASSUME NEW samples \in Nat \ {0}, LimitValid(samples)
  PROVE  2 * (Cref(samples) + 1) = samples
<1> DEFINE half == samples \div 2
<1>1. half \in Nat /\ samples = 2 * half
  BY DEF LimitValid
<1>2. half \in 1..FIFO_SIZE /\ FIFO_SIZE \in Nat \ {0}
  BY <1>1, BringUpAssumption DEF LimitValid
<1> HIDE DEF half
<1>3. ((half - 1) + FIFO_SIZE) % FIFO_SIZE = half - 1
  BY <1>2
<1>4. Cref(samples) = ((half - 1) + FIFO_SIZE) % FIFO_SIZE
  <2>1. half + FIFO_SIZE - 1 = (half - 1) + FIFO_SIZE
    BY <1>2
  <2>2. Cref(samples) = (half + FIFO_SIZE - 1) % FIFO_SIZE
    BY DEF Cref, half
  <2> QED
    BY <2>1, <2>2
<1> QED
  BY <1>1, <1>2, <1>3, <1>4

\* For none it wraps to the greatest value of the field.
LEMMA CrefOfNone == Cref(0) = FIFO_SIZE - 1
<1>1. FIFO_SIZE \in Nat \ {0}
  BY BringUpAssumption
<1>2. 0 \div 2 = 0
  OBVIOUS
<1>3. Cref(0) = (FIFO_SIZE - 1) % FIFO_SIZE
  <2>1. 0 + FIFO_SIZE - 1 = FIFO_SIZE - 1
    BY <1>1
  <2> QED
    BY <1>2, <2>1 DEF Cref
<1> QED
  BY <1>1, <1>3

LEMMA SfctlTypes ==
  /\ SfctlReset \in SFCTL /\ SfctlReset.hs = FALSE
  /\ \A samples \in Limits : Cref(samples) \in 0..(FIFO_SIZE - 1)
  /\ Limits \subseteq Nat
<1>1. SfctlReset \in SFCTL
  <2>1. 0 \in 0..(FIFO_SIZE - 1)
    BY BringUpAssumption
  <2> QED
    BY <2>1 DEF SfctlReset, SFCTL
<1>2. SfctlReset.hs = FALSE
  BY DEF SfctlReset
<1>3. Limits \subseteq Nat
  BY BringUpAssumption
<1> QED
  BY <1>1, <1>2, <1>3, CrefInField

(***************************************************************************)
(* While main() waits, a whole frame in the FIFO has its edge or its       *)
(* token.                                                                  *)
(***************************************************************************)
THEOREM FrameAlwaysAnnounced == Spec => []FrameIsAnnounced
<1>1. TypeOK /\ OnTimeInv => FrameIsAnnounced
  <2> SUFFICES ASSUME TypeOK, OnTimeInv, pc = "wait", ~late, ~edge, ~fifo_ready
               PROVE  ~(fill >= FrameWords)
    BY DEF FrameIsAnnounced
  <2>1. fill = tail
    BY DEF OnTimeInv, OnTime
  <2> QED
    BY <2>1, SizeAssumption DEF TypeOK
<1> QED
  BY <1>1, RadarTypeCorrect, OnTimeCorrect, PTL

(***************************************************************************)
(* Type correctness of the two applications' bring-up.                     *)
(***************************************************************************)
Table == {radar_regs[i] : i \in 1..Len(radar_regs)}

THEOREM BringUpTypeCorrect == BringUpSpec => []BringUpTypeOK
<1>1. BringUpInit => BringUpTypeOK
  <2> SUFFICES ASSUME BringUpInit PROVE BringUpTypeOK
    OBVIOUS
  <2>1. 0 \in 0..SOFT_RESET_TIMEOUT
    BY BringUpAssumption
  <2>2. tmp \in SFCTL /\ sfctl \in SFCTL /\ regs \subseteq Table
    BY SfctlTypes DEF BringUpInit
  <2>3. resetting \subseteq {RESET_SW, RESET_FSM}
    BY DEF BringUpInit
  <2> QED
    BY <2>1, <2>2, <2>3 DEF BringUpInit, BringUpTypeOK, Table
<1>2. BringUpTypeOK /\ [BringUpNext]_bringUpVars => BringUpTypeOK'
  <2> SUFFICES ASSUME BringUpTypeOK, [BringUpNext]_bringUpVars
               PROVE  BringUpTypeOK'
    OBVIOUS
  <2> USE SfctlTypes DEF BringUpTypeOK, InitPoints, ResetPoints, EndPoints,
              Step, Spi, Locals, host, sensorVars
  <2>1. CASE EnsureClkHf10
    BY <2>1 DEF EnsureClkHf10
  <2>2. CASE InitFails
    BY <2>2 DEF InitFails
  <2>3. CASE HardReset
    <3>1. UNCHANGED <<host, Locals, resetting>>
      BY <2>3 DEF HardReset
    <3>2. stage' \in {"assert", "release", "mode"} /\ reset' \in BOOLEAN
      BY <2>3 DEF HardReset
    <3>3. regs' = regs \/ regs' = {}
      BY <2>3 DEF HardReset
    <3>4. sfctl' \in SFCTL /\ running' \in BOOLEAN
      BY <2>3 DEF HardReset
    <3>5. QED
      BY <3>1, <3>2, <3>3, <3>4
  <2>4. CASE SetSpiMode
    BY <2>4 DEF SetSpiMode
  <2>5. CASE VerifyChipId
    BY <2>5 DEF VerifyChipId
  <2>6. CASE WireIrq
    <3>1. /\ UNCHANGED <<app, hf10, limit, sock, Locals, sensorVars>>
          /\ stage' \in {"callback", "main"}
      BY <2>6 DEF WireIrq
    <3>2. ready' \in BOOLEAN /\ wired' \in BOOLEAN
      BY <2>6 DEF WireIrq
    <3>3. QED
      BY <3>1, <3>2
  <2>7. CASE DeviceIsReady
    BY <2>7 DEF DeviceIsReady
  <2>8. CASE StartWifi
    BY <2>8 DEF StartWifi
  <2>9. CASE OpenSocket
    BY <2>9 DEF OpenSocket
  <2>10. CASE Config
    BY <2>10 DEF Config
  <2>11. CASE SoftReset
    <3>1. timeout' \in 0..SOFT_RESET_TIMEOUT
      BY <2>11, BringUpAssumption DEF SoftReset
    <3>2. resetting' \subseteq {RESET_SW, RESET_FSM}
      BY <2>11 DEF SoftReset, ResetType
    <3>3. stage' \in {"reset_write", "reset_poll", "regs", "close", "failed"}
      BY <2>11 DEF SoftReset, AfterReset, ResetFailed
    <3> QED
      BY <2>11, <3>1, <3>2, <3>3 DEF SoftReset
  <2>12. CASE ResetFails
    BY <2>12, BringUpAssumption DEF ResetFails, ResetFailed
  <2>13. CASE WriteTable
    <3>1. n' \in Nat /\ regs' \subseteq Table
      BY <2>13, BringUpAssumption DEF WriteTable, Table
    <3> QED
      BY <2>13, <3>1, SfctlTypes DEF WriteTable, Table
  <2>14. CASE SetFifoLimit
    <3>1. sfctl' \in SFCTL /\ tmp' \in SFCTL
      BY <2>14, SfctlTypes DEF SetFifoLimit, SFCTL
    <3> QED
      BY <2>14, <3>1 DEF SetFifoLimit
  <2>15. CASE StartFrame
    BY <2>15 DEF StartFrame
  <2>16. CASE CallFails
    BY <2>16 DEF CallFails
  <2>17. CASE WaitFrame
    BY <2>17 DEF WaitFrame
  <2>18. CASE GetFrame
    BY <2>18 DEF GetFrame
  <2>19. CASE Stop
    BY <2>19 DEF Stop
  <2>20. CASE Close
    BY <2>20 DEF Close
  <2>21. CASE SensorResets
    <3>1. resetting' \subseteq {RESET_SW, RESET_FSM} /\ running' \in BOOLEAN
      BY <2>21 DEF SensorResets
    <3>2. sfctl' \in SFCTL
      BY <2>21 DEF SensorResets
    <3>3. regs' \subseteq Table
      BY <2>21 DEF SensorResets, Table
    <3> QED
      BY <2>21, <3>1, <3>2, <3>3 DEF SensorResets, Table
  <2>22. CASE UNCHANGED bringUpVars
    BY <2>22 DEF bringUpVars
  <2> QED
    BY <2>1, <2>2, <2>3, <2>4, <2>5, <2>6, <2>7, <2>8, <2>9,
       <2>10, <2>11, <2>12, <2>13, <2>14, <2>15, <2>16, <2>17, <2>18,
       <2>19, <2>20, <2>21, <2>22
       DEF BringUpNext, DriverInit, Main
<1> QED
  BY <1>1, <1>2, PTL DEF BringUpSpec

(***************************************************************************)
(* Which device main() works with: a driver that came up has its line      *)
(* wired, its clock running and the reset pin released.                    *)
(***************************************************************************)
ReadyInv ==
  /\ reset => ~ready /\ stage \in {"assert", "release", "main", "failed"}
  /\ ready => wired /\ hf10
  /\ stage \in {"chip_id", "wire", "callback"} => hf10
  /\ stage \in {"hf10"} \cup InitPoints => ~ready
  /\ stage \notin {"hf10", "main", "failed"} \cup InitPoints => ready

LEMMA ReadyCorrect == BringUpSpec => []ReadyInv
<1>1. BringUpInit => ReadyInv
  BY DEF BringUpInit, ReadyInv, InitPoints
<1>2. ReadyInv /\ [BringUpNext]_bringUpVars
        => ReadyInv'
  <2> SUFFICES ASSUME ReadyInv,
                      [BringUpNext]_bringUpVars
               PROVE  ReadyInv'
    OBVIOUS
  <2> USE DEF ReadyInv, EndPoints, InitPoints, ResetPoints,
              Step, Spi, Locals, host, sensorVars
  <2>1. CASE EnsureClkHf10
    BY <2>1 DEF EnsureClkHf10
  <2>2. CASE InitFails
    BY <2>2 DEF InitFails
  <2>3. CASE HardReset
    BY <2>3 DEF HardReset
  <2>4. CASE SetSpiMode
    BY <2>4 DEF SetSpiMode
  <2>5. CASE VerifyChipId
    BY <2>5 DEF VerifyChipId
  <2>6. CASE WireIrq
    BY <2>6 DEF WireIrq
  <2>7. CASE DeviceIsReady
    BY <2>7 DEF DeviceIsReady
  <2>8. CASE StartWifi
    BY <2>8 DEF StartWifi
  <2>9. CASE OpenSocket
    BY <2>9 DEF OpenSocket
  <2>10. CASE Config
    BY <2>10 DEF Config
  <2>11. CASE SoftReset
    BY <2>11 DEF SoftReset, ResetType, AfterReset, ResetFailed
  <2>12. CASE ResetFails
    BY <2>12 DEF ResetFails, ResetFailed
  <2>13. CASE WriteTable
    BY <2>13 DEF WriteTable
  <2>14. CASE SetFifoLimit
    BY <2>14 DEF SetFifoLimit
  <2>15. CASE StartFrame
    BY <2>15 DEF StartFrame
  <2>16. CASE CallFails
    BY <2>16 DEF CallFails
  <2>17. CASE WaitFrame
    BY <2>17 DEF WaitFrame
  <2>18. CASE GetFrame
    BY <2>18 DEF GetFrame
  <2>19. CASE Stop
    BY <2>19 DEF Stop
  <2>20. CASE Close
    BY <2>20 DEF Close
  <2>21. CASE SensorResets
    BY <2>21 DEF SensorResets
  <2>22. CASE UNCHANGED bringUpVars
    BY <2>22 DEF bringUpVars
  <2> QED
    BY <2>1, <2>2, <2>3, <2>4, <2>5, <2>6, <2>7, <2>8, <2>9,
       <2>10, <2>11, <2>12, <2>13, <2>14, <2>15, <2>16, <2>17, <2>18,
       <2>19, <2>20, <2>21, <2>22
       DEF BringUpNext, DriverInit, Main
<1> QED
  BY <1>1, <1>2, PTL DEF BringUpSpec

(***************************************************************************)
(* Which reset may be under way: the SW reset only while the bring-up      *)
(* polls it, or when the bring-up has failed; the FSM reset only from the  *)
(* stop on.                                                                *)
(***************************************************************************)
ResetInv ==
  /\ stage \in {"close", "done"} => ctx = "stop"
  /\ stage \notin ResetPoints \cup {"close", "done"} => ctx = "config"
  /\ RESET_SW \in resetting =>
       ctx = "config" /\ stage \in {"reset_poll", "failed"}
  /\ RESET_FSM \in resetting =>
       ctx = "stop" /\ stage \in {"reset_poll", "close", "done"}

LEMMA ResetCorrect == BringUpSpec => []ResetInv
<1>1. BringUpInit => ResetInv
  BY DEF BringUpInit, ResetInv, ResetPoints
<1>2. BringUpTypeOK /\ ResetInv /\ [BringUpNext]_bringUpVars
        => ResetInv'
  <2> SUFFICES ASSUME BringUpTypeOK, ResetInv,
                      [BringUpNext]_bringUpVars
               PROVE  ResetInv'
    OBVIOUS
  <2> USE DEF BringUpTypeOK, ResetInv, RESET_SW, RESET_FSM,
              InitPoints, ResetPoints,
              Step, Spi, Locals, host, sensorVars
  <2>1. CASE EnsureClkHf10
    BY <2>1 DEF EnsureClkHf10
  <2>2. CASE InitFails
    BY <2>2 DEF InitFails
  <2>3. CASE HardReset
    BY <2>3 DEF HardReset
  <2>4. CASE SetSpiMode
    BY <2>4 DEF SetSpiMode
  <2>5. CASE VerifyChipId
    BY <2>5 DEF VerifyChipId
  <2>6. CASE WireIrq
    BY <2>6 DEF WireIrq
  <2>7. CASE DeviceIsReady
    BY <2>7 DEF DeviceIsReady
  <2>8. CASE StartWifi
    BY <2>8 DEF StartWifi
  <2>9. CASE OpenSocket
    BY <2>9 DEF OpenSocket
  <2>10. CASE Config
    BY <2>10 DEF Config
  <2>11. CASE SoftReset
    BY <2>11 DEF SoftReset, ResetType, AfterReset, ResetFailed
  <2>12. CASE ResetFails
    BY <2>12 DEF ResetFails, ResetFailed
  <2>13. CASE WriteTable
    BY <2>13 DEF WriteTable
  <2>14. CASE SetFifoLimit
    BY <2>14 DEF SetFifoLimit
  <2>15. CASE StartFrame
    BY <2>15 DEF StartFrame
  <2>16. CASE CallFails
    BY <2>16 DEF CallFails
  <2>17. CASE WaitFrame
    BY <2>17 DEF WaitFrame
  <2>18. CASE GetFrame
    BY <2>18 DEF GetFrame
  <2>19. CASE Stop
    BY <2>19 DEF Stop
  <2>20. CASE Close
    BY <2>20 DEF Close
  <2>21. CASE SensorResets
    BY <2>21 DEF SensorResets
  <2>22. CASE UNCHANGED bringUpVars
    BY <2>22 DEF bringUpVars
  <2> QED
    BY <2>1, <2>2, <2>3, <2>4, <2>5, <2>6, <2>7, <2>8, <2>9,
       <2>10, <2>11, <2>12, <2>13, <2>14, <2>15, <2>16, <2>17, <2>18,
       <2>19, <2>20, <2>21, <2>22
       DEF BringUpNext, DriverInit, Main
<1> QED
  BY <1>1, <1>2, BringUpTypeCorrect, PTL DEF BringUpSpec

(***************************************************************************)
(* How far the sensor is configured: the table up to the entry to be       *)
(* written, then all of it, then the limit in SFCTL; and whatever chirps   *)
(* is configured, because the SW reset was over before the first entry.    *)
(***************************************************************************)
Configured ==
  regs = Table /\ LimitValid(limit) /\ sfctl.cref = Cref(limit)

ConfigInv ==
  /\ running =>
       \/ stage \in {"wait", "get", "stop", "close", "done"}
       \/ stage \in ResetPoints /\ ctx = "stop"
  /\ stage = "regs" =>
       n <= Len(radar_regs) /\ \A i \in 1..n : radar_regs[i] \in regs
  /\ stage \in {"limit_read", "limit_write"} => regs = Table
  /\ stage = "limit_write" => LimitValid(limit)
  /\ running \/ stage \in {"start_read", "start_write"} => Configured
  /\ ~sfctl.hs /\ ~tmp.hs

LEMMA ConfigCorrect == BringUpSpec => []ConfigInv
<1>1. BringUpInit => ConfigInv
  BY SfctlTypes DEF BringUpInit, ConfigInv
<1>2. BringUpTypeOK /\ ResetInv /\ ConfigInv /\ [BringUpNext]_bringUpVars
        => ConfigInv'
  <2> SUFFICES ASSUME BringUpTypeOK, ResetInv, ConfigInv,
                      [BringUpNext]_bringUpVars
               PROVE  ConfigInv'
    OBVIOUS
  <2> USE DEF BringUpTypeOK, ResetInv, ConfigInv, Configured,
              EndPoints, InitPoints, ResetPoints,
              Step, Spi, Locals, host, sensorVars
  <2>1. CASE EnsureClkHf10
    BY <2>1 DEF EnsureClkHf10
  <2>2. CASE InitFails
    BY <2>2 DEF InitFails
  <2>3. CASE HardReset
    BY <2>3, SfctlTypes DEF HardReset
  <2>4. CASE SetSpiMode
    BY <2>4, SfctlTypes DEF SetSpiMode
  <2>5. CASE VerifyChipId
    BY <2>5 DEF VerifyChipId
  <2>6. CASE WireIrq
    BY <2>6 DEF WireIrq
  <2>7. CASE DeviceIsReady
    BY <2>7 DEF DeviceIsReady
  <2>8. CASE StartWifi
    BY <2>8 DEF StartWifi
  <2>9. CASE OpenSocket
    BY <2>9 DEF OpenSocket
  <2>10. CASE Config
    BY <2>10 DEF Config
  <2>11. CASE SoftReset
    BY <2>11 DEF SoftReset, ResetType, AfterReset, ResetFailed
  <2>12. CASE ResetFails
    BY <2>12 DEF ResetFails, ResetFailed
  <2>13. CASE WriteTable
    <3>1. ~running /\ ~running' /\ stage' \in {"regs", "limit_read"}
      BY <2>13 DEF WriteTable
    <3>2. ~sfctl'.hs /\ ~tmp'.hs
      BY <2>13, SfctlTypes DEF WriteTable
    <3>3. CASE stage' = "regs"
      <4>1. n < Len(radar_regs) /\ n' = n + 1
            /\ regs' = regs \cup {radar_regs[n + 1]}
        BY <2>13, <3>3 DEF WriteTable
      <4>2. \A i \in 1..n' : radar_regs[i] \in regs'
        BY <2>13, <4>1 DEF WriteTable
      <4>3. n' <= Len(radar_regs)
        BY <4>1, BringUpAssumption
      <4> QED
        BY <3>1, <3>2, <3>3, <4>2, <4>3
    <3>4. CASE stage' = "limit_read"
      <4>1. ~(n < Len(radar_regs)) /\ stage = "regs" /\ regs' = regs
        BY <2>13, <3>4 DEF WriteTable
      <4>2. n = Len(radar_regs)
        BY <4>1, BringUpAssumption
      <4>3. Table \subseteq regs /\ regs \subseteq Table
        BY <4>1, <4>2 DEF Table
      <4> QED
        BY <3>1, <3>2, <3>4, <4>1, <4>3 DEF Table
    <3> QED
      BY <3>1, <3>3, <3>4
  <2>14. CASE SetFifoLimit
    <3>1. CASE stage = "limit_read"
      BY <2>14, <3>1 DEF SetFifoLimit, Table
    <3>2. CASE stage = "limit_write"
      <4>1. /\ stage' = "start_read" /\ ~running'
            /\ UNCHANGED <<limit, regs, tmp>>
            /\ sfctl' = [tmp EXCEPT !.cref = Cref(limit)]
        BY <2>14, <3>2 DEF SetFifoLimit
      <4>2. sfctl'.cref = Cref(limit) /\ sfctl'.hs = tmp.hs
        BY <4>1 DEF SFCTL
      <4> QED
        BY <3>2, <4>1, <4>2 DEF Table, LimitValid, Cref
    <3> QED
      BY <2>14, <3>1, <3>2 DEF SetFifoLimit
  <2>15. CASE StartFrame
    BY <2>15 DEF StartFrame
  <2>16. CASE CallFails
    BY <2>16 DEF CallFails
  <2>17. CASE WaitFrame
    BY <2>17 DEF WaitFrame
  <2>18. CASE GetFrame
    BY <2>18 DEF GetFrame
  <2>19. CASE Stop
    BY <2>19 DEF Stop
  <2>20. CASE Close
    BY <2>20 DEF Close
  <2>21. CASE SensorResets
    <3>1. stage \in {"reset_poll", "failed", "close", "done"}
      BY <2>21 DEF SensorResets
    <3>2. ~running' /\ stage' = stage /\ tmp' = tmp
      BY <2>21 DEF SensorResets
    <3>3. ~sfctl'.hs
      BY <2>21, SfctlTypes DEF SensorResets
    <3> QED
      BY <3>1, <3>2, <3>3
  <2>22. CASE UNCHANGED bringUpVars
    BY <2>22 DEF bringUpVars
  <2> QED
    BY <2>1, <2>2, <2>3, <2>4, <2>5, <2>6, <2>7, <2>8, <2>9,
       <2>10, <2>11, <2>12, <2>13, <2>14, <2>15, <2>16, <2>17, <2>18,
       <2>19, <2>20, <2>21, <2>22
       DEF BringUpNext, DriverInit, Main
<1> QED
  BY <1>1, <1>2, BringUpTypeCorrect, ResetCorrect, PTL DEF BringUpSpec

(***************************************************************************)
(* What the stop leaves: an FSM reset that has cleared has stopped the     *)
(* chirps, and a poll that ended well has polls left.                      *)
(***************************************************************************)
StopInv ==
  /\ stage = "reset_poll" /\ ctx = "stop" /\ RESET_FSM \notin resetting
       => ~running
  /\ stage \in {"close", "done"} /\ timeout # 0 => ~running

LEMMA StopCorrect == BringUpSpec => []StopInv
<1>1. BringUpInit => StopInv
  BY DEF BringUpInit, StopInv
<1>2. BringUpTypeOK /\ ResetInv /\ ConfigInv /\ StopInv /\ [BringUpNext]_bringUpVars
        => StopInv'
  <2> SUFFICES ASSUME BringUpTypeOK, ResetInv, ConfigInv, StopInv,
                      [BringUpNext]_bringUpVars
               PROVE  StopInv'
    OBVIOUS
  <2> USE DEF BringUpTypeOK, ResetInv, ConfigInv, StopInv, InitPoints, ResetPoints,
              Step, Spi, Locals, host, sensorVars
  <2>1. CASE EnsureClkHf10
    BY <2>1 DEF EnsureClkHf10
  <2>2. CASE InitFails
    BY <2>2 DEF InitFails
  <2>3. CASE HardReset
    BY <2>3 DEF HardReset
  <2>4. CASE SetSpiMode
    BY <2>4 DEF SetSpiMode
  <2>5. CASE VerifyChipId
    BY <2>5 DEF VerifyChipId
  <2>6. CASE WireIrq
    BY <2>6 DEF WireIrq
  <2>7. CASE DeviceIsReady
    BY <2>7 DEF DeviceIsReady
  <2>8. CASE StartWifi
    BY <2>8 DEF StartWifi
  <2>9. CASE OpenSocket
    BY <2>9 DEF OpenSocket
  <2>10. CASE Config
    BY <2>10 DEF Config
  <2>11. CASE SoftReset
    BY <2>11 DEF SoftReset, ResetType, AfterReset, ResetFailed
  <2>12. CASE ResetFails
    BY <2>12 DEF ResetFails, ResetFailed
  <2>13. CASE WriteTable
    BY <2>13 DEF WriteTable
  <2>14. CASE SetFifoLimit
    BY <2>14 DEF SetFifoLimit
  <2>15. CASE StartFrame
    BY <2>15 DEF StartFrame
  <2>16. CASE CallFails
    BY <2>16 DEF CallFails
  <2>17. CASE WaitFrame
    BY <2>17 DEF WaitFrame
  <2>18. CASE GetFrame
    BY <2>18 DEF GetFrame
  <2>19. CASE Stop
    BY <2>19 DEF Stop
  <2>20. CASE Close
    BY <2>20 DEF Close
  <2>21. CASE SensorResets
    BY <2>21 DEF SensorResets
  <2>22. CASE UNCHANGED bringUpVars
    BY <2>22 DEF bringUpVars
  <2> QED
    BY <2>1, <2>2, <2>3, <2>4, <2>5, <2>6, <2>7, <2>8, <2>9,
       <2>10, <2>11, <2>12, <2>13, <2>14, <2>15, <2>16, <2>17, <2>18,
       <2>19, <2>20, <2>21, <2>22
       DEF BringUpNext, DriverInit, Main
<1> QED
  BY <1>1, <1>2, BringUpTypeCorrect, ResetCorrect, ConfigCorrect, PTL DEF BringUpSpec

(***************************************************************************)
(* A sensor that chirps is configured: the whole table, the threshold that *)
(* was asked for, its line wired, its resets over.                         *)
(***************************************************************************)
THEOREM RunsAlwaysAsConfigured == BringUpSpec => []RunsAsConfigured
<1>1. BringUpTypeOK /\ ReadyInv /\ ResetInv /\ ConfigInv => RunsAsConfigured
  <2> SUFFICES ASSUME BringUpTypeOK, ReadyInv, ResetInv, ConfigInv, running
               PROVE  /\ regs = Table /\ Threshold = AskedFor
                      /\ ~sfctl.hs /\ wired /\ hf10 /\ ~reset
                      /\ RESET_SW \notin resetting
    BY DEF RunsAsConfigured, Table
  <2>1. regs = Table /\ ~sfctl.hs
    BY DEF ConfigInv, Configured
  <2>2. Threshold = AskedFor
    <3>1. LimitValid(limit) /\ sfctl.cref = Cref(limit) /\ limit \in Nat
      BY SfctlTypes DEF ConfigInv, Configured, BringUpTypeOK
    <3>2. CASE limit = 0
      <4>1. sfctl.cref = FIFO_SIZE - 1 /\ FIFO_SIZE \in Nat
        BY <3>1, <3>2, CrefOfNone, BringUpAssumption
      <4> QED
        BY <3>2, <4>1 DEF Threshold, AskedFor
    <3>3. CASE limit # 0
      BY <3>1, <3>3, CrefOfLimit DEF Threshold, AskedFor
    <3> QED
      BY <3>2, <3>3
  <2>3. stage \in {"wait", "get", "stop", "close", "done"} \cup ResetPoints
    BY DEF ConfigInv
  <2>4. ready /\ wired /\ hf10 /\ ~reset
    BY <2>3 DEF ReadyInv, InitPoints, ResetPoints
  <2>5. RESET_SW \notin resetting
    BY DEF ResetInv, ConfigInv, ResetPoints
  <2> QED
    BY <2>1, <2>2, <2>4, <2>5
<1> QED
  BY <1>1, BringUpTypeCorrect, ReadyCorrect, ResetCorrect, ConfigCorrect, PTL

(***************************************************************************)
(* When main() is over, a sensor chirps only if its stop failed.           *)
(***************************************************************************)
THEOREM NobodyEverLeftRunning == BringUpSpec => []NobodyLeftRunning
<1>1. ConfigInv /\ StopInv => NobodyLeftRunning
  BY DEF ConfigInv, StopInv, NobodyLeftRunning, EndPoints, ResetPoints
<1> QED
  BY <1>1, ConfigCorrect, StopCorrect, PTL

(***************************************************************************)
(* A soft reset is over after SOFT_RESET_TIMEOUT + 2 transfers, whatever   *)
(* the sensor does.  Outside SoftReset and ResetFails no step of the host  *)
(* starts inside a reset, and the sensor does not move the budget.         *)
(***************************************************************************)
THEOREM ResetAlwaysBounded == BringUpSpec => ResetIsBounded
<1> DEFINE Shorter ==
             {stage, stage'} \subseteq ResetPoints
             => PollsLeft' < PollsLeft \/ UNCHANGED <<stage, timeout>>
<1>1. BringUpTypeOK /\ [BringUpNext]_bringUpVars => [Shorter]_bringUpVars
  <2> SUFFICES ASSUME BringUpTypeOK, BringUpNext,
                      {stage, stage'} \subseteq ResetPoints
               PROVE  PollsLeft' < PollsLeft \/ UNCHANGED <<stage, timeout>>
    OBVIOUS
  <2>1. CASE SoftReset
    <3>1. timeout \in Nat /\ SOFT_RESET_TIMEOUT \in Nat \ {0}
      BY BringUpAssumption DEF BringUpTypeOK
    <3>2. CASE stage = "reset_poll"
      BY <2>1, <3>1, <3>2
         DEF SoftReset, Spi, Step, PollsLeft, ResetPoints, AfterReset, ResetFailed
    <3>3. CASE stage = "reset_write"
      BY <2>1, <3>1, <3>3 DEF SoftReset, Spi, Step, PollsLeft
    <3>4. CASE stage = "reset_read"
      BY <2>1, <3>1, <3>4 DEF SoftReset, Spi, Step, PollsLeft
    <3> QED
      BY <3>2, <3>3, <3>4 DEF ResetPoints
  <2>2. CASE ResetFails
    BY <2>2 DEF ResetFails, ResetFailed, ResetPoints
  <2>3. CASE SensorResets
    BY <2>3 DEF SensorResets, Locals
  <2>4. DriverInit => FALSE
    BY DEF DriverInit, EnsureClkHf10, InitFails, HardReset, SetSpiMode,
           VerifyChipId, WireIrq, InitPoints, ResetPoints, Spi, Step
  <2>5. Main => SoftReset \/ ResetFails
    BY DEF Main, DeviceIsReady, StartWifi, OpenSocket, Config, WriteTable,
           SetFifoLimit, StartFrame, CallFails, WaitFrame, GetFrame, Stop,
           Close, ResetPoints, Spi, Step
  <2> QED
    BY <2>1, <2>2, <2>3, <2>4, <2>5 DEF BringUpNext
<1> QED
  BY <1>1, BringUpTypeCorrect, PTL DEF BringUpSpec, ResetIsBounded

=============================================================================
