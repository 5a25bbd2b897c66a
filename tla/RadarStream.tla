----------------------------- MODULE RadarStream -----------------------------
(***************************************************************************)
(* The radar streamer: the loop of main() in app 10, the BGT60TR13C driver *)
(* it calls, the FIFO-ready interrupt, and the sensor that fills its FIFO  *)
(* meanwhile.                                                              *)
(*                                                                         *)
(* The FIFO is in order, so it is described by counts.  head and tail are  *)
(* positions inside a frame: of the next word to be read and of the next   *)
(* word to be written.  lost, crooked, wire and late are history: they     *)
(* record what a property has to tell apart and no action depends on them. *)
(*                                                                         *)
(* Time is told by the sensor, which completes a frame every 5 ms: a wait  *)
(* of 50 ms is a wait of TimeoutFrames frames.                             *)
(***************************************************************************)
EXTENDS Naturals

CONSTANTS
  FrameWords,       \* NUM_SAMPLES / 2: two samples to a FIFO word
  FifoWords,        \* BGT60TR13C_FIFO_SIZE
  TimeoutFrames     \* FIFO_IRQ_TIMEOUT over the frame repetition time

ASSUME SizeAssumption ==
  /\ FrameWords \in Nat \ {0}
  /\ FifoWords \in Nat /\ FrameWords <= FifoWords
  /\ TimeoutFrames \in Nat \ {0}

VARIABLES
  pc,         \* where main() is in its loop
  ret,        \* what stopped the loop
  chirping,   \* the sensor's FSM produces frames
  fill,       \* words in the FIFO
  head, tail,
  gsr0,       \* the sticky FOU_ERR bit of GSR0
  edge,       \* a rising edge latched by the GPIO port, ISR not run yet
  fifo_ready, \* the semaphore the ISR gives, limit 1
  waited,     \* frames completed since wait_fifo_ready was called
  got,        \* words clocked out by the running burst
  status,     \* GSR0 as the header of the burst returned it
  short,      \* the burst went on past the last word of the FIFO
  crooked,    \* the burst started off a frame's first word, or after a loss
  lost,       \* the sensor has dropped a word
  wire,       \* the last datagram handed to the network
  late        \* the sensor has written while a whole frame lay unread

sensor  == <<chirping, fill, head, tail, gsr0>>
burst   == <<got, status, short, crooked>>
vars    == <<pc, ret, sensor, edge, fifo_ready, waited, burst, lost, wire,
             late>>

Min(a, b) == IF a < b THEN a ELSE b

\* SFCTL.FIFO_CREF, and the interrupt line the sensor derives from it.
FIFO_CREF == FrameWords - 1
IrqLine(n) == n > FIFO_CREF

-----------------------------------------------------------------------------
(***************************************************************************)
(* config() has reset the sensor, set_fifo_limit() and start_frame(true)   *)
(* have succeeded; an error of theirs ends main() before the loop.         *)
(***************************************************************************)
Init ==
  /\ pc = "wait" /\ ret = "ok"
  /\ chirping = TRUE
  /\ fill = 0 /\ head = 0 /\ tail = 0 /\ gsr0 = FALSE
  /\ edge = FALSE /\ fifo_ready = FALSE /\ waited = 0
  /\ got = 0 /\ status = FALSE /\ short = FALSE /\ crooked = FALSE
  /\ lost = FALSE /\ wire = "none" /\ late = FALSE

(***************************************************************************)
(* The sensor stores the next word of a chirp, or drops it on a full FIFO  *)
(* and sets FOU_ERR.  The line is a level, the interrupt is its edge.      *)
(***************************************************************************)
Sample ==
  /\ chirping
  /\ fill' = Min(fill + 1, FifoWords)
  /\ tail' = (tail + 1) % FrameWords
  /\ gsr0' = (gsr0 \/ fill = FifoWords)
  /\ lost' = (lost \/ fill = FifoWords)
  /\ edge' = (edge \/ (~IrqLine(fill) /\ IrqLine(fill')))
  /\ waited' = IF pc = "wait" /\ tail' = 0 THEN Min(waited + 1, TimeoutFrames)
                                           ELSE waited
  /\ late' = (late \/ edge \/ fifo_ready \/ pc \in {"header", "burst"})
  /\ UNCHANGED <<pc, ret, chirping, head, fifo_ready, burst, wire>>

\* Mutant: the ISR acknowledges the edge and gives no semaphore.
IsrSilent ==
  /\ edge
  /\ edge' = FALSE
  /\ UNCHANGED <<pc, ret, sensor, fifo_ready, waited, burst, lost, wire, late>>

\* bgt60tr13c_fifo_isr()
Isr ==
  /\ edge
  /\ edge' = FALSE
  /\ fifo_ready' = TRUE
  /\ UNCHANGED <<pc, ret, sensor, waited, burst, lost, wire, late>>

\* wait_fifo_ready() returns 0.
TakeToken ==
  /\ pc = "wait" /\ fifo_ready
  /\ fifo_ready' = FALSE
  /\ pc' = "header"
  /\ UNCHANGED <<ret, sensor, edge, waited, burst, lost, wire, late>>

\* wait_fifo_ready() returns -EAGAIN and the loop breaks.
WaitTimesOut ==
  /\ pc = "wait" /\ ~fifo_ready /\ ~edge
  /\ waited = TimeoutFrames
  /\ ret' = "EAGAIN"
  /\ pc' = "stop"
  /\ UNCHANGED <<sensor, edge, fifo_ready, waited, burst, lost, wire, late>>

\* Mutant: the header's error bits are masked off.
BurstHeaderMasked ==
  /\ pc = "header"
  /\ got' = 0
  /\ status' = FALSE
  /\ short' = FALSE
  /\ crooked' = (head # 0 \/ lost)
  /\ pc' = "burst"
  /\ UNCHANGED <<ret, sensor, edge, fifo_ready, waited, lost, wire, late>>

(***************************************************************************)
(* get_fifo_data(): the burst header returns GSR0 as it is before the      *)
(* first word is clocked out.                                              *)
(***************************************************************************)
BurstHeader ==
  /\ pc = "header"
  /\ got' = 0
  /\ status' = gsr0
  /\ short' = FALSE
  /\ crooked' = (head # 0 \/ lost)
  /\ pc' = "burst"
  /\ UNCHANGED <<ret, sensor, edge, fifo_ready, waited, lost, wire, late>>

(***************************************************************************)
(* One word of the burst, while the sensor goes on writing: past the last  *)
(* word the sensor returns noise and sets FOU_ERR.                         *)
(***************************************************************************)
PopWord ==
  /\ pc = "burst" /\ got < FrameWords
  /\ got' = got + 1
  /\ IF fill > 0
     THEN /\ fill' = fill - 1
          /\ head' = (head + 1) % FrameWords
          /\ UNCHANGED <<gsr0, short>>
     ELSE /\ gsr0' = TRUE
          /\ short' = TRUE
          /\ UNCHANGED <<fill, head>>
  /\ UNCHANGED <<pc, ret, chirping, tail, edge, fifo_ready, waited, status,
                 crooked, lost, wire, late>>

\* Mutant: the GSR0 header is not looked at.
CheckNothing ==
  /\ pc = "burst" /\ got = FrameWords
  /\ pc' = "send"
  /\ UNCHANGED <<ret, sensor, edge, fifo_ready, waited, burst, lost, wire, late>>

(***************************************************************************)
(* The transfer is over; an error bit in the header makes it -EIO.         *)
(***************************************************************************)
CheckStatus ==
  /\ pc = "burst" /\ got = FrameWords
  /\ IF status THEN ret' = "EIO" /\ pc' = "stop"
               ELSE ret' = ret /\ pc' = "send"
  /\ UNCHANGED <<sensor, edge, fifo_ready, waited, burst, lost, wire, late>>

\* spi_transceive_dt() itself fails.
SpiFails ==
  /\ pc \in {"header", "burst"}
  /\ ret' = "SPI"
  /\ pc' = "stop"
  /\ UNCHANGED <<sensor, edge, fifo_ready, waited, burst, lost, wire, late>>

\* Mutant: the wait budget is for the stream, not for a frame.
SendKeepsWaited ==
  /\ pc = "send"
  /\ \/ wire' = IF short \/ crooked THEN "corrupt" ELSE "intact"
     \/ wire' = wire
  /\ pc' = "wait"
  /\ UNCHANGED <<ret, sensor, edge, fifo_ready, waited, burst, lost, late>>

(***************************************************************************)
(* build_packet() and zsock_send(ZSOCK_MSG_DONTWAIT): sent or dropped, the *)
(* loop goes on to the next frame.                                         *)
(***************************************************************************)
Send ==
  /\ pc = "send"
  /\ \/ wire' = IF short \/ crooked THEN "corrupt" ELSE "intact"
     \/ wire' = wire
  /\ waited' = 0
  /\ pc' = "wait"
  /\ UNCHANGED <<ret, sensor, edge, fifo_ready, burst, lost, late>>

(***************************************************************************)
(* After the loop: start_frame(false) resets the sensor's FSM and nothing  *)
(* else of it; its result is not looked at.  main() returns.               *)
(***************************************************************************)
StopFrame ==
  /\ pc = "stop"
  /\ chirping' \in BOOLEAN
  /\ pc' = "done"
  /\ UNCHANGED <<ret, fill, head, tail, gsr0, edge, fifo_ready, waited, burst,
                 lost, wire, late>>

MainStep ==
  \/ TakeToken
  \/ WaitTimesOut
  \/ BurstHeader
  \/ PopWord
  \/ CheckStatus
  \/ SpiFails
  \/ Send
  \/ StopFrame

Next == Sample \/ Isr \/ MainStep

(***************************************************************************)
(* The sensor chirps on its own clock, interrupts are served and the main  *)
(* thread is runnable whenever it is not waiting.                          *)
(***************************************************************************)
Spec == /\ Init /\ [][Next]_vars
        /\ WF_vars(Sample) /\ WF_vars(Isr) /\ WF_vars(MainStep)

-----------------------------------------------------------------------------
TypeOK ==
  /\ pc \in {"wait", "header", "burst", "send", "stop", "done"}
  /\ ret \in {"ok", "EAGAIN", "EIO", "SPI"}
  /\ {chirping, gsr0, edge, fifo_ready, status, short, crooked, lost, late}
       \subseteq BOOLEAN
  /\ fill \in 0..FifoWords
  /\ {head, tail} \subseteq 0..(FrameWords - 1)
  /\ waited \in 0..TimeoutFrames
  /\ got \in 0..FrameWords
  /\ wire \in {"none", "intact", "corrupt"}

(***************************************************************************)
(* The seq field of a packet names a frame: a burst that passes the GSR0   *)
(* check started on the first word of that frame, with none dropped before *)
(* it, whatever the FIFO went through since streaming started.             *)
(***************************************************************************)
PacketIsItsFrame == pc = "send" => ~crooked

(***************************************************************************)
(* GSR0 is read once, ahead of the data, so a burst that empties the FIFO  *)
(* does go out with noise in it; the sticky bit makes it the last one.     *)
(***************************************************************************)
NothingAfterCorrupt == [][ pc = "send" /\ pc' = "wait" => wire # "corrupt" ]_vars

(***************************************************************************)
(* As long as each burst ends before the next chirp begins, nothing but a  *)
(* failing SPI transfer stops the stream: neither the edge nor the status  *)
(* word is ever misread.                                                   *)
(***************************************************************************)
StopsOnlyWhenLate == ret \in {"EAGAIN", "EIO"} => late

(***************************************************************************)
(* A whole frame in the FIFO is never without its announcement: while      *)
(* main() waits, the edge of the interrupt line or the token of its ISR is *)
(* there, although the line is a level that only its edge reports.         *)
(***************************************************************************)
FrameIsAnnounced ==
  pc = "wait" /\ fill >= FrameWords /\ ~late => edge \/ fifo_ready

(***************************************************************************)
(* And then the stream goes on forever.                                    *)
(***************************************************************************)
KeepsStreaming == []<>(pc = "send" \/ late \/ ret = "SPI")

=============================================================================
