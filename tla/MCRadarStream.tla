--------------------------- MODULE MCRadarStream ---------------------------
(***************************************************************************)
(* Two words to a frame are the least that lets a frame be half written    *)
(* when a burst runs; the FIFO holds three of them and a half, and the     *)
(* wait of ten frames is one of two.                                       *)
(***************************************************************************)
EXTENDS RadarStream

=============================================================================
