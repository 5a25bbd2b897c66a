--------------------------- MODULE MCRadarBringUp ---------------------------
(* Both applications, a table of three registers, a FIFO of four words, and
   limits from none to the whole FIFO, with two that the driver refuses. *)
EXTENDS RadarBringUp

MCregs == <<"MAIN", "SFCTL", "CCR">>
MCLimits == {0, 2, 3, 4, 8, 10}
=============================================================================
