--------------------------- MODULE MCSecureSwitch ---------------------------
(***************************************************************************)
(* The clock tree of app 07: DPLL_LP0 at 400 MHz, dividers 2 and 6.  The   *)
(* boot trims are unlike any value of the tables.                          *)
(***************************************************************************)
EXTENDS SecureSwitch

MCHf0Divide  == [m \in Modes |-> IF m = PM_MODE_HP THEN 2 ELSE 6]
MCCeilingMHz == [m \in Modes |-> IF m = PM_MODE_HP THEN 200 ELSE 80]
MCBootTrim   == [i \in TrimRegs |-> i]

=============================================================================
