---------------------------- MODULE MCHf0Divider ----------------------------
(***************************************************************************)
(* The clock tree of the overlay of app 06: DPLL_LP0 at 200 MHz, dividers  *)
(* 1, 3 and 4, and the AN237976 limits of the CM33.                        *)
(***************************************************************************)
EXTENDS Hf0Divider

MCDpllMHz    == 200
MCIhoMHz     == 50
MCCeilingMHz == [m \in Modes |->
                  CASE m = PM_MODE_HP -> 200
                    [] m = PM_MODE_LP -> 80
                    [] m = PM_MODE_ULP -> 50]
MCHf0Divide  == [m \in Modes |->
                  CASE m = PM_MODE_HP -> 1
                    [] m = PM_MODE_LP -> 3
                    [] m = PM_MODE_ULP -> 4]

=============================================================================
