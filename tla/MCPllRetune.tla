---------------------------- MODULE MCPllRetune ----------------------------
(***************************************************************************)
(* The frequencies of power_manager_pll_retune.c and the AN237976 limits   *)
(* of the CM33.                                                            *)
(***************************************************************************)
EXTENDS PllRetune

PerMode(hp, lp, ulp) ==
  [m \in Modes |-> CASE m = PM_MODE_HP -> hp
                     [] m = PM_MODE_LP -> lp
                     [] m = PM_MODE_ULP -> ulp]

MCCeilingMHz == PerMode(200, 80, 50)
MCFinalMHz   == PerMode(200, 80, 50)

=============================================================================
