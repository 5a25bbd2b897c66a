----------------------------- MODULE MCPmuDemo -----------------------------
(* App 05 with its overlay's four P-states, and with devicetree nodes that
   leave something to the application or are wrong. *)
EXTENDS PmuDemo

MCScript == <<1, 2, 3, 2, 1, 0, 9, 0>>
Node(n, l, e, i) == [num |-> n, len |-> l, enable |-> e, init |-> i]
MCConfigs ==
  { Node(4, 8, TRUE, 0),    \* the overlay's
    Node(4, 8, TRUE, 2),    \* another initial P-state
    Node(2, 0, FALSE, 0),   \* no table: the application programs it
    Node(4, 4, TRUE, 0),    \* a table for two of four states
    Node(2, 0, TRUE, 0),    \* enabled without a table
    Node(2, 4, TRUE, 12) }  \* an initial P-state there is none of
=============================================================================
