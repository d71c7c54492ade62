---------------------------- MODULE MCAccessReload ----------------------------
(***************************************************************************)
(* AccessReload on four configurations: two that share an address, one that *)
(* asks for the same address twice, and one that cannot be loaded.          *)
(***************************************************************************)
EXTENDS AccessReload

CONSTANTS p1, p2, p3, g1, g2

MCPorts == {p1, p2, p3}
MCInitial == [ports |-> <<p1, p2>>, gateway |-> g1, valid |-> TRUE]
MCConfigs == {MCInitial,
              [ports |-> <<p2, p3>>, gateway |-> g2, valid |-> TRUE],
              [ports |-> <<p3, p3>>, gateway |-> g2, valid |-> TRUE],
              [ports |-> <<p1>>, gateway |-> g2, valid |-> FALSE]}
================================================================================
