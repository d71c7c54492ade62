--------------------------- MODULE MCGatewayControl ---------------------------
(***************************************************************************)
(* GatewayControl with the symmetry of commands, gateways and names.        *)
(***************************************************************************)
EXTENDS GatewayControl, TLC

CONSTANTS a1, a2, g1, g2, n1, n2

MCAdders == {a1, a2}
MCGateways == {g1, g2}
MCNames == {n1, n2}
Symmetry == Permutations(MCAdders) \cup Permutations(MCGateways) \cup Permutations(MCNames)
================================================================================
