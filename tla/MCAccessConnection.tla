--------------------------- MODULE MCAccessConnection ---------------------------
(* Two handlers share one connection with an outbound queue of one message.     *)
EXTENDS AccessConnection, TLC
CONSTANTS h1, h2
TwoHandlers == {h1, h2}
HandlerSymmetry == Permutations(TwoHandlers)
================================================================================
