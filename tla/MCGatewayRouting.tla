--------------------------- MODULE MCGatewayRouting ---------------------------
(***************************************************************************)
(* GatewayRouting over every small configuration with one connection to     *)
(* each gateway, and over one with a pool of three.                         *)
(***************************************************************************)
EXTENDS GatewayRouting, TLC

CONSTANTS h1, h2

MCClients == {h1, h2}
Symmetry == Permutations(MCClients)

Word == {None, 1, 2}
UpTo(S, n) == UNION {[1..k -> S] : k \in 0..n}

Listeners == UpTo([gateway : Word, url : Word], 2)
MCGateways == [name : Word, url : Word, token : {TRUE}, user_token : {TRUE}]
              \cup [name : {1}, url : {1}, token : BOOLEAN, user_token : BOOLEAN]

Legacy == [gateways : {<<>>}, token : BOOLEAN, url : Word, urls : UpTo(Word, 1),
           listeners : Listeners, pool_size : {1}]
Listed == [gateways : UpTo(MCGateways, 2), token : {FALSE}, url : {None, 2}, urls : {<<>>},
          listeners : UpTo([gateway : Word, url : Word], 1), pool_size : {1}]
Pooled == [gateways |-> <<>>, token |-> TRUE, url |-> 1, urls |-> <<>>,
           listeners |-> <<[gateway |-> None, url |-> None]>>, pool_size |-> 3]

MCConfigs == Legacy \cup Listed \cup {Pooled}
================================================================================
