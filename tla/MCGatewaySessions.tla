--------------------------- MODULE MCGatewaySessions ---------------------------
(***************************************************************************)
(* Instances of GatewaySessions for TLC.                                   *)
(***************************************************************************)
EXTENDS GatewaySessions, TLC

CONSTANTS g1, g2, u1, u2, n1, n2, ip1, ip2, p1, p2, main, moved

rule1 == [kind |-> "Address", ip |-> ip1, port |-> p1]
rule1all == [kind |-> "Address", ip |-> ip1, port |-> NoPort]
rule2 == [kind |-> "Address", ip |-> ip2, port |-> p1]

user(name, token, single, allow) ==
    [name |-> name, token |-> token, single_access |-> single, allow |-> allow]
cfg(token, enabled, single, users) ==
    [gateway |-> main, access_token |-> token, enabled |-> enabled,
     single_access |-> single, users |-> users]

\* Registry: shared token, single access on / off / overridden per user, a
\* renamed user, a second user, a new gateway token, a user whose token was the
\* shared token, and two files reload refuses.
RegistryConfigs ==
    {cfg(g1, FALSE, TRUE, {}),
     cfg(g1, TRUE, TRUE, {user(n1, u1, "inherit", {})}),
     cfg(g1, TRUE, TRUE, {user(n1, u1, "off", {}), user(n2, u2, "on", {})}),
     cfg(g1, TRUE, FALSE, {user(n2, u1, "inherit", {})}),
     cfg(g2, TRUE, TRUE, {user(n1, u1, "inherit", {}), user(n2, g1, "inherit", {})}),
     cfg(g1, TRUE, TRUE, {user(n1, u1, "inherit", {}), user(n2, u1, "inherit", {})}),
     [cfg(g1, TRUE, TRUE, {user(n1, u1, "on", {})}) EXCEPT !.gateway = moved]}

\* Authorization: the rules of one user widened, and narrowed by address and by port.
RuleConfigs ==
    {cfg(g1, TRUE, TRUE, {user(n1, u1, single, rules)}) :
        <<single, rules>> \in {<<"on", {AnyRule}>>, <<"off", {rule1all}>>, <<"on", {rule1, rule2}>>}}

\* Instances and session ids are interchangeable.
RegistrySymmetry == Permutations(Instances) \cup Permutations(SessionIds)
================================================================================
