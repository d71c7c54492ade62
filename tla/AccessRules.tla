------------------------------ MODULE AccessRules ------------------------------
(***************************************************************************)
(* The access rules of a gateway user (ws-net-common/src/config.rs): what  *)
(* target addresses a rule allows, and when one rule covers another.  The  *)
(* textual form of a rule is parsed once, when a configuration is loaded,  *)
(* and is not modelled: a rule is the parsed value.                        *)
(***************************************************************************)

CONSTANTS IPs,      \* IP addresses of targets
          Ports,    \* TCP ports 1 .. 65535 of targets
          NoIP,     \* the unused ip field of the rule "*"
          NoPort    \* port: None, the rule "ip:*"

ASSUME RulesAssumption == /\ NoIP \notin IPs
                          /\ NoPort \notin Ports

SocketAddr == [ip : IPs, port : Ports]

AnyRule == [kind |-> "Any", ip |-> NoIP, port |-> NoPort]
AddressRule == [kind : {"Address"}, ip : IPs, port : Ports \cup {NoPort}]
AccessRule == {AnyRule} \cup AddressRule

\* AccessRule::allows
Allows(rule, address) ==
    \/ rule.kind = "Any"
    \/ /\ rule.ip = address.ip
       /\ rule.port \in {NoPort, address.port}

\* AccessRule::covers.  Mutant: the port is not compared.
CoversIP(rule, other) ==
    \/ rule.kind = "Any"
    \/ rule.kind = "Address" /\ other.kind = "Address" /\ rule.ip = other.ip
Covers(rule, other) ==
    \/ rule.kind = "Any"
    \/ /\ rule.kind = "Address"
       /\ other.kind = "Address"
       /\ rule.ip = other.ip
       /\ rule.port \in {NoPort, other.port}

\* The filter of authorize_target: some rule of the user allows the address.
Permits(rules, address) == \E rule \in rules : Allows(rule, address)

\* The comparison of reload: every old rule is covered by some new rule.
AllCovered(old, new) == \A rule \in old : \E wider \in new : Covers(wider, rule)
================================================================================
