------------------------- MODULE GatewaySessions_proofs -------------------------
(***************************************************************************)
(* What the comparison of rules in reload guarantees, for every set of     *)
(* addresses and ports; single access, the finality of a takeover and the  *)
(* authorization of open streams, for every set of tokens, instances,      *)
(* sessions and configurations.                                            *)
(***************************************************************************)
EXTENDS GatewaySessions, TLAPS

(**************************** The access rules ****************************)

\* A rule that covers another allows every address the other allows.
LEMMA CoversSound ==
    ASSUME NEW rule \in AccessRule, NEW other \in AccessRule, NEW address \in SocketAddr,
           Covers(rule, other), Allows(other, address)
    PROVE  Allows(rule, address)
  BY RulesAssumption DEF AccessRule, AddressRule, AnyRule, SocketAddr, Covers, Allows

\* With two IPs and two ports to tell apart, covers is exact: a rule that
\* allows every address another rule allows covers it, so reload cancels no
\* session over a rule that was only widened.
THEOREM CoversComplete ==
    ASSUME NEW rule \in AccessRule, NEW other \in AccessRule,
           NEW i \in IPs, NEW j \in IPs, i # j,
           NEW p \in Ports, NEW q \in Ports, p # q,
           \A address \in SocketAddr : Allows(other, address) => Allows(rule, address)
    PROVE  Covers(rule, other)
<1>1. CASE rule = AnyRule
  BY <1>1 DEF AnyRule, Covers
<1>2. CASE rule \in AddressRule /\ other = AnyRule
  <2>1. /\ [ip |-> i, port |-> p] \in SocketAddr
        /\ [ip |-> j, port |-> p] \in SocketAddr
    BY DEF SocketAddr
  <2>2. /\ Allows(rule, [ip |-> i, port |-> p])
        /\ Allows(rule, [ip |-> j, port |-> p])
    BY <1>2, <2>1 DEF AnyRule, Allows
  <2>3. rule.ip = i /\ rule.ip = j
    BY <1>2, <2>2 DEF AddressRule, Allows
  <2> QED BY <2>3
<1>3. CASE rule \in AddressRule /\ other \in AddressRule
  <2>1. CASE other.port = NoPort
    <3>1. /\ [ip |-> other.ip, port |-> p] \in SocketAddr
          /\ [ip |-> other.ip, port |-> q] \in SocketAddr
      BY <1>3 DEF SocketAddr, AddressRule
    <3>2. /\ Allows(rule, [ip |-> other.ip, port |-> p])
          /\ Allows(rule, [ip |-> other.ip, port |-> q])
      BY <2>1, <3>1 DEF Allows
    <3>3. rule.ip = other.ip /\ rule.port \in {NoPort, p} /\ rule.port \in {NoPort, q}
      BY <1>3, <3>2 DEF AddressRule, Allows
    <3> QED BY <1>3, <3>3 DEF AddressRule, Covers
  <2>2. CASE other.port # NoPort
    <3>1. [ip |-> other.ip, port |-> other.port] \in SocketAddr
      BY <1>3, <2>2 DEF SocketAddr, AddressRule
    <3>2. Allows(rule, [ip |-> other.ip, port |-> other.port])
      BY <3>1 DEF Allows
    <3> QED BY <1>3, <3>2 DEF AddressRule, Allows, Covers
  <2> QED BY <2>1, <2>2
<1> QED BY <1>1, <1>2, <1>3 DEF AccessRule

\* If every old rule is covered by a new one, an address that the old rules
\* permit is permitted by the new ones: the test on which reload lets a session
\* and its open streams live on.
THEOREM AllCoveredSound ==
    ASSUME NEW old \in SUBSET AccessRule, NEW new \in SUBSET AccessRule,
           AllCovered(old, new), NEW address \in SocketAddr, Permits(old, address)
    PROVE  Permits(new, address)
<1>1. PICK rule \in old : Allows(rule, address)
  BY DEF Permits
<1>2. PICK wider \in new : Covers(wider, rule)
  BY DEF AllCovered
<1>3. Allows(wider, address)
  BY <1>1, <1>2, CoversSound
<1> QED BY <1>3 DEF Permits

(************************** The session registry **************************)

\* The inductive invariant.  SingleAccess and ReplacedStaysOut need the order
\* history (a replaced session of a forgotten history must not be taken for a
\* present one), ReplacedByNewer needs OthersRetired, and StreamsAuthorized
\* needs HoldersRegistered (a fresh session inherits no stream).
IInv ==
    /\ TypeOK
    /\ OrderHistory
    /\ LiveCredentialCurrent
    /\ SingleAccess
    /\ LiveNotRetired
    /\ ReplacedStaysOut
    /\ OthersRetired
    /\ StreamsAuthorized
    /\ HoldersRegistered

-------------------------------------------------------------------------------
\* The credentials built from a configuration are well typed.
LEMMA CredentialsType ==
    ASSUME NEW c \in GatewayConfig
    PROVE  /\ DOMAIN CredentialsOf(c) \subseteq Tokens
           /\ CredentialsOf(c) \in [DOMAIN CredentialsOf(c) -> Credential]
<1>1. CASE c.enabled
  <2> DEFINE D == {user.token : user \in c.users}
  <2>1. D \subseteq Tokens
    BY DEF GatewayConfig, GatewayUser
  <2>2. ASSUME NEW token \in D
        PROVE  UserOf(c, token) \in GatewayUser
    <3>1. \E user \in c.users : user.token = token
      OBVIOUS
    <3>2. UserOf(c, token) \in c.users
      BY <3>1 DEF UserOf
    <3> QED BY <3>2 DEF GatewayConfig
  <2>3. ASSUME NEW token \in D
        PROVE  [name   |-> UserOf(c, token).name,
                single |-> SingleAccessOf(UserOf(c, token), c),
                rules  |-> UserOf(c, token).allow] \in Credential
    <3>1. SingleAccessOf(UserOf(c, token), c) \in BOOLEAN
      BY DEF SingleAccessOf
    <3> HIDE DEF D
    <3> QED BY <2>2, <3>1 DEF GatewayUser, Credential
  <2>4. CredentialsOf(c) = [token \in D |->
            [name   |-> UserOf(c, token).name,
             single |-> SingleAccessOf(UserOf(c, token), c),
             rules  |-> UserOf(c, token).allow]]
    BY <1>1 DEF CredentialsOf
  <2> HIDE DEF D
  <2> QED BY <2>1, <2>3, <2>4
<1>2. CASE ~c.enabled
  <2>1. CredentialsOf(c) = [token \in {c.access_token} |->
            [name |-> SharedName, single |-> FALSE, rules |-> {AnyRule}]]
    BY <1>2 DEF CredentialsOf
  <2>2. c.access_token \in Tokens
    BY DEF GatewayConfig
  <2>3. [name |-> SharedName, single |-> FALSE, rules |-> {AnyRule}] \in Credential
    BY DEF Credential, AccessRule
  <2> QED BY <2>1, <2>2, <2>3
<1> QED BY <1>1, <1>2

\* The registry of a freshly started gateway satisfies the invariant.
LEMMA InitIInv == Init => IInv
<1> SUFFICES ASSUME Init PROVE IInv
  OBVIOUS
<1>1. config \in GatewayConfig
  BY ConfigsAssumption DEF Init
<1>2. /\ DOMAIN credentials \subseteq Tokens
      /\ credentials \in [DOMAIN credentials -> Credential]
  BY <1>1, CredentialsType DEF Init
<1>3. /\ DOMAIN sessions = {} /\ sessions \in [{} -> SessionInfo]
      /\ DOMAIN orders = {} /\ orders \in [{} -> Nat]
  BY DEF Init
<1>4. handlers \in [SessionIds -> Handler]
  BY DEF Init, At, Handler
<1>5. TypeOK
  BY <1>1, <1>2, <1>3, <1>4 DEF Init, TypeOK
<1>6. \A s : ~Live(s)
  BY <1>3 DEF Live
<1>7. \A s \in SessionIds : handlers[s].phase = "gone"
  BY DEF Init, At
<1>8. streams = {}
  BY DEF Init
<1> QED
  BY <1>3, <1>5, <1>6, <1>7, <1>8
  DEF IInv, OrderHistory, LiveCredentialCurrent, SingleAccess, LiveNotRetired,
      ReplacedStaysOut, OthersRetired, StreamsAuthorized, HoldersRegistered

-------------------------------------------------------------------------------
\* register preserves the invariant.
LEMMA RegisterIInv ==
    ASSUME IInv, NEW s \in SessionIds, NEW g \in Tokens, NEW u \in Tokens \cup {NoToken},
           NEW i \in Instances, NEW legacy \in BOOLEAN, Register(s, g, u, i, legacy)
    PROVE  IInv'
<1> DEFINE token == Admitted(g, u, legacy)
           key == <<token, i>>
           order == OrderOf(key)
           single == credentials[token].single
           fresh == [credential |-> token, instance |-> i, order |-> order,
                     signal |-> "None", name |-> credentials[token].name]
           Loser(t) == single /\ sessions[t].credential = token /\ sessions[t].instance # i
<1>t. TypeOK
  BY DEF IInv
<1>1. /\ token \in Tokens /\ token \in DOMAIN credentials
      /\ credentials[token] \in Credential
      /\ key \in Keys /\ key \notin retired
  <2>1. token # NoToken
    BY DEF Register
  <2>2. token \in DOMAIN credentials
    BY <2>1 DEF Admitted
  <2> HIDE DEF token
  <2>3. key \notin retired
    BY DEF Register, token
  <2> QED BY <1>t, <2>2, <2>3 DEF TypeOK, Keys
<1> HIDE DEF token
<1>2. /\ s \notin DOMAIN sessions
      /\ retired' = IF single THEN retired \cup OtherKeys(token, i) ELSE retired
      /\ next_order' = IF key \in DOMAIN orders THEN next_order ELSE next_order + 1
      /\ orders' = [k \in DOMAIN orders \cup {key} |-> IF k = key THEN order ELSE orders[k]]
      /\ sessions' = [t \in DOMAIN sessions \cup {s} |->
            IF t = s THEN fresh
            ELSE IF Loser(t) THEN [sessions[t] EXCEPT !.signal = "SESSION_REPLACED"]
            ELSE sessions[t]]
      /\ handlers' = [handlers EXCEPT ![s] = At("idle")]
      /\ UNCHANGED <<config, credentials, streams>>
  BY DEF Register, token
<1>3. /\ order \in Nat /\ next_order' \in Nat /\ order <= next_order'
      /\ next_order <= next_order'
      /\ fresh \in SessionInfo
  <2>1. order \in Nat /\ next_order' \in Nat /\ order <= next_order' /\ next_order <= next_order'
    BY <1>t, <1>1, <1>2 DEF OrderOf, TypeOK, IInv, OrderHistory
  <2> HIDE DEF order
  <2> QED BY <1>1, <2>1 DEF SessionInfo, Credential
<1> HIDE DEF order
<1>4d. DOMAIN sessions' = DOMAIN sessions \cup {s} /\ sessions'[s] = fresh
  BY <1>2
<1>4n. \A t \in DOMAIN sessions : t # s
  BY <1>2
<1>4. \A t \in DOMAIN sessions :
          /\ sessions'[t] \in SessionInfo
          /\ sessions'[t].credential = sessions[t].credential
          /\ sessions'[t].instance = sessions[t].instance
          /\ sessions'[t].order = sessions[t].order
          /\ sessions'[t].name = sessions[t].name
          /\ Loser(t) => sessions'[t].signal = "SESSION_REPLACED"
          /\ ~Loser(t) => sessions'[t].signal = sessions[t].signal
  <2> SUFFICES ASSUME NEW t \in DOMAIN sessions
        PROVE  /\ sessions'[t] \in SessionInfo
               /\ sessions'[t].credential = sessions[t].credential
               /\ sessions'[t].instance = sessions[t].instance
               /\ sessions'[t].order = sessions[t].order
               /\ sessions'[t].name = sessions[t].name
               /\ Loser(t) => sessions'[t].signal = "SESSION_REPLACED"
               /\ ~Loser(t) => sessions'[t].signal = sessions[t].signal
    OBVIOUS
  <2>1. sessions[t] \in SessionInfo
    BY <1>t DEF TypeOK
  <2>2. sessions'[t] = IF Loser(t) THEN [sessions[t] EXCEPT !.signal = "SESSION_REPLACED"]
                       ELSE sessions[t]
    BY <1>2, <1>4n
  <2> HIDE DEF Loser
  <2> QED BY <2>1, <2>2 DEF SessionInfo, Errors
<1>5. /\ DOMAIN orders' = DOMAIN orders \cup {key}
      /\ orders'[key] = order
      /\ \A k \in DOMAIN orders : orders'[k] = orders[k]
      /\ key \notin DOMAIN orders => order = next_order + 1 /\ next_order' = next_order + 1
      /\ \A k \in DOMAIN orders : k # key => orders[k] # order
  BY <1>t, <1>1, <1>2 DEF order, OrderOf, TypeOK, IInv, OrderHistory
<1> HIDE DEF fresh
<1>f. /\ sessions'[s].credential = token /\ sessions'[s].instance = i
      /\ sessions'[s].order = order /\ sessions'[s].signal = "None"
      /\ sessions'[s].name = credentials[token].name
      /\ sessions'[s] \in SessionInfo
  BY <1>3, <1>4d DEF fresh
<1>l. \A t \in DOMAIN sessions : sessions'[t].signal = "None" =>
          /\ sessions[t].signal = "None"
          /\ ~(single /\ sessions[t].credential = token /\ sessions[t].instance # i)
  BY <1>4
<1>d. \A t \in DOMAIN sessions' : t \in DOMAIN sessions \/ t = s
  BY <1>4d
<1>k. /\ \A t \in DOMAIN sessions' : Key(t)' = <<sessions'[t].credential, sessions'[t].instance>>
      /\ \A t \in DOMAIN sessions : Key(t)' = Key(t)
      /\ Key(s)' = key
  BY <1>4, <1>f DEF Key
<1>6. TypeOK'
  <2>0. \A t \in DOMAIN sessions' : sessions'[t] \in SessionInfo
    BY <1>d, <1>4, <1>f
  <2>1. /\ DOMAIN sessions' \subseteq SessionIds
        /\ sessions' \in [DOMAIN sessions' -> SessionInfo]
    <3>1. sessions' = [t \in DOMAIN sessions' |-> sessions'[t]]
      BY <1>2
    <3> QED BY <3>1, <2>0, <1>t, <1>4d DEF TypeOK
  <2>2. /\ DOMAIN orders' \subseteq Keys
        /\ orders' \in [DOMAIN orders' -> Nat]
    BY <1>t, <1>1, <1>2, <1>3, <1>5 DEF TypeOK
  <2>3. retired' \subseteq Keys
    BY <1>t, <1>2 DEF TypeOK, OtherKeys
  <2>4. handlers' \in [SessionIds -> Handler]
    BY <1>t, <1>2 DEF TypeOK, Handler, At
  <2> QED BY <1>t, <1>2, <1>3, <2>1, <2>2, <2>3, <2>4 DEF TypeOK
<1> HIDE DEF key, single, Loser
<1>9. OrderHistory'
  <2>1. ASSUME NEW t \in DOMAIN sessions', Live(t)'
        PROVE  Key(t)' \in DOMAIN orders' /\ orders'[Key(t)'] = sessions'[t].order
    <3>1. CASE t = s
      BY <3>1, <1>5, <1>f, <1>k
    <3>2. CASE t \in DOMAIN sessions
      <4>1. Key(t) \in DOMAIN orders /\ orders[Key(t)] = sessions[t].order
        BY <2>1, <3>2, <1>l DEF IInv, OrderHistory, Live
      <4> QED BY <4>1, <3>2, <1>4, <1>5, <1>k
    <3> QED BY <3>1, <3>2, <1>d
  <2>2. ASSUME NEW t \in DOMAIN sessions' PROVE sessions'[t].order <= next_order'
    <3>1. CASE t = s
      BY <3>1, <1>3, <1>f
    <3>2. CASE t \in DOMAIN sessions
      <4>1. sessions[t].order \in Nat /\ sessions[t].order <= next_order /\ next_order \in Nat
        BY <3>2, <1>t DEF IInv, OrderHistory, TypeOK, SessionInfo
      <4>2. sessions'[t].order = sessions[t].order
        BY <3>2, <1>4
      <4> QED BY <4>1, <4>2, <1>3
    <3> QED BY <3>1, <3>2, <1>d
  <2>3. \A k \in DOMAIN orders' : orders'[k] <= next_order'
    BY <1>t, <1>3, <1>5 DEF IInv, OrderHistory, TypeOK
  <2>4. \A k, l \in DOMAIN orders' : orders'[k] = orders'[l] => k = l
    BY <1>5 DEF IInv, OrderHistory
  <2> QED BY <2>1, <2>2, <2>3, <2>4 DEF OrderHistory
<1>10. LiveCredentialCurrent'
  BY <1>1, <1>2, <1>4, <1>d, <1>l, <1>f DEF IInv, LiveCredentialCurrent, Live
<1>11. SingleAccess'
  <2> SUFFICES ASSUME NEW a \in DOMAIN sessions', NEW b \in DOMAIN sessions',
                      sessions'[a].signal = "None", sessions'[b].signal = "None",
                      sessions'[a].credential = sessions'[b].credential,
                      credentials'[sessions'[a].credential].single
               PROVE  sessions'[a].instance = sessions'[b].instance
    BY DEF SingleAccess, Live
  <2>1. credentials[sessions'[a].credential].single
    BY <1>2
  <2>2. CASE a = s \/ b = s
    <3>1. single /\ sessions'[a].credential = token /\ sessions'[b].credential = token
      BY <2>1, <2>2, <1>f DEF single
    <3>2. \A t \in {a, b} : sessions'[t].instance = i
      BY <3>1, <1>d, <1>4, <1>l, <1>f
    <3> QED BY <3>2
  <2>3. CASE a # s /\ b # s
    <3>1. /\ a \in DOMAIN sessions /\ b \in DOMAIN sessions
          /\ sessions[a].signal = "None" /\ sessions[b].signal = "None"
          /\ sessions[a].credential = sessions[b].credential
          /\ credentials[sessions[a].credential].single
      BY <2>1, <2>3, <1>4, <1>d, <1>l
    <3> QED BY <3>1, <1>4 DEF IInv, SingleAccess, Live
  <2> QED BY <2>2, <2>3
<1>12. LiveNotRetired'
  <2> SUFFICES ASSUME NEW t \in DOMAIN sessions', Live(t)'
               PROVE  Key(t)' \notin retired'
    BY DEF LiveNotRetired
  <2>1. CASE t = s
    <3>1. key \notin OtherKeys(token, i)
      BY DEF key, OtherKeys
    <3> QED BY <2>1, <3>1, <1>1, <1>2, <1>k
  <2>2. CASE t \in DOMAIN sessions
    <3>1. /\ sessions[t].signal = "None"
          /\ ~(single /\ sessions[t].credential = token /\ sessions[t].instance # i)
      BY <2>2, <1>l DEF Live
    <3>2. Key(t) \notin retired
      BY <3>1, <2>2 DEF IInv, LiveNotRetired, Live
    <3>3. single => Key(t) \notin OtherKeys(token, i)
      BY <3>1 DEF Key, OtherKeys
    <3> QED BY <2>2, <3>2, <3>3, <1>2, <1>k
  <2> QED BY <2>1, <2>2, <1>d
<1>13. ReplacedStaysOut'
  <2> SUFFICES ASSUME NEW t \in DOMAIN sessions',
                      sessions'[t].signal = "SESSION_REPLACED",
                      Key(t)' \in DOMAIN orders', orders'[Key(t)'] = sessions'[t].order
               PROVE  Key(t)' \in retired'
    BY DEF ReplacedStaysOut
  <2>1. t \in DOMAIN sessions
    BY <1>d, <1>f
  <2>2. Key(t)' = Key(t) /\ sessions'[t].order = sessions[t].order
    BY <2>1, <1>4, <1>k
  <2>3. sessions[t].order \in Nat /\ sessions[t].order <= next_order /\ next_order \in Nat
    BY <2>1, <1>t DEF IInv, OrderHistory, TypeOK, SessionInfo
  <2>4. Key(t) \in DOMAIN orders /\ orders[Key(t)] = sessions[t].order
    BY <2>2, <2>3, <1>5
  <2>5. CASE Loser(t)
    <3>1. single /\ Key(t) \in OtherKeys(token, i)
      BY <2>4, <2>5 DEF Key, OtherKeys, Loser
    <3> QED BY <3>1, <2>2, <1>2
  <2>6. CASE ~Loser(t)
    <3>1. sessions[t].signal = "SESSION_REPLACED"
      BY <2>1, <2>6, <1>4
    <3>2. Key(t) \in retired
      BY <2>1, <2>4, <3>1 DEF IInv, ReplacedStaysOut
    <3> QED BY <3>2, <2>2, <1>2
  <2> QED BY <2>5, <2>6
<1>14. OthersRetired'
  <2> SUFFICES ASSUME NEW t \in DOMAIN sessions', sessions'[t].signal = "None",
                      credentials'[sessions'[t].credential].single,
                      NEW k \in DOMAIN orders', k[1] = sessions'[t].credential,
                      k[2] # sessions'[t].instance
               PROVE  k \in retired'
    BY DEF OthersRetired, Live
  <2>0. credentials[sessions'[t].credential].single
    BY <1>2
  <2>1. CASE t = s
    <3>1. single /\ k[1] = token /\ k[2] # i
      BY <2>0, <2>1, <1>f DEF single
    <3>2. k \in DOMAIN orders
      BY <3>1, <1>5 DEF key
    <3>3. k \in OtherKeys(token, i)
      BY <3>1, <3>2 DEF OtherKeys
    <3> QED BY <3>1, <3>3, <1>2
  <2>2. CASE t \in DOMAIN sessions
    <3>1. /\ sessions[t].signal = "None" /\ credentials[sessions[t].credential].single
          /\ k[1] = sessions[t].credential /\ k[2] # sessions[t].instance
          /\ ~(single /\ sessions[t].credential = token /\ sessions[t].instance # i)
      BY <2>0, <2>2, <1>4, <1>l
    <3>2. k # key
      BY <3>1 DEF key, single
    <3>3. k \in DOMAIN orders
      BY <3>2, <1>5
    <3>4. k \in retired
      BY <2>2, <3>1, <3>3 DEF IInv, OthersRetired, Live
    <3> QED BY <3>4, <1>2
  <2> QED BY <2>1, <2>2, <1>d
<1>15. HoldersRegistered'
  BY <1>t, <1>2, <1>4 DEF IInv, HoldersRegistered, TypeOK
<1>16. StreamsAuthorized'
  <2>1. ASSUME NEW t \in DOMAIN sessions, Live(t)'
        PROVE  Live(t) /\ RulesOf(t)' = RulesOf(t)
    BY <2>1, <1>2, <1>4, <1>l DEF RulesOf, Live
  <2>2. \A stream \in streams : stream.session \in DOMAIN sessions
    BY DEF IInv, HoldersRegistered
  <2>3. ASSUME NEW stream \in streams', Live(stream.session)', NEW a \in stream.addresses
        PROVE  Permits(RulesOf(stream.session)', a)
    <3>1. stream \in streams /\ stream.session \in DOMAIN sessions
      BY <2>2, <1>2
    <3>2. Live(stream.session) /\ RulesOf(stream.session)' = RulesOf(stream.session)
      BY <2>1, <2>3, <3>1
    <3>3. Permits(RulesOf(stream.session), a)
      BY <3>1, <3>2 DEF IInv, StreamsAuthorized
    <3> QED BY <3>2, <3>3
  <2>4. ASSUME NEW t \in SessionIds, Live(t)', NEW a \in handlers'[t].addresses
        PROVE  Permits(RulesOf(t)', a)
    <3>1. t # s
      BY <1>t, <1>2 DEF TypeOK, At
    <3>2. t \in DOMAIN sessions /\ handlers'[t] = handlers[t]
      BY <3>1, <1>t, <1>2, <1>d, <2>4 DEF TypeOK, Live
    <3>3. Live(t) /\ RulesOf(t)' = RulesOf(t)
      BY <2>1, <2>4, <3>2
    <3>4. Permits(RulesOf(t), a)
      BY <3>2, <3>3 DEF IInv, StreamsAuthorized
    <3> QED BY <3>3, <3>4
  <2> QED BY <2>3, <2>4 DEF StreamsAuthorized, Permits
<1> QED
  BY <1>6, <1>9, <1>10, <1>11, <1>12, <1>13, <1>14, <1>15, <1>16 DEF IInv

-------------------------------------------------------------------------------
\* reload preserves the invariant.
LEMMA ReloadIInv ==
    ASSUME IInv, NEW new \in Configs, Reload(new)
    PROVE  IInv'
<1> DEFINE next == CredentialsOf(new)
           changed == config.access_token # new.access_token
           kept == IF changed THEN {} ELSE DOMAIN orders
           cred(t) == sessions[t].credential
<1>t. TypeOK
  BY DEF IInv
<1>n. DOMAIN next \subseteq Tokens /\ next \in [DOMAIN next -> Credential]
  BY ConfigsAssumption, CredentialsType
<1> HIDE DEF next
<1>1. PICK winner \in [IF changed THEN {} ELSE Contested(next) -> Instances] :
        /\ \A c \in DOMAIN winner : Winner(c, winner[c])
        /\ retired' = IF changed THEN {}
                      ELSE retired \cup UNION {OtherKeys(c, winner[c]) : c \in DOMAIN winner}
        /\ sessions' = [s \in DOMAIN sessions |->
              Notify(sessions[s], Verdict(s, changed, next, winner))]
  BY DEF Reload, next
<1>2. /\ orders' = [k \in kept |-> orders[k]]
      /\ credentials' = next /\ config' = new
      /\ UNCHANGED <<next_order, handlers, streams>>
  BY DEF Reload, next
<1>3. /\ DOMAIN orders' = kept
      /\ \A k \in kept : orders'[k] = orders[k]
      /\ kept \subseteq DOMAIN orders
  BY <1>2
<1>4. DOMAIN sessions' = DOMAIN sessions
  BY <1>1
<1>5. \A t \in DOMAIN sessions :
          /\ sessions'[t] \in SessionInfo
          /\ sessions'[t].credential = sessions[t].credential
          /\ sessions'[t].instance = sessions[t].instance
          /\ sessions'[t].order = sessions[t].order
          /\ sessions'[t].name = sessions[t].name
          /\ sessions[t].signal = "None" => sessions'[t].signal = Verdict(t, changed, next, winner)
          /\ sessions[t].signal # "None" => sessions'[t].signal = sessions[t].signal
  <2> SUFFICES ASSUME NEW t \in DOMAIN sessions
        PROVE  /\ sessions'[t] \in SessionInfo
               /\ sessions'[t].credential = sessions[t].credential
               /\ sessions'[t].instance = sessions[t].instance
               /\ sessions'[t].order = sessions[t].order
               /\ sessions'[t].name = sessions[t].name
               /\ sessions[t].signal = "None" => sessions'[t].signal = Verdict(t, changed, next, winner)
               /\ sessions[t].signal # "None" => sessions'[t].signal = sessions[t].signal
    OBVIOUS
  <2>1. sessions[t] \in SessionInfo
    BY <1>t DEF TypeOK
  <2>2. Verdict(t, changed, next, winner) \in Errors \cup {"None"}
    BY DEF Verdict, Errors
  <2>3. sessions'[t] = IF sessions[t].signal = "None"
                       THEN [sessions[t] EXCEPT !.signal = Verdict(t, changed, next, winner)]
                       ELSE sessions[t]
    BY <1>1 DEF Notify
  <2> QED BY <2>1, <2>2, <2>3 DEF SessionInfo
<1>6. \A t \in DOMAIN sessions : sessions'[t].signal = "None" =>
          /\ sessions[t].signal = "None"
          /\ ~changed
          /\ cred(t) \in DOMAIN next
          /\ cred(t) \in DOMAIN credentials =>
                /\ credentials[cred(t)].name = next[cred(t)].name
                /\ AllCovered(credentials[cred(t)].rules, next[cred(t)].rules)
          /\ cred(t) \in DOMAIN winner => winner[cred(t)] = sessions[t].instance
  BY <1>5 DEF Verdict
<1>7. \A t \in DOMAIN sessions : sessions'[t].signal = "None" /\ next[cred(t)].single =>
          cred(t) \in DOMAIN winner /\ winner[cred(t)] = sessions[t].instance
  BY <1>1, <1>6 DEF Contested, Live
<1>k. \A t \in DOMAIN sessions : Key(t)' = Key(t) /\ Key(t) = <<cred(t), sessions[t].instance>>
  BY <1>5 DEF Key
<1>8. TypeOK'
  <2>1. /\ DOMAIN sessions' \subseteq SessionIds
        /\ sessions' \in [DOMAIN sessions' -> SessionInfo]
    <3>1. sessions' = [t \in DOMAIN sessions' |-> sessions'[t]]
      BY <1>1
    <3> QED BY <3>1, <1>t, <1>4, <1>5 DEF TypeOK
  <2>2. /\ DOMAIN orders' \subseteq Keys
        /\ orders' \in [DOMAIN orders' -> Nat]
    BY <1>t, <1>2, <1>3 DEF TypeOK
  <2>3. retired' \subseteq Keys
    <3>1. \A c \in DOMAIN winner : OtherKeys(c, winner[c]) \subseteq Keys
      BY <1>t DEF TypeOK, OtherKeys
    <3> QED BY <1>t, <1>1, <3>1 DEF TypeOK
  <2>4. config' \in GatewayConfig
    BY <1>2, ConfigsAssumption
  <2> QED BY <1>t, <1>n, <1>2, <2>1, <2>2, <2>3, <2>4 DEF TypeOK
<1> HIDE DEF kept, changed
<1>h. changed => kept = {}
  BY DEF kept
<1>g. ~changed => kept = DOMAIN orders
  BY DEF kept
<1>9. OrderHistory'
  <2>1. ASSUME NEW t \in DOMAIN sessions', Live(t)'
        PROVE  Key(t)' \in DOMAIN orders' /\ orders'[Key(t)'] = sessions'[t].order
    <3>1. t \in DOMAIN sessions /\ sessions[t].signal = "None" /\ ~changed
      BY <2>1, <1>4, <1>6 DEF Live
    <3>2. Key(t) \in DOMAIN orders /\ orders[Key(t)] = sessions[t].order
      BY <3>1 DEF IInv, OrderHistory, Live
    <3> QED BY <3>1, <3>2, <1>3, <1>5, <1>g, <1>k
  <2>2. \A t \in DOMAIN sessions' : sessions'[t].order <= next_order'
    BY <1>2, <1>4, <1>5 DEF IInv, OrderHistory
  <2>3. \A k \in DOMAIN orders' : orders'[k] <= next_order'
    BY <1>2, <1>3 DEF IInv, OrderHistory
  <2>4. \A k, l \in DOMAIN orders' : orders'[k] = orders'[l] => k = l
    BY <1>3 DEF IInv, OrderHistory
  <2> QED BY <2>1, <2>2, <2>3, <2>4 DEF OrderHistory
<1>10. LiveCredentialCurrent'
  <2> SUFFICES ASSUME NEW t \in DOMAIN sessions', sessions'[t].signal = "None"
               PROVE  /\ sessions'[t].credential \in DOMAIN credentials'
                      /\ credentials'[sessions'[t].credential].name = sessions'[t].name
    BY DEF LiveCredentialCurrent, Live
  <2>1. t \in DOMAIN sessions /\ sessions[t].signal = "None" /\ cred(t) \in DOMAIN next
    BY <1>4, <1>6
  <2>2. cred(t) \in DOMAIN credentials /\ credentials[cred(t)].name = sessions[t].name
    BY <2>1 DEF IInv, LiveCredentialCurrent, Live
  <2>3. credentials[cred(t)].name = next[cred(t)].name
    BY <2>1, <2>2, <1>6
  <2> QED BY <2>1, <2>2, <2>3, <1>2, <1>5
<1>11. SingleAccess'
  <2> SUFFICES ASSUME NEW a \in DOMAIN sessions', NEW b \in DOMAIN sessions',
                      sessions'[a].signal = "None", sessions'[b].signal = "None",
                      sessions'[a].credential = sessions'[b].credential,
                      credentials'[sessions'[a].credential].single
               PROVE  sessions'[a].instance = sessions'[b].instance
    BY DEF SingleAccess, Live
  <2>1. /\ a \in DOMAIN sessions /\ b \in DOMAIN sessions /\ cred(a) = cred(b)
        /\ next[cred(a)].single
    BY <1>2, <1>4, <1>5
  <2>2. winner[cred(a)] = sessions[a].instance /\ winner[cred(b)] = sessions[b].instance
    BY <2>1, <1>7
  <2> QED BY <2>1, <2>2, <1>5
<1>12. LiveNotRetired'
  <2> SUFFICES ASSUME NEW t \in DOMAIN sessions', Live(t)', Key(t)' \in retired'
               PROVE  FALSE
    BY DEF LiveNotRetired
  <2>1. t \in DOMAIN sessions /\ sessions'[t].signal = "None"
    BY <1>4 DEF Live
  <2>2. sessions[t].signal = "None" /\ ~changed
    BY <2>1, <1>6
  <2>3. Key(t) \notin retired
    BY <2>1, <2>2 DEF IInv, LiveNotRetired, Live
  <2>4. PICK c \in DOMAIN winner : Key(t) \in OtherKeys(c, winner[c])
    BY <2>1, <2>2, <2>3, <1>1, <1>k
  <2>5. cred(t) = c /\ sessions[t].instance # winner[c]
    BY <2>1, <2>4, <1>k DEF OtherKeys
  <2> QED BY <2>1, <2>5, <1>6
<1>13. ReplacedStaysOut'
  <2> SUFFICES ASSUME NEW t \in DOMAIN sessions',
                      sessions'[t].signal = "SESSION_REPLACED",
                      Key(t)' \in DOMAIN orders', orders'[Key(t)'] = sessions'[t].order
               PROVE  Key(t)' \in retired'
    BY DEF ReplacedStaysOut
  <2>1. t \in DOMAIN sessions /\ Key(t)' = Key(t)
    BY <1>4, <1>k
  <2>2. /\ ~changed /\ Key(t) \in DOMAIN orders
        /\ orders[Key(t)] = sessions[t].order
    BY <2>1, <1>3, <1>5, <1>h
  <2>3. CASE sessions[t].signal = "None"
    <3>1. cred(t) \in DOMAIN winner /\ winner[cred(t)] # sessions[t].instance
      BY <2>1, <2>3, <1>5 DEF Verdict
    <3>2. Key(t) \in OtherKeys(cred(t), winner[cred(t)])
      BY <2>1, <2>2, <3>1, <1>k DEF OtherKeys
    <3> QED BY <2>1, <2>2, <3>1, <3>2, <1>1
  <2>4. CASE sessions[t].signal # "None"
    <3>1. sessions[t].signal = "SESSION_REPLACED"
      BY <2>1, <2>4, <1>5
    <3>2. Key(t) \in retired
      BY <2>1, <2>2, <3>1 DEF IInv, ReplacedStaysOut
    <3> QED BY <2>1, <2>2, <3>2, <1>1
  <2> QED BY <2>3, <2>4
<1>14. OthersRetired'
  <2> SUFFICES ASSUME NEW t \in DOMAIN sessions', sessions'[t].signal = "None",
                      credentials'[sessions'[t].credential].single,
                      NEW k \in DOMAIN orders', k[1] = sessions'[t].credential,
                      k[2] # sessions'[t].instance
               PROVE  k \in retired'
    BY DEF OthersRetired, Live
  <2>1. /\ t \in DOMAIN sessions /\ next[cred(t)].single
        /\ k[1] = cred(t) /\ k[2] # sessions[t].instance
    BY <1>2, <1>4, <1>5
  <2>2. ~changed /\ cred(t) \in DOMAIN winner /\ winner[cred(t)] = sessions[t].instance
    BY <2>1, <1>6, <1>7
  <2>3. k \in OtherKeys(cred(t), winner[cred(t)])
    BY <2>1, <2>2, <1>3 DEF OtherKeys
  <2> QED BY <2>2, <2>3, <1>1
<1>15. HoldersRegistered'
  BY <1>2, <1>4 DEF IInv, HoldersRegistered
<1>16. StreamsAuthorized'
  <2>1. ASSUME NEW t \in DOMAIN sessions, Live(t)', NEW a \in SocketAddr,
               Live(t) => Permits(RulesOf(t), a)
        PROVE  Permits(RulesOf(t)', a)
    <3>1. /\ sessions[t].signal = "None" /\ cred(t) \in DOMAIN next
          /\ cred(t) \in DOMAIN credentials =>
                AllCovered(credentials[cred(t)].rules, next[cred(t)].rules)
      BY <2>1, <1>6 DEF Live
    <3>2. cred(t) \in DOMAIN credentials
      BY <3>1 DEF IInv, LiveCredentialCurrent, Live
    <3>3. credentials[cred(t)].rules \in SUBSET AccessRule /\ next[cred(t)].rules \in SUBSET AccessRule
      BY <3>1, <3>2, <1>t, <1>n DEF TypeOK, Credential
    <3>4. Permits(credentials[cred(t)].rules, a)
      BY <2>1, <3>1 DEF Live, RulesOf
    <3>5. Permits(next[cred(t)].rules, a)
      BY <3>1, <3>2, <3>3, <3>4, AllCoveredSound
    <3>6. RulesOf(t)' = next[cred(t)].rules
      BY <1>2, <1>5 DEF RulesOf
    <3> QED BY <3>5, <3>6
  <2>2. ASSUME NEW stream \in streams', Live(stream.session)', NEW a \in stream.addresses
        PROVE  Permits(RulesOf(stream.session)', a)
    <3>1. stream \in streams /\ stream.session \in DOMAIN sessions /\ a \in SocketAddr
      BY <1>t, <1>2 DEF IInv, HoldersRegistered, TypeOK, Stream
    <3>2. Live(stream.session) => Permits(RulesOf(stream.session), a)
      BY <3>1 DEF IInv, StreamsAuthorized
    <3> QED BY <2>1, <2>2, <3>1, <3>2
  <2>3. ASSUME NEW t \in SessionIds, Live(t)', NEW a \in handlers'[t].addresses
        PROVE  Permits(RulesOf(t)', a)
    <3>1. t \in DOMAIN sessions /\ handlers'[t] = handlers[t]
      BY <1>2, <1>4, <2>3 DEF Live
    <3>2. a \in SocketAddr
      BY <1>t, <3>1 DEF TypeOK, Handler
    <3>3. Live(t) => Permits(RulesOf(t), a)
      BY <3>1 DEF IInv, StreamsAuthorized
    <3> QED BY <2>1, <2>3, <3>1, <3>2, <3>3
  <2> QED BY <2>2, <2>3 DEF StreamsAuthorized, Permits
<1> QED
  BY <1>8, <1>9, <1>10, <1>11, <1>12, <1>13, <1>14, <1>15, <1>16 DEF IInv

-------------------------------------------------------------------------------
\* The steps of handlers and streams leave the registry alone: what they can
\* disturb is the authorization of what they hold.
LEMMA HolderStepIInv ==
    ASSUME IInv, UNCHANGED runtime,
           handlers' \in [SessionIds -> Handler], streams' \subseteq Stream,
           HoldersRegistered', StreamsAuthorized'
    PROVE  IInv'
<1>1. /\ config' = config /\ credentials' = credentials /\ sessions' = sessions
      /\ orders' = orders /\ retired' = retired /\ next_order' = next_order
  BY DEF runtime
<1>2. TypeOK'
  BY <1>1 DEF IInv, TypeOK
<1>3. OrderHistory' /\ LiveCredentialCurrent' /\ SingleAccess'
  BY <1>1 DEF IInv, OrderHistory, LiveCredentialCurrent, SingleAccess, Live, Key
<1>4. LiveNotRetired' /\ ReplacedStaysOut' /\ OthersRetired'
  BY <1>1 DEF IInv, LiveNotRetired, ReplacedStaysOut, OthersRetired, Live, Key
<1> QED BY <1>2, <1>3, <1>4 DEF IInv

\* Authorization, spawning and the return of a handler or stream preserve the
\* invariant.
LEMMA HoldersIInv ==
    ASSUME IInv,
           \/ \E s \in SessionIds : BeginAuthorize(s) \/ RejectRequest(s) \/ HandlerReturns(s)
           \/ \E s \in SessionIds, port \in Ports, ips \in SUBSET IPs :
                 FinishAuthorize(s, [ip : ips, port : {port}])
           \/ \E s \in SessionIds, id \in StreamIds : SpawnStream(s, id)
           \/ \E stream \in streams : StreamReturns(stream)
    PROVE  IInv'
<1>t. /\ handlers \in [SessionIds -> Handler] /\ streams \subseteq Stream
      /\ HoldersRegistered /\ StreamsAuthorized
  BY DEF IInv, TypeOK
<1>1. ASSUME NEW s \in SessionIds, BeginAuthorize(s) \/ RejectRequest(s) \/ HandlerReturns(s)
      PROVE  IInv'
  <2>1. PICK phase \in {"resolving", "idle", "gone"} : handlers' = [handlers EXCEPT ![s] = At(phase)]
    BY <1>1 DEF BeginAuthorize, RejectRequest, HandlerReturns
  <2>2. UNCHANGED <<runtime, streams>> /\ s \in DOMAIN sessions
    BY <1>1, <1>t DEF BeginAuthorize, RejectRequest, HandlerReturns, HoldersRegistered
  <2>3. /\ config' = config /\ credentials' = credentials /\ sessions' = sessions
        /\ streams' = streams
    BY <2>2 DEF runtime
  <2>4. handlers' \in [SessionIds -> Handler]
    BY <1>t, <2>1 DEF Handler, At
  <2>5. HoldersRegistered'
    BY <1>t, <2>1, <2>2, <2>3 DEF HoldersRegistered, At
  <2>6. \A t \in SessionIds : handlers'[t].addresses \subseteq handlers[t].addresses
    BY <1>t, <2>1 DEF At
  <2>7. StreamsAuthorized'
    BY <1>t, <2>3, <2>6 DEF StreamsAuthorized, Live, RulesOf, Permits
  <2> QED BY <1>t, <2>2, <2>3, <2>4, <2>5, <2>7, HolderStepIInv
<1>2. ASSUME NEW s \in SessionIds, NEW port \in Ports, NEW ips \in SUBSET IPs,
             FinishAuthorize(s, [ip : ips, port : {port}])
      PROVE  IInv'
  <2> DEFINE resolved == [ip : ips, port : {port}]
             allowed == {a \in resolved : Permits(RulesOf(s), a)}
  <2>1. /\ Live(s) /\ UNCHANGED <<runtime, streams>>
        /\ handlers' = [handlers EXCEPT ![s] = [phase |-> "granted", addresses |-> allowed]]
    BY <1>2 DEF FinishAuthorize
  <2>2. allowed \subseteq SocketAddr
    BY DEF SocketAddr
  <2>3. \A a \in allowed : Permits(RulesOf(s), a)
    OBVIOUS
  <2> HIDE DEF allowed
  <2>4. /\ config' = config /\ credentials' = credentials /\ sessions' = sessions
        /\ streams' = streams /\ s \in DOMAIN sessions
    BY <2>1 DEF runtime, Live
  <2>5. handlers' \in [SessionIds -> Handler]
    BY <1>t, <2>1, <2>2 DEF Handler
  <2>6. HoldersRegistered'
    BY <1>t, <2>1, <2>4 DEF HoldersRegistered
  <2>7. ASSUME NEW t \in SessionIds, Live(t), NEW a \in handlers'[t].addresses
        PROVE  Permits(RulesOf(t), a)
    BY <1>t, <2>1, <2>3, <2>7 DEF StreamsAuthorized
  <2>8. \A t : (Live(t)' <=> Live(t)) /\ RulesOf(t)' = RulesOf(t)
    BY <2>4 DEF Live, RulesOf
  <2>9. StreamsAuthorized'
    BY <1>t, <2>4, <2>7, <2>8 DEF StreamsAuthorized, Live, RulesOf, Permits
  <2> QED BY <1>t, <2>1, <2>4, <2>5, <2>6, <2>9, HolderStepIInv
<1>3. ASSUME NEW s \in SessionIds, NEW id \in StreamIds, SpawnStream(s, id)
      PROVE  IInv'
  <2> DEFINE stream == [session |-> s, id |-> id, addresses |-> handlers[s].addresses]
  <2>1. /\ Live(s) /\ UNCHANGED runtime /\ streams' = streams \cup {stream}
        /\ handlers' = [handlers EXCEPT ![s] = At("idle")]
    BY <1>3 DEF SpawnStream
  <2>2. stream \in Stream
    BY <1>t DEF Stream, Handler
  <2>3. stream.session = s /\ \A a \in stream.addresses : Permits(RulesOf(s), a)
    BY <1>t, <2>1 DEF StreamsAuthorized
  <2> HIDE DEF stream
  <2>4. /\ config' = config /\ credentials' = credentials /\ sessions' = sessions
        /\ s \in DOMAIN sessions
    BY <2>1 DEF runtime, Live
  <2>5. handlers' \in [SessionIds -> Handler]
    BY <1>t, <2>1 DEF Handler, At
  <2>6. HoldersRegistered'
    BY <1>t, <2>1, <2>3, <2>4 DEF HoldersRegistered, At
  <2>7. \A t \in SessionIds : handlers'[t].addresses \subseteq handlers[t].addresses
    BY <1>t, <2>1 DEF At
  <2>8. ASSUME NEW x \in streams', Live(x.session), NEW a \in x.addresses
        PROVE  Permits(RulesOf(x.session), a)
    BY <1>t, <2>1, <2>3, <2>8 DEF StreamsAuthorized
  <2>9. StreamsAuthorized'
    BY <1>t, <2>4, <2>7, <2>8 DEF StreamsAuthorized, Live, RulesOf, Permits
  <2> QED BY <1>t, <2>1, <2>2, <2>5, <2>6, <2>9, HolderStepIInv
<1>4. ASSUME NEW stream \in streams, StreamReturns(stream)
      PROVE  IInv'
  <2>1. UNCHANGED <<runtime, handlers>> /\ streams' \subseteq streams
    BY <1>4 DEF StreamReturns
  <2>2. /\ config' = config /\ credentials' = credentials /\ sessions' = sessions
        /\ handlers' = handlers
    BY <2>1 DEF runtime
  <2>3. HoldersRegistered'
    BY <1>t, <2>1, <2>2 DEF HoldersRegistered
  <2>4. StreamsAuthorized'
    BY <1>t, <2>1, <2>2 DEF StreamsAuthorized, Live, RulesOf, Permits
  <2> QED BY <1>t, <2>1, <2>2, <2>3, <2>4, HolderStepIInv
<1> QED BY <1>1, <1>2, <1>3, <1>4

\* Dropping the last lease of a session preserves the invariant.
LEMMA DropLeaseIInv ==
    ASSUME IInv, NEW s \in SessionIds, DropLease(s)
    PROVE  IInv'
<1>t. TypeOK
  BY DEF IInv
<1>1. /\ DOMAIN sessions' = DOMAIN sessions \ {s}
      /\ \A t \in DOMAIN sessions' : t \in DOMAIN sessions /\ sessions'[t] = sessions[t]
      /\ sessions' = [t \in DOMAIN sessions' |-> sessions[t]]
  BY DEF DropLease
<1>2. /\ config' = config /\ credentials' = credentials /\ orders' = orders /\ retired' = retired
      /\ next_order' = next_order /\ handlers' = handlers /\ streams' = streams
      /\ handlers[s].phase = "gone" /\ \A stream \in streams : stream.session # s
  BY DEF DropLease
<1>3. TypeOK'
  <2>1. DOMAIN sessions' \subseteq SessionIds /\ sessions' \in [DOMAIN sessions' -> SessionInfo]
    BY <1>t, <1>1 DEF TypeOK
  <2> QED BY <2>1, <1>t, <1>2 DEF TypeOK
<1>4. OrderHistory' /\ LiveCredentialCurrent' /\ SingleAccess'
  <2>1. OrderHistory'
    BY <1>1, <1>2 DEF IInv, OrderHistory, Live, Key
  <2>2. LiveCredentialCurrent'
    BY <1>1, <1>2 DEF IInv, LiveCredentialCurrent, Live
  <2>3. SingleAccess'
    BY <1>1, <1>2 DEF IInv, SingleAccess, Live
  <2> QED BY <2>1, <2>2, <2>3
<1>5. LiveNotRetired' /\ ReplacedStaysOut' /\ OthersRetired'
  BY <1>1, <1>2 DEF IInv, LiveNotRetired, ReplacedStaysOut, OthersRetired, Live, Key
<1>6. HoldersRegistered'
  BY <1>1, <1>2 DEF IInv, HoldersRegistered
<1>7. StreamsAuthorized'
  BY <1>1, <1>2 DEF IInv, StreamsAuthorized, Live, RulesOf, Permits
<1> QED BY <1>3, <1>4, <1>5, <1>6, <1>7 DEF IInv

\* Every step preserves the invariant.
LEMMA NextIInv == IInv /\ [Next]_vars => IInv'
<1> SUFFICES ASSUME IInv, [Next]_vars PROVE IInv'
  OBVIOUS
<1>1. CASE \E s \in SessionIds, g \in Tokens, u \in Tokens \cup {NoToken},
              i \in Instances, legacy \in BOOLEAN : Register(s, g, u, i, legacy)
  BY <1>1, RegisterIInv
<1>2. CASE \E new \in Configs : Reload(new)
  BY <1>2, ReloadIInv
<1>3. CASE \/ \E s \in SessionIds : BeginAuthorize(s) \/ RejectRequest(s) \/ HandlerReturns(s)
           \/ \E s \in SessionIds, port \in Ports, ips \in SUBSET IPs :
                 FinishAuthorize(s, [ip : ips, port : {port}])
           \/ \E s \in SessionIds, id \in StreamIds : SpawnStream(s, id)
           \/ \E stream \in streams : StreamReturns(stream)
  BY <1>3, HoldersIInv
<1>4. CASE \E s \in SessionIds : DropLease(s)
  BY <1>4, DropLeaseIInv
<1>5. CASE UNCHANGED vars
  <2>1. UNCHANGED runtime /\ handlers' = handlers /\ streams' = streams
        /\ config' = config /\ credentials' = credentials /\ sessions' = sessions
    BY <1>5 DEF vars, runtime
  <2>2. HoldersRegistered' /\ StreamsAuthorized'
    BY <2>1 DEF IInv, HoldersRegistered, StreamsAuthorized, Live, RulesOf, Permits
  <2> QED BY <2>1, <2>2, HolderStepIInv DEF IInv, TypeOK
<1> QED BY <1>1, <1>2, <1>3, <1>4, <1>5 DEF Next

-------------------------------------------------------------------------------
\* The inductive invariant holds in every reachable state.
THEOREM Invariance == Spec => []IInv
  BY InitIInv, NextIInv, PTL DEF Spec

\* The variables keep their types.
THEOREM TypeCorrect == Spec => []TypeOK
<1>1. IInv => TypeOK
  BY DEF IInv
<1> QED BY <1>1, Invariance, PTL

\* Single access: the live sessions of a single credential are of one instance,
\* after any sequence of registrations, reloads and disconnects.
THEOREM SingleAccessHolds == Spec => []SingleAccess
<1>1. IInv => SingleAccess
  BY DEF IInv
<1> QED BY <1>1, Invariance, PTL

\* An instance that was replaced is retired and has no live session: two
\* accesses of one user cannot keep taking over from each other.
THEOREM TakeoverFinal == Spec => []TakeoverIsFinal
<1>1. IInv => TakeoverIsFinal
  BY DEF IInv, TakeoverIsFinal
<1> QED BY <1>1, Invariance, PTL

\* A live session's credential is in force, under the name it was registered with.
THEOREM LiveCredentialCurrentHolds == Spec => []LiveCredentialCurrent
<1>1. IInv => LiveCredentialCurrent
  BY DEF IInv
<1> QED BY <1>1, Invariance, PTL

\* While one instance is live on a single-access credential, all others that ever
\* registered with it are retired.
THEOREM OthersRetiredHolds == Spec => []OthersRetired
<1>1. IInv => OthersRetired
  BY DEF IInv
<1> QED BY <1>1, Invariance, PTL

\* Streams and handlers hold registered sessions only, so a reload reaches them.
THEOREM HoldersRegisteredHolds == Spec => []HoldersRegistered
<1>1. IInv => HoldersRegistered
  BY DEF IInv
<1> QED BY <1>1, Invariance, PTL

\* The winner of a reload does not depend on the order of the scan.
THEOREM WinnerUniqueHolds == Spec => []WinnerUnique
<1>1. IInv => WinnerUnique
  <2> SUFFICES ASSUME IInv, NEW s \in DOMAIN sessions, NEW t \in DOMAIN sessions,
                      Live(s), Live(t),
                      sessions[s].order = sessions[t].order
               PROVE  sessions[s].instance = sessions[t].instance
    BY DEF WinnerUnique
  <2>1. Key(s) = Key(t)
    BY DEF IInv, OrderHistory
  <2> QED BY <2>1 DEF Key
<1> QED BY <1>1, Invariance, PTL

\* Open streams and granted requests of live leases stay within the rules in
\* force, through every reload that interleaves with their authorization.
THEOREM StreamsAuthorizedHolds == Spec => []StreamsAuthorized
<1>1. IInv => StreamsAuthorized
  BY DEF IInv
<1> QED BY <1>1, Invariance, PTL

-------------------------------------------------------------------------------
(* Action properties.                                                      *)

\* What a step may do to the signal of a session that is in the registry
\* before and after it.
SignalStep ==
    \A s \in DOMAIN sessions \cap DOMAIN sessions' :
       /\ sessions[s].signal # "None" => sessions'[s].signal # "None"
       /\ sessions[s].signal = "SESSION_REPLACED" => sessions'[s].signal = "SESSION_REPLACED"
       /\ Live(s) /\ sessions'[s].signal = "SESSION_REPLACED" =>
            \E t \in DOMAIN sessions' :
               /\ sessions'[t].signal = "None"
               /\ sessions'[t].credential = sessions[s].credential
               /\ sessions'[t].instance # sessions[s].instance
               /\ sessions'[t].order > sessions[s].order

\* register cancels the sessions of other instances in favour of the new one.
LEMMA RegisterSignals ==
    ASSUME IInv, NEW s \in SessionIds, NEW g \in Tokens, NEW u \in Tokens \cup {NoToken},
           NEW i \in Instances, NEW legacy \in BOOLEAN, Register(s, g, u, i, legacy)
    PROVE  SignalStep
<1> DEFINE token == Admitted(g, u, legacy)
           key == <<token, i>>
           order == OrderOf(key)
           single == credentials[token].single
           fresh == [credential |-> token, instance |-> i, order |-> order,
                     signal |-> "None", name |-> credentials[token].name]
           Loser(t) == single /\ sessions[t].credential = token /\ sessions[t].instance # i
<1>1. /\ s \notin DOMAIN sessions /\ key \notin retired
      /\ sessions' = [t \in DOMAIN sessions \cup {s} |->
            IF t = s THEN fresh
            ELSE IF Loser(t) THEN [sessions[t] EXCEPT !.signal = "SESSION_REPLACED"]
            ELSE sessions[t]]
  BY DEF Register
<1> HIDE DEF token
<1> SUFFICES ASSUME NEW t \in DOMAIN sessions
             PROVE  /\ sessions[t].signal # "None" => sessions'[t].signal # "None"
                    /\ sessions[t].signal = "SESSION_REPLACED" => sessions'[t].signal = "SESSION_REPLACED"
                    /\ Live(t) /\ sessions'[t].signal = "SESSION_REPLACED" =>
                         \E x \in DOMAIN sessions' :
                            /\ sessions'[x].signal = "None"
                            /\ sessions'[x].credential = sessions[t].credential
                            /\ sessions'[x].instance # sessions[t].instance
                            /\ sessions'[x].order > sessions[t].order
  BY DEF SignalStep
<1>2. /\ sessions[t] \in SessionInfo
      /\ sessions'[t] = IF Loser(t) THEN [sessions[t] EXCEPT !.signal = "SESSION_REPLACED"]
                        ELSE sessions[t]
  BY <1>1 DEF IInv, TypeOK
<1>3. s \in DOMAIN sessions' /\ sessions'[s] = fresh
  BY <1>1
<1> HIDE DEF Loser, order
<1>4. /\ sessions[t].signal # "None" => sessions'[t].signal # "None"
      /\ sessions[t].signal = "SESSION_REPLACED" => sessions'[t].signal = "SESSION_REPLACED"
  BY <1>2 DEF SessionInfo
<1>5. ASSUME Live(t), sessions'[t].signal = "SESSION_REPLACED"
      PROVE  \E x \in DOMAIN sessions' :
                /\ sessions'[x].signal = "None"
                /\ sessions'[x].credential = sessions[t].credential
                /\ sessions'[x].instance # sessions[t].instance
                /\ sessions'[x].order > sessions[t].order
  <2>1. Loser(t)
    BY <1>2, <1>5 DEF Live
  <2>2. single /\ sessions[t].credential = token /\ sessions[t].instance # i
    BY <2>1 DEF Loser
  <2>3. key[1] = sessions[t].credential /\ key[2] # sessions[t].instance
    BY <2>2
  <2>4. key \notin DOMAIN orders
    BY <1>1, <1>5, <2>2, <2>3 DEF IInv, OthersRetired
  <2>5. order = next_order + 1 /\ sessions[t].order <= next_order
        /\ next_order \in Nat /\ sessions[t].order \in Nat
    BY <2>4, <1>2 DEF order, OrderOf, IInv, OrderHistory, TypeOK, SessionInfo
  <2>6. order > sessions[t].order
    BY <2>5
  <2>7. /\ sessions'[s].signal = "None" /\ sessions'[s].credential = sessions[t].credential
        /\ sessions'[s].instance # sessions[t].instance /\ sessions'[s].order > sessions[t].order
    BY <1>3, <2>2, <2>6
  <2> QED BY <1>3, <2>7
<1> QED BY <1>4, <1>5

\* reload replaces a session only in favour of a newer one that it keeps: the
\* two are of one credential, so what would cancel the winner with
\* AUTH_CHANGED cancels the loser with AUTH_CHANGED, too.
LEMMA ReloadSignals ==
    ASSUME IInv, NEW new \in Configs, Reload(new)
    PROVE  SignalStep
<1> DEFINE next == CredentialsOf(new)
           changed == config.access_token # new.access_token
<1>1. PICK winner \in [IF changed THEN {} ELSE Contested(next) -> Instances] :
        /\ \A c \in DOMAIN winner : Winner(c, winner[c])
        /\ sessions' = [s \in DOMAIN sessions |->
              Notify(sessions[s], Verdict(s, changed, next, winner))]
  BY DEF Reload
<1> HIDE DEF next, changed
<1>2. \A t \in DOMAIN sessions : sessions[t] \in SessionInfo
  BY DEF IInv, TypeOK
<1>3. DOMAIN sessions' = DOMAIN sessions
  BY <1>1
<1>4. ASSUME NEW t \in DOMAIN sessions
      PROVE  /\ sessions'[t].credential = sessions[t].credential
             /\ sessions'[t].instance = sessions[t].instance
             /\ sessions'[t].order = sessions[t].order
             /\ sessions[t].signal = "None" => sessions'[t].signal = Verdict(t, changed, next, winner)
             /\ sessions[t].signal # "None" => sessions'[t].signal = sessions[t].signal
  <2>1. sessions'[t] = IF sessions[t].signal = "None"
                       THEN [sessions[t] EXCEPT !.signal = Verdict(t, changed, next, winner)]
                       ELSE sessions[t]
    BY <1>1 DEF Notify
  <2> QED BY <1>2, <2>1 DEF SessionInfo
<1> SUFFICES ASSUME NEW t \in DOMAIN sessions, Live(t),
                    sessions'[t].signal = "SESSION_REPLACED"
             PROVE  \E x \in DOMAIN sessions' :
                       /\ sessions'[x].signal = "None"
                       /\ sessions'[x].credential = sessions[t].credential
                       /\ sessions'[x].instance # sessions[t].instance
                       /\ sessions'[x].order > sessions[t].order
  BY <1>4 DEF SignalStep
<1> DEFINE c == sessions[t].credential
<1>5. Verdict(t, changed, next, winner) = "SESSION_REPLACED"
  BY <1>4 DEF Live
<1>6. /\ ~changed /\ c \in DOMAIN next
      /\ ~(/\ c \in DOMAIN credentials
           /\ \/ credentials[c].name # next[c].name
              \/ ~AllCovered(credentials[c].rules, next[c].rules))
      /\ c \in DOMAIN winner /\ winner[c] # sessions[t].instance
  BY <1>5 DEF Verdict
<1>7. PICK w \in DOMAIN sessions :
        /\ Live(w) /\ sessions[w].credential = c /\ sessions[w].instance = winner[c]
        /\ \A s \in DOMAIN sessions :
              Live(s) /\ sessions[s].credential = c => sessions[s].order <= sessions[w].order
  BY <1>1, <1>6 DEF Winner
<1>8. Verdict(w, changed, next, winner) = "None"
  BY <1>6, <1>7 DEF Verdict
<1>9. sessions'[w].signal = "None"
  BY <1>4, <1>7, <1>8 DEF Live
<1>10. sessions[t].order <= sessions[w].order
  BY <1>7
<1>11. sessions[t].order # sessions[w].order
  <2>1. Key(t) # Key(w)
    BY <1>6, <1>7 DEF Key
  <2> QED BY <2>1, <1>7 DEF IInv, OrderHistory
<1>12. sessions[w].order > sessions[t].order
  BY <1>2, <1>10, <1>11 DEF SessionInfo
<1> QED BY <1>3, <1>4, <1>6, <1>7, <1>9, <1>12

\* Every step respects SignalStep.
LEMMA NextSignals == IInv /\ [Next]_vars => SignalStep
<1> SUFFICES ASSUME IInv, [Next]_vars PROVE SignalStep
  OBVIOUS
<1>1. CASE \E s \in SessionIds, g \in Tokens, u \in Tokens \cup {NoToken},
              i \in Instances, legacy \in BOOLEAN : Register(s, g, u, i, legacy)
  BY <1>1, RegisterSignals
<1>2. CASE \E new \in Configs : Reload(new)
  BY <1>2, ReloadSignals
<1>3. CASE \A s \in DOMAIN sessions \cap DOMAIN sessions' : sessions'[s] = sessions[s]
  BY <1>3 DEF SignalStep, Live
<1>4. CASE \E s \in SessionIds : DropLease(s)
  BY <1>3, <1>4 DEF DropLease
<1>5. CASE UNCHANGED runtime
  BY <1>3, <1>5 DEF runtime
<1>6. CASE \/ \E s \in SessionIds : BeginAuthorize(s) \/ RejectRequest(s) \/ HandlerReturns(s)
           \/ \E s \in SessionIds, port \in Ports, ips \in SUBSET IPs :
                 FinishAuthorize(s, [ip : ips, port : {port}])
           \/ \E s \in SessionIds, id \in StreamIds : SpawnStream(s, id)
           \/ \E stream \in streams : StreamReturns(stream)
  <2>1. UNCHANGED runtime
    BY <1>6 DEF BeginAuthorize, RejectRequest, HandlerReturns, FinishAuthorize, SpawnStream,
                StreamReturns
  <2> QED BY <2>1, <1>5
<1>7. CASE UNCHANGED vars
  BY <1>5, <1>7 DEF vars, runtime
<1> QED BY <1>1, <1>2, <1>4, <1>6, <1>7 DEF Next

\* A cancelled lease is never revived and SESSION_REPLACED is never rewritten.
THEOREM CancellationFinalHolds == Spec => CancellationFinal
<1>1. IInv /\ [Next]_vars =>
        [\A s \in DOMAIN sessions \cap DOMAIN sessions' :
          /\ sessions[s].signal # "None" => sessions'[s].signal # "None"
          /\ sessions[s].signal = "SESSION_REPLACED" => sessions'[s].signal = "SESSION_REPLACED"]_vars
  BY NextSignals DEF SignalStep
<1> QED BY <1>1, Invariance, PTL DEF Spec, CancellationFinal

\* A live session gives way only to a newer one of its own credential that is
\* live after the step.
THEOREM ReplacedByNewerHolds == Spec => ReplacedByNewer
<1>1. IInv /\ [Next]_vars =>
        [\A s \in DOMAIN sessions \cap DOMAIN sessions' :
          Live(s) /\ sessions'[s].signal = "SESSION_REPLACED" =>
             \E t \in DOMAIN sessions' :
                /\ sessions'[t].signal = "None"
                /\ sessions'[t].credential = sessions[s].credential
                /\ sessions'[t].instance # sessions[s].instance
                /\ sessions'[t].order > sessions[s].order]_vars
  BY NextSignals DEF SignalStep
<1> QED BY <1>1, Invariance, PTL DEF Spec, ReplacedByNewer

-------------------------------------------------------------------------------
(* The registry implements Takeover.                                       *)

\* The keys of live sessions are pairs, on record with the order of their session.
LEMMA LiveKeysFacts ==
    ASSUME IInv, NEW s \in DOMAIN sessions, Live(s)
    PROVE  /\ Key(s) = <<sessions[s].credential, sessions[s].instance>>
           /\ Key(s) \in LiveKeys /\ Key(s) \in DOMAIN orders
           /\ orders[Key(s)] = sessions[s].order /\ sessions[s].order \in Nat
<1>1. sessions[s] \in SessionInfo
  BY DEF IInv, TypeOK
<1> QED BY <1>1 DEF Key, LiveKeys, IInv, OrderHistory, SessionInfo

\* An accepted register call is a Join of its credential and instance.
LEMMA RegisterJoins ==
    ASSUME IInv, NEW s \in SessionIds, NEW g \in Tokens, NEW u \in Tokens \cup {NoToken},
           NEW i \in Instances, NEW legacy \in BOOLEAN, Register(s, g, u, i, legacy)
    PROVE  \E c \in Tokens : Registry!Join(c, i)
<1> DEFINE token == Admitted(g, u, legacy)
           key == <<token, i>>
           order == OrderOf(key)
           single == credentials[token].single
           fresh == [credential |-> token, instance |-> i, order |-> order,
                     signal |-> "None", name |-> credentials[token].name]
           Loser(t) == single /\ sessions[t].credential = token /\ sessions[t].instance # i
<1>1. /\ s \notin DOMAIN sessions /\ key \notin retired
      /\ retired' = IF single THEN retired \cup OtherKeys(token, i) ELSE retired
      /\ orders' = [k \in DOMAIN orders \cup {key} |-> IF k = key THEN order ELSE orders[k]]
      /\ sessions' = [t \in DOMAIN sessions \cup {s} |->
            IF t = s THEN fresh
            ELSE IF Loser(t) THEN [sessions[t] EXCEPT !.signal = "SESSION_REPLACED"]
            ELSE sessions[t]]
      /\ credentials' = credentials
  BY DEF Register
<1>2. token \in DOMAIN credentials /\ token \in Tokens /\ single \in BOOLEAN
  <2>1. token # NoToken
    BY DEF Register
  <2>2. token \in DOMAIN credentials
    BY <2>1 DEF Admitted
  <2>3. credentials[token] \in Credential /\ DOMAIN credentials \subseteq Tokens
    BY <2>2 DEF IInv, TypeOK
  <2> QED BY <2>2, <2>3 DEF Credential
<1>3. order = IF key \in DOMAIN orders THEN orders[key] ELSE next_order + 1
  BY DEF OrderOf
<1>4. \A t \in DOMAIN sessions : sessions[t] \in SessionInfo
  BY DEF IInv, TypeOK
<1> HIDE DEF token, order, single
<1>5. /\ DOMAIN sessions' = DOMAIN sessions \cup {s} /\ sessions'[s] = fresh
      /\ \A t \in DOMAIN sessions :
            sessions'[t] = IF Loser(t) THEN [sessions[t] EXCEPT !.signal = "SESSION_REPLACED"]
                           ELSE sessions[t]
  BY <1>1
<1>6. Live(s)' /\ Key(s)' = key
  BY <1>5 DEF Live, Key
<1>7. ASSUME NEW t \in DOMAIN sessions
      PROVE  Key(t)' = Key(t) /\ (Live(t)' <=> Live(t) /\ ~Loser(t))
  BY <1>4, <1>5 DEF Key, Live, SessionInfo
<1>8. \A t \in DOMAIN sessions :
         Loser(t) <=> single /\ Key(t)[1] = token /\ Key(t)[2] # i
  BY DEF Key
<1> HIDE DEF fresh, Loser
<1>9. LiveKeys' = {Key(t) : t \in {x \in DOMAIN sessions : Live(x) /\ ~Loser(x)}} \cup {key}
  <2>1. ASSUME NEW k \in LiveKeys'
        PROVE  k = key \/ \E t \in DOMAIN sessions : Live(t) /\ ~Loser(t) /\ k = Key(t)
    <3>1. PICK t \in DOMAIN sessions' : Live(t)' /\ k = Key(t)'
      BY DEF LiveKeys
    <3> QED BY <3>1, <1>5, <1>6, <1>7
  <2>2. key \in LiveKeys'
    BY <1>5, <1>6 DEF LiveKeys
  <2>3. ASSUME NEW t \in DOMAIN sessions, Live(t), ~Loser(t) PROVE Key(t) \in LiveKeys'
    <3>1. t \in DOMAIN sessions' /\ Live(t)' /\ Key(t)' = Key(t)
      BY <2>3, <1>5, <1>7
    <3> QED BY <3>1 DEF LiveKeys
  <2> QED BY <2>1, <2>2, <2>3
<1>10. CASE single
  <2>1. LiveKeys' = (LiveKeys \ Registry!Rivals(LiveKeys, token, i)) \cup {key}
    BY <1>8, <1>9, <1>10 DEF LiveKeys, Registry!Rivals
  <2>2. token \in SingleCredentials
    BY <1>2, <1>10 DEF SingleCredentials, single
  <2>3. retired' = retired \cup Registry!Rivals(DOMAIN orders, token, i)
    BY <1>1, <1>10 DEF OtherKeys, Registry!Rivals
  <2>4. /\ key \notin retired
        /\ DOMAIN orders' = DOMAIN orders \cup {key}
        /\ \A k \in DOMAIN orders :
              orders'[k] = orders[k] /\ (key \notin DOMAIN orders => orders[k] < orders'[key])
    BY <1>1, <1>3 DEF IInv, OrderHistory, TypeOK
  <2>5. SingleCredentials' = SingleCredentials
    BY <1>1 DEF SingleCredentials
  <2>6. Registry!Join(token, i)
    BY <2>1, <2>2, <2>3, <2>4, <2>5 DEF Registry!Join
  <2> QED BY <2>6, <1>2
<1>11. CASE ~single
  <2>1. LiveKeys' = LiveKeys \cup {key}
    BY <1>8, <1>9, <1>11 DEF LiveKeys
  <2>2. token \notin SingleCredentials
    BY <1>11 DEF SingleCredentials, single
  <2>3. retired' = retired
    BY <1>1, <1>11
  <2>4. /\ key \notin retired
        /\ DOMAIN orders' = DOMAIN orders \cup {key}
        /\ \A k \in DOMAIN orders :
              orders'[k] = orders[k] /\ (key \notin DOMAIN orders => orders[k] < orders'[key])
    BY <1>1, <1>3 DEF IInv, OrderHistory, TypeOK
  <2>5. SingleCredentials' = SingleCredentials
    BY <1>1 DEF SingleCredentials
  <2>6. Registry!Join(token, i)
    BY <2>1, <2>2, <2>3, <2>4, <2>5 DEF Registry!Join
  <2> QED BY <2>6, <1>2
<1> QED BY <1>10, <1>11

\* A reload is a Change, or a Restart when the gateway token is another one.
LEMMA ReloadChanges ==
    ASSUME IInv, NEW new \in Configs, Reload(new)
    PROVE  \E c \in SUBSET Tokens : Registry!Change(c) \/ Registry!Restart(c)
<1> DEFINE next == CredentialsOf(new)
           changed == config.access_token # new.access_token
           kept == IF changed THEN {} ELSE DOMAIN orders
           single == {c \in DOMAIN next : next[c].single}
<1>1. PICK winner \in [IF changed THEN {} ELSE Contested(next) -> Instances] :
        /\ \A c \in DOMAIN winner : Winner(c, winner[c])
        /\ retired' = IF changed THEN {}
                      ELSE retired \cup UNION {OtherKeys(c, winner[c]) : c \in DOMAIN winner}
        /\ sessions' = [s \in DOMAIN sessions |->
              Notify(sessions[s], Verdict(s, changed, next, winner))]
  BY DEF Reload
<1>2. orders' = [k \in kept |-> orders[k]] /\ credentials' = next
  BY DEF Reload
<1>3. single \in SUBSET Tokens
  BY ConfigsAssumption, CredentialsType
<1> HIDE DEF next, changed
<1>4. SingleCredentials' = single
  BY <1>2 DEF SingleCredentials
<1>5. \A t \in DOMAIN sessions : sessions[t] \in SessionInfo
  BY DEF IInv, TypeOK
<1>6. ASSUME NEW t \in DOMAIN sessions, Live(t)'
      PROVE  /\ Live(t) /\ Key(t)' = Key(t) /\ Verdict(t, changed, next, winner) = "None"
  <2>1. sessions'[t] = IF sessions[t].signal = "None"
                       THEN [sessions[t] EXCEPT !.signal = Verdict(t, changed, next, winner)]
                       ELSE sessions[t]
    BY <1>1 DEF Notify
  <2>2. sessions'[t].signal = "None"
    BY <1>6 DEF Live
  <2>3. sessions[t].signal = "None" /\ Verdict(t, changed, next, winner) = "None"
    BY <2>1, <2>2, <1>5 DEF SessionInfo
  <2>4. /\ sessions'[t].credential = sessions[t].credential
        /\ sessions'[t].instance = sessions[t].instance
    BY <2>1, <1>5 DEF SessionInfo
  <2> QED BY <2>3, <2>4 DEF Live, Key
<1>7. ASSUME NEW k \in LiveKeys'
      PROVE  \E t \in DOMAIN sessions :
                Live(t) /\ k = Key(t) /\ Verdict(t, changed, next, winner) = "None"
  <2>1. PICK t \in DOMAIN sessions' : Live(t)' /\ k = Key(t)'
    BY DEF LiveKeys
  <2>2. t \in DOMAIN sessions
    BY <1>1
  <2> QED BY <2>1, <2>2, <1>6
<1>8. CASE changed
  <2>1. LiveKeys' = {}
    BY <1>7, <1>8 DEF Verdict
  <2>2. DOMAIN orders' = {} /\ retired' = {}
    BY <1>1, <1>2, <1>8
  <2>3. Registry!Restart(single)
    BY <1>4, <2>1, <2>2 DEF Registry!Restart
  <2> QED BY <1>3, <2>3
<1>9. CASE ~changed
  <2>1. DOMAIN winner = Contested(next) /\ orders' = [k \in DOMAIN orders |-> orders[k]]
    BY <1>1, <1>2, <1>9
  <2>2. orders' = orders
    BY <2>1 DEF IInv, TypeOK
  <2>3. ASSUME NEW c \in DOMAIN winner
        PROVE  \E l \in LiveKeys : l = <<c, winner[c]>> /\ Registry!Newest(l)
                  /\ \A m \in LiveKeys : m[1] = c /\ Registry!Newest(m) => m = l
    <3>1. PICK w \in DOMAIN sessions :
             /\ Live(w) /\ sessions[w].credential = c /\ sessions[w].instance = winner[c]
             /\ \A s \in DOMAIN sessions :
                   Live(s) /\ sessions[s].credential = c => sessions[s].order <= sessions[w].order
      BY <1>1 DEF Winner
    <3>2. Key(w) = <<c, winner[c]>> /\ Key(w) \in LiveKeys /\ Key(w) \in DOMAIN orders
          /\ orders[Key(w)] = sessions[w].order /\ sessions[w].order \in Nat
      BY <3>1, LiveKeysFacts
    <3>3. ASSUME NEW m \in LiveKeys, m[1] = c
          PROVE  m \in DOMAIN orders /\ orders[m] \in Nat /\ orders[m] <= orders[Key(w)]
      <4>1. PICK s \in DOMAIN sessions : Live(s) /\ m = Key(s)
        BY DEF LiveKeys
      <4>2. m = <<sessions[s].credential, sessions[s].instance>> /\ m \in DOMAIN orders
            /\ orders[m] = sessions[s].order /\ sessions[s].order \in Nat
        BY <4>1, LiveKeysFacts
      <4>3. sessions[s].credential = c
        BY <3>3, <4>2
      <4> QED BY <3>1, <3>2, <4>1, <4>2, <4>3
    <3>4. Registry!Newest(Key(w))
      BY <3>2, <3>3 DEF Registry!Newest
    <3>5. ASSUME NEW m \in LiveKeys, m[1] = c, Registry!Newest(m) PROVE m = Key(w)
      <4>1. orders[Key(w)] <= orders[m]
        BY <3>2, <3>5 DEF Registry!Newest
      <4>2. orders[m] = orders[Key(w)] /\ m \in DOMAIN orders
        BY <3>2, <3>3, <3>5, <4>1
      <4> QED BY <3>2, <4>2 DEF IInv, OrderHistory
    <3> QED BY <3>2, <3>4, <3>5
  <2>4. ASSUME NEW l \in LiveKeys, l[1] \in single PROVE l[1] \in DOMAIN winner
    <3>1. PICK s \in DOMAIN sessions : Live(s) /\ l = Key(s)
      BY DEF LiveKeys
    <3>2. sessions[s].credential = l[1]
      BY <3>1 DEF Key
    <3> QED BY <2>1, <2>4, <3>1, <3>2 DEF Contested
  <2>5. Registry!Losers(single) = UNION {OtherKeys(c, winner[c]) : c \in DOMAIN winner}
    <3>1. ASSUME NEW k \in Registry!Losers(single)
          PROVE  \E c \in DOMAIN winner : k \in OtherKeys(c, winner[c])
      <4>1. PICK l \in LiveKeys : l[1] = k[1] /\ l # k /\ Registry!Newest(l)
        BY DEF Registry!Losers
      <4>2. k \in DOMAIN orders /\ k[1] \in single /\ k = <<k[1], k[2]>>
        BY DEF Registry!Losers, IInv, TypeOK, Keys
      <4>3. k[1] \in DOMAIN winner
        BY <2>4, <4>1, <4>2
      <4>4. l = <<k[1], winner[k[1]]>>
        BY <2>3, <4>1, <4>3
      <4> QED BY <4>1, <4>2, <4>3, <4>4 DEF OtherKeys
    <3>2. ASSUME NEW c \in DOMAIN winner, NEW k \in OtherKeys(c, winner[c])
          PROVE  k \in Registry!Losers(single)
      <4>1. PICK l \in LiveKeys : l = <<c, winner[c]>> /\ Registry!Newest(l)
        BY <2>3
      <4>2. k \in DOMAIN orders /\ k[1] = c /\ k[2] # winner[c]
        BY DEF OtherKeys
      <4>3. l[1] = k[1] /\ l # k
        BY <4>1, <4>2
      <4>4. c \in single
        BY <2>1 DEF Contested
      <4> QED BY <4>1, <4>2, <4>3, <4>4 DEF Registry!Losers
    <3> QED BY <3>1, <3>2
  <2>6. ASSUME NEW k \in LiveKeys' PROVE k \in LiveKeys \ Registry!Losers(single)
    <3>1. PICK t \in DOMAIN sessions :
             Live(t) /\ k = Key(t) /\ Verdict(t, changed, next, winner) = "None"
      BY <1>7
    <3>2. k \in LiveKeys
      BY <3>1, LiveKeysFacts
    <3>3. ASSUME NEW c \in DOMAIN winner, k \in OtherKeys(c, winner[c]) PROVE FALSE
      <4>1. sessions[t].credential = c /\ sessions[t].instance # winner[c]
        BY <3>1, <3>3 DEF OtherKeys, Key
      <4> QED BY <3>1, <4>1 DEF Verdict
    <3> QED BY <2>5, <3>2, <3>3
  <2>7. Registry!Change(single)
    BY <1>1, <1>4, <1>9, <2>2, <2>5, <2>6 DEF Registry!Change
  <2> QED BY <1>3, <2>7
<1> QED BY <1>8, <1>9

\* The end of a session only takes it away from the live ones.
LEMMA DropLeaseEnds ==
    ASSUME IInv, NEW s \in SessionIds, DropLease(s)
    PROVE  Registry!End
<1>1. /\ sessions' = [t \in DOMAIN sessions \ {s} |-> sessions[t]]
      /\ credentials' = credentials /\ orders' = orders /\ retired' = retired
  BY DEF DropLease
<1>2. ASSUME NEW k \in LiveKeys' PROVE k \in LiveKeys
  <2>1. PICK t \in DOMAIN sessions' : Live(t)' /\ k = Key(t)'
    BY DEF LiveKeys
  <2>2. t \in DOMAIN sessions /\ sessions'[t] = sessions[t]
    BY <1>1
  <2>3. Live(t) /\ k = Key(t)
    BY <2>1, <2>2 DEF Live, Key
  <2> QED BY <2>2, <2>3 DEF LiveKeys
<1>3. SingleCredentials' = SingleCredentials
  BY <1>1 DEF SingleCredentials
<1> QED BY <1>1, <1>2, <1>3 DEF Registry!End

\* The registry implements Takeover: for any number of credentials, instances, sessions
\* and configurations, and every order of registrations, reloads and ends of sessions,
\* an instance registers, gives way and stays out as that specification says.
THEOREM TakesOverHolds == Spec => TakesOver
<1>1. Init => Registry!Init
  <2> SUFFICES ASSUME Init PROVE Registry!Init
    OBVIOUS
  <2>1. IInv
    BY InitIInv
  <2>2. DOMAIN sessions = {} /\ DOMAIN orders = {} /\ retired = {}
    BY DEF Init
  <2>3. LiveKeys = {}
    BY <2>2 DEF LiveKeys
  <2>4. SingleCredentials \subseteq Tokens
    BY <2>1 DEF SingleCredentials, IInv, TypeOK
  <2> QED BY <2>2, <2>3, <2>4 DEF Registry!Init
<1>2. IInv /\ [Next]_vars => [Registry!Next]_Registry!takeover
  <2> SUFFICES ASSUME IInv, [Next]_vars PROVE [Registry!Next]_Registry!takeover
    OBVIOUS
  <2>1. CASE \E s \in SessionIds, g \in Tokens, u \in Tokens \cup {NoToken},
                i \in Instances, legacy \in BOOLEAN : Register(s, g, u, i, legacy)
    BY <2>1, RegisterJoins DEF Registry!Next
  <2>2. CASE \E new \in Configs : Reload(new)
    BY <2>2, ReloadChanges DEF Registry!Next
  <2>3. CASE \E s \in SessionIds : DropLease(s)
    BY <2>3, DropLeaseEnds DEF Registry!Next
  <2>4. CASE UNCHANGED runtime
    <3>1. /\ sessions' = sessions /\ credentials' = credentials
          /\ orders' = orders /\ retired' = retired
      BY <2>4 DEF runtime
    <3>2. LiveKeys' = LiveKeys /\ SingleCredentials' = SingleCredentials
      BY <3>1 DEF LiveKeys, SingleCredentials, Live, Key
    <3> QED BY <3>1, <3>2 DEF Registry!takeover
  <2>5. CASE \/ \E s \in SessionIds : BeginAuthorize(s) \/ RejectRequest(s) \/ HandlerReturns(s)
             \/ \E s \in SessionIds, port \in Ports, ips \in SUBSET IPs :
                   FinishAuthorize(s, [ip : ips, port : {port}])
             \/ \E s \in SessionIds, id \in StreamIds : SpawnStream(s, id)
             \/ \E stream \in streams : StreamReturns(stream)
    <3>1. UNCHANGED runtime
      BY <2>5 DEF BeginAuthorize, RejectRequest, HandlerReturns, FinishAuthorize, SpawnStream,
                  StreamReturns
    <3> QED BY <2>4, <3>1
  <2>6. CASE UNCHANGED vars
    BY <2>4, <2>6 DEF vars, runtime
  <2> QED BY <2>1, <2>2, <2>3, <2>5, <2>6 DEF Next
<1> QED BY <1>1, <1>2, Invariance, PTL DEF Spec, TakesOver, Registry!Spec
================================================================================
