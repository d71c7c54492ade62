---------------------------- MODULE Handshake_proofs ----------------------------
(***************************************************************************)
(* Proofs about Handshake for every set of tokens, and any number of        *)
(* reloads and losses. The invariant follows one attempt through its        *)
(* stages: which message can be in flight in each phase of the access, what *)
(* the session at the gateway has in common with what the access was told,  *)
(* and under which credential a session is registered.                      *)
(***************************************************************************)
EXTENDS Handshake, TLAPS

\* What the messages of the upgrade carry; only this gateway confirms version 4.
Messages ==
    /\ wire.kind = "request" =>
          /\ wire.dual = (user_token # None) /\ wire.gateway_id = token
          /\ wire.id = IF user_token # None THEN user_token ELSE token
    /\ wire.kind = "response" =>
          /\ wire.v4 \in BOOLEAN /\ wire.nonce \in BOOLEAN /\ wire.user_auth \in BOOLEAN
          /\ wire.v4 => kind = "this"
    /\ wire.kind = "register" => access.pc = "registering"

\* What the access knows of the gateway is true.
Version ==
    /\ access.v4 => kind = "this"
    /\ access.pc \in {"registering", "connected"} /\ user_token # None => access.v4

\* The session has selected the tokens of this access.
Selected == /\ session.token = token
            /\ session.user_token # None => session.user_token = user_token

\* The access was told what the session has selected.
Told == /\ Selected /\ session.dual = access.v4 /\ access.v3
        /\ access.user_auth = (session.user_token # None)

\* The stages of an attempt at this gateway.
Stage ==
    /\ access.pc = "idle" => wire.kind = "none" /\ session.pc = "none"
    /\ access.pc = "requested" =>
          \/ wire.kind \in {"request", "refused"} /\ session.pc = "none"
          \/ /\ wire.kind = "response" /\ session.pc = "upgraded" /\ Selected
             /\ wire.v4 = session.dual /\ wire.nonce
             /\ wire.user_auth = (session.user_token # None)
    /\ access.pc = "registering" =>
          \/ /\ wire.kind = "register" /\ session.pc = "upgraded" /\ Told
             /\ wire.cipher = AccessCipher /\ wire.version = IF access.v4 THEN 4 ELSE 3
          \/ wire.kind = "none" /\ session.pc \in {"registered", "cancelled"} /\ Told
          \/ wire.kind = "ok" /\ session.pc \in {"confirmed", "cancelled"} /\ Agrees
          \/ wire.kind = "error" /\ session.pc = "none" /\ wire.cipher = AccessCipher
    /\ access.pc = "connected" => wire.kind = "none" /\ session.pc \in {"confirmed", "cancelled"}
    /\ access.pc = "blocked" => wire.kind = "none" /\ session.pc \in {"none", "upgraded"}

\* A registered session has the credential the configuration asks this access for, one
\* that is not registered yet has none.
Registered ==
    /\ session.pc \in {"none", "upgraded"} => session.credential = None
    /\ session.pc \in {"registered", "confirmed"} =>
          /\ token = config.access_token
          /\ session.credential = IF config.enabled THEN user_token ELSE token
          /\ session.credential \in Credentials(config)

\* kind, token and user_token are constants of a behaviour.
Fixed == kind \in Kinds /\ token \in Tokens /\ user_token \in UserTokens \cup {None}

IInv == /\ TypeOK /\ Fixed /\ Messages /\ Version /\ Registered
        /\ kind = "this" => Stage
        /\ kind # "this" => session.pc = "none"

LEMMA InitIInv == Init => IInv
<1> SUFFICES ASSUME Init PROVE IInv
  OBVIOUS
<1>1. TypeOK
  BY HandshakeAssumption DEF Init, TypeOK, NoAccess, NoSession, NoWire
<1> QED
  BY <1>1 DEF Init, IInv, Fixed, Messages, Version, Registered, Stage, NoAccess, NoSession, NoWire

-------------------------------------------------------------------------------
Sessions == [pc : {"none", "upgraded", "registered", "confirmed", "cancelled"},
             dual : BOOLEAN, token : Tokens \cup {None}, user_token : UserTokens \cup {None},
             credential : Tokens \cup UserTokens \cup {None}]
Accesses == [pc : {"idle", "requested", "registering", "connected", "blocked"},
             v4 : BOOLEAN, v3 : BOOLEAN, user_auth : BOOLEAN]

LEMMA RequestIInv == IInv /\ Request => IInv'
<1> SUFFICES ASSUME IInv, Request PROVE IInv'
  OBVIOUS
<1>1. /\ access.pc = "idle" /\ access' = [NoAccess EXCEPT !.pc = "requested"]
      /\ wire' = [kind |-> "request", dual |-> user_token # None, gateway_id |-> token,
                  id |-> IF user_token # None THEN user_token ELSE token]
      /\ UNCHANGED <<fixed, config, session, counts>>
  BY DEF Request
<1>2. /\ access' = [pc |-> "requested", v4 |-> FALSE, v3 |-> FALSE, user_auth |-> FALSE]
      /\ wire'.kind = "request"
  BY <1>1 DEF NoAccess
<1>3. TypeOK'
  <2>1. access' \in Accesses
    BY <1>2 DEF Accesses
  <2> QED BY <1>1, <1>2, <2>1 DEF IInv, TypeOK, Accesses, fixed, counts
<1>4. Messages'
  BY <1>1 DEF Messages, fixed
<1> QED BY <1>1, <1>2, <1>3, <1>4 DEF IInv, Fixed, Version, Registered, Stage, Credentials, fixed

LEMMA UpgradeIInv == IInv /\ Upgrade => IInv'
<1> SUFFICES ASSUME IInv, Upgrade PROVE IInv'
  OBVIOUS
<1>1. /\ kind = "this" /\ wire.kind = "request"
      /\ wire.dual = (user_token # None) /\ wire.gateway_id = token
      /\ wire.id = IF user_token # None THEN user_token ELSE token
      /\ UNCHANGED <<fixed, config, access, counts>>
      /\ Stage
  BY DEF Upgrade, IInv, Messages
<1>2. access.pc = "requested" /\ session.pc = "none"
  BY <1>1 DEF Stage, IInv, TypeOK
<1>3. CASE wire' = Refusal /\ session' = session
  <2>1. wire'.kind = "refused"
    BY <1>3 DEF Refusal
  <2> QED BY <1>1, <1>2, <1>3, <2>1 DEF IInv, TypeOK, Fixed, Messages, Version, Registered,
                Stage, Credentials, fixed, counts
<1>4. ASSUME NEW s \in BootstrapTokens(IF wire.dual THEN wire.gateway_id ELSE wire.id,
                                       IF wire.dual THEN wire.id ELSE None),
             session' = [NoSession EXCEPT !.pc = "upgraded", !.dual = wire.dual,
                                          !.token = s.token, !.user_token = s.user_token],
             wire' = [kind |-> "response", nonce |-> TRUE, v4 |-> wire.dual,
                      user_auth |-> s.user_token # None]
      PROVE  IInv'
  <2>1. /\ token = config.access_token /\ s.token = token
        /\ s.user_token \in {None, user_token}
        /\ s.user_token # None => s.user_token = user_token
    <3> DEFINE user_id == IF wire.dual THEN wire.id ELSE None
    <3>1. user_id = user_token
      BY <1>1
    <3>2. (IF wire.dual THEN wire.gateway_id ELSE wire.id) = token
      BY <1>1
    <3>3. s \in BootstrapTokens(token, user_token)
      BY <1>4, <3>1, <3>2
    <3> QED BY <3>3 DEF BootstrapTokens
  <2>2. session' = [pc |-> "upgraded", dual |-> wire.dual, token |-> token,
                    user_token |-> s.user_token, credential |-> None]
    BY <1>4, <2>1 DEF NoSession
  <2>3. session' \in Sessions
    BY <1>1, <2>1, <2>2 DEF Sessions, IInv, Fixed
  <2>4. TypeOK'
    BY <1>1, <1>4, <2>3 DEF IInv, TypeOK, Sessions, fixed, counts
  <2>a. wire'.kind = "response" /\ wire'.nonce /\ wire'.v4 = wire.dual
    BY <1>4
  <2>b. wire'.user_auth = (s.user_token # None)
    BY <1>4
  <2>c. wire'.v4 \in BOOLEAN /\ wire'.nonce \in BOOLEAN /\ wire'.user_auth \in BOOLEAN
    BY <1>1, <1>4, <2>a, <2>b
  <2>5. Messages' /\ Version' /\ Registered' /\ Fixed'
    BY <1>1, <2>2, <2>a, <2>c DEF IInv, Messages, Version, Registered, Fixed, fixed
  <2>6. Stage'
    BY <1>1, <1>2, <1>4, <2>1, <2>2 DEF Stage, Selected, fixed
  <2> QED BY <1>1, <2>4, <2>5, <2>6 DEF IInv, fixed
<1> QED BY <1>3, <1>4 DEF Upgrade

LEMMA OldUpgradeIInv == IInv /\ OldUpgrade => IInv'
<1> SUFFICES ASSUME IInv, OldUpgrade PROVE IInv'
  OBVIOUS
<1>1. /\ kind # "this" /\ UNCHANGED <<fixed, config, access, session, counts>>
      /\ \/ wire' = [kind |-> "bad_request"]
         \/ wire' = [kind |-> "response", nonce |-> kind = "v3", v4 |-> FALSE, user_auth |-> FALSE]
  BY DEF OldUpgrade
<1>2. CASE wire' = [kind |-> "bad_request"]
  <2>1. wire'.kind = "bad_request"
    BY <1>2
  <2> QED BY <1>1, <2>1 DEF IInv, TypeOK, Fixed, Messages, Version, Registered, Credentials,
                            fixed, counts
<1>3. CASE wire' = [kind |-> "response", nonce |-> kind = "v3", v4 |-> FALSE, user_auth |-> FALSE]
  <2>1. /\ wire'.kind = "response" /\ ~wire'.v4 /\ wire'.v4 \in BOOLEAN
        /\ wire'.user_auth \in BOOLEAN
    BY <1>3
  <2>2. wire'.nonce = (kind = "v3")
    BY <1>3
  <2>3. wire'.nonce \in BOOLEAN
    BY <2>2
  <2> QED BY <1>1, <2>1, <2>3 DEF IInv, TypeOK, Fixed, Messages, Version, Registered, Credentials,
                            fixed, counts
<1> QED BY <1>1, <1>2, <1>3

\* Blocking and trying again, from a phase without a registered session.
LEMMA BlockIInv ==
    ASSUME IInv, Block, UNCHANGED <<fixed, config, session, counts>>,
           kind = "this" => session.pc \in {"none", "upgraded"}
    PROVE  IInv'
<1>1. /\ access' \in Accesses /\ access'.pc = "blocked" /\ access'.v4 = access.v4
      /\ wire'.kind = "none"
  BY DEF Block, NoWire, IInv, TypeOK, Accesses
<1> QED BY <1>1 DEF IInv, TypeOK, Accesses, Fixed, Messages, Version, Registered, Stage,
                    Credentials, fixed, counts

LEMMA RetryIInv ==
    ASSUME IInv, Retry, UNCHANGED <<fixed, config, session, counts>>, kind # "this"
    PROVE  IInv'
<1>1. access' \in Accesses /\ access'.pc = "idle" /\ ~access'.v4 /\ wire'.kind = "none"
  BY DEF Retry, NoAccess, NoWire, Accesses
<1> QED BY <1>1 DEF IInv, TypeOK, Accesses, Fixed, Messages, Version, Registered,
                    Credentials, fixed, counts

LEMMA RefusedIInv == IInv /\ Refused => IInv'
<1> SUFFICES ASSUME IInv, Refused PROVE IInv'
  OBVIOUS
<1>1. /\ access.pc = "requested" /\ wire.kind \in {"refused", "bad_request"}
      /\ UNCHANGED <<fixed, config, session, counts>>
  BY DEF Refused
<1>2. kind = "this" => wire.kind = "refused" /\ session.pc = "none"
  BY <1>1 DEF IInv, Stage
<1>3. Block \/ (Retry /\ kind # "this")
  BY <1>2 DEF Refused
<1> QED BY <1>1, <1>2, <1>3, BlockIInv, RetryIInv

LEMMA ResponseIInv == IInv /\ Response => IInv'
<1> SUFFICES ASSUME IInv, Response PROVE IInv'
  OBVIOUS
<1>1. /\ access.pc = "requested" /\ wire.kind = "response"
      /\ wire.v4 \in BOOLEAN /\ wire.nonce \in BOOLEAN /\ wire.user_auth \in BOOLEAN
      /\ wire.v4 => kind = "this"
      /\ UNCHANGED <<fixed, config, session, counts>>
  BY DEF Response, IInv, Messages
<1>2. kind = "this" => /\ session.pc = "upgraded" /\ Selected /\ wire.v4 = session.dual
                       /\ wire.nonce /\ wire.user_auth = (session.user_token # None)
  BY <1>1 DEF IInv, Stage
<1>3. CASE Block
  BY <1>1, <1>2, <1>3, BlockIInv
<1>4. CASE ~Block
  <2>1. /\ ~RefusesResponse
        /\ access' = [pc |-> "registering", v4 |-> wire.v4, v3 |-> wire.nonce,
                      user_auth |-> wire.user_auth]
        /\ wire' = [kind |-> "register",
                    version |-> CASE wire.v4 -> 4
                                  [] ~wire.v4 /\ wire.nonce -> 3
                                  [] OTHER -> 2,
                    cipher |-> Cipher(token, IF wire.user_auth THEN user_token ELSE None)]
    BY <1>4 DEF Response
  <2>2. user_token # None => wire.v4
    BY <2>1 DEF RefusesResponse, Downgrades
  <2>3. access' \in Accesses /\ wire'.kind = "register"
    BY <1>1, <2>1 DEF Accesses
  <2>4. TypeOK'
    BY <1>1, <2>3 DEF IInv, TypeOK, Accesses, fixed, counts
  <2>5. Messages' /\ Version' /\ Registered' /\ Fixed'
    BY <1>1, <2>1, <2>2, <2>3 DEF IInv, Messages, Version, Registered, Fixed, Credentials, fixed
  <2>6. ASSUME kind = "this" PROVE Stage'
    <3>1. Told'
      BY <1>1, <1>2, <2>1, <2>6 DEF Told, Selected, fixed
    <3>2. wire'.cipher = AccessCipher' /\ wire'.version = IF access'.v4 THEN 4 ELSE 3
      BY <1>1, <1>2, <2>1, <2>6 DEF AccessCipher, Cipher, fixed
    <3> QED BY <1>1, <1>2, <2>1, <2>3, <2>6, <3>1, <3>2 DEF Stage
  <2> QED BY <1>1, <2>4, <2>5, <2>6 DEF IInv, fixed
<1> QED BY <1>3, <1>4

-------------------------------------------------------------------------------
\* Register: the session has the tokens of the access, for otherwise it could not open
\* the message, and the credential is looked up in the configuration in force.
LEMMA RegisterIInv == IInv /\ Register => IInv'
<1> SUFFICES ASSUME IInv, Register PROVE IInv'
  OBVIOUS
<1>1. /\ session.pc = "upgraded" /\ wire.kind = "register" /\ kind = "this" /\ Stage
      /\ UNCHANGED <<fixed, config, access, counts>>
  BY DEF Register, IInv
<1>2. access.pc = "registering" /\ Told /\ wire.cipher = AccessCipher
  BY <1>1 DEF Stage, IInv, TypeOK
<1>3. GatewayCipher = AccessCipher
  BY <1>2 DEF Told, Selected, GatewayCipher, AccessCipher, Cipher
<1>4. ASSUME NEW c \in RegisterCredential, wire' = NoWire,
             session' = [session EXCEPT !.pc = "registered", !.credential = c]
      PROVE  IInv'
  <2>1. /\ c \in Credentials(config) /\ token = config.access_token
        /\ c = IF config.enabled THEN session.user_token ELSE session.token
    BY <1>2, <1>4 DEF RegisterCredential, Told, Selected
  <2>2. c = IF config.enabled THEN user_token ELSE token
    BY <1>2, <2>1, HandshakeAssumption DEF Told, Selected, Credentials, IInv, TypeOK, Configs
  <2>3. /\ session' \in Sessions /\ session'.pc = "registered" /\ session'.credential = c
        /\ session'.token = session.token /\ session'.user_token = session.user_token
        /\ session'.dual = session.dual
    BY <1>4, <2>1, <2>2 DEF IInv, TypeOK, Fixed, Sessions
  <2>4. TypeOK' /\ Messages' /\ Version' /\ Fixed'
    BY <1>1, <1>4, <2>3 DEF IInv, TypeOK, Sessions, Messages, Version, Fixed, NoWire, fixed, counts
  <2>5. Registered'
    BY <1>1, <2>1, <2>2, <2>3 DEF Registered, Credentials, fixed
  <2>6. Stage'
    BY <1>1, <1>2, <1>4, <2>3 DEF Stage, Told, Selected, NoWire, fixed
  <2> QED BY <1>1, <2>4, <2>5, <2>6 DEF IInv, fixed
<1>5. ASSUME session' = NoSession, wire' = [kind |-> "error", cipher |-> GatewayCipher]
      PROVE  IInv'
  <2>1. /\ session'.pc = "none" /\ session'.credential = None /\ session' \in Sessions
        /\ wire'.kind = "error"
    BY <1>5 DEF NoSession, Sessions
  <2>2. wire'.cipher = AccessCipher'
    BY <1>1, <1>3, <1>5 DEF AccessCipher, Cipher, fixed
  <2>3. TypeOK' /\ Messages' /\ Version' /\ Fixed' /\ Registered'
    BY <1>1, <2>1 DEF IInv, TypeOK, Sessions, Messages, Version, Fixed, Registered, fixed, counts
  <2>4. Stage'
    BY <1>1, <1>2, <2>1, <2>2 DEF Stage
  <2> QED BY <1>1, <2>3, <2>4 DEF IInv, fixed
<1> QED BY <1>4, <1>5 DEF Register

LEMMA ConfirmIInv == IInv /\ Confirm => IInv'
<1> SUFFICES ASSUME IInv, Confirm PROVE IInv'
  OBVIOUS
<1>1. /\ session.pc = "registered" /\ kind = "this" /\ Stage
      /\ session' = [session EXCEPT !.pc = "confirmed"]
      /\ wire' = [kind |-> "ok", version |-> IF session.dual THEN 4 ELSE 3,
                  cipher |-> GatewayCipher, user_auth |-> session.user_token # None]
      /\ UNCHANGED <<fixed, config, access, counts>>
  BY DEF Confirm, IInv
<1>2. access.pc = "registering" /\ Told
  BY <1>1 DEF Stage, IInv, TypeOK
<1>3. GatewayCipher = AccessCipher
  BY <1>2 DEF Told, Selected, GatewayCipher, AccessCipher, Cipher
<1>4. /\ session' \in Sessions /\ session'.pc = "confirmed" /\ wire'.kind = "ok"
      /\ session'.credential = session.credential
  BY <1>1 DEF IInv, TypeOK, Sessions
<1>5. TypeOK' /\ Messages' /\ Version' /\ Fixed' /\ Registered'
  BY <1>1, <1>4 DEF IInv, TypeOK, Sessions, Messages, Version, Fixed, Registered, Credentials,
                    fixed, counts
<1>6. Agrees'
  BY <1>1, <1>2, <1>3 DEF Agrees, Told, AccessCipher, Cipher, fixed
<1>7. Stage'
  BY <1>1, <1>2, <1>4, <1>6 DEF Stage
<1> QED BY <1>1, <1>5, <1>7 DEF IInv, fixed

LEMMA OldRegisterIInv == IInv /\ OldRegister => IInv'
<1> SUFFICES ASSUME IInv, OldRegister PROVE IInv'
  OBVIOUS
<1>1. /\ kind # "this" /\ UNCHANGED <<fixed, config, access, session, counts>>
      /\ wire'.kind \in {"ok", "error"}
  BY DEF OldRegister
<1> QED BY <1>1 DEF IInv, TypeOK, Fixed, Messages, Version, Registered, Credentials, fixed, counts

LEMMA ReplyIInv == IInv /\ Reply => IInv'
<1> SUFFICES ASSUME IInv, Reply PROVE IInv'
  OBVIOUS
<1>1. /\ access.pc = "registering" /\ wire.kind \in {"ok", "error"}
      /\ UNCHANGED <<fixed, config, session, counts>>
  BY DEF Reply
<1>2. kind = "this" =>
         \/ wire.kind = "ok" /\ session.pc \in {"confirmed", "cancelled"} /\ Agrees
         \/ wire.kind = "error" /\ session.pc = "none" /\ wire.cipher = AccessCipher
  BY <1>1 DEF IInv, Stage
<1>3. CASE Agrees
  <2>0. wire.kind = "ok"
    BY <1>3 DEF Agrees
  <2>1. access' = [access EXCEPT !.pc = "connected"] /\ wire' = NoWire
    BY <1>3, <2>0 DEF Reply
  <2>2. /\ access' \in Accesses /\ access'.pc = "connected" /\ access'.v4 = access.v4
        /\ wire'.kind = "none"
    BY <2>1 DEF IInv, TypeOK, Accesses, NoWire
  <2>3. TypeOK' /\ Messages' /\ Version' /\ Fixed' /\ Registered'
    BY <1>1, <2>2 DEF IInv, TypeOK, Accesses, Messages, Version, Fixed, Registered, Credentials,
                      fixed, counts
  <2>4. kind = "this" => Stage'
    BY <1>1, <1>2, <1>3, <2>2 DEF Stage, Agrees
  <2> QED BY <1>1, <2>3, <2>4 DEF IInv, fixed
<1>4. CASE ~Agrees /\ wire.kind = "error" /\ wire.cipher = AccessCipher
  <2>1. Block
    BY <1>4 DEF Reply
  <2> QED BY <1>1, <1>2, <1>4, <2>1, BlockIInv
<1>5. CASE ~Agrees /\ ~(wire.kind = "error" /\ wire.cipher = AccessCipher)
  <2>1. Retry
    BY <1>5 DEF Reply
  <2> QED BY <1>1, <1>2, <1>5, <2>1, RetryIInv
<1> QED BY <1>3, <1>4, <1>5

-------------------------------------------------------------------------------
\* A reload signals a registered session unless it still has the credential asked for.
LEMMA ReloadIInv == IInv /\ Reload => IInv'
<1> SUFFICES ASSUME IInv, Reload PROVE IInv'
  OBVIOUS
<1>1. PICK c \in Configs :
        /\ config' = c
        /\ session' = IF session.credential # None
                         /\ (c.access_token # config.access_token
                             \/ session.credential \notin Credentials(c))
                      THEN [session EXCEPT !.pc = "cancelled"] ELSE session
  BY DEF Reload
<1>2. UNCHANGED <<fixed, access, wire, losses>> /\ reloads' \in 0..MaxReloads
  BY HandshakeAssumption DEF Reload, IInv, TypeOK
<1>3. /\ session' \in Sessions
      /\ session'.token = session.token /\ session'.user_token = session.user_token
      /\ session'.dual = session.dual
      /\ session'.pc \in {session.pc, "cancelled"}
  BY <1>1 DEF IInv, TypeOK, Sessions
<1>4. ASSUME session'.pc \in {"registered", "confirmed"}
      PROVE  /\ token = c.access_token
             /\ session'.credential = IF c.enabled THEN user_token ELSE token
             /\ session'.credential \in Credentials(c)
  <2>1. session' = session /\ session.pc \in {"registered", "confirmed"}
    BY <1>1, <1>4 DEF IInv, TypeOK
  <2>2. /\ token = config.access_token
        /\ session.credential = IF config.enabled THEN user_token ELSE token
        /\ session.credential \in Credentials(config)
    BY <2>1 DEF IInv, Registered
  <2>3. session.credential # None
    BY <2>2, HandshakeAssumption DEF Credentials, IInv, TypeOK, Configs
  <2>4. token = c.access_token /\ session.credential \in Credentials(c)
    <3> SUFFICES ASSUME ~(token = c.access_token /\ session.credential \in Credentials(c))
                 PROVE  FALSE
      OBVIOUS
    <3>1. session' = [session EXCEPT !.pc = "cancelled"]
      BY <1>1, <2>2, <2>3
    <3> QED BY <2>1, <3>1 DEF IInv, TypeOK
  <2>5. session.credential = IF c.enabled THEN user_token ELSE token
    BY <2>2, <2>4, HandshakeAssumption DEF Credentials, IInv, TypeOK, Fixed, Configs
  <2> QED BY <2>1, <2>4, <2>5
<1>5. session.pc \in {"none", "upgraded"} => session' = session
  BY <1>1 DEF IInv, Registered
<1>6. session'.pc \in {"none", "upgraded"} => session'.credential = None
  BY <1>1, <1>3 DEF IInv, TypeOK, Registered
<1>8. Registered'
  BY <1>1, <1>2, <1>4, <1>6 DEF Registered, Credentials, fixed
<1>9. TypeOK' /\ Messages' /\ Version' /\ Fixed'
  BY <1>1, <1>2, <1>3 DEF IInv, TypeOK, Sessions, Messages, Version, Fixed, fixed
<1>7. (kind = "this" => Stage') /\ (kind # "this" => session'.pc = "none")
  BY <1>2, <1>3, <1>5 DEF IInv, Stage, Told, Selected, Agrees, AccessCipher, Cipher, fixed
<1> QED BY <1>2, <1>7, <1>8, <1>9 DEF IInv, fixed

LEMMA CancelledIInv == IInv /\ Cancelled => IInv'
<1> SUFFICES ASSUME IInv, Cancelled PROVE IInv'
  OBVIOUS
<1>1. /\ session.pc = "cancelled" /\ session' = NoSession /\ wire' = NoWire
      /\ access' = IF access.pc = "blocked" THEN access ELSE NoAccess
      /\ UNCHANGED <<fixed, config, counts>>
  BY DEF Cancelled
<1>2. /\ session' \in Sessions /\ session'.pc = "none" /\ session'.credential = None
      /\ wire'.kind = "none" /\ NoAccess \in Accesses /\ NoAccess.pc = "idle" /\ ~NoAccess.v4
  BY <1>1 DEF NoSession, NoWire, NoAccess, Sessions, Accesses
<1> QED BY <1>1, <1>2 DEF IInv, TypeOK, Sessions, Accesses, Fixed, Messages, Version, Registered,
                          Stage, fixed, counts

LEMMA LoseIInv == IInv /\ Lose => IInv'
<1> SUFFICES ASSUME IInv, Lose PROVE IInv'
  OBVIOUS
<1>1. /\ access' = NoAccess /\ wire' = NoWire /\ session' = NoSession
      /\ UNCHANGED <<fixed, config, reloads>>
  BY DEF Lose
<1>2. losses' \in 0..MaxLosses
  BY HandshakeAssumption DEF Lose, IInv, TypeOK
<1>3. /\ session' \in Sessions /\ session'.pc = "none" /\ session'.credential = None
      /\ wire'.kind = "none" /\ access' \in Accesses /\ access'.pc = "idle" /\ ~access'.v4
  BY <1>1 DEF NoSession, NoWire, NoAccess, Sessions, Accesses
<1> QED BY <1>1, <1>2, <1>3 DEF IInv, TypeOK, Sessions, Accesses, Fixed, Messages, Version,
                                Registered, Stage, fixed

LEMMA NextIInv == IInv /\ [Next]_vars => IInv'
<1> SUFFICES ASSUME IInv, [Next]_vars PROVE IInv'
  OBVIOUS
<1>1. CASE UNCHANGED vars
  BY <1>1 DEF vars, fixed, counts, IInv, TypeOK, Fixed, Messages, Version, Registered, Credentials,
              Stage, Told, Selected, Agrees, AccessCipher, Cipher
<1> QED BY <1>1, RequestIInv, RefusedIInv, ResponseIInv, ReplyIInv, UpgradeIInv, OldUpgradeIInv,
           RegisterIInv, ConfirmIInv, OldRegisterIInv, CancelledIInv, ReloadIInv, LoseIInv
           DEF Next, Access, Gateway

\* The invariant holds through every attempt, reload and loss.
THEOREM Invariance == Spec => []IInv
  BY InitIInv, NextIInv, PTL DEF Spec

\* The variables keep their types.
THEOREM TypeCorrect == Spec => []TypeOK
<1>1. IInv => TypeOK
  BY DEF IInv
<1> QED BY <1>1, Invariance, PTL

\* A registered session that was not signalled belongs to an access whose tokens the
\* configuration in force asks for, however often it was reloaded since the upgrade.
THEOREM RegisteredIsValidHolds == Spec => []RegisteredIsValid
<1>1. IInv => RegisteredIsValid
  <2> SUFFICES ASSUME IInv, session.pc \in {"registered", "confirmed"} PROVE Valid(config)
    BY DEF RegisteredIsValid
  <2>1. /\ token = config.access_token
        /\ config.enabled => session.credential = user_token /\ session.credential \in config.users
    BY DEF IInv, Registered, Credentials
  <2> QED BY <2>1 DEF Valid
<1> QED BY <1>1, Invariance, PTL

\* The access can open and check every reply of this gateway.
THEOREM ReplyUnderstoodHolds == Spec => []ReplyUnderstood
<1>1. IInv => ReplyUnderstood
  BY DEF IInv, Stage, ReplyUnderstood, Agrees
<1> QED BY <1>1, Invariance, PTL

\* An access with a user token registers with a gateway that confirmed version 4 or not
\* at all, under the tokens selected at the upgrade, and while users are enabled its
\* session is that of its user, whatever was reloaded since the upgrade.
THEOREM NoDowngradeHolds == Spec => []NoDowngrade
<1>1. ASSUME IInv, user_token # None PROVE NoDowngrade
  <2>1. access.pc \in {"registering", "connected"} => access.v4 /\ kind = "this"
    BY <1>1 DEF IInv, Version
  <2>2. ASSUME wire.kind = "register"
        PROVE  wire.version = 4 /\ wire.cipher = Cipher(token, session.user_token)
    <3>1. access.pc = "registering" /\ access.v4 /\ kind = "this"
      BY <1>1, <2>1, <2>2 DEF IInv, Messages
    <3>2. Told /\ wire.cipher = AccessCipher /\ wire.version = 4
      BY <1>1, <2>2, <3>1 DEF IInv, Stage
    <3>3. session.user_token = IF access.user_auth THEN user_token ELSE None
      BY <3>2 DEF Told, Selected
    <3> QED BY <3>2, <3>3 DEF AccessCipher
  <2>3. session.pc \in {"registered", "confirmed"} /\ config.enabled =>
           session.credential = user_token
    BY <1>1 DEF IInv, Registered
  <2> QED BY <2>1, <2>2, <2>3 DEF NoDowngrade
<1>2. IInv => NoDowngrade
  BY <1>1 DEF NoDowngrade
<1> QED BY <1>2, Invariance, PTL
================================================================================
