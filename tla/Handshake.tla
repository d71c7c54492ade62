------------------------------- MODULE Handshake -------------------------------
(***************************************************************************)
(* The registration of one gateway connection: run_gateway_session of the   *)
(* access (ws-net-access/src/gateway.rs) against ws_entry and               *)
(* handle_socket_result of the gateway (ws-net-gateway/src/ws.rs, app.rs),  *)
(* while the gateway's configuration is reloaded and connections break.     *)
(*                                                                         *)
(* A bootstrap cipher is the tokens it is derived from; its nonces are      *)
(* fresh for every attempt and the frames of an attempt arrive in order.    *)
(* A credential identifier is the token it is the hash of.                  *)
(***************************************************************************)
EXTENDS Naturals

CONSTANTS Tokens,      \* gateway tokens
          UserTokens,
          Kinds,       \* of gateway: "this", and "v3" and "v2" of older programs
          None,
          MaxReloads, MaxLosses

ASSUME HandshakeAssumption ==
    /\ Tokens \cap UserTokens = {} /\ None \notin Tokens \cup UserTokens
    /\ Kinds \subseteq {"this", "v3", "v2"}
    /\ MaxReloads \in Nat /\ MaxLosses \in Nat

VARIABLES kind,       \* of the gateway
          token, user_token, \* of the access
          config,     \* runtime configuration of the gateway
          access,     \* where the access stands and what the upgrade told it
          session,    \* the attempt at the gateway
          wire,       \* the message in flight
          reloads, losses,
          was_invalid \* history: the tokens were not valid at some time of this attempt

vars == <<kind, token, user_token, config, access, session, wire, reloads, losses, was_invalid>>
fixed == <<kind, token, user_token>>
counts == <<reloads, losses>>

Configs == [access_token : Tokens, enabled : BOOLEAN, users : SUBSET UserTokens]
NoSession == [pc |-> "none", dual |-> FALSE, token |-> None, user_token |-> None, credential |-> None]
NoAccess == [pc |-> "idle", v4 |-> FALSE, v3 |-> FALSE, user_auth |-> FALSE]
NoWire == [kind |-> "none"]

\* The tokens of the access are those the configuration asks for.
Valid(c) == token = c.access_token /\ (c.enabled => user_token \in c.users)

\* credentials: the tokens sessions are registered under.
Credentials(c) == IF c.enabled THEN c.users ELSE {c.access_token}

Cipher(gateway_token, user) == <<gateway_token, user>>

Init ==
    /\ kind \in Kinds
    /\ token \in Tokens /\ user_token \in UserTokens \cup {None}
    /\ config \in Configs
    /\ access = NoAccess /\ session = NoSession /\ wire = NoWire
    /\ reloads = 0 /\ losses = 0
    /\ was_invalid = FALSE

-------------------------------------------------------------------------------
(********************************* Upgrade ********************************)

\* The upgrade request names the tokens by their identifiers.
Request ==
    /\ access.pc = "idle"
    /\ access' = [NoAccess EXCEPT !.pc = "requested"]
    /\ wire' = [kind |-> "request", dual |-> user_token # None, gateway_id |-> token,
                id |-> IF user_token # None THEN user_token ELSE token]
    /\ was_invalid' = ~Valid(config)
    /\ UNCHANGED <<fixed, config, session, counts>>

Refusal == [kind |-> "refused"]

\* bootstrap_tokens: the tokens the identifiers select, none when they select none.
BootstrapTokens(gateway_id, user_id) ==
    IF gateway_id # config.access_token \/ (config.enabled /\ user_id \notin config.users) THEN {}
    ELSE {[token |-> config.access_token,
           user_token |-> IF config.enabled THEN user_id ELSE None]}

\* ws_entry
Upgrade ==
    /\ kind = "this" /\ wire.kind = "request"
    /\ LET selected == BootstrapTokens(IF wire.dual THEN wire.gateway_id ELSE wire.id,
                                       IF wire.dual THEN wire.id ELSE None)
       IN \/ /\ selected = {}
             /\ wire' = Refusal /\ UNCHANGED session
          \/ \E s \in selected :
                /\ session' = [NoSession EXCEPT !.pc = "upgraded", !.dual = wire.dual,
                                                !.token = s.token, !.user_token = s.user_token]
                /\ wire' = [kind |-> "response", nonce |-> TRUE, v4 |-> wire.dual,
                            user_auth |-> s.user_token # None]
    /\ UNCHANGED <<fixed, config, access, counts, was_invalid>>

\* An older gateway: the one of version 3 refuses version 4 as a bad request, the one
\* of version 2 does not look at the headers.
OldUpgrade ==
    /\ kind # "this" /\ wire.kind = "request"
    /\ wire' = IF kind = "v3" /\ wire.dual THEN [kind |-> "bad_request"]
               ELSE [kind |-> "response", nonce |-> kind = "v3", v4 |-> FALSE, user_auth |-> FALSE]
    /\ UNCHANGED <<fixed, config, access, session, counts, was_invalid>>

Block == access' = [access EXCEPT !.pc = "blocked"] /\ wire' = NoWire
Retry == access' = NoAccess /\ wire' = NoWire

\* The access reads the response. UNAUTHORIZED is terminal: it blocks the identity.
\* Mutant: a refused upgrade is an error like any other.
RefusedRetries ==
    /\ access.pc = "requested" /\ wire.kind \in {"refused", "bad_request"}
    /\ Retry
    /\ UNCHANGED <<fixed, config, session, counts, was_invalid>>
Refused ==
    /\ access.pc = "requested" /\ wire.kind \in {"refused", "bad_request"}
    /\ IF wire.kind = "refused" \/ user_token # None THEN Block ELSE Retry
    /\ UNCHANGED <<fixed, config, session, counts, was_invalid>>

\* Mutant: the version the gateway confirms is not looked at.
DowngradesNever == FALSE
Downgrades == user_token # None /\ ~wire.v4

RefusesResponse == Downgrades \/ (wire.user_auth /\ user_token = None)

Response ==
    /\ access.pc = "requested" /\ wire.kind = "response"
    /\ \/ /\ RefusesResponse
          /\ Block
       \/ /\ ~RefusesResponse
          /\ access' = [pc |-> "registering", v4 |-> wire.v4, v3 |-> wire.nonce,
                        user_auth |-> wire.user_auth]
          /\ wire' = [kind |-> "register",
                      version |-> CASE wire.v4 -> 4
                                    [] ~wire.v4 /\ wire.nonce -> 3
                                    [] OTHER -> 2,
                      cipher |-> Cipher(token, IF wire.user_auth THEN user_token ELSE None)]
    /\ UNCHANGED <<fixed, config, session, counts, was_invalid>>

-------------------------------------------------------------------------------
(******************************** Register ********************************)

GatewayCipher == Cipher(session.token, session.user_token)

\* decode_access_message and the match on the message.
Decodes == wire.cipher = GatewayCipher /\ wire.version = IF session.dual THEN 4 ELSE 3

\* AppState::register: the credential of the tokens the upgrade selected.
\* Mutant: it is not looked up again in the credentials in force.
RegisterSelected == {IF config.enabled /\ session.user_token # None THEN session.user_token
                     ELSE session.token}
RegisterCredential ==
    {c \in Credentials(config) :
        /\ session.token = config.access_token /\ (session.dual \/ ~config.enabled)
        /\ c = IF config.enabled THEN session.user_token ELSE session.token}

Register ==
    /\ session.pc = "upgraded" /\ wire.kind = "register"
    /\ \/ /\ Decodes
          /\ \E c \in RegisterCredential :
                session' = [session EXCEPT !.pc = "registered", !.credential = c]
          /\ wire' = NoWire
       \/ /\ ~Decodes \/ RegisterCredential = {}
          /\ session' = NoSession
          /\ wire' = [kind |-> "error", cipher |-> GatewayCipher]
    /\ UNCHANGED <<fixed, config, access, counts, was_invalid>>

\* RegisterOk, sent while the lease is not cancelled.
\* Mutant: user_auth is what the configuration says by now.
ConfirmCurrent ==
    /\ session.pc = "registered"
    /\ session' = [session EXCEPT !.pc = "confirmed"]
    /\ wire' = [kind |-> "ok", version |-> IF session.dual THEN 4 ELSE 3,
                cipher |-> GatewayCipher, user_auth |-> config.enabled]
    /\ UNCHANGED <<fixed, config, access, counts, was_invalid>>
Confirm ==
    /\ session.pc = "registered"
    /\ session' = [session EXCEPT !.pc = "confirmed"]
    /\ wire' = [kind |-> "ok", version |-> IF session.dual THEN 4 ELSE 3,
                cipher |-> GatewayCipher, user_auth |-> session.user_token # None]
    /\ UNCHANGED <<fixed, config, access, counts, was_invalid>>

\* The older gateways register an access that knows their token.
OldRegister ==
    /\ kind # "this" /\ wire.kind = "register"
    /\ wire' = IF wire.cipher = Cipher(config.access_token, None)
               THEN [kind |-> "ok", version |-> IF kind = "v3" THEN 3 ELSE 2,
                     cipher |-> wire.cipher, user_auth |-> FALSE]
               ELSE [kind |-> "error", cipher |-> Cipher(config.access_token, None)]
    /\ UNCHANGED <<fixed, config, access, session, counts, was_invalid>>

AccessCipher == Cipher(token, IF access.user_auth THEN user_token ELSE None)

\* The reply counts when it is sealed with the access's cipher and is of its version.
Agrees ==
    /\ wire.kind = "ok" /\ wire.cipher = AccessCipher
    /\ wire.version = CASE access.v4 -> 4
                        [] ~access.v4 /\ access.v3 -> 3
                        [] OTHER -> 2
    /\ access.v4 => wire.user_auth = access.user_auth

Reply ==
    /\ access.pc = "registering" /\ wire.kind \in {"ok", "error"}
    /\ CASE Agrees -> access' = [access EXCEPT !.pc = "connected"] /\ wire' = NoWire
         [] wire.kind = "error" /\ wire.cipher = AccessCipher -> Block
         [] OTHER -> Retry
    /\ UNCHANGED <<fixed, config, session, counts, was_invalid>>

-------------------------------------------------------------------------------
(****************************** Environment *******************************)

\* AppState::reload; it signals a session whose credential is gone, or every one when
\* the access token changed.
Reload ==
    /\ reloads < MaxReloads /\ reloads' = reloads + 1
    /\ \E c \in Configs :
          /\ config' = c
          /\ was_invalid' = (was_invalid \/ ~(token = c.access_token
                                              /\ (c.enabled => user_token \in c.users)))
          /\ session' = IF session.credential # None
                           /\ (c.access_token # config.access_token
                               \/ session.credential \notin Credentials(c))
                        THEN [session EXCEPT !.pc = "cancelled"] ELSE session
    /\ UNCHANGED <<fixed, access, wire, losses>>

\* The task of a session that was signalled ends, and its connection with it.
Cancelled ==
    /\ session.pc = "cancelled"
    /\ session' = NoSession /\ wire' = NoWire
    /\ access' = IF access.pc = "blocked" THEN access ELSE NoAccess
    /\ UNCHANGED <<fixed, config, counts, was_invalid>>

\* The connection breaks or a timeout expires; the access tries again.
Lose ==
    /\ losses < MaxLosses /\ losses' = losses + 1
    /\ access.pc \notin {"idle", "blocked"}
    /\ access' = NoAccess /\ wire' = NoWire /\ session' = NoSession
    /\ UNCHANGED <<fixed, config, reloads, was_invalid>>

Access == Request \/ Refused \/ Response \/ Reply
Gateway == Upgrade \/ OldUpgrade \/ Register \/ Confirm \/ OldRegister \/ Cancelled

Next == Access \/ Gateway \/ Reload \/ Lose

Spec == Init /\ [][Next]_vars
FairSpec == Spec /\ WF_vars(Access) /\ WF_vars(Gateway)

-------------------------------------------------------------------------------
(******************************* Properties *******************************)

TypeOK ==
    /\ config \in Configs
    /\ access \in [pc : {"idle", "requested", "registering", "connected", "blocked"},
                   v4 : BOOLEAN, v3 : BOOLEAN, user_auth : BOOLEAN]
    /\ session \in [pc : {"none", "upgraded", "registered", "confirmed", "cancelled"},
                    dual : BOOLEAN, token : Tokens \cup {None},
                    user_token : UserTokens \cup {None},
                    credential : Tokens \cup UserTokens \cup {None}]
    /\ wire.kind \in {"none", "request", "refused", "bad_request", "response", "register", "ok",
                      "error"}
    /\ reloads \in 0..MaxReloads /\ losses \in 0..MaxLosses

\* A session that is registered and not signalled belongs to an access whose tokens the
\* configuration in force asks for, however often it changed since the upgrade.
RegisteredIsValid == session.pc \in {"registered", "confirmed"} => Valid(config)

\* Whatever was reloaded since the upgrade, the access can open the reply of this
\* gateway, and a confirmation agrees with what the upgrade told it.
ReplyUnderstood ==
    kind = "this" /\ access.pc = "registering" /\ wire.kind \in {"ok", "error"} =>
        wire.cipher = AccessCipher /\ (wire.kind = "ok" => Agrees)

\* An access with a user token goes on only with a gateway that confirmed version 4. It
\* leaves the user token out of its registration exactly when that gateway selected none
\* at the upgrade, and while users are enabled its session is that of its user, however
\* often they were enabled and disabled since the upgrade.
NoDowngrade ==
    user_token # None =>
        /\ access.pc \in {"registering", "connected"} => access.v4 /\ kind = "this"
        /\ wire.kind = "register" =>
              wire.version = 4 /\ wire.cipher = Cipher(token, session.user_token)
        /\ session.pc \in {"registered", "confirmed"} /\ config.enabled =>
              session.credential = user_token

\* With the configuration at rest and no more losses, the access ends connected to this
\* gateway or is told that it may not: it does not try for ever. (An older gateway seals
\* its refusal with its own token, which an access with another one cannot read.)
Settles == kind = "this" => <>[](access.pc \in {"connected", "blocked"})

-------------------------------------------------------------------------------
(*************************** What the code says ***************************)

\* UNAUTHORIZED, "the gateway token is invalid, or with users enabled the user token is
\* not configured, invalid or revoked": an access is blocked by the gateway only if its
\* tokens were not valid at some time of the attempt.
RefusalIsTrue == access.pc = "blocked" /\ kind = "this" => was_invalid
================================================================================
