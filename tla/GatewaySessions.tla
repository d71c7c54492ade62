---------------------------- MODULE GatewaySessions ----------------------------
(***************************************************************************)
(* The session registry of the gateway (ws-net-gateway/src/app.rs) and the *)
(* tasks that hold its leases (ws.rs, tcp.rs).                             *)
(*                                                                         *)
(* The mutex-protected Runtime is the variables config .. next_order; each *)
(* action that touches it is one critical section.  A session is in        *)
(* `sessions` from register until the last Arc<SessionLease> is dropped:   *)
(* the connection handler and every stream task hold one.  Target          *)
(* authorization takes the lock twice, with a DNS lookup in between, and   *)
(* the stream is spawned after a third look at the lease: register and     *)
(* reload may run between any two of these steps.                          *)
(*                                                                         *)
(* A credential id is the hash of a token; it is modelled by the token.    *)
(***************************************************************************)
EXTENDS Naturals, AccessRules

CONSTANTS Tokens,       \* gateway access tokens and user tokens
          NoToken,      \* user_token: None
          Names,        \* user names
          SharedName,   \* the name of the shared-token credential
          Instances,    \* access instance ids
          SessionIds,   \* random session ids
          Sections,     \* values of the [gateway] section: listen and path
          Configs,      \* the configuration files that get loaded
          StreamIds,    \* stream ids an access uses on a connection
          MaxOrder      \* bound on next_order

ASSUME TokensAssumption == NoToken \notin Tokens /\ MaxOrder \in Nat

GatewayUser == [name : Names, token : Tokens,
                single_access : {"inherit", "on", "off"}, allow : SUBSET AccessRule]
GatewayConfig == [gateway : Sections, access_token : Tokens, enabled : BOOLEAN,
                  single_access : BOOLEAN, users : SUBSET GatewayUser]

ASSUME ConfigsAssumption == Configs \subseteq GatewayConfig

VARIABLES config,       \* Runtime.config
          credentials,  \* Runtime.credentials: token -> Credential
          sessions,     \* Runtime.sessions: session id -> SessionInfo
          orders,       \* Runtime.orders: <<token, instance>> -> order
          retired,      \* Runtime.retired
          next_order,   \* Runtime.next_order
          handlers,     \* the connection handler of each session id
          streams       \* stream tasks: the session and the authorized addresses

runtime == <<config, credentials, sessions, orders, retired, next_order>>
vars == <<config, credentials, sessions, orders, retired, next_order, handlers, streams>>

Credential == [name : Names \cup {SharedName}, single : BOOLEAN, rules : SUBSET AccessRule]
Keys == Tokens \X Instances
Errors == {"SESSION_REPLACED", "AUTH_CHANGED"}
SessionInfo == [credential : Tokens, instance : Instances, order : Nat,
                signal : Errors \cup {"None"}, name : Names \cup {SharedName}]
Handler == [phase : {"gone", "idle", "resolving", "granted"}, addresses : SUBSET SocketAddr]
Stream == [session : SessionIds, id : StreamIds, addresses : SUBSET SocketAddr]

At(phase) == [phase |-> phase, addresses |-> {}]

-------------------------------------------------------------------------------
(***************************** Configuration ******************************)

\* GatewayConfig::validate: tokens and names of users are pairwise distinct
\* and no user has the shared token.
Validate(c) ==
    /\ \A user \in c.users : user.token # c.access_token
    /\ \A u, v \in c.users : u # v => u.name # v.name /\ u.token # v.token

\* GatewayUser::single_access
SingleAccessOf(user, c) ==
    \/ user.single_access = "on"
    \/ user.single_access = "inherit" /\ c.single_access

UserOf(c, token) == CHOOSE user \in c.users : user.token = token

\* fn credentials
CredentialsOf(c) ==
    IF c.enabled
    THEN [token \in {user.token : user \in c.users} |->
            [name   |-> UserOf(c, token).name,
             single |-> SingleAccessOf(UserOf(c, token), c),
             rules  |-> UserOf(c, token).allow]]
    ELSE [token \in {c.access_token} |->
            [name |-> SharedName, single |-> FALSE, rules |-> {AnyRule}]]

Live(s) == s \in DOMAIN sessions /\ sessions[s].signal = "None"
Key(s) == <<sessions[s].credential, sessions[s].instance>>
RulesOf(s) == credentials[sessions[s].credential].rules

\* AppState::new
Init ==
    /\ config \in {c \in Configs : Validate(c)}
    /\ credentials = CredentialsOf(config)
    /\ sessions = [s \in {} |-> 0]
    /\ orders = [k \in {} |-> 0]
    /\ retired = {}
    /\ next_order = 0
    /\ handlers = [s \in SessionIds |-> At("gone")]
    /\ streams = {}

-------------------------------------------------------------------------------
(************************* Register and reload ****************************)

\* The credential a register call is admitted to, NoToken when it is refused:
\* wrong gateway token, a legacy client while users are enabled, or no such user.
Admitted(gateway_token, user_token, legacy) ==
    LET token == IF config.enabled THEN user_token ELSE gateway_token
    IN  IF /\ gateway_token = config.access_token
           /\ ~(legacy /\ config.enabled)
           /\ token \in DOMAIN credentials
        THEN token ELSE NoToken

\* The order of a key: the recorded one, or the next number.
OrderOf(key) == IF key \in DOMAIN orders THEN orders[key] ELSE next_order + 1

\* Mutants: nothing is retired; only instances that have a session are.
NoKeys(token, instance) == {}
ConnectedKeys(token, instance) ==
    {k \in DOMAIN orders : k[1] = token /\ k[2] # instance /\ \E s \in DOMAIN sessions : Key(s) = k}

\* Keys of the credential that belong to other instances than the one given.
OtherKeys(token, instance) ==
    {k \in DOMAIN orders : k[1] = token /\ k[2] # instance}

\* AppState::register, the accepted case: under single access every other
\* instance of the credential is retired and its sessions are told so.
Register(s, gateway_token, user_token, instance, legacy) ==
    LET token == Admitted(gateway_token, user_token, legacy)
        key   == <<token, instance>>
        order == OrderOf(key)
        single == credentials[token].single
    IN  /\ s \notin DOMAIN sessions
        /\ token # NoToken
        /\ key \notin retired
        /\ key \notin DOMAIN orders => next_order < MaxOrder
        /\ retired' = IF single THEN retired \cup OtherKeys(token, instance) ELSE retired
        /\ next_order' = IF key \in DOMAIN orders THEN next_order ELSE next_order + 1
        /\ orders' = [k \in DOMAIN orders \cup {key} |-> IF k = key THEN order ELSE orders[k]]
        /\ sessions' = [t \in DOMAIN sessions \cup {s} |->
              IF t = s
              THEN [credential |-> token, instance |-> instance, order |-> order,
                    signal |-> "None", name |-> credentials[token].name]
              ELSE IF single /\ sessions[t].credential = token /\ sessions[t].instance # instance
              THEN [sessions[t] EXCEPT !.signal = "SESSION_REPLACED"]
              ELSE sessions[t]]
        /\ handlers' = [handlers EXCEPT ![s] = At("idle")]
        /\ UNCHANGED <<config, credentials, streams>>

\* Mutant: reload looks at the old configuration for single access.
ContestedBefore(next) ==
    {c \in DOMAIN next \cap DOMAIN credentials : credentials[c].single /\ \E s \in DOMAIN sessions :
                            Live(s) /\ sessions[s].credential = c}

\* The credentials for which reload picks a winner: single in the new
\* configuration, with a session that is still live.
Contested(next) ==
    {c \in DOMAIN next : next[c].single /\ \E s \in DOMAIN sessions :
                            Live(s) /\ sessions[s].credential = c}

\* Mutant: the least order wins.
OldestWinner(token, instance) ==
    \E w \in DOMAIN sessions :
        /\ Live(w) /\ sessions[w].credential = token /\ sessions[w].instance = instance
        /\ \A s \in DOMAIN sessions :
              Live(s) /\ sessions[s].credential = token => sessions[s].order >= sessions[w].order

\* The instance of a live session with the greatest order.  The code scans a
\* HashMap, so between equal orders the scan decides: any of them may win.
Winner(token, instance) ==
    \E w \in DOMAIN sessions :
        /\ Live(w) /\ sessions[w].credential = token /\ sessions[w].instance = instance
        /\ \A s \in DOMAIN sessions :
              Live(s) /\ sessions[s].credential = token => sessions[s].order <= sessions[w].order

\* Mutant: a renamed user keeps its sessions.
VerdictIgnoresName(s, gateway_changed, next, winner) ==
    LET c == sessions[s].credential
    IN  IF \/ gateway_changed
           \/ c \notin DOMAIN next
           \/ c \in DOMAIN credentials /\ ~AllCovered(credentials[c].rules, next[c].rules)
        THEN "AUTH_CHANGED"
        ELSE IF c \in DOMAIN winner /\ winner[c] # sessions[s].instance
        THEN "SESSION_REPLACED"
        ELSE "None"

\* What reload decides for a session whose signal is still unset.
Verdict(s, gateway_changed, next, winner) ==
    LET c == sessions[s].credential
    IN  IF \/ gateway_changed
           \/ c \notin DOMAIN next
           \/ /\ c \in DOMAIN credentials
              /\ \/ credentials[c].name # next[c].name
                 \/ ~AllCovered(credentials[c].rules, next[c].rules)
        THEN "AUTH_CHANGED"
        ELSE IF c \in DOMAIN winner /\ winner[c] # sessions[s].instance
        THEN "SESSION_REPLACED"
        ELSE "None"

\* The signal is set once.  Mutant: it is set whatever it was.
NotifyAlways(session, error) == [session EXCEPT !.signal = error]
Notify(session, error) ==
    IF session.signal = "None" THEN [session EXCEPT !.signal = error] ELSE session

\* AppState::reload of a valid configuration with the same [gateway] section.
Reload(new) ==
    LET next == CredentialsOf(new)
        gateway_changed == config.access_token # new.access_token
        kept == IF gateway_changed THEN {} ELSE DOMAIN orders
    IN  /\ Validate(new)
        /\ new.gateway = config.gateway
        /\ \E winner \in [IF gateway_changed THEN {} ELSE Contested(next) -> Instances] :
              /\ \A c \in DOMAIN winner : Winner(c, winner[c])
              /\ retired' = IF gateway_changed THEN {}
                            ELSE retired \cup UNION {OtherKeys(c, winner[c]) : c \in DOMAIN winner}
              /\ sessions' = [s \in DOMAIN sessions |->
                    Notify(sessions[s], Verdict(s, gateway_changed, next, winner))]
        /\ orders' = [k \in kept |-> orders[k]]
        /\ credentials' = next
        /\ config' = new
        /\ UNCHANGED <<next_order, handlers, streams>>

-------------------------------------------------------------------------------
(************************** Handlers and streams **************************)

\* authorize_target, first critical section: the lease is live and its user
\* has rules; the target is then resolved without the lock.
BeginAuthorize(s) ==
    /\ handlers[s].phase = "idle"
    /\ Live(s)
    /\ sessions[s].credential \in DOMAIN credentials
    /\ RulesOf(s) # {}
    /\ handlers' = [handlers EXCEPT ![s] = At("resolving")]
    /\ UNCHANGED <<runtime, streams>>

\* authorize_target, second critical section: the addresses of the target
\* that the rules in force now allow.
FinishAuthorize(s, resolved) ==
    LET allowed == {a \in resolved : Permits(RulesOf(s), a)}
    IN  /\ handlers[s].phase = "resolving"
        /\ Live(s)
        /\ sessions[s].credential \in DOMAIN credentials
        /\ allowed # {}
        /\ handlers' = [handlers EXCEPT ![s] = [phase |-> "granted", addresses |-> allowed]]
        /\ UNCHANGED <<runtime, streams>>

\* The request is answered with an error: lookup failed, no address allowed,
\* or the mode of the target does not fit the message.
RejectRequest(s) ==
    /\ handlers[s].phase \in {"resolving", "granted"}
    /\ handlers' = [handlers EXCEPT ![s] = At("idle")]
    /\ UNCHANGED <<runtime, streams>>

\* handle_text_message after authorization: check the lease, spawn the stream.
\* The access never uses a stream id twice on a connection.
SpawnStream(s, id) ==
    /\ handlers[s].phase = "granted"
    /\ Live(s)
    /\ \A stream \in streams : ~(stream.session = s /\ stream.id = id)
    /\ streams' = streams \cup {[session |-> s, id |-> id, addresses |-> handlers[s].addresses]}
    /\ handlers' = [handlers EXCEPT ![s] = At("idle")]
    /\ UNCHANGED runtime

\* The connection handler returns: lease.cancelled(), the peer left, an idle
\* timeout, a failed read or write.
HandlerReturns(s) ==
    /\ handlers[s].phase # "gone"
    /\ handlers' = [handlers EXCEPT ![s] = At("gone")]
    /\ UNCHANGED <<runtime, streams>>

\* A stream task returns: lease.run was cancelled, or the stream is over.
StreamReturns(stream) ==
    /\ streams' = streams \ {stream}
    /\ UNCHANGED <<runtime, handlers>>

\* Mutant: stream tasks do not hold the lease.
DropLeaseEarly(s) ==
    /\ s \in DOMAIN sessions
    /\ handlers[s].phase = "gone"
    /\ sessions' = [t \in DOMAIN sessions \ {s} |-> sessions[t]]
    /\ UNCHANGED <<config, credentials, orders, retired, next_order, handlers, streams>>

\* Drop for SessionLease, when the last holder of the lease has returned.
DropLease(s) ==
    /\ s \in DOMAIN sessions
    /\ handlers[s].phase = "gone"
    /\ \A stream \in streams : stream.session # s
    /\ sessions' = [t \in DOMAIN sessions \ {s} |-> sessions[t]]
    /\ UNCHANGED <<config, credentials, orders, retired, next_order, handlers, streams>>

-------------------------------------------------------------------------------
Next ==
    \/ \E s \in SessionIds, g \in Tokens, u \in Tokens \cup {NoToken},
          i \in Instances, legacy \in BOOLEAN : Register(s, g, u, i, legacy)
    \/ \E new \in Configs : Reload(new)
    \/ \E s \in SessionIds : BeginAuthorize(s)
    \/ \E s \in SessionIds, port \in Ports, ips \in SUBSET IPs :
          FinishAuthorize(s, [ip : ips, port : {port}])
    \/ \E s \in SessionIds : RejectRequest(s)
    \/ \E s \in SessionIds, id \in StreamIds : SpawnStream(s, id)
    \/ \E s \in SessionIds : HandlerReturns(s)
    \/ \E stream \in streams : StreamReturns(stream)
    \/ \E s \in SessionIds : DropLease(s)

Spec == Init /\ [][Next]_vars

\* A cancelled lease ends every future run under it, so its holders return;
\* nothing obliges a holder of a live lease to return.
Cancelled(s) == s \in DOMAIN sessions /\ sessions[s].signal # "None"
\* Mutant: streams do not run under lease.run.
CancelledHandlerReturns(s) == Cancelled(s) /\ HandlerReturns(s)
CancelledHolderReturns(s) ==
    /\ Cancelled(s)
    /\ \/ HandlerReturns(s)
       \/ \E stream \in streams : stream.session = s /\ StreamReturns(stream)

Fairness == \A s \in SessionIds : WF_vars(CancelledHolderReturns(s)) /\ WF_vars(DropLease(s))
FairSpec == Spec /\ Fairness

-------------------------------------------------------------------------------
(******************************* Properties *******************************)

\* Type invariant of the registry and of the tasks that hold leases.
TypeOK ==
    /\ config \in GatewayConfig
    /\ DOMAIN credentials \subseteq Tokens
    /\ credentials \in [DOMAIN credentials -> Credential]
    /\ DOMAIN sessions \subseteq SessionIds
    /\ sessions \in [DOMAIN sessions -> SessionInfo]
    /\ DOMAIN orders \subseteq Keys
    /\ orders \in [DOMAIN orders -> Nat]
    /\ retired \subseteq Keys
    /\ next_order \in Nat
    /\ handlers \in [SessionIds -> Handler]
    /\ streams \subseteq Stream

\* A live session belongs to a credential of the configuration in force, and
\* the user name its lease was issued under is still that credential's name:
\* reload cancels every session of a removed or renamed user.
LiveCredentialCurrent ==
    \A s \in DOMAIN sessions : Live(s) =>
        /\ sessions[s].credential \in DOMAIN credentials
        /\ credentials[sessions[s].credential].name = sessions[s].name

\* Single access: the live sessions of a credential that is single in the
\* configuration in force all come from one access instance, whatever
\* registrations and reloads (switching single_access on among them) led here.
SingleAccess ==
    \A s, t \in DOMAIN sessions :
        /\ Live(s) /\ Live(t)
        /\ sessions[s].credential = sessions[t].credential
        /\ credentials[sessions[s].credential].single
        => sessions[s].instance = sessions[t].instance

\* An instance that register would turn away as replaced has no live session.
LiveNotRetired == \A s \in DOMAIN sessions : Live(s) => Key(s) \notin retired

\* A session told SESSION_REPLACED stays replaced: its instance is retired, so
\* it cannot come back and take over in turn.  (A new gateway token starts a
\* new history: order numbers are never reused, so the equality tells a session
\* of the present history from an older one.)
ReplacedStaysOut ==
    \A s \in DOMAIN sessions :
        /\ sessions[s].signal = "SESSION_REPLACED"
        /\ Key(s) \in DOMAIN orders
        /\ orders[Key(s)] = sessions[s].order
        => Key(s) \in retired

\* A takeover is final: two instances do not displace each other for ever.
TakeoverIsFinal == ReplacedStaysOut /\ LiveNotRetired

\* While a credential is single and has a live session, every other instance
\* the gateway knows of is already retired: register and reload retire them
\* before, not when, they come back.
OthersRetired ==
    \A s \in DOMAIN sessions :
        Live(s) /\ credentials[sessions[s].credential].single =>
            \A k \in DOMAIN orders :
                k[1] = sessions[s].credential /\ k[2] # sessions[s].instance => k \in retired

\* The history of a live session is on record: its order is that of its key,
\* keys have distinct orders and none is beyond next_order.
OrderHistory ==
    /\ \A s \in DOMAIN sessions : Live(s) =>
          Key(s) \in DOMAIN orders /\ orders[Key(s)] = sessions[s].order
    /\ \A s \in DOMAIN sessions : sessions[s].order <= next_order
    /\ \A k \in DOMAIN orders : orders[k] <= next_order
    /\ \A k, l \in DOMAIN orders : orders[k] = orders[l] => k = l

\* reload scans the sessions in HashMap order and keeps the first of equal
\* orders; the winner does not depend on the scan, because live sessions of a
\* credential with equal orders are of one instance.
WinnerUnique ==
    \A s, t \in DOMAIN sessions :
        /\ Live(s) /\ Live(t)
        /\ sessions[s].credential = sessions[t].credential
        /\ sessions[s].order = sessions[t].order
        => sessions[s].instance = sessions[t].instance

\* No stream and no granted request of a live lease has an address that the
\* rules in force do not allow, although the rules may have been reloaded
\* during the lookup, before the spawn or during the stream: reload cancels a
\* lease unless the new rules cover the old ones.
StreamsAuthorized ==
    /\ \A stream \in streams : Live(stream.session) =>
          \A a \in stream.addresses : Permits(RulesOf(stream.session), a)
    /\ \A s \in SessionIds : Live(s) =>
          \A a \in handlers[s].addresses : Permits(RulesOf(s), a)

\* A lease is held as long as a task runs under it: a stream never outlives
\* its entry in the registry, so register and reload always reach it.
HoldersRegistered ==
    /\ \A stream \in streams : stream.session \in DOMAIN sessions
    /\ \A s \in SessionIds : handlers[s].phase # "gone" => s \in DOMAIN sessions

\* A step never revives a cancelled lease and never changes SESSION_REPLACED,
\* the code that stops the access from reconnecting, into another code.
CancellationFinal ==
    [][\A s \in DOMAIN sessions \cap DOMAIN sessions' :
          /\ sessions[s].signal # "None" => sessions'[s].signal # "None"
          /\ sessions[s].signal = "SESSION_REPLACED" => sessions'[s].signal = "SESSION_REPLACED"]_vars

\* A live session is replaced only by another instance of the same credential
\* that is live after the step and was first seen later: neither register nor
\* reload ever replaces a session in favour of one that is cancelled or older.
ReplacedByNewer ==
    [][\A s \in DOMAIN sessions \cap DOMAIN sessions' :
          Live(s) /\ sessions'[s].signal = "SESSION_REPLACED" =>
             \E t \in DOMAIN sessions' :
                /\ sessions'[t].signal = "None"
                /\ sessions'[t].credential = sessions[s].credential
                /\ sessions'[t].instance # sessions[s].instance
                /\ sessions'[t].order > sessions[s].order]_vars

\* The registry implements the takeover of Takeover: whoever connects, disconnects or
\* reloads in whatever order, an instance registers, gives way and stays out exactly as
\* that specification says.
LiveKeys == {Key(s) : s \in {t \in DOMAIN sessions : Live(t)}}
SingleCredentials == {c \in DOMAIN credentials : credentials[c].single}
Registry == INSTANCE Takeover WITH Credentials <- Tokens, single <- SingleCredentials,
                                   turn <- orders, out <- retired, live <- LiveKeys
TakesOver == Registry!Spec

\* A cancelled session leaves the registry: its handler and its streams end.
CancelledReleased == \A s \in SessionIds : Cancelled(s) ~> s \notin DOMAIN sessions
================================================================================
