----------------------------- MODULE GatewayRouting -----------------------------
(***************************************************************************)
(* Which gateway connection serves a local client: the gateways an access   *)
(* configuration stands for and what loading it refuses                     *)
(* (ws-net-common/src/config.rs), the pool of a listener and the choice of  *)
(* a connection in it (ws-net-access/src/app.rs). The handlers of clients    *)
(* scan a pool at the same time, reading the counters of one connection     *)
(* after another while connections close, reopen and take other streams.    *)
(*                                                                         *)
(* Gateway names and URLs are positive numbers, trimmed; None is a blank or *)
(* an absent one. The generated name gateway-i is the number i.             *)
(***************************************************************************)
EXTENDS Naturals, Sequences, FiniteSets, FiniteSetsExt

CONSTANTS Configs,    \* configurations that may be in the file
          Capacity,   \* capacity of an outbound queue
          Clients     \* clients served at the same time

None == 0

\* The configuration file: the flags tell that the token is given (user_token: that it is
\* not given blank); pool_size is gateway_pool_size, at least 1 once it is loaded.
GatewayEntry == [name : Nat, url : Nat, token : BOOLEAN, user_token : BOOLEAN]
ListenerEntry == [gateway : Nat, url : Nat]
ConfigFile == [gateways : Seq(GatewayEntry), token : BOOLEAN, url : Nat, urls : Seq(Nat),
               listeners : Seq(ListenerEntry), pool_size : Nat \ {0}]

ASSUME RoutingAssumption ==
    /\ Capacity \in Nat /\ IsFiniteSet(Clients)
    /\ \A c \in Configs : c \in ConfigFile

-------------------------------------------------------------------------------
(****************************** gateway_configs ***************************)
\* The legacy form: the URLs of the access section and of the listeners.
Urls(c) ==
    <<c.url>> \o c.urls \o [i \in DOMAIN c.listeners |-> c.listeners[i].url]

\* A URL that is not blank makes a gateway where it comes first.
NewUrls(c) ==
    {i \in DOMAIN Urls(c) : Urls(c)[i] # None /\ \A j \in 1..(i - 1) : Urls(c)[j] # Urls(c)[i]}

\* The gateways in order: a function of their positions in the file.
LegacyGateways(c) ==
    [i \in NewUrls(c) |-> [name |-> Cardinality({j \in NewUrls(c) : j <= i}),
                           url |-> Urls(c)[i], token |-> c.token, user_token |-> TRUE]]
Gateways(c) == IF c.gateways # <<>> THEN c.gateways ELSE LegacyGateways(c)

Named(gateways, name) == {i \in DOMAIN gateways : gateways[i].name = name}
At(gateways, url) == {i \in DOMAIN gateways : gateways[i].url = url}
Only(gateways) == {i \in DOMAIN gateways : DOMAIN gateways = {i}}

HasDefault(c) ==
    \/ Only(Gateways(c)) # {}
    \/ c.gateways = <<>> /\ c.url # None

ListenerAccepted(c, listener) ==
    /\ listener.gateway = None \/ listener.url = None
    /\ listener.gateway # None => Named(Gateways(c), listener.gateway) # {}
    /\ listener.gateway = None /\ listener.url # None => At(Gateways(c), listener.url) # {}
    /\ listener.gateway = None /\ listener.url = None => HasDefault(c)

\* gateway_configs returns no error.
Accepted(c) ==
    LET gateways == Gateways(c)
    IN /\ c.gateways = <<>> => c.token
       /\ DOMAIN gateways # {}
       /\ \A i \in DOMAIN gateways :
             /\ gateways[i].name # None /\ gateways[i].url # None
             /\ gateways[i].token /\ gateways[i].user_token
             /\ Named(gateways, gateways[i].name) = {i}
       /\ \A i \in DOMAIN c.listeners : ListenerAccepted(c, c.listeners[i])

-------------------------------------------------------------------------------
(****************************** for_listener ******************************)
First(positions) == IF positions = {} THEN None ELSE Min(positions)

\* default_server_url
DefaultUrl(c) ==
    IF c.gateways # <<>>
    THEN IF Only(c.gateways) # {} THEN c.gateways[1].url ELSE None
    ELSE IF c.url # None THEN c.url
    ELSE IF Accepted(c) /\ Only(Gateways(c)) # {} THEN Gateways(c)[First(DOMAIN Gateways(c))].url
    ELSE None
\* The URL a listener gives, or the default.
UrlFor(c, listener) == IF listener.url # None THEN listener.url ELSE DefaultUrl(c)

\* The pools are the gateways in order; the first that matches, or None.
\* Mutant: the URL is looked at before the name, so the default hides the name.
PoolByUrlFirst(c, listener) ==
    CASE UrlFor(c, listener) # None -> First(At(Gateways(c), UrlFor(c, listener)))
      [] UrlFor(c, listener) = None /\ listener.gateway # None ->
            First(Named(Gateways(c), listener.gateway))
      [] OTHER -> First(Only(Gateways(c)))
Pool(c, listener) ==
    CASE listener.gateway # None /\ listener.url # None -> None
      [] listener.gateway # None /\ listener.url = None ->
            First(Named(Gateways(c), listener.gateway))
      [] listener.gateway = None /\ UrlFor(c, listener) # None ->
            First(At(Gateways(c), UrlFor(c, listener)))
      [] OTHER -> First(Only(Gateways(c)))

-------------------------------------------------------------------------------
VARIABLES config,     \* in force, or as it was refused
          running,    \* the configuration was accepted
          next,       \* next of each pool, modulo config.pool_size
          closed,     \* connections, <<pool, index>>, that are closed
          client      \* the handler of each client

routing_vars == <<config, running, next, closed, client>>

Pools == DOMAIN Gateways(config)
Connections == Pools \X (0..(config.pool_size - 1))

\* best of next_connection before the scan: no connection, the largest load.
NoBest == [connection |-> None, load |-> None, capacity |-> 0]
Idle == [pc |-> "idle", listener |-> 0, pool |-> None, start |-> 0, offset |-> 0,
         found |-> FALSE, best |-> NoBest, seen |-> {}]

\* connection_load: a stream that opens is in two of the maps, an open one in one.
Load(c) ==
    LET On(s) == {h \in Clients : client[h].pc = s
                                   /\ <<client[h].pool, client[h].best.connection>> = c}
    IN 2 * Cardinality(On("opening")) + Cardinality(On("open"))

RoutingInit ==
    /\ config \in Configs
    /\ running = Accepted(config)
    /\ next = [p \in Pools |-> 0]
    /\ closed = {}
    /\ client = [h \in Clients |-> Idle]

\* for_listener finds the pool; fetch_add gives the start of the scan.
Route(h) ==
    /\ running /\ client[h].pc = "idle"
    /\ \E i \in DOMAIN config.listeners :
          LET p == Pool(config, config.listeners[i])
          IN IF p = None
             THEN /\ client' = [client EXCEPT ![h] = [Idle EXCEPT !.pc = "unroutable",
                                                                    !.listener = i]]
                  /\ UNCHANGED next
             ELSE /\ client' = [client EXCEPT ![h] =
                        [Idle EXCEPT !.pc = "scanning", !.listener = i, !.pool = p,
                                     !.start = next[p]]]
                  /\ next' = [next EXCEPT ![p] = (@ + 1) % config.pool_size]
    /\ UNCHANGED <<config, running, closed>>

\* Mutant: the loop runs once more than there are connections.
RemainingInclusive(h) == client[h].offset <= config.pool_size
Remaining(h) == client[h].offset < config.pool_size

\* One round of the loop: closed, load and capacity of one connection are read.
\* Better(s, load, capacity): whether it replaces the best one so far.
\* Mutant: the capacity is compared whatever the load.
BetterByCapacity(s, load, capacity) ==
    ~s.found \/ load < s.best.load \/ capacity > s.best.capacity
Better(s, load, capacity) ==
    ~s.found \/ load < s.best.load \/ (load = s.best.load /\ capacity > s.best.capacity)

Scan(h) ==
    /\ client[h].pc = "scanning" /\ Remaining(h)
    /\ \E capacity \in 0..Capacity :
          LET s == client[h]
              i == (s.start + s.offset) % config.pool_size
              load == Load(<<s.pool, i>>)
              open == <<s.pool, i>> \notin closed
              read == [connection |-> i, open |-> open, load |-> load]
              step == [s EXCEPT !.offset = @ + 1, !.seen = @ \cup {read}]
          IN client' = [client EXCEPT ![h] =
                IF open /\ Better(s, load, capacity)
                THEN [step EXCEPT !.found = TRUE,
                                  !.best = [connection |-> i, load |-> load, capacity |-> capacity]]
                ELSE step]
    /\ UNCHANGED <<config, running, next, closed>>

\* The best one, or the connection at the start when all were closed.
Choose(h) ==
    /\ client[h].pc = "scanning" /\ ~Remaining(h)
    /\ client' = [client EXCEPT ![h].pc = "chosen",
                                ![h].best.connection =
                                    IF client[h].found THEN @ ELSE client[h].start]
    /\ UNCHANGED <<config, running, next, closed>>

Chosen(h) == <<client[h].pool, client[h].best.connection>>

\* The connection is ready: the stream is entered in the maps.
OpenStream(h) ==
    /\ client[h].pc = "chosen" /\ Chosen(h) \notin closed
    /\ client' = [client EXCEPT ![h] =
          [Idle EXCEPT !.pc = "opening", !.listener = client[h].listener, !.pool = client[h].pool,
                       !.best.connection = client[h].best.connection]]
    /\ UNCHANGED <<config, running, next, closed>>

\* GATEWAY_READY_TIMEOUT, or an error of the identity: the client is turned away.
NotReady(h) ==
    /\ client[h].pc = "chosen" /\ Chosen(h) \in closed
    /\ client' = [client EXCEPT ![h] = Idle]
    /\ UNCHANGED <<config, running, next, closed>>

\* The answer to the open: the waiter leaves its map.
Opened(h) ==
    /\ client[h].pc = "opening"
    /\ client' = [client EXCEPT ![h].pc = "open"]
    /\ UNCHANGED <<config, running, next, closed>>

End(h) ==
    /\ client[h].pc \in {"opening", "open"}
    /\ client' = [client EXCEPT ![h] = Idle]
    /\ UNCHANGED <<config, running, next, closed>>

\* A connection closes, which clears its maps, and is established again.
CloseConnection(c) ==
    /\ running /\ c \notin closed
    /\ closed' = closed \cup {c}
    /\ client' = [h \in Clients |->
          IF client[h].pc \in {"opening", "open"} /\ Chosen(h) = c THEN Idle ELSE client[h]]
    /\ UNCHANGED <<config, running, next>>

Reopen(c) ==
    /\ c \in closed
    /\ closed' = closed \ {c}
    /\ UNCHANGED <<config, running, next, client>>

RoutingNext ==
    \/ \E h \in Clients : Route(h) \/ Scan(h) \/ Choose(h) \/ OpenStream(h) \/ NotReady(h)
                         \/ Opened(h) \/ End(h)
    \/ \E c \in Connections : CloseConnection(c) \/ Reopen(c)

RoutingSpec == RoutingInit /\ [][RoutingNext]_routing_vars

-------------------------------------------------------------------------------
(******************************* Properties *******************************)

Best == [connection : Nat, load : Nat, capacity : Nat]
Client == [pc : {"idle", "scanning", "chosen", "opening", "open", "unroutable"},
           listener : Nat, pool : Nat, start : Nat, offset : Nat, found : BOOLEAN, best : Best,
           seen : SUBSET [connection : Nat, open : BOOLEAN, load : Nat]]

\* Types; a scan stays within its pool.
RoutingTypeOK ==
    /\ config \in Configs /\ running \in BOOLEAN
    /\ next \in [Pools -> 0..(config.pool_size - 1)]
    /\ closed \subseteq Connections
    /\ client \in [Clients -> Client]
    /\ \A h \in Clients :
          /\ client[h].pc \in {"scanning", "chosen", "opening", "open"} => client[h].pool \in Pools
          /\ client[h].start < config.pool_size /\ client[h].offset <= config.pool_size
          /\ client[h].best.connection < config.pool_size

\* Whatever configuration was accepted by load, also by the reload, which does not
\* repeat the check of main, every listener finds a pool when a client comes.
AcceptedIsRoutable == \A h \in Clients : client[h].pc # "unroutable"

\* The pool a listener finds belongs to the gateway it asks for: the one with its name,
\* one with its URL, else the gateway of the access section or the only one there is.
RoutedAsConfigured ==
    AcceptedIsRoutable /\ \A h \in Clients : client[h].pool # None =>
        LET listener == config.listeners[client[h].listener]
            gateway == Gateways(config)[client[h].pool]
        IN /\ listener.gateway # None => gateway.name = listener.gateway
           /\ listener.url # None => gateway.url = listener.url
           /\ listener.gateway = None /\ listener.url = None =>
                 Only(Gateways(config)) # {} \/ gateway.url = config.url

\* The connection a scan ends with was open when it was read, unless all were closed;
\* and no other open one was read with a smaller load.
ChoosesOpenLeastLoaded ==
    \A h \in Clients : client[h].pc = "chosen" =>
        LET open == {r \in client[h].seen : r.open}
        IN /\ {r.connection : r \in client[h].seen} = 0..(config.pool_size - 1)
           /\ open # {} => \E r \in open : r.connection = client[h].best.connection
                                           /\ \A other \in open : r.load <= other.load
================================================================================
