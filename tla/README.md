# ws-net: specifications, model checking and proofs

ws-net carries TCP and HTTP over one encrypted WebSocket. An **access**
(`ws-net-access`) listens locally, multiplexes its clients as streams over a pool of
WebSocket connections, and a **gateway** (`ws-net-gateway`) connects the streams to
targets, under per-user access rules that can be reloaded while it runs.

This directory holds TLA+ modules of that system, TLC configurations for small
instances, and proofs checked by TLAPS. `PROJECT.json` lists every run with its
properties, every theorem, the mutants that show a property can fail, and the source
lines each definition stands for.

    tlc -workers 2 -config MCGatewayRegistry.cfg MCGatewaySessions   # a run
    tlapm GatewaySessions_proofs.tla                                 # the proofs

Paths below are relative to `src/crates/`.

## 1. Inventory

| Component | Source | State | Operations | Hard behaviour | What makes it correct | Status |
|---|---|---|---|---|---|---|
| Session registry | `ws-net-gateway/src/app.rs` | mutex-protected `Runtime`: configuration, credentials, sessions, orders, retired keys, next order | `register`, `reload`, `authorize_target`, drop of `SessionLease` | takeovers, reconnecting instances and reloads in every order; authorization spans a DNS lookup without the lock | one live instance per single-access credential, a takeover is final, live streams obey the rules in force, cancelled leases go away | modelled |
| Access rules | `ws-net-common/src/config.rs` | none (pure) | `allows`, `covers`, validation of users | `reload` keeps a session on the strength of `covers` | `covers` is exact | partly |
| Tunnel cipher | `ws-net-common/src/tunnel_crypto.rs` | a send and a receive sequence per direction | `encrypt`, `decrypt`, the bootstrap and session ciphers | overlapping calls, replayed or reflected frames, exhausted sequence | nonces never repeat; what is decrypted is a prefix of what was sealed | partly |
| Handshake | `ws-net-access/src/gateway.rs`, `ws-net-gateway/src/ws.rs`, `app.rs` | per attempt: protocol version, selected tokens, the two bootstrap ciphers | upgrade, register, confirmation, refusal, retry | the configuration changes between upgrade, registration and confirmation; older gateways | only valid tokens register, every answer can be read, no fallback without the user token, an end to retries | modelled |
| TCP stream | `ws-net-access/src/tcp.rs`, `ws-net-gateway/src/tcp.rs` | per side: channel, entry in the stream map, half-close flags, cancellation | open, read, write, half-close, close, timeouts | bounded queues everywhere, a reader that blocks for one stream, unbiased `select!` | in-order prefix both ways, no early end of stream, release of the target connection | modelled |
| HTTP tunnel | `ws-net-access/src/http.rs`, `ws-net-gateway/src/http_proxy.rs` | head waiters, body streams, the connection to the target | request, body, response head, response body, `Close` | early response, local client that leaves, errors that meet a full channel, a connection task that outlives the request | bodies in order, complete before their regular end, no leaked waiter, the end of the session ends the request | partly |
| Session writer | `ws-net-gateway/src/ws.rs`, `ws-net-access/src/gateway.rs`, `ws-net-common/src/message.rs` | batch, deferred message, send sequence | gather, merge, defer, encrypt, feed, flush, report of a cancellation | limits of a batch, waiting in `feed` and `flush` with a cancelled lease | order and bounds, nothing stays behind, a cancelled writer ends | modelled |
| Gateway connection handler | `ws-net-gateway/src/ws.rs` | stream and body maps, outbound queue, writer task | dispatch of text and binary frames, heartbeat, `SessionCleanup` | stops while one stream is full; the writer is a task of its own | every stream cancelled at the end of the session | partly |
| Access connection | `ws-net-access/src/gateway.rs`, `app.rs` | `closed`, `stopped`, `reconnect_requested`, waiters, streams, outbound queue that outlives sessions | supervisor, session loop, `send_text`, `stop_gateway_connections`, `stop_identity` | the session loop polls its own writer; check then wait in `send_text`; terminal errors shared by a pool | waiters are answered, blocked identities stay closed, a stop always ends the task | partly |
| Gateway routing | `ws-net-common/src/config.rs`, `ws-net-access/src/app.rs` | pools by gateway name and URL, the next position of a scan | `gateway_configs`, `for_listener`, `choose` | names, URLs and defaults interpreted at two places; counters read while they change | an accepted configuration routes every listener as it asks; the choice is justified by what was read | modelled |
| Access configuration reload | `ws-net-access/src/config_reload.rs`, `listeners.rs`, `main.rs` | last modification time, listeners, pool | start, watch, replace, restore | saves at any time, ports taken by others, failing restore | the last good file is applied, one configuration serves | modelled |
| Gateway control channel | `ws-net-gateway/src/control.rs`, `main.rs` | runtime and edit lock files, control socket, configuration file | `add_user`, `replace_config`, `reload`, start and end of a gateway | commands, starts and other programs at once, killed at any step | no user is lost, what is reported is true, two gateways never serve at once, no command hangs | modelled |
| Message codec | `ws-net-common/src/message.rs` | none (pure) | serialization, merging of data frames | none beyond the merge (`WriterBatch`) | round trip; covered by its unit tests | partly |

How they interact: the access connection performs the handshake with the gateway's
connection handler, which calls `register` and receives a `SessionLease`. The lease
ends (`cancelled`) when `register` or `reload` says so; the handler and every stream task
run under it. TCP and HTTP handlers of the access put messages into the connection's
outbound queue; the writer merges and encrypts them; the reader of the other side
decrypts and dispatches them to per-stream channels, and waits while a channel is full.
The access's configuration watcher replaces the whole pool; the control channel calls
`reload`.

`PROJECT.json` `hazards` lists the places where this can go wrong and which a test
hardly reaches, each with its line and the properties that cover it, or a note that says why none does.

## 2. Modules

| Module | Models | Notes |
|---|---|---|
| `AccessRules` | rules: `allows`, `covers`, the filter of `authorize_target`, the comparison of `reload` | the textual form of a rule is parsed once and left out |
| `GatewaySessions` | the registry, the handlers and streams that hold leases | one action per critical section: `Register`, `Reload`, `BeginAuthorize` and `FinishAuthorize` (the lock is released for the lookup in between), `SpawnStream`, `HandlerReturns`, `StreamReturns`, `DropLease` |
| `Takeover` | abstract: who may register with a credential, who gives way to whom, and that nobody who gave way returns | `GatewaySessions` refines it |
| `OrderedChannel` | abstract: a channel that delivers in order, without gaps or repetition | `TunnelCipher`, `TcpTunnel` and `HttpTunnel` refine it |
| `TunnelCipher` | both directions of the session cipher with concurrent `decrypt`; each refines `OrderedChannel` | the network is not modelled: `decrypt` may be given *any* frame |
| `Handshake` | the attempts of one access at a gateway of this version or of an older one, with reloads and losses | `Register` is the effect of `GatewaySessions!Register` on one access |
| `TcpTunnel` | one stream, end to end: access handler, both readers, gateway stream task, queues; each direction refines `OrderedChannel` | a side's queue, its writer and the network are one bounded FIFO, which `TunnelCipher` and `WriterBatch` justify |
| `HttpTunnel` | one streamed HTTP exchange: access handler, both readers, request task, connection to the target; each body refines `OrderedChannel` | the same queues |
| `WriterBatch` | gathering, merging and writing of the outbound queue, and the decryption at the other side | both writers gather alike; the gateway's also watches the lease |
| `AccessConnection` | supervisor and session loop of one connection, its handlers, stops and blocked identities | composes the parts of `gateway.rs` that share the outbound queue |
| `GatewayRouting` | `gateway_configs`, `for_listener` and concurrent scans of `choose` | every small configuration is an initial state |
| `AccessReload` | start of the access, watcher, replacement and restoration | with saves, other processes that bind ports, and listeners that end |
| `GatewayControl` | `adduser`, `reload`, the gateway's start and its control handlers | every command and every gateway is a process that may be killed at each step |
| `MCGatewaySessions`, `MCAccessConnection`, `MCAccessReload`, `MCGatewayControl`, `MCGatewayRouting` | values of the constants and symmetry for TLC | |
| `GatewaySessions_proofs` (with `AccessRules`), `FrameOrder_proofs` (`TunnelCipher` and `WriterBatch`), `Handshake_proofs`, `TcpTunnel_proofs`, `HttpTunnel_proofs`, `AccessConnection_proofs` (with `GatewayRouting`), `AccessReload_proofs`, `GatewayControl_proofs` | theorems | section 4 |

Correspondence of state, where the names differ from the code's:

- `GatewaySessions`: a credential id (a token's hash) is the token; `signal` is the
  lease's `watch` value, reduced to the error code (`SESSION_REPLACED`, `AUTH_CHANGED`);
  `handlers[s]` is the position of the connection handler of session `s`, with the
  addresses a target was granted; `streams` are the spawned stream tasks.
- `TunnelCipher`: `sealed` and `opened` are histories of what `encrypt` and `decrypt`
  returned; `decrypting[r]` is a call of `decrypt` between the load of the expected
  sequence and its `compare_exchange`. `MaxSequence` is `u64::MAX`.
- `Handshake`: a bootstrap cipher is the tokens it is derived from; `session.dual` says
  that the session uses both tokens (version 4); `wire` is the message in flight;
  `was_invalid` is a history: the tokens were not valid at some time of the attempt.
  `kind` is the gateway's version: `"v3"` and `"v2"` are programs without user tokens,
  external to this code, whose answers the access still distinguishes.
- `TcpTunnel`: `acc.entry` and `gw.entry` say whether the stream's sender is in the map of
  its side, `chan` is the receiver's channel, `held` is the frame with which a reader waits
  in `tx.send`, `out` what a task is sending and waits for. `session` has three parts
  because the access, the gateway's loop and the gateway's writer task notice the end of
  the session separately.
- `HttpTunnel`: `acc.waiter` and `acc.body` are the entries of `http_head_waiters` and
  `http_body_streams`, `chan` and `held` as above; `BodyError` in a body channel is
  `Err(_)`. `conn` is the connection task of the HTTP library, which owns the receiver of
  the request body and notices later than the request task that the request was dropped.
  `session.unsent` is positive while the access's session loop waits in `send_text` for
  room in its own queue: it counts the messages behind its writer, which it does not poll
  meanwhile.
- `WriterBatch`: bytes are numbered as they are posted, so a message is the numbers it
  holds; `pending` is the deferred message, `hand` an encrypted frame that waits in `feed`;
  `batch_bytes` is counted as the code counts it, and `BytesCounted`, a part of the type
  invariant, compares it with the batch.
- `AccessConnection`: `permit` is the stored permit of `reconnect_now` (a `Notify`),
  `stopping` is the interval between setting `stopped` and `close_gateway_connection`;
  `task = "sending"` is the loop waiting in `send_text`, in which its writer is not
  polled.
- `GatewayRouting`: gateway names and URLs are positive numbers, 0 is a blank or absent
  one, and the generated name `gateway-i` is `i`. The list of URLs without repetition that
  the legacy form builds is a set of positions: a URL counts where it comes first
  (`NewUrls`), `i` is the number of such positions up to it, and a pool is named by the
  position of its gateway. A pool is its connections, which handlers scan one by one.
- `AccessReload`: a configuration is its ports in binding order, its gateway and whether
  it loads; `bound` are the sockets of `PreparedListeners` that are not listening yet;
  `outcome` is what is logged; `watched` is a history.
- `GatewayControl`: a user is the command that created it (its token is fresh); `pc` of a
  command ends with what it reports; `handler[c]` is the gateway's side of its request;
  `applied` is a history of the configurations put in force.

Definitions named after a defect (`NotifyAlways`, `CoversIP`, `FailedKeepsBody`, ...)
and preceded by a comment "Mutant" are not part of the specifications. `PROJECT.json`
`mutants` says which definition each one would replace, and which property then fails.

## 3. Runs

| Run | Configuration | Question | Bounds, and why they are enough |
|---|---|---|---|
| `registry` | `MCGatewayRegistry` | is single access kept, is a takeover final, is a signal final, is all of it the abstract takeover (`TakesOver`)? | 3 sessions of 2 instances, 2 gateway and 2 user tokens, every configuration change reload distinguishes. A winner, a loser and one more session of either instance at once; `MaxOrder` 3 allows both instances of a credential and a new history after a change of the gateway token. Symmetry over session ids and instances |
| `streams` | `MCGatewayStreams` | do live streams obey the rules in force, does a cancelled session leave the registry? | 2 sessions, 1 stream id, 2 addresses times 2 ports: any of "all", "ip:*" and "ip:port" and targets that resolve to several addresses. No symmetry, for liveness |
| `cipher` | `MCTunnelCipher` | is each direction an ordered channel? | 2 overlapping calls, 3 frames until the sequence is exhausted, 2 plaintexts to tell frames apart |
| `handshake` | `MCHandshake` | who is registered, can the access read every answer, does it come to rest? | 2 gateway and 2 user tokens (the right and a wrong one), all kinds of gateway, 2 reloads (before and after the registration), a lost connection |
| `tcp_stream` | `MCTcpStream` | is each direction an ordered channel from end to end (`EndToEnd`), is an end of stream early, is the target released once the access is gone? | 3 frames up and 2 down, queues of 2, a stream channel of 1: every queue can be full with a frame waiting behind it |
| `http_stream` | `MCHttpStream` | is each body an ordered channel (`BodiesRefine`) and complete, is an entry left behind, does the loss of the session end the request at both sides (but for an access whose session loop is stuck in its own queue)? | 2 chunks each way, queues of 2, body channels of 1: a chunk in the channel, one held by the reader, and more behind it; the queue of the access can be full when its session loop sends a heartbeat or a Close |
| `writer` | `MCWriterBatch` | are order, identity and limits kept, does a cancelled writer end, does anything stay deferred? | 2 streams, payloads up to 2 with a header of 1, batches of 5 bytes or 3 messages, a queue of 3, a socket that takes 2 frames: every limit is reached, merging pushes the count of a batch past the byte limit, and a batch begins with a deferred message |
| `access_connection` | `MCAccessConnection` | are waiters answered, does a blocked connection stay closed, does a stopped one end? | 2 handlers, a queue of 1, 2 sessions: messages of the first session in the second |
| `routing` | `MCRouting` | has every listener the pool it asks for, is the choice justified? | every configuration with up to 2 gateways and 2 listeners (of 2 names and URLs, blank or absent ones included) and one with a pool of 3; 2 handlers, a queue of 1, so that a connection can be full |
| `access_reload` | `MCAccessReload` | does one configuration serve, is what is saved applied or reported? | 3 addresses and 4 configurations (two that share an address, one that asks for an address twice, one that does not load), 3 saves: one during the load, one during the binding, one to come back |
| `control` | `MCControl` | are users kept, is the endpoint that of the running gateway, is any command stuck? | 2 adders of the same or different names, 2 starts of the gateway (the other one may have been killed), an edit by another program. `adduser` contains the steps of `reload`, so `Reloaders` is empty here. Symmetry over adders, gateways and names |

One run has a counterexample, of something the README promises:

| Run | Property | Counterexample |
|---|---|---|
| `access_loss` (`MCAccessLoss`) | `LossEndsSession` | the session loop waits in `send_text` for room that only the writer it polls itself can make: it neither reads nor writes nor notices the end of the session. `findings` in `PROJECT.json` quotes the sentence it disagrees with |

`access_connection` holds in the same model: a stop is watched by the `select!` *around*
the session, so it ends a session loop that is stuck.

The other configurations in this directory (`MCTcpCleanClose`, `MCHttpRelease`, ...) are
the counterexamples of section 5; each has one property and TLC finds it violated.

Deadlock checking is off in every run: a stream, a connection, a command or a bounded
history of sessions may simply be over. That nothing is stuck is stated by the liveness
properties and by `NoCommandStuck`.

### Bounds

`MaxOrder` caps `next_order`, `MaxSequence` stands for `u64::MAX` (the exhausted counter
is part of the behaviour, not an artefact), `MaxSessions` caps the sessions of a
connection, `MaxUp` and `MaxDown` the frames or chunks of a stream, `MaxPosted` the numbers
given to a writer, `MaxReloads` and `MaxLosses` what happens to a handshake, `MaxSaves` the
modification time of the access's configuration, `MaxEdits` the edits by other programs;
`QueueCapacity`, `StreamCapacity`, `BodyCapacity`, `Capacity`, `WireCapacity` and the
limits of a batch shrink capacities so that full queues occur.

### Fairness

- `GatewaySessions!FairSpec`: a holder of a *cancelled* lease returns, because
  `lease.run` and the handler's `select!` watch the signal; the last drop removes the
  entry. Nothing obliges a holder of a live lease to return.
- `TcpTunnel!FairSpec`: each task is scheduled (weak fairness of the access handler, both
  readers and the stream task); the operating system answers a connect; the gateway
  notices a lost access by its idle timeout. `ObserveCancel` is strongly fair because
  tokio's `select!` polls its branches in random order. Nothing is assumed of the local
  client or of the target; `TargetReadsSpec`, which `tcp_stream` uses, adds that the target
  takes what is written to it or fails. `StreamReleased` has an alternative, both outbound
  queues staying full for ever: the stream task waits for room towards the access, whose
  reader waits to send Close, whose queue waits for the gateway's reader, which waits for
  the stream's channel.
- `HttpTunnel!FairSpec`: handler, readers and request task are scheduled; each side notices
  the loss of the other by its idle timeout, with an exception on each: the gateway only
  when its reader does not wait for a body channel, and the access only when its session
  loop does not wait in `send_text` (`ws-net-access/src/gateway.rs:471`, `:561`, `:595`),
  for then it reaches neither the idle check nor the socket again. The gateway needs no
  such exception for its queue: its writer is a task of its own, which goes on or fails
  with the connection. The response of a closed connection ends or fails. Nothing is assumed
  of the client or of the target. `ServingSpec` adds a target that serves, for the
  counterexample of `ResponseEnds`.
- `AccessConnection!FairSpec`: the task runs. `LossNoticed` and `Write` are strongly fair:
  they are disabled only while the loop waits in `send_text`, and whenever it comes back to
  its `select!`, which is `biased` (`gateway.rs:451`), it polls the writer first, and the
  branches before the socket (the signals of a stop and of a blocked identity, a heartbeat
  every 20 seconds) are not ready in every round. Nothing is assumed of the gateway or of the clients.
- `WriterBatch!FairSpec`: the writer is scheduled. That the other side reads is a premise of
  `EverythingReceived` alone; `CancelledEnds` does without, for `lease.run` and the timeout
  of the report bound every wait.
- `AccessReload!FairSpec`: the process runs (its timers fire). Nothing is assumed of those
  who save the file or take ports.
- `Handshake!FairSpec`: both ends of an attempt run; reloads and losses are bounded, and
  `Settles` says what happens once they are over.

## 4. Proofs

The theorems hold for every value of the constants, under the named assumptions of the
modules: `RulesAssumption` (the unused fields of a rule are no address), `TokensAssumption`
and `HandshakeAssumption` (no token is the absent one; gateway and user tokens differ),
`ConfigsAssumption` (configurations are well typed), `ControlAssumption` (commands and
gateways have names of their own), `WriterAssumption` (the kind of a control message is no
stream, a header is smaller than a batch), `SequenceAssumption`, `BoundsAssumption` and
`CapacityAssumption` (bounds are numbers, capacities are positive), `RoutingAssumption`
(configuration files are well typed, clients are finitely many). They contain no assumption
about the algorithm.

**AccessRules** (at the head of `GatewaySessions_proofs`). `CoversSound`: a rule that covers another allows whatever it allows.
`AllCoveredSound` lifts it to rule sets, the form `reload` relies on. `CoversComplete`
is the converse for single rules: `covers` never cancels a session needlessly, provided
there are two IPs and two ports to tell rules apart.

**GatewaySessions.** `Invariance` proves `IInv` by one lemma per action and part. `IInv`
strengthens the checked invariants with what they need:

- `OrderHistory` (the key of a live session is on record, keys have distinct orders up to
  `next_order`) gives `WinnerUnique`: two live sessions with equal orders have one key.
  Without it the winner of `reload` could depend on the order in which a `HashMap` is
  scanned. It also gives `ReplacedStaysOut`: `register` and `reload` retire the keys *on
  record*, so a session they replace has to be among them.
- `OthersRetired` gives `ReplacedByNewer`: while a single-access credential has a live
  session every other known instance is retired, so whoever registers next and takes
  over is new and gets a greater order. `LiveNotRetired` is its counterpart: nobody is
  live and locked out at once. With `ReplacedStaysOut` it makes `TakeoverIsFinal`.
- `HoldersRegistered` makes the statements about live leases say something about
  the tasks that run under them.
- `StreamsAuthorized` is preserved by `reload` by `AllCoveredSound`: a lease survives only
  when every old rule is covered by a new one.

`CancellationFinalHolds` and `ReplacedByNewerHolds` are action properties derived from
`IInv` of the step's first state.

`TakesOverHolds` is the refinement of `Takeover`, in which there are no sessions, leases or
configurations, only credentials and instances. Its keys are those of the live sessions,
`orders` are its turns, the retired keys those that gave way. A granted `Register` is `Join`
(`RegisterJoins`), a `Reload` is `Change`, or `Restart` when the gateway token is a new one
(`ReloadChanges`), dropping a lease is `End` or a stutter (`DropLeaseEnds`), and what handlers
and streams do is not seen. The proof needs `IInv`: the losers of a reload are computed from
sessions and must be the keys that are not the newest of their credential, which is
`OrderHistory`; and a session that gives way must take its key
with it, whichever of several sessions of an instance it is.

**TunnelCipher.** `CipherInv` says that the `i`-th sealed frame of a direction has sequence
`i - 1`, that the receive sequence counts the opened frames, that these are a prefix
of the sealed ones, and that a call in progress holds an authentic frame with its expected
sequence. `NonceUniqueHolds` follows from the first part; `Ordered` is the refinement: the
initial states and the steps of the cipher are, for each direction, those of
`OrderedChannel`, or stutters.

**WriterBatch.** `FrameOrder_proofs` extends `TunnelCipher` as well, whose specification
therefore has names of its own (`CipherSpec`, `CipherTypeOK`). `WriterInv` adds five parts
to the types. `SizesOK`: every queued, deferred or gathered message carries something, and
data no more than the payload limit. `BytesOK`: while a batch is gathered, its count is
below the limit but for the payload of its last message, and equals its size. The byte limit
is not looked at by a merge, so the bound `MaxBytes + MaxPayload` of the type invariant is
not inductive without the first part; the second uses that a batch carries numbers that
follow one another. `PhasesOK`: what each phase may hold; nothing is deferred while a batch
is gathered, so that deferring overwrites nothing. `SequencesOK`: while the writer runs, the
frames in hand and on the socket carry successive sequence numbers from the expected one, so
that none is refused. `OrderOK`: what is received, on the socket, in hand, in the batch,
deferred and queued, in this order, is what was posted, number by number. An aborted writer
leaves a gap in the sequence before its report; the part of `OrderOK` for that phase is
therefore about what was sent only. `InPostedOrderHolds` rests on lemmas about sequences of
messages that continue each other: appending one, merging two neighbours, moving a message
from one part of the row to the next, and cutting off an end.

**Handshake.** `IInv` follows one attempt through its stages (`Stage`): which message can be
in flight in each phase of the access, that the session has selected the tokens of this
access and that the access was told so, and under which credential a session is
registered. `RegisteredIsValidHolds` rests on `register` comparing with the configuration
in force, not with that of the upgrade; `ReplyUnderstoodHolds` on the agreement of both
sides on their cipher at every stage; `NoDowngradeHolds` on `Version` (only a gateway that
confirmed version 4 is sent a registration of an access with a user token), on `Messages`
and `Stage` (a registration in flight is of this attempt and under the tokens selected at
the upgrade) and on `Registered`: an access whose upgrade selected no user token, because
no users were enabled then, may register without it, but it has no session once they are.

**TcpTunnel.** `Inductive` relates a frame's number to where it is. For each direction:
what was received is `1..n`, the channel continues it, the frame a reader holds is next,
and while the receiving side still takes data, the queue holds frames numbered
consecutively (`Consecutive`) from there up to what was read, except for the latest when
the task has not sent it yet. `OpeningOK` keeps a single Open, ahead of everything, so that
the gateway never starts a second stream in the middle of the first. Once the receiving
side is over nothing more is delivered, so nothing needs to be known of the queue; that
is why the clauses are conditional. `BytesInOrderHolds` follows from the received part alone.
`EndToEndHolds` says it of steps: with the frames read as `1..up_sent` and the frames
received as they are, each direction implements `OrderedChannel`. Reading a
frame from a socket is its `Send`, writing one to the other socket its `Receive` of exactly
the next frame, and every other step of this module, failures, timeouts and losses included,
is a stutter of it.

`EndsCompleteHolds` needs `EndsOK` besides, which says where the end of a stream is. The last
message of a side in a queue or in a task's hand is its TcpEof or Close (`DownEndLast`,
`UpEndLast`), it is sent only when everything read was queued before it (`DownAll`), and an
entry disappears from a map only behind it or with one of the causes the property excepts
(`EntryGone`, `StreamEntryGone`). So when a receiver finds its channel closed, the numbers
of `Inductive` have nowhere left to be, and what was received is all that was sent.

**HttpTunnel.** `Inductive` has seven parts. `OutOK` says what the handler, the request task
and the readers may be about to send in each of their phases; `StartOK`, that one Start
precedes everything else; `UploadOK` and `DownloadOK`, that received chunks, body channel,
held chunk and queue are numbered consecutively while the body still has a receiver;
`UpEndsOK` and `DownEndsOK`, that the message that ends a body is behind all of its chunks and
that its sender leaves the map only with that message, a cancellation, an error or the
loss of the session; `EntriesOK`, which phases of the handler own a head waiter and a body
stream. `BodiesInOrderHolds`, `BodiesCompleteHolds` and `NoEntryLeftHolds` follow, and
`BodiesRefineHolds`: step by step, each body implements `OrderedChannel`, as in `TcpTunnel`. The
exceptions of `BodiesComplete` (a cancelled request, an answer that is over, an error dropped
because the body channel was full) are those of the invariant's clauses, so that
`ResponseHonest` and `RequestHonest`, without them, fail (section 5).

**AccessConnection.** `IInv` adds `OpeningUnblocked` to the types and to
`WaitersOfOpenOnly`: while a session is being marked open the identity is not blocked,
because `stop_identity` needs the lock that the end of the handshake holds.
`BlockedStaysClosedHolds` rests on exactly that; `WaitersOfOpenOnlyHolds` on
`FailWaitersFacts`, which says what `close_gateway_connection` leaves behind when the
connection was open and when it was closed already.

**GatewayRouting.** The theorems are in `AccessConnection_proofs`, so the specification has
names of its own (`RoutingSpec`, `RoutingTypeOK`). `AcceptedServes` is about the two functions
alone: for every file whose `gateway_configs` is no error and each of its listeners,
`for_listener` finds a gateway, with the name or the URL the listener gives, or the default;
its cases are those of the form of the file. It needs that a nonempty set of positions has a
first one. `RoutingInv` says of each client by itself (`ClientOK`) that its pool serves its
listener, and of a scan (`ScanOK`) that it has read the positions from its start on, modulo
the size, that none of them was open while it has found nothing, and otherwise that its best
is an open one it read, with no greater load than another. `Rotation`, that counting modulo
the size from any start meets every position, gives the first part of
`ChoosesOpenLeastLoadedHolds`. The theorems assume of a file only its types and a pool of at
least one connection, without which `GatewayConnectionPool::new` is an error.

**AccessReload.** `IInv` says which sockets a phase may hold (`Sockets`: a beginning of the
addresses being bound, all different), that nothing listens while sockets are bound
(`Quiet`), that a configuration in force was bound once and so asks for no address twice
(`InForce`; without it a restoration could fail on its own sockets), and what equal
modification times tell about the content (`Times`). `ServesOneConfigHolds`,
`SavedIsAppliedHolds`, `RestoresUnlessTakenHolds` and `InvalidChangesNothingHolds` follow.

**GatewayControl.** `IInv` says what a holder of a lock may rely on: an adduser that edits
holds the edit lock, so the users of the file are those it read (`Originals`), although
other programs edit the rest; a gateway past `ServeLock` and a command that probes hold
the runtime lock (`Locks`); a request is only made for a user that is in the file, and
answered with success only when a configuration with that user was applied (`Handled`).
`UsersKeptHolds` and `EndpointOwnedHolds` are parts of it. `CommandsOnlyForward` is the half
of termination that needs no fairness: `Remaining` counts the steps a command has before it,
and every step that moves the command makes it smaller. `NoCommandStuck` is the other half.

Only model-checked: every liveness property (`CancelledReleased`, `StreamReleased`,
`LossEndsRequest`, `StopSettles`, `SettlesOnLastSave`, `Settles`, `CancelledEnds`,
`EverythingReceived`) and `NoCommandStuck`, which uses `ENABLED`: both are beyond the prover.

## 5. Where the code does less, and what is not modelled

### Counterexamples

Each of these configurations checks one statement that a reader of the README or of the
messages of the program might take for granted, and finds a behaviour of the code that
violates it. The runs of section 3 check what does hold instead.
The configurations belong to the module that defines the property (`GatewayControl` for
`MCControlEdit`, `HttpTunnel` for `MCHttpRelease`, ...), except that `MCAccessOrphan` and
`MCReloadStartup` need `MCAccessConnection` and `MCAccessReload`, which give their constants
values.

| Configuration | Property | Behaviour |
|---|---|---|
| `MCTcpCleanClose` | `CleanCloseDelivers` | The target has ended its side. The client sends its last bytes and ends too: the access sends Data, TcpEof and Close in a row (`ws-net-access/src/tcp.rs:179`, `:274`). Close cancels the gateway's task, whose unbiased `select!` may take the cancellation before the data still in its channel: the upload is cut although both ends closed regularly. `EndsComplete` holds as long as the client has not closed the whole stream |
| `MCTcpStuckTarget` | `StreamReleased` | `write_all` to the target runs inside a branch of the `select!`: a target that stops reading keeps its stream task and connection, after Close and after the end of the session. A lease that is cancelled ends it, for `lease.run` drops the whole future |
| `MCAccessOrphan` | `NoOrphanStream` | `send_text` (`ws-net-access/src/gateway.rs:739`) checks the connection, then waits for room in a queue that outlives the session. An Open of a dead session is sent in the next one, when its handler has returned and will send no Close |
| `MCHttpRelease` | `RequestReleased` | A local client that disconnects makes the server drop the request's future (`ws-net-access/src/http.rs:234`): its entries stay, nothing sends Close, and the gateway's task waits on for a target that has not answered |
| `MCHttpEarlyHead` | `ResponseEnds` | The head of an early response wins the `select!` (`http.rs:299`) and the handler stops reading the request body: neither HttpRequestEnd nor Close follows. A target that answers early and still reads waits for the body for ever. `RequestComplete` shows that it never takes the body for complete |
| `MCHttpStuckLoop` | `LossAnswersClient` | The deadlock of `access_loss` as the client of an HTTP stream meets it: the session loop sends a heartbeat or a Close while its outbound queue is full (`ws-net-access/src/gateway.rs:471`, `:561`, `:595`) and waits for its own writer, which it does not poll. It never notices that the session is gone, so the client is not answered. `LossEndsRequest` is what holds otherwise |
| `MCHttpTruncated` | `ResponseHonest` | The error that ends a response is handed over with `try_send` (`ws-net-access/src/gateway.rs:714`); when the body channel is full it is dropped with the sender, so that the client sees the regular end of a cut response. `ResponseComplete` is the rest |
| `MCHttpCancelled` | `RequestHonest` | Close and `SessionCleanup` remove the sender of the request body (`ws-net-gateway/src/ws.rs:896`), which ends it regularly; the connection task may tell the target so before it notices that the request was dropped |
| `MCReloadStartup` | `SavedIsAlwaysApplied` | The watcher first reads the modification time when it starts (`ws-net-access/src/main.rs:42`), after the configuration was loaded and the ports were bound: what is saved in between counts as known until the next save |
| `MCControlEdit` | `ExternalEditKept` | `replace_config` (`ws-net-gateway/src/control.rs:184`) compares the file with what it read and then renames its own over it: an edit by another program between the two is lost |
| `MCControlEffective` | `EffectiveMeansServed` | A control handler loads the file (`control.rs:305`) before `AppState::reload` takes the registry's lock: of two requests at once, the one that loaded first may apply last, so that a user reported effective is not served |
| `MCControlNextStart` | `NextStartEffective` | A starting gateway loads the configuration before it takes the runtime lock (`ws-net-gateway/src/main.rs:106`): an adduser that saves and probes the lock in between is told that no gateway runs, which then serves without the user |
| `MCControlRefusal` | `RefusedOnlyByGateway` | `reload` probes the runtime lock by taking it (`control.rs:249`); a gateway that starts meanwhile is told that another one is running |
| `MCHandshakeRefusal` | `RefusalIsTrue` | Tokens are selected at the upgrade and checked at the registration (`ws-net-gateway/src/ws.rs:103`). When users are enabled in between, an access with a valid user token is answered UNAUTHORIZED, which is terminal: its identity stays blocked until the process restarts |
| `MCWriterReason` | `ReasonUnderstood` | `feed(encrypt(..))` (`ws-net-gateway/src/ws.rs:357`) takes a sequence number before `feed` waits for room; `lease.run` drops the frame there and the report is encrypted with the next number, which the access refuses. It is told the reason only when it tries to reconnect |

### Abstracted or not modelled

- Cryptography: key derivation. The session cipher is what authenticated encryption
  promises; a bootstrap cipher is the tokens it is derived from.
- The one-shot `HttpRequest` of earlier accesses, clients without the protocol header, and
  the transport details of HTTP (TLS, rewriting of headers and URLs). `HttpTunnel` is
  "partly" modelled for this reason.
- Heartbeats and idle timeouts occur as losses of the session that one side notices;
  `AccessConnection` and `HttpTunnel` have the access's heartbeat that finds its queue full.
- `TcpTunnel` lets an access's reader that waits to send Close go on when there is room
  again. In the code there is none if the loop gets stuck (`access_loss`); nothing more is
  sent then, so that the gateway's idle timeout ends the session and with it the stream
  task, unless its own loop waits for room too, which is the alternative of
  `StreamReleased`.
- `AccessReload` gives every save a later modification time. Two saves within one tick of
  the file system's clock, of which the watcher may miss the second, are not modelled.
- `AccessConnection` leaves out data frames; HTTP entries are in `HttpTunnel`.
- Several streams that compete for one session. `TcpTunnel` and `HttpTunnel` have a single
  one, so that a stream can fill the session but two cannot stop each other, and the
  ten-second timeout of one local client (`ws-net-access/src/gateway.rs:578`) is just a
  loss of the session. Two hazards have a note instead of a property for this reason or
  because no document says what should hold (`gateway.rs:779`, where a stale check asks a
  fresh session to reconnect).
- The named pipes of the control channel on Windows; the Unix socket is modelled.
- Parsing of TOML, rules and URLs, the JSON of the messages and the binary framing,
  logging and the command line: pure functions with unit tests, or input and output.

## 6. Plan

1. Done: all modules of section 2, with proofs of every safety property but `NoCommandStuck`,
   and of the refinements of `OrderedChannel` (by the cipher, TCP streams and HTTP bodies) and
   of `Takeover`.
2. `SharedSession`: several streams over one session: a full stream stops the others, the
   ten-second timeout of a local client ends all of them, the deadlock through both
   outbound queues as a property of more than one stream.
3. The composition of `Handshake` with `GatewaySessions`: several accesses whose
   registrations take each other over while they retry.
