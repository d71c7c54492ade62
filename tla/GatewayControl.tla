----------------------------- MODULE GatewayControl -----------------------------
(***************************************************************************)
(* The administration of a gateway (ws-net-gateway/src/control.rs, main.rs): *)
(* the adduser and reload commands, the editing of the configuration file,  *)
(* the start of the gateway and its control channel. Every command and      *)
(* every gateway is a process of its own; they share the file, two lock     *)
(* files and the control socket, and any of them may be killed at any step. *)
(*                                                                         *)
(* A user is named by the command that created it (its token is fresh). Of  *)
(* the rest of the file only its revision by other programs is kept,        *)
(* whether it loads, and the listen address, which a reload cannot change.  *)
(***************************************************************************)
EXTENDS Naturals, FiniteSets

CONSTANTS Adders, Reloaders, \* adduser and reload commands
          Gateways,          \* starts of the gateway program
          Names,             \* user names
          MaxEdits,          \* bound on the edits by other programs
          None

ASSUME ControlAssumption ==
    /\ Adders \cap Reloaders = {} /\ (Adders \cup Reloaders) \cap Gateways = {}
    /\ None \notin Adders \cup Reloaders \cup Gateways
    /\ MaxEdits \in Nat

VARIABLES file,         \* content of the configuration file
          edit_lock, runtime_lock, \* who holds the lock files
          endpoint,     \* the gateway that bound the control socket last
          name,         \* name each adduser is given
          pc,           \* of each command; at the end, what it reports
          original,     \* content each adduser read
          gateway,      \* where each gateway stands
          config,       \* runtime configuration of each gateway
          handler,      \* of the request of each command, at the gateway
          applied       \* history: users of every configuration put in force

vars == <<file, edit_lock, runtime_lock, endpoint, name, pc, original, gateway, config,
          handler, applied>>
files == <<file, edit_lock, original>>
server == <<gateway, config, endpoint, applied>>

Commands == Adders \cup Reloaders
Contents == [users : SUBSET Adders, edit : 0..MaxEdits, valid : BOOLEAN, listen : {"old", "new"}]
NoHandler == [pc |-> "none", gateway |-> None, config |-> None]

Reports == {"effective", "next_start", "refused", "unconfirmed", "failed", "killed"}
Ended(c) == pc[c] \in Reports

Init ==
    /\ file = [users |-> {}, edit |-> 0, valid |-> TRUE, listen |-> "old"]
    /\ edit_lock = None /\ runtime_lock = None /\ endpoint = None
    /\ name \in [Adders -> Names]
    /\ pc = [c \in Commands |-> IF c \in Adders THEN "start" ELSE "saved"]
    /\ original = [a \in Adders |-> None]
    /\ gateway = [g \in Gateways |-> "new"]
    /\ config = [g \in Gateways |-> None]
    /\ handler = [c \in Commands |-> NoHandler]
    /\ applied = {}

-------------------------------------------------------------------------------
(********************************* add_user *******************************)

\* try_lock of the edit lock: a command that does not get it gives up.
\* Mutant: the result of try_lock is ignored.
EditUnlocked(a) ==
    /\ pc[a] = "start"
    /\ pc' = [pc EXCEPT ![a] = "editing"] /\ edit_lock' = a
    /\ UNCHANGED <<file, runtime_lock, name, original, server, handler>>
LockEdit(a) ==
    /\ pc[a] = "start"
    /\ IF edit_lock = None THEN edit_lock' = a /\ pc' = [pc EXCEPT ![a] = "editing"]
       ELSE pc' = [pc EXCEPT ![a] = "failed"] /\ UNCHANGED edit_lock
    /\ UNCHANGED <<file, runtime_lock, name, original, server, handler>>

\* The first read: the bytes the new content is made from.
ReadOriginal(a) ==
    /\ pc[a] = "editing"
    /\ original' = [original EXCEPT ![a] = file]
    /\ pc' = [pc EXCEPT ![a] = "read"]
    /\ UNCHANGED <<file, edit_lock, runtime_lock, name, server, handler>>

\* The edit lock is dropped with the error, or at the end of add_user.
Unlock(a) == edit_lock' = IF edit_lock = a THEN None ELSE edit_lock

Taken(content, a) == \E u \in content.users : name[u] = name[a]

\* The second read (GatewayConfig::load) and the checks on both.
Prepare(a) ==
    /\ pc[a] = "read"
    /\ IF file.valid /\ ~Taken(file, a) /\ original[a].valid /\ ~Taken(original[a], a)
       THEN pc' = [pc EXCEPT ![a] = "prepared"] /\ UNCHANGED edit_lock
       ELSE pc' = [pc EXCEPT ![a] = "failed"] /\ Unlock(a)
    /\ UNCHANGED <<file, runtime_lock, name, original, server, handler>>

\* replace_config up to its comparison with the file.
Compare(a) ==
    /\ pc[a] = "prepared"
    /\ IF file = original[a]
       THEN pc' = [pc EXCEPT ![a] = "compared"] /\ UNCHANGED edit_lock
       ELSE pc' = [pc EXCEPT ![a] = "failed"] /\ Unlock(a)
    /\ UNCHANGED <<file, runtime_lock, name, original, server, handler>>

\* The rename over the file; add_user returns.
Replace(a) ==
    /\ pc[a] = "compared"
    /\ file' = [original[a] EXCEPT !.users = @ \cup {a}]
    /\ pc' = [pc EXCEPT ![a] = "saved"] /\ Unlock(a)
    /\ UNCHANGED <<runtime_lock, name, original, server, handler>>

-------------------------------------------------------------------------------
(********************************** reload ********************************)

\* The runtime lock tells whether a gateway runs: free, it is taken for a moment.
ProbeLock(c) ==
    /\ pc[c] = "saved"
    /\ IF runtime_lock = None
       THEN runtime_lock' = c /\ pc' = [pc EXCEPT ![c] = "probing"]
       ELSE pc' = [pc EXCEPT ![c] = "connecting"] /\ UNCHANGED runtime_lock
    /\ UNCHANGED <<files, name, server, handler>>

ProbeReturns(c) ==
    /\ pc[c] = "probing"
    /\ runtime_lock' = None
    /\ pc' = [pc EXCEPT ![c] = "next_start"]
    /\ UNCHANGED <<files, name, server, handler>>

\* connect succeeds and the request is sent; while nobody listens it is tried again.
Connect(c) ==
    /\ pc[c] = "connecting" /\ endpoint # None /\ gateway[endpoint] = "serving"
    /\ handler' = [handler EXCEPT ![c] = [pc |-> "accepted", gateway |-> endpoint, config |-> None]]
    /\ pc' = [pc EXCEPT ![c] = "waiting"]
    /\ UNCHANGED <<files, runtime_lock, name, server>>

\* CONTROL_TIMEOUT; the handler of a request that was sent goes on.
\* Mutant: only the exchange is timed, not the attempts to connect.
TimeOutWaiting(c) ==
    /\ pc[c] = "waiting"
    /\ pc' = [pc EXCEPT ![c] = "unconfirmed"]
    /\ UNCHANGED <<files, runtime_lock, name, server, handler>>
TimeOut(c) ==
    /\ pc[c] \in {"connecting", "waiting"}
    /\ pc' = [pc EXCEPT ![c] = "unconfirmed"]
    /\ UNCHANGED <<files, runtime_lock, name, server, handler>>

\* The response arrives.
Response(c) ==
    /\ pc[c] = "waiting" /\ handler[c].pc \in {"ok", "error"}
    /\ pc' = [pc EXCEPT ![c] = IF handler[c].pc = "ok" THEN "effective" ELSE "refused"]
    /\ handler' = [handler EXCEPT ![c] = NoHandler]
    /\ UNCHANGED <<files, runtime_lock, name, server>>

\* The control connection is lost with the gateway.
ResponseLost(c) ==
    /\ pc[c] = "waiting" /\ handler[c] = NoHandler
    /\ pc' = [pc EXCEPT ![c] = "unconfirmed"]
    /\ UNCHANGED <<files, runtime_lock, name, server, handler>>

\* A command is killed: the system releases its locks.
Killed(c) ==
    /\ ~Ended(c)
    /\ pc' = [pc EXCEPT ![c] = "killed"]
    /\ Unlock(c)
    /\ runtime_lock' = IF runtime_lock = c THEN None ELSE runtime_lock
    /\ UNCHANGED <<file, original, name, server, handler>>

-------------------------------------------------------------------------------
(********************************** handle ********************************)

\* GatewayConfig::load, before the registry is locked.
HandlerLoads(c) ==
    /\ handler[c].pc = "accepted"
    /\ handler' = [handler EXCEPT ![c].config = file,
                                  ![c].pc = IF file.valid THEN "loaded" ELSE "error"]
    /\ UNCHANGED <<files, runtime_lock, name, pc, server>>

\* AppState::reload under the lock of the registry: a changed listen is refused.
HandlerApplies(c) ==
    /\ handler[c].pc = "loaded"
    /\ LET g == handler[c].gateway
           new == handler[c].config
       IN IF new.listen = config[g].listen
          THEN /\ config' = [config EXCEPT ![g] = new]
               /\ applied' = applied \cup new.users
               /\ handler' = [handler EXCEPT ![c].pc = "ok"]
          ELSE /\ handler' = [handler EXCEPT ![c].pc = "error"]
               /\ UNCHANGED <<config, applied>>
    /\ UNCHANGED <<files, runtime_lock, name, pc, gateway, endpoint>>

-------------------------------------------------------------------------------
(********************************* Gateway ********************************)

\* GatewayConfig::load of main.
Load(g) ==
    /\ gateway[g] = "new"
    /\ gateway' = [gateway EXCEPT ![g] = IF file.valid THEN "loaded" ELSE "ended"]
    /\ config' = [config EXCEPT ![g] = file]
    /\ UNCHANGED <<files, runtime_lock, name, pc, endpoint, handler, applied>>

\* serve: the runtime lock.
\* Mutant: the result of try_lock is ignored.
ServeUnlocked(g) ==
    /\ gateway[g] = "loaded"
    /\ runtime_lock' = g /\ gateway' = [gateway EXCEPT ![g] = "locked"]
    /\ UNCHANGED <<files, name, pc, endpoint, config, handler, applied>>
ServeLock(g) ==
    /\ gateway[g] = "loaded"
    /\ IF runtime_lock = None
       THEN runtime_lock' = g /\ gateway' = [gateway EXCEPT ![g] = "locked"]
       ELSE gateway' = [gateway EXCEPT ![g] = "refused"] /\ UNCHANGED runtime_lock
    /\ UNCHANGED <<files, name, pc, endpoint, config, handler, applied>>

\* serve: the socket left by an earlier gateway is removed, a new one is bound.
RemoveEndpoint(g) ==
    /\ gateway[g] = "locked" /\ endpoint # None
    /\ endpoint' = None
    /\ UNCHANGED <<files, runtime_lock, name, pc, gateway, config, handler, applied>>
BindEndpoint(g) ==
    /\ gateway[g] = "locked" /\ endpoint = None
    /\ endpoint' = g /\ gateway' = [gateway EXCEPT ![g] = "serving"]
    /\ applied' = applied \cup config[g].users
    /\ UNCHANGED <<files, runtime_lock, name, pc, config, handler>>

\* The gateway exits or is killed: its lock is released, its handlers and their
\* connections are gone, its socket file stays.
Exit(g) ==
    /\ gateway[g] \in {"loaded", "locked", "serving"}
    /\ gateway' = [gateway EXCEPT ![g] = "ended"]
    /\ runtime_lock' = IF runtime_lock = g THEN None ELSE runtime_lock
    /\ handler' = [c \in Commands |-> IF handler[c].gateway = g THEN NoHandler ELSE handler[c]]
    /\ UNCHANGED <<files, name, pc, endpoint, config, applied>>

-------------------------------------------------------------------------------
\* Another program saves the file.
Edit ==
    /\ file.edit < MaxEdits
    /\ \E v \in BOOLEAN, l \in {"old", "new"} :
          file' = [file EXCEPT !.edit = @ + 1, !.valid = v, !.listen = l]
    /\ UNCHANGED <<edit_lock, runtime_lock, name, pc, original, server, handler>>

AddStep(a) == LockEdit(a) \/ ReadOriginal(a) \/ Prepare(a) \/ Compare(a) \/ Replace(a)
ReloadStep(c) == ProbeLock(c) \/ ProbeReturns(c) \/ Connect(c) \/ Response(c) \/ ResponseLost(c)
CommandStep(c) == (c \in Adders /\ AddStep(c)) \/ ReloadStep(c)
HandlerStep(c) == HandlerLoads(c) \/ HandlerApplies(c)
GatewayStep(g) == Load(g) \/ ServeLock(g) \/ RemoveEndpoint(g) \/ BindEndpoint(g)

Next ==
    \/ \E a \in Adders : AddStep(a)
    \/ \E c \in Commands : ReloadStep(c) \/ TimeOut(c) \/ Killed(c) \/ HandlerStep(c)
    \/ \E g \in Gateways : GatewayStep(g) \/ Exit(g)
    \/ Edit

Spec == Init /\ [][Next]_vars

-------------------------------------------------------------------------------
(******************************* Properties *******************************)

TypeOK ==
    /\ file \in Contents
    /\ edit_lock \in Adders \cup {None}
    /\ runtime_lock \in Commands \cup Gateways \cup {None}
    /\ endpoint \in Gateways \cup {None}
    /\ name \in [Adders -> Names]
    /\ pc \in [Commands -> Reports \cup {"start", "editing", "read", "prepared", "compared",
                                         "saved", "probing", "connecting", "waiting"}]
    /\ original \in [Adders -> Contents \cup {None}]
    /\ gateway \in [Gateways -> {"new", "loaded", "locked", "serving", "refused", "ended"}]
    /\ config \in [Gateways -> Contents \cup {None}]
    /\ handler \in [Commands -> [pc : {"none", "accepted", "loaded", "ok", "error"},
                                 gateway : Gateways \cup {None}, config : Contents \cup {None}]]
    /\ applied \subseteq Adders

\* No adduser undoes another: whoever got past its rename finds its user in the file,
\* however the commands interleave, fail and are killed.
Saved(a) == pc[a] \in {"saved", "probing", "connecting", "waiting", "effective", "next_start",
                       "refused", "unconfirmed"}
NoUserLost == \A a \in Adders : Saved(a) => a \in file.users

\* Users in the file have names of their own.
NamesUnique == \A u, v \in file.users : name[u] = name[v] => u = v

\* A user reported effective was part of a configuration that a gateway put in force.
EffectiveWasApplied == \A a \in Adders : pc[a] = "effective" => a \in applied

\* What a command says of its user holds: saved users stay in the file under names of
\* their own, and effective ones were in force.
UsersKept == NoUserLost /\ NamesUnique /\ EffectiveWasApplied

\* One gateway serves, holds the lock and can be reached at the control socket: a
\* second one never takes the socket of the first away.
EndpointOwned ==
    \A g \in Gateways : gateway[g] = "serving" => runtime_lock = g /\ endpoint = g

\* A command that has not ended can go on by itself or its timer can fire, whatever
\* happened to gateways and other commands; no step of a command is taken twice, so
\* every command ends.
NoCommandStuck == \A c \in Commands : ~Ended(c) => ENABLED (CommandStep(c) \/ TimeOut(c))

-------------------------------------------------------------------------------
(*************************** What the code says ***************************)

\* "the file was modified by another program and was not overwritten": no edit is
\* undone by an adduser.
ExternalEditKept == [][file'.edit >= file.edit]_vars

\* "added, in effect": while a gateway serves, its configuration has the user.
EffectiveMeansServed ==
    \A a \in Adders, g \in Gateways :
        pc[a] = "effective" /\ gateway[g] = "serving" => a \in config[g].users

\* "gateway not running, in effect at its next start": a gateway that serves later
\* has the user.
NextStartEffective ==
    \A a \in Adders, g \in Gateways :
        pc[a] = "next_start" /\ gateway[g] = "serving" => a \in config[g].users

\* "a gateway is already running with this configuration" is only said when one is.
RefusedOnlyByGateway ==
    [][\A g \in Gateways :
          gateway[g] = "loaded" /\ gateway'[g] = "refused" => runtime_lock \in Gateways]_vars
================================================================================
