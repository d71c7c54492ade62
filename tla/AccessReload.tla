------------------------------ MODULE AccessReload ------------------------------
(***************************************************************************)
(* The configuration of a running access: the start of the process          *)
(* (ws-net-access/src/main.rs), the watcher of the file and the replacement *)
(* of listeners and connections (config_reload.rs, listeners.rs).           *)
(*                                                                         *)
(* A configuration is its listen addresses in binding order, the gateway    *)
(* its pool connects to, and whether loading and preparing it succeed.      *)
(* Other processes take and release addresses at any time, and the file is  *)
(* saved at any time.                                                      *)
(***************************************************************************)
EXTENDS Naturals, Sequences

CONSTANTS Ports,     \* addresses
          Configs,   \* records [ports: Seq(Ports), gateway, valid: BOOLEAN]
          Initial,   \* the configuration in the file when the process starts
          MaxSaves   \* bound on the modification time of the file

ASSUME ConfigsAssumption ==
    /\ \A c \in Configs : c.ports \in Seq(Ports) /\ c.valid \in BOOLEAN
    /\ Initial \in Configs /\ MaxSaves \in Nat

VARIABLES file,      \* its content and modification time
          taken,     \* addresses held by other processes
          pc,        \* of the process: main, then the watcher
          config,    \* current_config
          next,      \* the configuration being loaded or applied
          bound,     \* sockets bound so far by PreparedListeners::bind
          listening, \* addresses with a listener task
          pool,      \* the gateway of the running connections, or "stopped"
          last_modified, \* what the watcher compares with
          watched,   \* history: modification time at the start of the watcher
          outcome    \* of the last load or reload, as it is logged

vars == <<file, taken, pc, config, next, bound, listening, pool, last_modified, watched, outcome>>
environment == <<file, taken>>
watch == <<last_modified, watched>>

Stopped == "stopped"
Unread == MaxSaves + 1   \* no modification time was read
PortsOf(c) == {c.ports[i] : i \in DOMAIN c.ports}

Init ==
    /\ file = [config |-> Initial, modified |-> 0]
    /\ taken = {}
    /\ pc = "loading"
    /\ config = Initial /\ next = Initial
    /\ bound = <<>> /\ listening = {} /\ pool = Stopped
    /\ last_modified = 0 /\ watched = 0
    /\ outcome = "none"

-------------------------------------------------------------------------------
(******************************* Environment ******************************)

Save ==
    /\ file.modified < MaxSaves
    /\ \E c \in Configs : file' = [config |-> c, modified |-> file.modified + 1]
    /\ UNCHANGED <<taken, pc, config, next, bound, listening, pool, watch, outcome>>

OurPorts == listening \cup {bound[i] : i \in DOMAIN bound}

OtherBinds ==
    /\ \E p \in Ports \ (OurPorts \cup taken) : taken' = taken \cup {p}
    /\ UNCHANGED <<file, pc, config, next, bound, listening, pool, watch, outcome>>

OtherReleases ==
    /\ \E p \in taken : taken' = taken \ {p}
    /\ UNCHANGED <<file, pc, config, next, bound, listening, pool, watch, outcome>>

\* accept fails: the task of one listener ends.
AcceptFails ==
    /\ \E p \in listening : listening' = listening \ {p}
    /\ UNCHANGED <<environment, pc, config, next, bound, pool, watch, outcome>>

-------------------------------------------------------------------------------
(********************************** Start *********************************)

\* AccessConfig::load of main; an error ends the process.
StartLoad ==
    /\ pc = "loading"
    /\ next' = file.config
    /\ pc' = IF file.config.valid THEN "binding" ELSE "exited"
    /\ UNCHANGED <<environment, config, bound, listening, pool, watch, outcome>>

-------------------------------------------------------------------------------
(********************************* Binding ********************************)

Target == IF pc = "restoring" THEN config ELSE next
Binding == pc \in {"binding", "rebinding", "restoring"}
Remaining == Len(bound) < Len(Target.ports)
Candidate == Target.ports[Len(bound) + 1]

\* One TcpListener::bind of PreparedListeners::bind.
BindOne ==
    /\ Binding /\ Remaining
    /\ Candidate \notin taken \cup OurPorts
    /\ bound' = Append(bound, Candidate)
    /\ UNCHANGED <<environment, pc, config, next, listening, pool, watch, outcome>>

\* A bind fails and the sockets bound before it are dropped: main exits, a reload
\* restores the previous configuration, a restoration gives up.
BindFails ==
    /\ Binding /\ Remaining
    /\ Candidate \in taken \cup OurPorts
    /\ bound' = <<>>
    /\ pc' = CASE pc = "binding" -> "exited"
               [] pc = "rebinding" -> "restoring"
               [] pc = "restoring" -> "watching"
    /\ outcome' = IF pc = "restoring" THEN "down" ELSE outcome
    /\ UNCHANGED <<environment, config, next, listening, pool, watch>>

\* Every socket is bound: connect the pool and start the listeners.
\* Mutant: a reload that failed keeps the connections of the new configuration.
StartAllWithNextPool ==
    /\ Binding /\ ~Remaining
    /\ listening' = PortsOf(Target) /\ bound' = <<>>
    /\ pool' = next.gateway /\ config' = Target
    /\ pc' = IF pc = "binding" THEN "starting" ELSE "watching"
    /\ outcome' = IF pc = "restoring" THEN "restored" ELSE "applied"
    /\ UNCHANGED <<environment, next, watch>>
\* Mutant: current_config is not replaced.
StartAllKeepingConfig ==
    /\ Binding /\ ~Remaining
    /\ listening' = PortsOf(Target) /\ bound' = <<>>
    /\ pool' = Target.gateway /\ UNCHANGED config
    /\ pc' = IF pc = "binding" THEN "starting" ELSE "watching"
    /\ outcome' = IF pc = "restoring" THEN "restored" ELSE "applied"
    /\ UNCHANGED <<environment, next, watch>>
StartAll ==
    /\ Binding /\ ~Remaining
    /\ listening' = PortsOf(Target) /\ bound' = <<>>
    /\ pool' = Target.gateway /\ config' = Target
    /\ pc' = IF pc = "binding" THEN "starting" ELSE "watching"
    /\ outcome' = IF pc = "restoring" THEN "restored" ELSE "applied"
    /\ UNCHANGED <<environment, next, watch>>

-------------------------------------------------------------------------------
(********************************* Watcher ********************************)

\* watch_access_config reads the modification time for the first time; a read that
\* fails counts as another time.
WatcherStarts ==
    /\ pc = "starting"
    /\ last_modified' \in {file.modified, Unread}
    /\ watched' = file.modified
    /\ pc' = "watching"
    /\ UNCHANGED <<environment, config, next, bound, listening, pool, outcome>>

\* A tick finds another modification time; the debounce begins.
\* Mutant: the time is taken over only when the reload is over.
TickKeepingTime ==
    /\ pc = "watching" /\ file.modified # last_modified
    /\ pc' = "debouncing"
    /\ UNCHANGED <<environment, config, next, bound, listening, pool, watch, outcome>>
Tick ==
    /\ pc = "watching" /\ file.modified # last_modified
    /\ last_modified' = file.modified
    /\ pc' = "debouncing"
    /\ UNCHANGED <<environment, config, next, bound, listening, pool, watched, outcome>>

\* reload_access_config up to the identities: an error leaves everything as it is.
Load ==
    /\ pc = "debouncing"
    /\ next' = file.config
    /\ IF file.config.valid THEN pc' = "stopping" /\ UNCHANGED outcome
       ELSE pc' = "watching" /\ outcome' = "rejected"
    /\ UNCHANGED <<environment, config, bound, listening, pool, watch>>

\* listeners.stop waits for every task; stop_gateway_connections.
\* Mutant: the old listeners are stopped after the new ones are bound.
KeepListening ==
    /\ pc = "stopping"
    /\ pool' = Stopped
    /\ pc' = "rebinding"
    /\ UNCHANGED <<environment, config, next, bound, listening, watch, outcome>>
StopAll ==
    /\ pc = "stopping"
    /\ listening' = {} /\ pool' = Stopped
    /\ pc' = "rebinding"
    /\ UNCHANGED <<environment, config, next, bound, watch, outcome>>

-------------------------------------------------------------------------------
Main == StartLoad \/ BindOne \/ BindFails \/ StartAll \/ WatcherStarts
Watcher == Tick \/ Load \/ StopAll
Environment == Save \/ OtherBinds \/ OtherReleases \/ AcceptFails

Next == Main \/ Watcher \/ Environment

Spec == Init /\ [][Next]_vars

\* The process runs; nothing is assumed of its environment.
FairSpec == Spec /\ WF_vars(Main \/ Watcher)

-------------------------------------------------------------------------------
(******************************* Properties *******************************)

TypeOK ==
    /\ file \in [config : Configs, modified : 0..MaxSaves]
    /\ taken \subseteq Ports /\ listening \subseteq Ports
    /\ pc \in {"loading", "binding", "starting", "watching", "debouncing", "stopping",
               "rebinding", "restoring", "exited"}
    /\ config \in Configs /\ next \in Configs
    /\ bound \in Seq(Ports)
    /\ pool \in {c.gateway : c \in Configs} \cup {Stopped}
    /\ last_modified \in 0..Unread /\ watched \in 0..MaxSaves
    /\ outcome \in {"none", "applied", "restored", "rejected", "down"}

\* Listeners only run for the configuration in force and with its connections,
\* however a reload or its restoration ended; and no socket of a failed attempt
\* stays bound.
ServesOneConfig ==
    /\ listening # {} => listening \subseteq PortsOf(config) /\ pool = config.gateway
    /\ ~Binding => bound = <<>>
    /\ pc = "watching" => pool = config.gateway \/ (pool = Stopped /\ listening = {})

\* Restoring the previous configuration can only fail when another process has taken
\* one of its addresses: the sockets of the attempt that failed are closed by then.
RestoresUnlessTaken ==
    [][outcome' = "down" /\ outcome # "down" => taken \cap PortsOf(config) # {}]_vars

\* What is saved once the watcher runs is applied, or its failure is reported: with
\* nothing left to notice, an applied outcome means the content of the file.
SavedIsApplied ==
    pc = "watching" /\ last_modified = file.modified /\ file.modified > watched
    /\ outcome = "applied" => config = file.config

\* The same for every save of a valid configuration while the process runs, those
\* between the load of main and the start of the watcher included.
SavedIsAlwaysApplied ==
    pc = "watching" /\ last_modified = file.modified /\ file.config.valid
    /\ outcome = "applied" => config = file.config

\* A configuration that cannot be loaded does not touch listeners or connections:
\* whatever stops them was loaded and is valid.
InvalidChangesNothing == [][pool' = Stopped /\ pool # Stopped => next.valid]_vars

\* Once the file is no longer saved, the watcher comes to rest having seen it.
SettlesOnLastSave ==
    <>[](pc = "exited" \/ (pc = "watching" /\ last_modified = file.modified))
================================================================================
