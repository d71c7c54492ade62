-------------------------- MODULE AccessReload_proofs --------------------------
(***************************************************************************)
(* Proofs about AccessReload for every set of addresses, configurations and *)
(* saves. The invariant says which sockets a phase may hold (a prefix of    *)
(* the addresses being bound, without repetition), that nothing listens     *)
(* while sockets are bound, that a configuration in force was bound once,   *)
(* and what the modification time tells about the file.                    *)
(***************************************************************************)
EXTENDS AccessReload, TLAPS

\* The sockets bound so far are a beginning of what is being bound, all different.
Sockets == /\ ~Binding => bound = <<>>
           /\ Len(bound) <= Len(Target.ports)
           /\ \A i \in DOMAIN bound : bound[i] = Target.ports[i]
           /\ \A i, j \in DOMAIN bound : i # j => bound[i] # bound[j]

\* Listeners and connections, in the phases without and with them.
Quiet == pc \in {"loading", "binding", "rebinding", "restoring", "exited"} =>
             listening = {} /\ pool = Stopped
Serving == \/ listening = {} /\ pool = Stopped
           \/ listening \subseteq PortsOf(config) /\ pool = config.gateway

\* A configuration in force has been bound, so its addresses differ; a
\* configuration that replaces it was loaded.
InForce == pc \notin {"loading", "binding", "exited"} =>
               \A i, j \in DOMAIN config.ports : i # j => config.ports[i] # config.ports[j]
Loaded == pc \in {"stopping", "rebinding", "restoring"} => next.valid

\* The watcher's time is not ahead of the file; a time that is the file's means that
\* what was loaded since is the file's content.
Times == /\ last_modified <= file.modified \/ last_modified = Unread
         /\ pc \in {"stopping", "rebinding"} /\ last_modified = file.modified => next = file.config

IInv == /\ TypeOK /\ Sockets /\ Quiet /\ Serving /\ InForce /\ Loaded /\ Times
        /\ SavedIsApplied

LEMMA InitIInv == Init => IInv
<1> SUFFICES ASSUME Init PROVE IInv
  OBVIOUS
<1>1. TypeOK
  BY ConfigsAssumption DEF Init, TypeOK, Unread, Stopped
<1>2. Sockets
  BY ConfigsAssumption DEF Init, Sockets, Binding, Target
<1> QED
  BY <1>1, <1>2 DEF IInv, Init, Quiet, Serving, InForce, Loaded, Times, SavedIsApplied

\* What the environment does to the file and to the addresses of others.
LEMMA EnvironmentIInv == IInv /\ Environment => IInv'
<1> SUFFICES ASSUME IInv, Environment PROVE IInv'
  OBVIOUS
<1>1. CASE Save
  <2>1. PICK c \in Configs : file' = [config |-> c, modified |-> file.modified + 1]
    BY <1>1 DEF Save
  <2>2. /\ file.modified \in 0..MaxSaves /\ file.modified < MaxSaves
        /\ UNCHANGED <<taken, pc, config, next, bound, listening, pool, last_modified,
                       watched, outcome>>
    BY <1>1 DEF Save, watch, IInv, TypeOK
  <2>3. /\ file'.modified = file.modified + 1 /\ file'.config = c
        /\ file' \in [config : Configs, modified : 0..MaxSaves]
    BY <2>1, <2>2, ConfigsAssumption
  <2>4. last_modified # file'.modified /\ (last_modified <= file'.modified \/ last_modified = Unread)
    BY <2>2, <2>3, ConfigsAssumption DEF IInv, Times, Unread, TypeOK
  <2>5. TypeOK'
    BY <2>2, <2>3 DEF IInv, TypeOK
  <2>6. Sockets' /\ Quiet' /\ Serving' /\ InForce' /\ Loaded'
    BY <2>2 DEF IInv, Sockets, Quiet, Serving, InForce, Loaded, Binding, Target, PortsOf
  <2>7. Times' /\ SavedIsApplied'
    BY <2>2, <2>4 DEF Times, SavedIsApplied, Unread
  <2> QED BY <2>5, <2>6, <2>7 DEF IInv
<1>2. CASE OtherBinds \/ OtherReleases
  <2>1. /\ taken' \subseteq Ports
        /\ UNCHANGED <<file, pc, config, next, bound, listening, pool, last_modified,
                       watched, outcome>>
    BY <1>2 DEF OtherBinds, OtherReleases, watch, IInv, TypeOK
  <2> QED BY <2>1 DEF IInv, TypeOK, Sockets, Quiet, Serving, InForce, Loaded, Times,
                      SavedIsApplied, Binding, Target, PortsOf
<1>3. CASE AcceptFails
  <2>1. /\ listening' \subseteq listening /\ listening # {}
        /\ UNCHANGED <<file, taken, pc, config, next, bound, pool, last_modified,
                       watched, outcome>>
    BY <1>3 DEF AcceptFails, environment, watch
  <2> QED BY <2>1 DEF IInv, TypeOK, Sockets, Quiet, Serving, InForce, Loaded, Times,
                      SavedIsApplied, Binding, Target, PortsOf
<1> QED BY <1>1, <1>2, <1>3 DEF Environment

\* Start, binding and what follows it.
LEMMA MainIInv == IInv /\ Main => IInv'
<1> SUFFICES ASSUME IInv, Main PROVE IInv'
  OBVIOUS
<1>c. /\ config \in Configs /\ next \in Configs /\ file.config \in Configs
      /\ file.modified \in 0..MaxSaves /\ last_modified \in 0..Unread
      /\ \A c \in Configs : c.ports \in Seq(Ports) /\ c.valid \in BOOLEAN
      /\ MaxSaves \in Nat
  BY ConfigsAssumption DEF IInv, TypeOK
<1>1. CASE StartLoad
  <2>1. /\ pc = "loading" /\ next' = file.config /\ pc' \in {"binding", "exited"}
        /\ bound = <<>> /\ listening = {} /\ pool = Stopped
        /\ UNCHANGED <<file, taken, config, bound, listening, pool, last_modified, watched, outcome>>
    BY <1>1 DEF StartLoad, environment, watch, IInv, Sockets, Quiet, Binding
  <2>2. Sockets'
    BY <1>c, <2>1 DEF Sockets, Binding, Target
  <2> QED BY <1>c, <2>1, <2>2 DEF IInv, TypeOK, Quiet, Serving, InForce, Loaded, Times, SavedIsApplied
<1>2. CASE BindOne
  <2>1. /\ Binding /\ Len(bound) < Len(Target.ports)
        /\ Candidate \notin {bound[i] : i \in DOMAIN bound}
        /\ bound' = Append(bound, Candidate)
        /\ UNCHANGED <<file, taken, pc, config, next, listening, pool, last_modified, watched, outcome>>
    BY <1>2 DEF BindOne, environment, watch, Remaining, OurPorts
  <2>2. Target' = Target /\ Binding' = Binding
    BY <2>1 DEF Target, Binding
  <2>3. Target \in Configs /\ Target.ports \in Seq(Ports) /\ bound \in Seq(Ports)
    BY <1>c DEF Target, IInv, TypeOK
  <2>4. Candidate \in Ports /\ bound' \in Seq(Ports)
    BY <2>1, <2>3 DEF Candidate
  <2>5. Sockets'
    BY <2>1, <2>2, <2>3, <2>4 DEF IInv, Sockets, Candidate
  <2> QED BY <2>1, <2>4, <2>5 DEF IInv, TypeOK, Quiet, Serving, InForce, Loaded, Times,
                                  SavedIsApplied, PortsOf
<1>3. CASE BindFails
  <2>1. /\ Binding /\ bound' = <<>>
        /\ \/ pc = "binding" /\ pc' = "exited" /\ outcome' = outcome
           \/ pc = "rebinding" /\ pc' = "restoring" /\ outcome' = outcome
           \/ pc = "restoring" /\ pc' = "watching" /\ outcome' = "down"
        /\ UNCHANGED <<file, taken, config, next, listening, pool, last_modified, watched>>
    BY <1>3 DEF BindFails, environment, watch, Binding
  <2>2. Sockets'
    BY <1>c, <2>1 DEF Sockets, Target
  <2>3. TypeOK'
    BY <2>1 DEF IInv, TypeOK
  <2> QED BY <2>1, <2>2, <2>3 DEF IInv, Quiet, Serving, InForce, Loaded, Times, SavedIsApplied, PortsOf
<1>4. CASE StartAll
  <2>1. /\ Binding /\ ~(Len(bound) < Len(Target.ports))
        /\ listening' = PortsOf(Target) /\ bound' = <<>>
        /\ pool' = Target.gateway /\ config' = Target
        /\ pc' = IF pc = "binding" THEN "starting" ELSE "watching"
        /\ outcome' = IF pc = "restoring" THEN "restored" ELSE "applied"
        /\ UNCHANGED <<file, taken, next, last_modified, watched>>
    BY <1>4 DEF StartAll, environment, watch, Remaining
  <2>2. Target \in Configs /\ Target.ports \in Seq(Ports) /\ bound \in Seq(Ports)
    BY <1>c DEF Target, IInv, TypeOK
  <2>3. \A i, j \in DOMAIN config'.ports : i # j => config'.ports[i] # config'.ports[j]
    BY <2>1, <2>2 DEF IInv, Sockets
  <2>4. listening' \subseteq Ports
    BY <2>1, <2>2 DEF PortsOf
  <2>5. TypeOK'
    BY <2>1, <2>2, <2>4 DEF IInv, TypeOK
  <2>6. Sockets'
    BY <1>c, <2>1, <2>2 DEF Sockets, Binding, Target
  <2>7. Serving' /\ Quiet' /\ InForce' /\ Loaded'
    BY <2>1, <2>3 DEF Serving, Quiet, InForce, Loaded, PortsOf
  <2>8. Times'
    BY <2>1 DEF IInv, Times
  <2>9. SavedIsApplied'
    BY <2>1 DEF IInv, Times, SavedIsApplied, Target, Binding
  <2> QED BY <2>5, <2>6, <2>7, <2>8, <2>9 DEF IInv
<1>5. CASE WatcherStarts
  <2>1. /\ pc = "starting" /\ pc' = "watching" /\ bound = <<>> /\ watched' = file.modified
        /\ last_modified' \in {file.modified, Unread}
        /\ UNCHANGED <<file, taken, config, next, bound, listening, pool, outcome>>
    BY <1>5 DEF WatcherStarts, environment, IInv, Sockets, Binding
  <2>2. last_modified' \in 0..Unread /\ watched' \in 0..MaxSaves
    BY <1>c, <2>1 DEF Unread
  <2>3. Sockets'
    BY <1>c, <2>1 DEF Sockets, Binding, Target
  <2>4. Times' /\ SavedIsApplied'
    BY <1>c, <2>1 DEF Times, SavedIsApplied, Unread
  <2> QED BY <2>1, <2>2, <2>3, <2>4 DEF IInv, TypeOK, Quiet, Serving, InForce, Loaded, PortsOf
<1> QED BY <1>1, <1>2, <1>3, <1>4, <1>5 DEF Main

\* The watcher up to the point where everything is stopped.
LEMMA WatcherIInv == IInv /\ Watcher => IInv'
<1> SUFFICES ASSUME IInv, Watcher PROVE IInv'
  OBVIOUS
<1>c. /\ config \in Configs /\ next \in Configs /\ file.config \in Configs
      /\ file.modified \in 0..MaxSaves /\ last_modified \in 0..Unread
      /\ \A c \in Configs : c.ports \in Seq(Ports) /\ c.valid \in BOOLEAN
      /\ MaxSaves \in Nat
  BY ConfigsAssumption DEF IInv, TypeOK
<1>1. CASE Tick
  <2>1. /\ pc = "watching" /\ pc' = "debouncing" /\ last_modified' = file.modified
        /\ UNCHANGED <<file, taken, config, next, bound, listening, pool, watched, outcome>>
    BY <1>1 DEF Tick, environment
  <2>2. last_modified' \in 0..Unread
    BY <1>c, <2>1 DEF Unread
  <2> QED BY <1>c, <2>1, <2>2 DEF IInv, TypeOK, Sockets, Quiet, Serving, InForce, Loaded, Times,
                             SavedIsApplied, Binding, Target, PortsOf
<1>2. CASE Load
  <2>1. /\ pc = "debouncing" /\ next' = file.config
        /\ \/ file.config.valid /\ pc' = "stopping" /\ outcome' = outcome
           \/ pc' = "watching" /\ outcome' = "rejected"
        /\ UNCHANGED <<file, taken, config, bound, listening, pool, last_modified, watched>>
        /\ bound = <<>>
    BY <1>2 DEF Load, environment, watch, IInv, Sockets, Binding
  <2>2. Sockets'
    BY <1>c, <2>1 DEF Sockets, Binding, Target
  <2>3. TypeOK'
    BY <1>c, <2>1 DEF IInv, TypeOK
  <2> QED BY <2>1, <2>2, <2>3 DEF IInv, Quiet, Serving, InForce, Loaded, Times,
                                  SavedIsApplied, PortsOf
<1>3. CASE StopAll
  <2>1. /\ pc = "stopping" /\ pc' = "rebinding" /\ listening' = {} /\ pool' = Stopped
        /\ UNCHANGED <<file, taken, config, next, bound, last_modified, watched, outcome>>
        /\ bound = <<>>
    BY <1>3 DEF StopAll, environment, watch, IInv, Sockets, Binding
  <2>2. Sockets'
    BY <1>c, <2>1 DEF Sockets, Binding, Target
  <2>3. TypeOK'
    BY <2>1 DEF IInv, TypeOK
  <2> QED BY <2>1, <2>2, <2>3 DEF IInv, Quiet, Serving, InForce, Loaded, Times, SavedIsApplied
<1> QED BY <1>1, <1>2, <1>3 DEF Watcher

LEMMA NextIInv == IInv /\ [Next]_vars => IInv'
<1> SUFFICES ASSUME IInv, [Next]_vars PROVE IInv'
  OBVIOUS
<1>1. CASE UNCHANGED vars
  BY <1>1 DEF vars, IInv, TypeOK, Sockets, Quiet, Serving, InForce, Loaded, Times,
              SavedIsApplied, Binding, Target, PortsOf
<1> QED BY <1>1, EnvironmentIInv, MainIInv, WatcherIInv DEF Next

\* The invariant holds in every state of a running access.
THEOREM Invariance == Spec => []IInv
  BY InitIInv, NextIInv, PTL DEF Spec

\* The variables keep their types.
THEOREM TypeCorrect == Spec => []TypeOK
<1>1. IInv => TypeOK
  BY DEF IInv
<1> QED BY <1>1, Invariance, PTL

\* However reloads and restorations end, listeners run for the configuration in force,
\* with its connections, and no socket of a failed attempt stays bound.
THEOREM ServesOneConfigHolds == Spec => []ServesOneConfig
<1>1. IInv => ServesOneConfig
  BY DEF IInv, ServesOneConfig, Quiet, Serving, Sockets
<1> QED BY <1>1, Invariance, PTL

\* What is saved once the watcher runs is applied unless a failure is reported.
THEOREM SavedIsAppliedHolds == Spec => []SavedIsApplied
<1>1. IInv => SavedIsApplied
  BY DEF IInv
<1> QED BY <1>1, Invariance, PTL

\* A restoration fails only for an address that another process has taken.
THEOREM RestoresUnlessTakenHolds == Spec => RestoresUnlessTaken
<1>1. IInv /\ [Next]_vars =>
        [outcome' = "down" /\ outcome # "down" => taken \cap PortsOf(config) # {}]_vars
  <2> SUFFICES ASSUME IInv, Next, outcome' = "down", outcome # "down"
               PROVE  taken \cap PortsOf(config) # {}
    OBVIOUS
  <2>1. BindFails
    BY DEF Next, Main, Watcher, Environment, Save, OtherBinds, OtherReleases, AcceptFails,
           StartLoad, BindOne, StartAll, WatcherStarts, Tick, Load, StopAll
  <2>2. pc = "restoring" /\ Target = config /\ Len(bound) < Len(config.ports)
    BY <2>1 DEF BindFails, Binding, Remaining, Target
  <2>3. /\ listening = {} /\ bound \in Seq(Ports) /\ config.ports \in Seq(Ports)
        /\ Candidate = config.ports[Len(bound) + 1]
    BY <2>2, ConfigsAssumption DEF IInv, Quiet, TypeOK, Candidate
  <2>4. \A i \in DOMAIN bound : bound[i] = config.ports[i]
    BY <2>2 DEF IInv, Sockets
  <2>5. \A i, j \in DOMAIN config.ports : i # j => config.ports[i] # config.ports[j]
    BY <2>2 DEF IInv, InForce
  <2>6. Candidate \notin {bound[i] : i \in DOMAIN bound}
    BY <2>2, <2>3, <2>4, <2>5
  <2>7. Candidate \in taken
    BY <2>1, <2>3, <2>6 DEF BindFails, OurPorts
  <2>8. Candidate \in PortsOf(config)
    BY <2>2, <2>3 DEF PortsOf
  <2> QED BY <2>7, <2>8
<1> QED BY <1>1, Invariance, PTL DEF Spec, RestoresUnlessTaken

\* Nothing is stopped for a configuration that could not be loaded.
THEOREM InvalidChangesNothingHolds == Spec => InvalidChangesNothing
<1>1. IInv /\ [Next]_vars => [pool' = Stopped /\ pool # Stopped => next.valid]_vars
  <2> SUFFICES ASSUME IInv, Next, pool' = Stopped, pool # Stopped PROVE next.valid
    OBVIOUS
  <2>1. StopAll \/ StartAll
    BY DEF Next, Main, Watcher, Environment, Save, OtherBinds, OtherReleases, AcceptFails,
           StartLoad, BindOne, BindFails, WatcherStarts, Tick, Load
  <2>2. CASE StopAll
    BY <2>2 DEF StopAll, IInv, Loaded
  <2>3. CASE StartAll
    BY <2>3 DEF StartAll, Binding, IInv, Quiet
  <2> QED BY <2>1, <2>2, <2>3
<1> QED BY <1>1, Invariance, PTL DEF Spec, InvalidChangesNothing
================================================================================
