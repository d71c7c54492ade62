------------------------- MODULE GatewayControl_proofs -------------------------
(***************************************************************************)
(* Proofs about GatewayControl for every number of commands, gateways,      *)
(* names and edits. The invariant says what a holder of a lock may rely on: *)
(* an adduser that edits holds the edit lock, so that the users of the file *)
(* are those it read; a gateway past ServeLock, and a command that probes,  *)
(* holds the runtime lock; and a request of an adduser is only made for a   *)
(* user that is in the file.                                               *)
(***************************************************************************)
EXTENDS GatewayControl, TLAPS

Editing(a) == pc[a] \in {"editing", "read", "prepared", "compared"}

\* Who is past taking a lock holds it.
Locks ==
    /\ \A a \in Adders : Editing(a) => edit_lock = a
    /\ \A c \in Commands : pc[c] = "probing" => runtime_lock = c
    /\ \A g \in Gateways : gateway[g] \in {"locked", "serving"} => runtime_lock = g

\* The users an adduser read are still those of the file, and the name it adds is new.
Originals ==
    \A a \in Adders :
        /\ pc[a] \in {"read", "prepared", "compared"} =>
              original[a] \in Contents /\ original[a].users = file.users
        /\ pc[a] \in {"prepared", "compared"} => \A u \in file.users : name[u] # name[a]

\* A gateway that was started has a configuration.
Configured ==
    \A g \in Gateways : gateway[g] \in {"loaded", "locked", "serving"} => config[g] \in Contents

\* A request is about a user of the file, it loads that user and applies it.
Handled ==
    /\ \A c \in Commands : handler[c].pc = "loaded" => handler[c].config \in Contents
    /\ \A a \in Adders :
          /\ handler[a].pc # "none" => a \in file.users
          /\ handler[a].pc = "loaded" => a \in handler[a].config.users
          /\ handler[a].pc = "ok" => a \in applied

IInv == /\ TypeOK /\ Locks /\ Originals /\ Configured /\ Handled
        /\ NoUserLost /\ NamesUnique /\ EffectiveWasApplied /\ EndpointOwned

LEMMA InitIInv == Init => IInv
<1> SUFFICES ASSUME Init PROVE IInv
  OBVIOUS
<1> USE DEF Init
<1>1. TypeOK
  <2>1. file \in Contents
    BY ControlAssumption DEF Contents
  <2>2. handler \in [Commands -> [pc : {"none", "accepted", "loaded", "ok", "error"},
                                  gateway : Gateways \cup {None}, config : Contents \cup {None}]]
    BY DEF NoHandler
  <2> QED BY <2>1, <2>2 DEF TypeOK, Reports
<1>2. \A c \in Commands : handler[c].pc = "none"
  BY DEF NoHandler
<1>3. \A c \in Commands : pc[c] \in {"start", "saved"} /\ (c \in Adders => pc[c] = "start")
  OBVIOUS
<1>4. \A g \in Gateways : gateway[g] = "new"
  OBVIOUS
<1> QED
  BY <1>1, <1>2, <1>3, <1>4 DEF IInv, Locks, Editing, Originals, Configured, Handled,
     NoUserLost, Saved, NamesUnique, EffectiveWasApplied, EndpointOwned, Commands

-------------------------------------------------------------------------------
\* The steps of adduser: only the holder of the edit lock gets past ReadOriginal.
LEMMA AddIInv == ASSUME IInv, NEW a \in Adders, AddStep(a) PROVE IInv'
<1>c. /\ a \in Commands /\ pc[a] \in Reports \cup {"start", "editing", "read", "prepared",
                             "compared", "saved", "probing", "connecting", "waiting"}
      /\ DOMAIN pc = Commands /\ DOMAIN original = Adders
      /\ \A c \in Adders : c \in Commands
  BY DEF Commands, IInv, TypeOK
<1>1. ASSUME UNCHANGED <<file, original, runtime_lock, name, server, handler>>,
             NEW p \in {"editing", "prepared", "compared", "failed"},
             pc' = [pc EXCEPT ![a] = p],
             pc[a] \in {"start", "read", "prepared"},
             edit_lock' \in Adders \cup {None},
             p # "failed" => edit_lock' = a,
             \A b \in Adders : edit_lock = b /\ b # a => edit_lock' = b,
             p \in {"prepared", "compared"} =>
                 /\ pc[a] \in {"read", "prepared"}
                 /\ \A u \in file.users : name[u] # name[a]
      PROVE  IInv'
  <2>1. TypeOK'
    BY <1>1, <1>c DEF IInv, TypeOK, server, Reports
  <2>2. \A c \in Commands : c # a => pc'[c] = pc[c]
    BY <1>1, <1>c
  <2>3. pc'[a] = p
    BY <1>1, <1>c
  <2>4. Locks'
    BY <1>1, <1>c, <2>2, <2>3 DEF IInv, Locks, Editing, server
  <2>5. Originals'
    BY <1>1, <1>c, <2>2, <2>3 DEF IInv, Originals
  <2>6. Configured' /\ Handled' /\ NamesUnique' /\ EndpointOwned'
    BY <1>1 DEF IInv, Configured, Handled, NamesUnique, EndpointOwned, server
  <2>7. NoUserLost' /\ EffectiveWasApplied'
    BY <1>1, <1>c, <2>2, <2>3 DEF IInv, NoUserLost, Saved, EffectiveWasApplied, server
  <2> QED BY <2>1, <2>4, <2>5, <2>6, <2>7 DEF IInv
<1>2. CASE LockEdit(a)
  <2>1. CASE edit_lock = None
    BY <1>1, <1>2, <2>1, ControlAssumption DEF LockEdit, IInv, TypeOK
  <2>2. CASE edit_lock # None
    BY <1>1, <1>2, <2>2 DEF LockEdit, IInv, TypeOK
  <2> QED BY <2>1, <2>2
<1>3. CASE ReadOriginal(a)
  <2>1. /\ pc[a] = "editing" /\ pc' = [pc EXCEPT ![a] = "read"]
        /\ original' = [original EXCEPT ![a] = file]
        /\ UNCHANGED <<file, edit_lock, runtime_lock, name, server, handler>>
    BY <1>3 DEF ReadOriginal
  <2>2. TypeOK'
    BY <1>c, <2>1 DEF IInv, TypeOK, server
  <2>3. \A c \in Commands : c # a => pc'[c] = pc[c]
    BY <1>c, <2>1
  <2>4. pc'[a] = "read" /\ original'[a] = file /\ file \in Contents
        /\ \A b \in Adders : b # a => original'[b] = original[b]
    BY <1>c, <2>1 DEF IInv, TypeOK
  <2>5. Locks'
    BY <1>c, <2>1, <2>3, <2>4 DEF IInv, Locks, Editing, server
  <2>6. Originals'
    BY <1>c, <2>1, <2>3, <2>4 DEF IInv, Originals
  <2>7. Configured' /\ Handled' /\ NamesUnique' /\ EndpointOwned'
    BY <2>1 DEF IInv, Configured, Handled, NamesUnique, EndpointOwned, server
  <2>8. NoUserLost' /\ EffectiveWasApplied'
    BY <1>c, <2>1, <2>3, <2>4 DEF IInv, NoUserLost, Saved, EffectiveWasApplied, server
  <2> QED BY <2>2, <2>5, <2>6, <2>7, <2>8 DEF IInv
<1>4. CASE Prepare(a)
  <2>1. /\ pc[a] = "read" /\ original[a].users = file.users /\ edit_lock = a
        /\ UNCHANGED <<file, original, runtime_lock, name, server, handler>>
    BY <1>4 DEF Prepare, IInv, Originals, Locks, Editing
  <2>2. CASE pc' = [pc EXCEPT ![a] = "prepared"] /\ edit_lock' = edit_lock
                 /\ ~Taken(original[a], a)
    BY <1>1, <2>1, <2>2 DEF Taken
  <2>3. CASE pc' = [pc EXCEPT ![a] = "failed"] /\ Unlock(a)
    BY <1>1, <2>1, <2>3 DEF Unlock
  <2> QED BY <1>4, <2>2, <2>3 DEF Prepare
<1>5. CASE Compare(a)
  <2>1. /\ pc[a] = "prepared" /\ edit_lock = a
        /\ \A u \in file.users : name[u] # name[a]
        /\ UNCHANGED <<file, original, runtime_lock, name, server, handler>>
    BY <1>5 DEF Compare, IInv, Originals, Locks, Editing
  <2>2. CASE pc' = [pc EXCEPT ![a] = "compared"] /\ edit_lock' = edit_lock
    BY <1>1, <2>1, <2>2
  <2>3. CASE pc' = [pc EXCEPT ![a] = "failed"] /\ Unlock(a)
    BY <1>1, <2>1, <2>3 DEF Unlock
  <2> QED BY <1>5, <2>2, <2>3 DEF Compare
<1>6. CASE Replace(a)
  <2>1. /\ pc[a] = "compared" /\ pc' = [pc EXCEPT ![a] = "saved"]
        /\ edit_lock = a /\ edit_lock' = None
        /\ file' = [original[a] EXCEPT !.users = @ \cup {a}]
        /\ UNCHANGED <<runtime_lock, name, original, server, handler>>
    BY <1>6 DEF Replace, Unlock, IInv, Locks, Editing
  <2>2. /\ original[a] \in Contents /\ original[a].users = file.users
        /\ \A u \in file.users : name[u] # name[a]
    BY <2>1 DEF IInv, Originals
  <2>3. file' \in Contents /\ file'.users = file.users \cup {a}
    BY <2>1, <2>2 DEF Contents
  <2>4. /\ \A c \in Commands : c # a => pc'[c] = pc[c]
        /\ pc'[a] = "saved"
    BY <1>c, <2>1
  <2>5. TypeOK'
    BY <1>c, <2>1, <2>3 DEF IInv, TypeOK, server
  <2>6. \A b \in Adders : b # a => ~Editing(b)
    BY <2>1 DEF IInv, Locks
  <2>7. \A b \in Adders : ~(pc'[b] \in {"editing", "read", "prepared", "compared"})
    BY <1>c, <2>4, <2>6 DEF Editing
  <2>8. Locks'
    BY <1>c, <2>1, <2>4, <2>7 DEF IInv, Locks, Editing, server
  <2>9. Originals'
    BY <2>7 DEF Originals
  <2>10. Configured' /\ Handled' /\ EndpointOwned'
    BY <2>1, <2>3 DEF IInv, Configured, Handled, EndpointOwned, server
  <2>11. NamesUnique'
    BY <2>1, <2>2, <2>3 DEF IInv, NamesUnique
  <2>12. NoUserLost' /\ EffectiveWasApplied'
    BY <1>c, <2>1, <2>3, <2>4 DEF IInv, NoUserLost, Saved, EffectiveWasApplied, server
  <2> QED BY <2>5, <2>8, <2>9, <2>10, <2>11, <2>12 DEF IInv
<1> QED BY <1>2, <1>3, <1>4, <1>5, <1>6 DEF AddStep

-------------------------------------------------------------------------------
\* A step of a command after its editing: it takes no edit lock and no edit, its new
\* phase is not "effective" without its user being applied, and a probe has the lock.
LEMMA ReloadEffect ==
    ASSUME IInv, NEW c \in Commands, ReloadStep(c) \/ TimeOut(c) \/ Killed(c)
    PROVE  /\ UNCHANGED <<file, name, original, server>>
           /\ pc' \in [Commands -> Reports \cup {"probing", "connecting", "waiting"} \cup
                                   {pc[d] : d \in Commands}]
           /\ \A d \in Commands : d # c => pc'[d] = pc[d]
           /\ pc'[c] \in {"probing", "connecting", "waiting", "next_start", "effective",
                          "refused", "unconfirmed", "killed"}
           /\ pc'[c] # "killed" => pc[c] \in {"saved", "probing", "connecting", "waiting"}
           /\ pc'[c] = "effective" => handler[c].pc = "ok"
<1>c. DOMAIN pc = Commands
  BY DEF IInv, TypeOK
<1>1. CASE ProbeLock(c)
  BY <1>1, <1>c DEF ProbeLock, files
<1>2. CASE ProbeReturns(c)
  BY <1>2, <1>c DEF ProbeReturns, files, Reports
<1>3. CASE Connect(c)
  BY <1>3, <1>c DEF Connect, files
<1>4. CASE Response(c)
  BY <1>4, <1>c DEF Response, files, Reports
<1>5. CASE ResponseLost(c)
  BY <1>5, <1>c DEF ResponseLost, files, Reports
<1>6. CASE TimeOut(c)
  BY <1>6, <1>c DEF TimeOut, files, Reports
<1>7. CASE Killed(c)
  BY <1>7, <1>c DEF Killed, Reports
<1> QED BY <1>1, <1>2, <1>3, <1>4, <1>5, <1>6, <1>7 DEF ReloadStep

\* The locks of such a step: what it holds it gives back, nothing else changes.
LEMMA ReloadLocks ==
    ASSUME IInv, NEW c \in Commands, ReloadStep(c) \/ TimeOut(c) \/ Killed(c)
    PROVE  /\ edit_lock' \in Adders \cup {None}
           /\ \A a \in Adders : edit_lock = a /\ a # c => edit_lock' = a
           /\ runtime_lock' \in Commands \cup Gateways \cup {None}
           /\ \A d \in Commands \cup Gateways : runtime_lock = d /\ d # c => runtime_lock' = d
           /\ pc'[c] = "probing" => runtime_lock' = c
<1>c. /\ DOMAIN pc = Commands /\ edit_lock \in Adders \cup {None}
      /\ runtime_lock \in Commands \cup Gateways \cup {None}
      /\ None \notin Commands \cup Gateways
  BY ControlAssumption DEF IInv, TypeOK, Commands
<1>1. CASE ProbeLock(c)
  BY <1>1, <1>c DEF ProbeLock, files
<1>2. CASE ProbeReturns(c)
  <2>1. runtime_lock = c
    BY <1>2 DEF ProbeReturns, IInv, Locks
  <2> QED BY <1>2, <1>c, <2>1 DEF ProbeReturns, files
<1>3. CASE Connect(c) \/ Response(c) \/ ResponseLost(c) \/ TimeOut(c)
  <2>1. UNCHANGED <<edit_lock, runtime_lock>> /\ pc'[c] # "probing"
    BY <1>3, <1>c DEF Connect, Response, ResponseLost, TimeOut, files
  <2> QED BY <1>c, <2>1
<1>4. CASE Killed(c)
  BY <1>4, <1>c DEF Killed, Unlock
<1> QED BY <1>1, <1>2, <1>3, <1>4 DEF ReloadStep

\* The handlers of such a step: a new request is of a saved user, an answered one is gone.
LEMMA ReloadHandlers ==
    ASSUME IInv, NEW c \in Commands, ReloadStep(c) \/ TimeOut(c) \/ Killed(c)
    PROVE  /\ \A d \in Commands : d # c => handler'[d] = handler[d]
           /\ \/ handler'[c] = handler[c]
              \/ handler'[c].pc = "none"
              \/ handler'[c].pc = "accepted" /\ pc[c] = "connecting"
           /\ handler' \in [Commands -> [pc : {"none", "accepted", "loaded", "ok", "error"},
                               gateway : Gateways \cup {None}, config : Contents \cup {None}]]
<1> DEFINE H == [pc : {"none", "accepted", "loaded", "ok", "error"},
                 gateway : Gateways \cup {None}, config : Contents \cup {None}]
<1>c. handler \in [Commands -> H] /\ NoHandler \in H /\ NoHandler.pc = "none"
  BY DEF IInv, TypeOK, NoHandler
<1>1. CASE Connect(c)
  <2> DEFINE h == [pc |-> "accepted", gateway |-> endpoint, config |-> None]
  <2>1. handler' = [handler EXCEPT ![c] = h] /\ pc[c] = "connecting"
    BY <1>1 DEF Connect
  <2>2. h \in H /\ h.pc = "accepted"
    BY <1>1 DEF Connect, IInv, TypeOK
  <2> HIDE DEF h, H
  <2>3. handler' \in [Commands -> H] /\ handler'[c] = h
        /\ \A d \in Commands : d # c => handler'[d] = handler[d]
    BY <1>c, <2>1, <2>2
  <2> QED BY <2>1, <2>2, <2>3 DEF H
<1>2. CASE Response(c)
  <2>1. handler' = [handler EXCEPT ![c] = NoHandler]
    BY <1>2 DEF Response
  <2> HIDE DEF H
  <2>2. handler' \in [Commands -> H] /\ handler'[c] = NoHandler
        /\ \A d \in Commands : d # c => handler'[d] = handler[d]
    BY <1>c, <2>1
  <2> QED BY <1>c, <2>2 DEF H
<1>3. CASE handler' = handler
  BY <1>3, <1>c
<1> QED BY <1>1, <1>2, <1>3 DEF ReloadStep, ProbeLock, ProbeReturns, ResponseLost, TimeOut, Killed

LEMMA ReloadIInv ==
    ASSUME IInv, NEW c \in Commands, ReloadStep(c) \/ TimeOut(c) \/ Killed(c)
    PROVE  IInv'
<1>1. /\ UNCHANGED <<file, name, original, server>>
      /\ \A d \in Commands : d # c => pc'[d] = pc[d]
      /\ pc'[c] \in {"probing", "connecting", "waiting", "next_start", "effective",
                     "refused", "unconfirmed", "killed"}
      /\ pc'[c] # "killed" => pc[c] \in {"saved", "probing", "connecting", "waiting"}
      /\ pc'[c] = "effective" => handler[c].pc = "ok"
  BY ReloadEffect
<1>2. /\ edit_lock' \in Adders \cup {None}
      /\ \A a \in Adders : edit_lock = a /\ a # c => edit_lock' = a
      /\ runtime_lock' \in Commands \cup Gateways \cup {None}
      /\ \A d \in Commands \cup Gateways : runtime_lock = d /\ d # c => runtime_lock' = d
      /\ pc'[c] = "probing" => runtime_lock' = c
  BY ReloadLocks
<1>3. /\ \A d \in Commands : d # c => handler'[d] = handler[d]
      /\ \/ handler'[c] = handler[c]
         \/ handler'[c].pc = "none"
         \/ handler'[c].pc = "accepted" /\ pc[c] = "connecting"
      /\ handler' \in [Commands -> [pc : {"none", "accepted", "loaded", "ok", "error"},
                          gateway : Gateways \cup {None}, config : Contents \cup {None}]]
  BY ReloadHandlers
<1>4. /\ \A a \in Adders : a \in Commands
      /\ \A g \in Gateways : g # c
  BY ControlAssumption DEF Commands
<1>5. pc' \in [Commands -> Reports \cup {"start", "editing", "read", "prepared", "compared",
                                         "saved", "probing", "connecting", "waiting"}]
  BY ReloadEffect DEF IInv, TypeOK
<1>6. TypeOK'
  BY <1>1, <1>2, <1>3, <1>5 DEF IInv, TypeOK, server
<1>7. Locks'
  BY <1>1, <1>2, <1>4 DEF IInv, Locks, Editing, server
<1>8. Originals' /\ Configured' /\ NamesUnique'
  BY <1>1, <1>4 DEF IInv, Originals, Configured, NamesUnique, server
<1>9. NoUserLost' /\ EffectiveWasApplied'
  BY <1>1, <1>4 DEF IInv, NoUserLost, Saved, EffectiveWasApplied, Handled, server
<1>10. Handled'
  <2>1. pc[c] = "connecting" /\ c \in Adders => c \in file.users
    BY DEF IInv, NoUserLost, Saved
  <2> QED BY <1>1, <1>3, <1>4, <2>1 DEF IInv, Handled, server
<1>11. EndpointOwned'
  BY <1>1, <1>2, <1>4 DEF IInv, EndpointOwned, server
<1> QED BY <1>6, <1>7, <1>8, <1>9, <1>10, <1>11 DEF IInv

-------------------------------------------------------------------------------
\* A handler loads the file, which has the user, and applies what it loaded.
LEMMA HandlerIInv == ASSUME IInv, NEW c \in Commands, HandlerStep(c) PROVE IInv'
<1> DEFINE H == [pc : {"none", "accepted", "loaded", "ok", "error"},
                 gateway : Gateways \cup {None}, config : Contents \cup {None}]
<1>c. /\ handler \in [Commands -> H] /\ handler[c] \in H /\ file \in Contents
      /\ \A a \in Adders : a \in Commands
  BY DEF IInv, TypeOK, Commands
<1>1. CASE HandlerLoads(c)
  <2> DEFINE h == [handler[c] EXCEPT !.config = file,
                                     !.pc = IF file.valid THEN "loaded" ELSE "error"]
  <2>1. /\ handler' = [handler EXCEPT ![c] = h] /\ handler[c].pc = "accepted"
        /\ UNCHANGED <<files, runtime_lock, name, pc, server>>
    BY <1>1 DEF HandlerLoads
  <2>2. h \in H /\ h.config = file /\ h.pc \in {"loaded", "error"}
    BY <1>c
  <2> HIDE DEF h, H
  <2>3. handler' \in [Commands -> H] /\ handler'[c] = h
        /\ \A d \in Commands : d # c => handler'[d] = handler[d]
    BY <1>c, <2>1, <2>2
  <2>4. TypeOK'
    BY <2>1, <2>3 DEF IInv, TypeOK, files, server, H
  <2>5. Handled'
    BY <1>c, <2>1, <2>2, <2>3 DEF IInv, Handled, files, server
  <2>6. /\ Locks' /\ Originals' /\ Configured' /\ NoUserLost' /\ NamesUnique'
        /\ EffectiveWasApplied' /\ EndpointOwned'
    BY <2>1 DEF IInv, Locks, Editing, Originals, Configured, NoUserLost, Saved, NamesUnique,
                EffectiveWasApplied, EndpointOwned, files, server
  <2> QED BY <2>4, <2>5, <2>6 DEF IInv
<1>2. CASE HandlerApplies(c)
  <2> DEFINE h(p) == [handler[c] EXCEPT !.pc = p]
  <2>1. /\ handler[c].pc = "loaded" /\ handler[c].config \in Contents
        /\ UNCHANGED <<files, runtime_lock, name, pc, gateway, endpoint>>
    BY <1>2 DEF HandlerApplies, IInv, Handled
  <2>2. PICK p \in {"ok", "error"} :
           /\ handler' = [handler EXCEPT ![c] = h(p)]
           /\ p = "ok" => /\ config' = [config EXCEPT ![handler[c].gateway] = handler[c].config]
                          /\ applied' = applied \cup handler[c].config.users
           /\ p = "error" => UNCHANGED <<config, applied>>
    <3>1. CASE handler[c].config.listen = config[handler[c].gateway].listen
      BY <1>2, <3>1 DEF HandlerApplies
    <3>2. CASE handler[c].config.listen # config[handler[c].gateway].listen
      BY <1>2, <3>2 DEF HandlerApplies
    <3> QED BY <3>1, <3>2
  <2>3. h(p) \in H /\ h(p).config = handler[c].config /\ h(p).pc = p
    BY <1>c, <2>2
  <2> HIDE DEF h, H
  <2>4. handler' \in [Commands -> H] /\ handler'[c] = h(p)
        /\ \A d \in Commands : d # c => handler'[d] = handler[d]
    BY <1>c, <2>2, <2>3
  <2>5. /\ config' \in [Gateways -> Contents \cup {None}]
        /\ \A g \in Gateways : config'[g] = config[g] \/ config'[g] \in Contents
    BY <2>1, <2>2 DEF IInv, TypeOK
  <2>6. applied' \subseteq Adders /\ applied \subseteq applied'
    BY <2>1, <2>2 DEF IInv, TypeOK, Contents
  <2>7. TypeOK'
    BY <2>1, <2>4, <2>5, <2>6 DEF IInv, TypeOK, files, H
  <2>8. Handled'
    BY <1>c, <2>1, <2>2, <2>3, <2>4, <2>6 DEF IInv, Handled, files
  <2>9. Configured'
    BY <2>1, <2>5 DEF IInv, Configured
  <2>10. /\ Locks' /\ Originals' /\ NoUserLost' /\ NamesUnique'
         /\ EffectiveWasApplied' /\ EndpointOwned'
    BY <2>1, <2>6 DEF IInv, Locks, Editing, Originals, NoUserLost, Saved, NamesUnique,
                EffectiveWasApplied, EndpointOwned, files
  <2> QED BY <2>7, <2>8, <2>9, <2>10 DEF IInv
<1> QED BY <1>1, <1>2 DEF HandlerStep

\* What concerns only the file and the commands does not notice a gateway.
LEMMA CommandsKept ==
    ASSUME IInv, UNCHANGED <<files, name, pc>>, applied \subseteq applied'
    PROVE  Originals' /\ NoUserLost' /\ NamesUnique' /\ EffectiveWasApplied'
  BY DEF IInv, Originals, NoUserLost, Saved, NamesUnique, EffectiveWasApplied, files

\* The start of a gateway: only the holder of the runtime lock touches the socket.
LEMMA GatewayIInv == ASSUME IInv, NEW g \in Gateways, GatewayStep(g) PROVE IInv'
<1>c. /\ DOMAIN gateway = Gateways /\ DOMAIN config = Gateways /\ file \in Contents
      /\ \A c \in Commands : c # g
      /\ None \notin Commands \cup Gateways
  BY ControlAssumption DEF IInv, TypeOK, Commands
<1>1. CASE Load(g)
  <2>1. /\ gateway[g] = "new" /\ config' = [config EXCEPT ![g] = file]
        /\ gateway' = [gateway EXCEPT ![g] = IF file.valid THEN "loaded" ELSE "ended"]
        /\ UNCHANGED <<files, runtime_lock, name, pc, endpoint, handler, applied>>
    BY <1>1 DEF Load
  <2>2. TypeOK'
    BY <1>c, <2>1 DEF IInv, TypeOK, files
  <2>3. Locks' /\ EndpointOwned' /\ Handled'
    BY <1>c, <2>1 DEF IInv, Locks, Editing, EndpointOwned, Handled, files
  <2>4. Configured'
    BY <1>c, <2>1 DEF IInv, Configured
  <2> QED BY <2>1, <2>2, <2>3, <2>4, CommandsKept DEF IInv
<1>2. CASE ServeLock(g)
  <2>1. /\ gateway[g] = "loaded"
        /\ \/ /\ runtime_lock = None /\ runtime_lock' = g
              /\ gateway' = [gateway EXCEPT ![g] = "locked"]
           \/ /\ runtime_lock' = runtime_lock
              /\ gateway' = [gateway EXCEPT ![g] = "refused"]
        /\ UNCHANGED <<files, name, pc, endpoint, config, handler, applied>>
    BY <1>2 DEF ServeLock
  <2>2. TypeOK'
    BY <1>c, <2>1 DEF IInv, TypeOK, files
  <2>3. Locks' /\ EndpointOwned' /\ Handled'
    BY <1>c, <2>1 DEF IInv, Locks, Editing, EndpointOwned, Handled, files
  <2>4. Configured'
    BY <1>c, <2>1 DEF IInv, Configured
  <2> QED BY <2>1, <2>2, <2>3, <2>4, CommandsKept DEF IInv
<1>3. CASE RemoveEndpoint(g)
  <2>1. /\ gateway[g] = "locked" /\ endpoint' = None
        /\ UNCHANGED <<files, runtime_lock, name, pc, gateway, config, handler, applied>>
    BY <1>3 DEF RemoveEndpoint
  <2>2. \A h \in Gateways : gateway[h] # "serving"
    BY <2>1 DEF IInv, Locks
  <2>3. TypeOK' /\ Locks' /\ Handled' /\ Configured'
    BY <2>1 DEF IInv, TypeOK, Locks, Editing, Handled, Configured, files
  <2>4. EndpointOwned'
    BY <2>1, <2>2 DEF EndpointOwned
  <2> QED BY <2>1, <2>3, <2>4, CommandsKept DEF IInv
<1>4. CASE BindEndpoint(g)
  <2>1. /\ gateway[g] = "locked" /\ endpoint' = g
        /\ gateway' = [gateway EXCEPT ![g] = "serving"]
        /\ applied' = applied \cup config[g].users
        /\ UNCHANGED <<files, runtime_lock, name, pc, config, handler>>
    BY <1>4 DEF BindEndpoint
  <2>2. runtime_lock = g /\ config[g] \in Contents
    BY <2>1 DEF IInv, Locks, Configured
  <2>3. applied' \subseteq Adders /\ applied \subseteq applied'
    BY <2>1, <2>2 DEF IInv, TypeOK, Contents
  <2>4. TypeOK'
    BY <1>c, <2>1, <2>3 DEF IInv, TypeOK, files
  <2>5. Locks' /\ Configured'
    BY <1>c, <2>1 DEF IInv, Locks, Editing, Configured, files
  <2>6. EndpointOwned'
    BY <1>c, <2>1, <2>2 DEF IInv, Locks, EndpointOwned
  <2>7. Handled'
    BY <2>1, <2>3 DEF IInv, Handled, files
  <2> QED BY <2>1, <2>3, <2>4, <2>5, <2>6, <2>7, CommandsKept DEF IInv
<1> QED BY <1>1, <1>2, <1>3, <1>4 DEF GatewayStep

\* A gateway that ends leaves its socket, its lock is released.
LEMMA ExitIInv == ASSUME IInv, NEW g \in Gateways, Exit(g) PROVE IInv'
<1> DEFINE H == [pc : {"none", "accepted", "loaded", "ok", "error"},
                 gateway : Gateways \cup {None}, config : Contents \cup {None}]
<1>c. /\ DOMAIN gateway = Gateways
      /\ handler \in [Commands -> H] /\ NoHandler \in H /\ NoHandler.pc = "none"
      /\ \A c \in Commands : c # g
      /\ \A a \in Adders : a \in Commands
      /\ None \notin Commands \cup Gateways
  BY ControlAssumption DEF IInv, TypeOK, NoHandler, Commands
<1>1. /\ gateway' = [gateway EXCEPT ![g] = "ended"]
      /\ runtime_lock' = IF runtime_lock = g THEN None ELSE runtime_lock
      /\ handler' = [c \in Commands |-> IF handler[c].gateway = g THEN NoHandler ELSE handler[c]]
      /\ UNCHANGED <<files, name, pc, endpoint, config, applied>>
  BY DEF Exit
<1> HIDE DEF H
<1>2. /\ handler' \in [Commands -> H]
      /\ \A c \in Commands : handler'[c] = handler[c] \/ handler'[c].pc = "none"
  BY <1>c, <1>1
<1>3. TypeOK'
  BY <1>c, <1>1, <1>2 DEF IInv, TypeOK, files, H
<1>4. Locks' /\ EndpointOwned' /\ Configured'
  BY <1>c, <1>1 DEF IInv, Locks, Editing, EndpointOwned, Configured, files
<1>5. Handled'
  BY <1>c, <1>1, <1>2 DEF IInv, Handled, files
<1> QED BY <1>1, <1>3, <1>4, <1>5, CommandsKept DEF IInv

\* Other programs change what is not about users.
LEMMA EditIInv == ASSUME IInv, Edit PROVE IInv'
<1>1. PICK v \in BOOLEAN, l \in {"old", "new"} :
         file' = [file EXCEPT !.edit = @ + 1, !.valid = v, !.listen = l]
  BY DEF Edit
<1>2. /\ file.edit < MaxEdits
      /\ UNCHANGED <<edit_lock, runtime_lock, name, pc, original, server, handler>>
  BY DEF Edit
<1>3. file \in Contents /\ file.edit \in 0..MaxEdits /\ MaxEdits \in Nat
  BY ControlAssumption DEF IInv, TypeOK, Contents
<1>4. file.edit + 1 \in 0..MaxEdits
  BY <1>2, <1>3
<1>5. file' \in Contents /\ file'.users = file.users
  BY <1>1, <1>3, <1>4 DEF Contents
<1>6. TypeOK'
  BY <1>2, <1>5 DEF IInv, TypeOK, server
<1> QED BY <1>2, <1>5, <1>6 DEF IInv, Locks, Editing, Originals, Configured, Handled, NoUserLost,
             Saved, NamesUnique, EffectiveWasApplied, EndpointOwned, server

LEMMA NextIInv == IInv /\ [Next]_vars => IInv'
<1> SUFFICES ASSUME IInv, [Next]_vars PROVE IInv'
  OBVIOUS
<1>1. CASE UNCHANGED vars
  BY <1>1 DEF vars, IInv, TypeOK, Locks, Editing, Originals, Configured, Handled, NoUserLost,
              Saved, NamesUnique, EffectiveWasApplied, EndpointOwned
<1> QED BY <1>1, AddIInv, ReloadIInv, HandlerIInv, GatewayIInv, ExitIInv, EditIInv DEF Next

\* The invariant holds however commands and gateways interleave, fail and are killed.
THEOREM Invariance == Spec => []IInv
  BY InitIInv, NextIInv, PTL DEF Spec

\* The variables keep their types.
THEOREM TypeCorrect == Spec => []TypeOK
<1>1. IInv => TypeOK
  BY DEF IInv
<1> QED BY <1>1, Invariance, PTL

\* No command loses the user of another, adds a name twice, or reports a user effective
\* that no configuration in force had.
THEOREM UsersKeptHolds == Spec => []UsersKept
<1>1. IInv => UsersKept
  BY DEF IInv, UsersKept
<1> QED BY <1>1, Invariance, PTL

\* Two gateways never serve at once, and the one that serves owns the control socket.
THEOREM EndpointOwnedHolds == Spec => []EndpointOwned
<1>1. IInv => EndpointOwned
  BY DEF IInv
<1> QED BY <1>1, Invariance, PTL

-------------------------------------------------------------------------------
\* How much of its way a command has before it.
Remaining(p) ==
    CASE p = "start" -> 8
      [] p = "editing" -> 7
      [] p = "read" -> 6
      [] p = "prepared" -> 5
      [] p = "compared" -> 4
      [] p = "saved" -> 3
      [] p \in {"probing", "connecting"} -> 2
      [] p = "waiting" -> 1
      [] OTHER -> 0

\* Every step that moves a command brings it nearer to its report, and none moves a
\* command that has reported.
OnlyForward == \A c \in Commands : pc'[c] # pc[c] => Remaining(pc'[c]) < Remaining(pc[c])

LEMMA StepForward == IInv /\ Next => OnlyForward
<1> SUFFICES ASSUME IInv, Next PROVE OnlyForward
  OBVIOUS
<1>t. /\ DOMAIN pc = Commands
      /\ \A c \in Commands : pc[c] \in Reports \cup {"start", "editing", "read", "prepared",
                             "compared", "saved", "probing", "connecting", "waiting"}
      /\ \A a \in Adders : a \in Commands
  BY DEF Commands, IInv, TypeOK
<1>0. ASSUME UNCHANGED pc PROVE OnlyForward
  BY <1>0 DEF OnlyForward
\* A step of one command moves only that command.
<1>m. ASSUME NEW c \in Commands, NEW p, pc' = [pc EXCEPT ![c] = p],
             Remaining(p) < Remaining(pc[c])
      PROVE  OnlyForward
  BY <1>m, <1>t DEF OnlyForward
<1>1. ASSUME NEW a \in Adders, AddStep(a) PROVE OnlyForward
  <2>1. PICK p \in {"editing", "read", "prepared", "compared", "saved", "failed"} :
           /\ pc' = [pc EXCEPT ![a] = p]
           /\ pc[a] \in {"start", "editing", "read", "prepared", "compared"}
           /\ \/ p = "failed"
              \/ pc[a] = "start" /\ p = "editing"
              \/ pc[a] = "editing" /\ p = "read"
              \/ pc[a] = "read" /\ p = "prepared"
              \/ pc[a] = "prepared" /\ p = "compared"
              \/ pc[a] = "compared" /\ p = "saved"
    BY <1>1 DEF AddStep, LockEdit, ReadOriginal, Prepare, Compare, Replace
  <2>2. Remaining(p) < Remaining(pc[a])
    BY <2>1 DEF Remaining
  <2> QED BY <1>m, <1>t, <2>1, <2>2
<1>2. ASSUME NEW c \in Commands, ReloadStep(c) \/ TimeOut(c) PROVE OnlyForward
  <2>1. PICK p \in {"probing", "connecting", "waiting"} \cup Reports :
           /\ pc' = [pc EXCEPT ![c] = p]
           /\ pc[c] \in {"saved", "probing", "connecting", "waiting"}
           /\ \/ p \in Reports
              \/ pc[c] = "saved" /\ p \in {"probing", "connecting"}
              \/ pc[c] = "connecting" /\ p = "waiting"
    BY <1>2 DEF ReloadStep, ProbeLock, ProbeReturns, Connect, Response, ResponseLost, TimeOut,
       Reports
  <2>2. Remaining(p) < Remaining(pc[c])
    BY <2>1 DEF Remaining, Reports
  <2> QED BY <1>m, <2>1, <2>2
<1>3. ASSUME NEW c \in Commands, Killed(c) PROVE OnlyForward
  <2>1. pc' = [pc EXCEPT ![c] = "killed"]
    BY <1>3 DEF Killed
  <2>2. Remaining("killed") < Remaining(pc[c])
    BY <1>3, <1>t DEF Killed, Ended, Remaining, Reports
  <2> QED BY <1>m, <2>1, <2>2
<1>4. ASSUME NEW c \in Commands, HandlerStep(c) PROVE OnlyForward
  BY <1>0, <1>4 DEF HandlerStep, HandlerLoads, HandlerApplies
<1>5. ASSUME NEW g \in Gateways, GatewayStep(g) \/ Exit(g) PROVE OnlyForward
  BY <1>0, <1>5 DEF GatewayStep, Load, ServeLock, RemoveEndpoint, BindEndpoint, Exit
<1>6. ASSUME Edit PROVE OnlyForward
  BY <1>0, <1>6 DEF Edit
<1> QED BY <1>1, <1>2, <1>3, <1>4, <1>5, <1>6 DEF Next

\* No step of a command is taken twice, whatever gateways, handlers and other commands
\* do in between: nothing sends it back in add_user or reload, and it moves at most
\* eight times. With NoCommandStuck, every command ends.
THEOREM CommandsOnlyForward == Spec => [][OnlyForward]_vars
<1>1. ASSUME IInv, [Next]_vars PROVE [OnlyForward]_vars
  BY <1>1, StepForward
<1> QED BY <1>1, Invariance, PTL DEF Spec
================================================================================
