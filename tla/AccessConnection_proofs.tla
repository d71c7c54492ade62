------------------------ MODULE AccessConnection_proofs ------------------------
(***************************************************************************)
(* Safety of the access's side of a gateway: of one connection, for every   *)
(* number of handlers, every capacity of the outbound queue and every       *)
(* number of sessions; and of the choice of a connection for a client, for  *)
(* every configuration file and every number of clients.                    *)
(***************************************************************************)
EXTENDS AccessConnection, GatewayRouting, FiniteSetTheorems, SequenceTheorems,
        WellFoundedInduction, TLAPS

\* While a session is being marked open (the identity's lock is held) the
\* identity is not blocked.
OpeningUnblocked == task = "opening" => ~blocked /\ sessions < MaxSessions

IInv == TypeOK /\ WaitersOfOpenOnly /\ OpeningUnblocked

\* The parts of TypeOK.
Conn == [closed : BOOLEAN, stopped : BOOLEAN, stopping : BOOLEAN,
         requested : BOOLEAN, permit : BOOLEAN]
Messages == [type : {"Open", "Close"}, stream : Handlers] \cup {Beat}
Waiters == {"none", "set", "ok", "err"}
Phases == {"idle", "asking", "awaiting", "ready", "registered",
           "sending", "waiting", "forwarding", "closing", "done"}

-------------------------------------------------------------------------------
\* A queue with room takes a message and keeps its type and its bound.
LEMMA AppendOutbound ==
    ASSUME TypeOK, Len(outbound) < QueueCapacity, NEW m \in Messages
    PROVE  Append(outbound, m) \in Seq(Messages) /\ Len(Append(outbound, m)) <= QueueCapacity
<1>1. outbound \in Seq(Messages)
  BY DEF TypeOK, Messages
<1> HIDE DEF Messages
<1>2. Append(outbound, m) \in Seq(Messages) /\ Len(Append(outbound, m)) = Len(outbound) + 1
  BY <1>1
<1>3. Len(outbound) \in Nat /\ QueueCapacity \in Nat
  BY <1>1, BoundsAssumption
<1> QED BY <1>2, <1>3

\* A queue that is not empty yields a message and keeps its type and its bound.
LEMMA TailOutbound ==
    ASSUME TypeOK, outbound # <<>>
    PROVE  /\ Head(outbound) \in Messages
           /\ Tail(outbound) \in Seq(Messages) /\ Len(Tail(outbound)) <= QueueCapacity
<1>1. outbound \in Seq(Messages) /\ Len(outbound) <= QueueCapacity
  BY DEF TypeOK, Messages
<1> HIDE DEF Messages
<1>2. Head(outbound) \in Messages /\ Tail(outbound) \in Seq(Messages)
  BY <1>1
<1>3. Len(Tail(outbound)) = Len(outbound) - 1 /\ Len(outbound) \in Nat /\ QueueCapacity \in Nat
  BY <1>1, BoundsAssumption
<1> QED BY <1>1, <1>2, <1>3

\* Closing answers the waiters: the handlers keep their type and their place,
\* and no waiter that is still set belongs to a handler on its way.
LEMMA FailWaitersFacts ==
    ASSUME IInv, handler' = FailWaiters
    PROVE  /\ handler' \in [Handlers -> [pc : Phases, waiter : Waiters]]
           /\ \A h \in Handlers :
                 ~(handler'[h].pc \in {"sending", "waiting"} /\ handler'[h].waiter = "set")
<1>1. handler \in [Handlers -> [pc : Phases, waiter : Waiters]]
  BY DEF IInv, TypeOK, Phases, Waiters
<1>2. ASSUME NEW h \in Handlers
      PROVE  /\ handler'[h] \in [pc : Phases, waiter : Waiters]
             /\ ~(handler'[h].pc \in {"sending", "waiting"} /\ handler'[h].waiter = "set")
  <2>1. handler'[h] = IF handler[h].waiter = "set" /\ ~conn.closed
                      THEN [handler[h] EXCEPT !.waiter = "err"] ELSE handler[h]
    BY DEF FailWaiters
  <2>2. handler[h] \in [pc : Phases, waiter : Waiters]
    BY <1>1
  <2>3. CASE handler[h].waiter = "set" /\ ~conn.closed
    BY <2>1, <2>2, <2>3 DEF Waiters
  <2>4. CASE ~(handler[h].waiter = "set" /\ ~conn.closed)
    BY <2>1, <2>2, <2>4 DEF IInv, WaitersOfOpenOnly
  <2> QED BY <2>3, <2>4
<1>3. handler' = [h \in Handlers |-> handler'[h]]
  BY DEF FailWaiters
<1>4. handler' \in [Handlers -> [pc : Phases, waiter : Waiters]]
  <2> DEFINE S == [pc : Phases, waiter : Waiters]
  <2>1. \A h \in Handlers : handler'[h] \in S
    BY <1>2
  <2> HIDE DEF S
  <2>2. handler' \in [Handlers -> S]
    BY <1>3, <2>1
  <2> QED BY <2>2 DEF S
<1> QED BY <1>2, <1>4

\* The invariant holds initially.
LEMMA InitIInv == Init => IInv
<1> SUFFICES ASSUME Init PROVE IInv
  OBVIOUS
<1>1. TypeOK
  <2>1. outbound \in Seq([type : {"Open", "Close"}, stream : Handlers] \cup {Beat})
        /\ Len(outbound) <= QueueCapacity
    BY BoundsAssumption DEF Init
  <2>2. sessions \in 0 .. MaxSessions
    BY BoundsAssumption DEF Init
  <2>3. handler \in [Handlers -> [pc : Phases, waiter : Waiters]]
    BY DEF Init, Phases, Waiters
  <2>4. conn \in Conn
    BY DEF Init, Conn
  <2> QED BY <2>1, <2>2, <2>3, <2>4 DEF Init, TypeOK, Conn, Phases, Waiters
<1>2. WaitersOfOpenOnly /\ OpeningUnblocked
  BY DEF Init, WaitersOfOpenOnly, OpeningUnblocked
<1> QED BY <1>1, <1>2 DEF IInv

-------------------------------------------------------------------------------
\* Steps that leave the handlers alone and close nothing.
LEMMA FlagsIInv ==
    ASSUME IInv, StopRequested \/ StopIdentity \/ Start \/ CheckOpen \/ ConnectFails
                 \/ BeginBeat \/ Notified \/ StopWatchTakes \/ LossNoticed \/ Interrupt
                 \/ BackoffEnds \/ GatewayEnds
    PROVE  IInv'
<1>1. /\ outbound' = outbound /\ handler' = handler /\ sessions' = sessions
      /\ conn' \in Conn /\ conn'.closed = conn.closed
      /\ blocked' \in BOOLEAN /\ link' \in BOOLEAN /\ opened' \subseteq Handlers
  BY DEF IInv, TypeOK, Conn, StopRequested, StopIdentity, Start, CheckOpen, ConnectFails, BeginBeat,
         Notified, StopWatchTakes, LossNoticed, Interrupt, BackoffEnds, GatewayEnds, gateway
<1>2. task' \in {"starting", "connecting", "opening", "open", "sending", "ending", "draining",
                 "backoff", "stopped"}
  BY DEF IInv, TypeOK, StopRequested, StopIdentity, Start, CheckOpen, ConnectFails, BeginBeat,
         Notified, StopWatchTakes, LossNoticed, Interrupt, BackoffEnds, GatewayEnds
<1>3. TypeOK'
  BY <1>1, <1>2 DEF IInv, TypeOK, Conn
<1>4. WaitersOfOpenOnly'
  BY <1>1 DEF IInv, WaitersOfOpenOnly
<1>5. OpeningUnblocked'
  BY <1>1 DEF IInv, OpeningUnblocked, StopRequested, StopIdentity, Start, CheckOpen, ConnectFails,
         BeginBeat, Notified, StopWatchTakes, LossNoticed, Interrupt, BackoffEnds, GatewayEnds
<1> QED BY <1>3, <1>4, <1>5 DEF IInv

\* Marking a session open.
LEMMA MarkOpenIInv == ASSUME IInv, MarkOpen PROVE IInv'
<1>1. /\ task' = "open" /\ sessions' = sessions + 1 /\ ~conn'.closed /\ conn' \in Conn
      /\ link' = TRUE /\ opened' = {}
      /\ blocked' = blocked /\ outbound' = outbound /\ handler' = handler
  BY DEF IInv, TypeOK, MarkOpen, Conn
<1>2. sessions' \in 0 .. MaxSessions
  BY <1>1, BoundsAssumption DEF IInv, TypeOK, OpeningUnblocked, MarkOpen
<1>3. TypeOK'
  BY <1>1, <1>2 DEF IInv, TypeOK, Conn
<1>4. WaitersOfOpenOnly' /\ OpeningUnblocked'
  BY <1>1 DEF WaitersOfOpenOnly, OpeningUnblocked
<1> QED BY <1>3, <1>4 DEF IInv

\* The two steps that close the connection.
LEMMA ClosingIInv == ASSUME IInv, StopCloses \/ EndSession PROVE IInv'
<1>1. /\ handler' = FailWaiters /\ conn' \in Conn
      /\ blocked' = blocked /\ outbound' = outbound /\ sessions' = sessions
      /\ link' \in BOOLEAN /\ opened' \subseteq Handlers
      /\ task' = task \/ task' = "draining"
  BY DEF IInv, TypeOK, Conn, Close, StopCloses, EndSession, gateway
<1>2. TypeOK'
  BY <1>1, FailWaitersFacts DEF IInv, TypeOK, Conn, Phases, Waiters
<1>3. WaitersOfOpenOnly'
  BY <1>1, FailWaitersFacts DEF WaitersOfOpenOnly
<1>4. OpeningUnblocked'
  BY <1>1 DEF IInv, OpeningUnblocked
<1> QED BY <1>2, <1>3, <1>4 DEF IInv

\* The steps of the session loop and the supervisor that move messages.
LEMMA QueueIInv == ASSUME IInv, Write \/ FinishBeat \/ Drain PROVE IInv'
<1>1. /\ conn' = conn /\ blocked' = blocked /\ link' = link /\ handler' = handler
      /\ sessions' = sessions
      /\ task' \in {task, "open", "stopped", "backoff"}
  BY DEF Write, FinishBeat, Drain, gateway
<1>2. outbound' \in Seq(Messages) /\ Len(outbound') <= QueueCapacity
  <2>1. CASE Write
    BY <2>1, TailOutbound DEF IInv, Write
  <2>2. CASE FinishBeat
    <3>1. Beat \in Messages
      BY DEF Messages
    <3> QED BY <2>2, <3>1, AppendOutbound DEF IInv, FinishBeat
  <2>3. CASE Drain /\ outbound # <<>>
    BY <2>3, TailOutbound DEF IInv, Drain
  <2>4. CASE Drain /\ outbound = <<>>
    <3>1. outbound' = outbound
      BY <2>4 DEF Drain
    <3> QED BY <3>1 DEF IInv, TypeOK, Messages
  <2> QED BY <2>1, <2>2, <2>3, <2>4
<1>3. opened' \subseteq Handlers
  <2>1. CASE Write
    <3>1. Head(outbound) \in Messages
      BY <2>1, TailOutbound DEF IInv, Write
    <3>2. Head(outbound).type = "Open" => Head(outbound).stream \in Handlers
      BY <3>1 DEF Messages, Beat
    <3> QED BY <2>1, <3>2 DEF IInv, TypeOK, Write
  <2>2. CASE FinishBeat \/ Drain
    BY <2>2 DEF IInv, TypeOK, FinishBeat, Drain, gateway
  <2> QED BY <2>1, <2>2
<1>4. TypeOK'
  BY <1>1, <1>2, <1>3 DEF IInv, TypeOK, Messages
<1>5. WaitersOfOpenOnly' /\ OpeningUnblocked'
  BY <1>1 DEF IInv, WaitersOfOpenOnly, OpeningUnblocked
<1> QED BY <1>4, <1>5 DEF IInv

-------------------------------------------------------------------------------
\* A step of one handler: the others keep their place, and the handler that
\* moves is not sent on its way with an unanswered waiter of a closed connection.
LEMMA HandlerStepIInv ==
    ASSUME IInv, NEW h \in Handlers, NEW new \in [pc : Phases, waiter : Waiters],
           handler' = [handler EXCEPT ![h] = new],
           new.pc \in {"sending", "waiting"} /\ new.waiter = "set" => ~conn.closed,
           conn' \in Conn, conn'.closed = conn.closed,
           outbound' \in Seq(Messages), Len(outbound') <= QueueCapacity,
           opened' \subseteq Handlers, link' = link,
           blocked' = blocked, task' = task, sessions' = sessions
    PROVE  IInv'
<1>1. handler \in [Handlers -> [pc : Phases, waiter : Waiters]]
  BY DEF IInv, TypeOK, Phases, Waiters
<1> HIDE DEF Phases, Waiters
<1>2. handler' \in [Handlers -> [pc : Phases, waiter : Waiters]]
  BY <1>1
<1>3. TypeOK'
  BY <1>2 DEF IInv, TypeOK, Conn, Messages, Phases, Waiters
<1>4. ASSUME NEW k \in Handlers, handler'[k].pc \in {"sending", "waiting"}, handler'[k].waiter = "set"
      PROVE  ~conn'.closed
  <2>1. CASE k = h
    BY <1>1, <1>4, <2>1
  <2>2. CASE k # h
    BY <1>1, <1>4, <2>2 DEF IInv, WaitersOfOpenOnly
  <2> QED BY <2>1, <2>2
<1>5. WaitersOfOpenOnly'
  BY <1>4 DEF WaitersOfOpenOnly
<1>6. OpeningUnblocked'
  BY DEF IInv, OpeningUnblocked
<1> QED BY <1>3, <1>5, <1>6 DEF IInv

\* The steps of the handlers and the gateway's answers.
LEMMA HandlersIInv ==
    ASSUME IInv, NEW h \in Handlers,
           Opening(h) \/ Serving(h) \/ Answer(h, "ok") \/ Answer(h, "err")
    PROVE  IInv'
<1> DEFINE Moved(pc, waiter) == handler' = [handler EXCEPT ![h] = [pc |-> pc, waiter |-> waiter]]
<1>1. /\ handler \in [Handlers -> [pc : Phases, waiter : Waiters]]
      /\ handler[h] \in [pc : Phases, waiter : Waiters]
  BY DEF IInv, TypeOK, Phases, Waiters
<1>2. /\ outbound \in Seq(Messages) /\ Len(outbound) <= QueueCapacity
      /\ conn \in Conn /\ opened \subseteq Handlers
  BY DEF IInv, TypeOK, Messages, Conn
<1>3. ASSUME NEW pc \in Phases, Goto(h, pc)
      PROVE  Moved(pc, handler[h].waiter)
  <2>1. [handler[h] EXCEPT !.pc = pc] = [pc |-> pc, waiter |-> handler[h].waiter]
    BY <1>1
  <2> QED BY <1>3, <2>1 DEF Goto
<1>4. ASSUME NEW pc \in Phases, NEW waiter \in Waiters, Moved(pc, waiter),
             pc \in {"sending", "waiting"} /\ waiter = "set" => ~conn.closed,
             conn' \in Conn, conn'.closed = conn.closed,
             outbound' \in Seq(Messages), Len(outbound') <= QueueCapacity,
             opened' \subseteq Handlers, link' = link,
             blocked' = blocked, task' = task, sessions' = sessions
      PROVE  IInv'
  <2> DEFINE new == [pc |-> pc, waiter |-> waiter]
  <2>1. new \in [pc : Phases, waiter : Waiters] /\ new.pc = pc /\ new.waiter = waiter
    OBVIOUS
  <2> HIDE DEF new, Phases, Waiters, Conn, Messages
  <2>2. handler' = [handler EXCEPT ![h] = new]
    BY <1>4 DEF new
  <2> QED BY <1>4, <2>1, <2>2, HandlerStepIInv
<1>5. ASSUME Leave(h) PROVE Moved("done", "none")
  BY <1>5 DEF Leave
<1>6. /\ handler[h].waiter \in Waiters
      /\ handler[h].pc \in {"sending", "waiting"} /\ handler[h].waiter = "set" => ~conn.closed
  BY <1>1 DEF IInv, WaitersOfOpenOnly
<1>p. /\ {"idle", "asking", "awaiting", "ready", "registered", "sending", "waiting", "forwarding",
          "closing", "done"} = Phases
      /\ {"none", "set", "ok", "err"} = Waiters
  BY DEF Phases, Waiters
<1> HIDE DEF Moved, Phases, Waiters, Conn, Messages
<1>7. CASE Arrive(h)
  <2>1. UNCHANGED <<blocked, task, link, opened, sessions, conn, outbound>>
    BY <1>7 DEF Arrive, others, gateway
  <2>2. Leave(h) \/ \E pc \in {"ready", "asking"} : Goto(h, pc)
    BY <1>7 DEF Arrive
  <2> QED BY <2>1, <2>2, <1>2, <1>3, <1>4, <1>5, <1>6, <1>p
<1>8. CASE Ask(h)
  <2>1. Goto(h, "awaiting") /\ UNCHANGED <<blocked, task, link, opened, sessions, outbound>>
    BY <1>8 DEF Ask, others, gateway
  <2>2. conn' \in Conn /\ conn'.closed = conn.closed
    BY <1>2, <1>8 DEF Ask, Conn
  <2> QED BY <2>1, <2>2, <1>2, <1>3, <1>4, <1>6, <1>p
<1>9. CASE Ready(h)
  <2>1. UNCHANGED <<blocked, task, link, opened, sessions, conn, outbound>>
    BY <1>9 DEF Ready, others, gateway
  <2>2. Leave(h) \/ Goto(h, "ready")
    BY <1>9 DEF Ready
  <2> QED BY <2>1, <2>2, <1>2, <1>3, <1>4, <1>5, <1>6, <1>p
<1>10. CASE Register(h)
  <2>1. UNCHANGED <<blocked, task, link, opened, sessions, conn, outbound>>
    BY <1>10 DEF Register, others, gateway
  <2>2. Moved("registered", "set")
    BY <1>10 DEF Register, Moved
  <2> QED BY <2>1, <2>2, <1>2, <1>4, <1>p
<1>11. CASE CheckSend(h)
  <2>1. UNCHANGED <<blocked, task, link, opened, sessions, conn, outbound>>
    BY <1>11 DEF CheckSend, others, gateway
  <2>2. Leave(h) \/ (Goto(h, "sending") /\ ~conn.closed)
    BY <1>11 DEF CheckSend, Open
  <2> QED BY <2>1, <2>2, <1>2, <1>3, <1>4, <1>5, <1>6, <1>p
<1>12. CASE SendOpen(h)
  <2>1. UNCHANGED <<blocked, task, link, opened, sessions, conn>>
    BY <1>12 DEF SendOpen, others, gateway
  <2>2. CASE Leave(h) /\ outbound' = outbound
    BY <2>1, <2>2, <1>2, <1>4, <1>5, <1>p
  <2>3. CASE Goto(h, "waiting") /\ Len(outbound) < QueueCapacity
             /\ outbound' = Append(outbound, Frame("Open", h))
    <3>1. Frame("Open", h) \in Messages
      BY DEF Frame, Messages
    <3>2. outbound' \in Seq(Messages) /\ Len(outbound') <= QueueCapacity
      BY <2>3, <3>1, AppendOutbound DEF IInv
    <3>3. handler[h].pc = "sending"
      BY <1>12 DEF SendOpen
    <3> QED BY <2>1, <2>3, <3>2, <3>3, <1>2, <1>3, <1>4, <1>6, <1>p
  <2> QED BY <1>12, <2>2, <2>3 DEF SendOpen
<1>13. CASE Answered(h) \/ LocalEnds(h) \/ SessionEnded(h)
  <2>1. UNCHANGED <<blocked, task, link, opened, sessions, conn, outbound>>
    BY <1>13 DEF Answered, LocalEnds, SessionEnded, others, gateway
  <2>2. Leave(h) \/ \E pc \in {"forwarding", "closing"} : Goto(h, pc)
    BY <1>13 DEF Answered, LocalEnds, SessionEnded
  <2> QED BY <2>1, <2>2, <1>2, <1>3, <1>4, <1>5, <1>6, <1>p
<1>14. CASE OpenTimeout(h)
  <2>1. UNCHANGED <<blocked, task, link, opened, sessions, conn, outbound>>
    BY <1>14 DEF OpenTimeout, others, gateway
  <2>2. Moved("closing", "none")
    BY <1>14 DEF OpenTimeout, Moved
  <2> QED BY <2>1, <2>2, <1>2, <1>4, <1>p
<1>15. CASE SendClose(h)
  <2>1. UNCHANGED <<blocked, task, link, opened, sessions, conn>> /\ Leave(h)
    BY <1>15 DEF SendClose, others, gateway
  <2>2. outbound' \in Seq(Messages) /\ Len(outbound') <= QueueCapacity
    <3>1. Frame("Close", h) \in Messages
      BY DEF Frame, Messages
    <3>2. CASE Len(outbound) < QueueCapacity /\ outbound' = Append(outbound, Frame("Close", h))
      BY <3>1, <3>2, AppendOutbound DEF IInv
    <3>3. CASE outbound' = outbound
      BY <1>2, <3>3
    <3> QED BY <1>15, <3>2, <3>3 DEF SendClose
  <2> QED BY <2>1, <2>2, <1>2, <1>4, <1>5, <1>p
<1>16. ASSUME NEW result \in {"ok", "err"}, Answer(h, result)
       PROVE  IInv'
  <2>1. /\ UNCHANGED <<blocked, task, link, sessions, conn, outbound>>
        /\ opened' \subseteq Handlers
    BY <1>2, <1>16 DEF Answer
  <2>2. [handler[h] EXCEPT !.waiter = result] = [pc |-> handler[h].pc, waiter |-> result]
    BY <1>1
  <2>3. Moved(handler[h].pc, result)
    BY <1>16, <2>2 DEF Answer, Moved
  <2>4. handler[h].pc \in Phases /\ result \in Waiters /\ result # "set"
    BY <1>1, <1>16, <1>p
  <2> QED BY <2>1, <2>3, <2>4, <1>2, <1>4
<1> QED
  BY <1>7, <1>8, <1>9, <1>10, <1>11, <1>12, <1>13, <1>14, <1>15, <1>16 DEF Opening, Serving

\* Every step preserves the invariant.
LEMMA NextIInv == IInv /\ [Next]_vars => IInv'
<1> SUFFICES ASSUME IInv, [Next]_vars PROVE IInv'
  OBVIOUS
<1>1. CASE Session \/ Supervisor \/ Interrupt \/ BeginBeat \/ StopWatchTakes
           \/ StopRequested \/ StopCloses \/ StopIdentity \/ GatewayEnds
  BY <1>1, FlagsIInv, MarkOpenIInv, ClosingIInv, QueueIInv DEF Session, Supervisor
<1>2. CASE \E h \in Handlers : Opening(h) \/ Serving(h) \/ Answer(h, "ok") \/ Answer(h, "err")
  BY <1>2, HandlersIInv
<1>3. CASE UNCHANGED vars
  BY <1>3 DEF vars, IInv, TypeOK, WaitersOfOpenOnly, OpeningUnblocked
<1> QED BY <1>1, <1>2, <1>3 DEF Next

-------------------------------------------------------------------------------
\* The inductive invariant holds in every reachable state.
THEOREM Invariance == Spec => []IInv
  BY InitIInv, NextIInv, PTL DEF Spec

\* The variables keep their types, and the outbound queue its capacity.
THEOREM TypeCorrect == Spec => []TypeOK
<1>1. IInv => TypeOK
  BY DEF IInv
<1> QED BY <1>1, Invariance, PTL

\* No handler that went on to send its Open waits for an answer on a closed
\* connection: whichever of the two comes first, the waiter is answered.
THEOREM WaitersOfOpenOnlyHolds == Spec => []WaitersOfOpenOnly
<1>1. IInv => WaitersOfOpenOnly
  BY DEF IInv
<1> QED BY <1>1, Invariance, PTL

\* A connection that is closed when its identity is blocked never reopens,
\* although the block may come during its handshake and from another connection.
THEOREM BlockedStaysClosedHolds == Spec => BlockedStaysClosed
<1>1. IInv /\ [Next]_vars => [blocked /\ conn.closed => conn'.closed]_vars
  <2> SUFFICES ASSUME IInv, Next, blocked, conn.closed PROVE conn'.closed
    OBVIOUS
  <2>1. CASE MarkOpen
    BY <2>1 DEF IInv, OpeningUnblocked, MarkOpen
  <2>2. CASE StopCloses \/ EndSession
    BY <2>2 DEF IInv, TypeOK, StopCloses, EndSession, Close
  <2>3. CASE StopRequested \/ Notified \/ StopWatchTakes \/ BackoffEnds
    BY <2>3 DEF IInv, TypeOK, StopRequested, Notified, StopWatchTakes, BackoffEnds
  <2>4. ASSUME NEW h \in Handlers, Ask(h) PROVE conn'.closed
    BY <2>4 DEF IInv, TypeOK, Ask
  <2>5. CASE \/ Start \/ CheckOpen \/ ConnectFails \/ Drain \/ Write \/ FinishBeat \/ LossNoticed
             \/ Interrupt \/ BeginBeat \/ StopIdentity \/ GatewayEnds
    BY <2>5 DEF Start, CheckOpen, ConnectFails, Drain, Write, FinishBeat, LossNoticed, Interrupt,
                BeginBeat, StopIdentity, GatewayEnds
  <2>6. ASSUME NEW h \in Handlers,
               \/ Arrive(h) \/ Ready(h) \/ Register(h) \/ CheckSend(h) \/ SendOpen(h)
               \/ Serving(h) \/ Answer(h, "ok") \/ Answer(h, "err")
        PROVE  conn'.closed
    BY <2>6 DEF Arrive, Ready, Register, CheckSend, SendOpen, Serving, Answered, OpenTimeout,
                LocalEnds, SessionEnded, SendClose, Answer
  <2> QED BY <2>1, <2>2, <2>3, <2>4, <2>5, <2>6 DEF Next, Session, Supervisor, Opening
<1> QED BY <1>1, Invariance, PTL DEF Spec, BlockedStaysClosed

-------------------------------------------------------------------------------
(************************ Routing and the choice **************************)

\* A nonempty set of positions has a first one.
LEMMA FirstIsLeast ==
    ASSUME NEW S \in SUBSET Nat, S # {}
    PROVE  First(S) \in S
<1>1. PICK x \in S : \A y \in S : ~(<<y, x>> \in OpToRel(<, Nat))
  BY NatLessThanWellFounded, WFMin
<1>2. \A y \in S : ~(y < x)
  BY <1>1 DEF OpToRel
<1>3. x \in S /\ \A y \in S : x <= y
  BY <1>2
<1>4. Min(S) \in S
  BY <1>3 DEF Min
<1> QED BY <1>4 DEF First

\* The URLs of the listeners, in order.
LEMMA GivenUrls ==
    ASSUME NEW c \in ConfigFile
    PROVE  [i \in DOMAIN c.listeners |-> c.listeners[i].url] \in Seq(Nat)
<1>1. c.listeners \in Seq(ListenerEntry)
  BY DEF ConfigFile
<1>2. DOMAIN c.listeners = 1..Len(c.listeners) /\ Len(c.listeners) \in Nat
  BY <1>1
<1>3. \A i \in DOMAIN c.listeners : c.listeners[i] \in ListenerEntry
  BY <1>1
<1>4. \A i \in DOMAIN c.listeners : c.listeners[i].url \in Nat
  BY <1>3 DEF ListenerEntry
<1> QED BY <1>2, <1>4, SeqDef

\* The gateways are at positions of the file, and have a name and a URL.
LEMMA GatewaysType ==
    ASSUME NEW c \in ConfigFile
    PROVE  /\ DOMAIN Gateways(c) \in SUBSET (Nat \ {0})
           /\ c.gateways = <<>> => /\ DOMAIN Gateways(c) = NewUrls(c)
                                   /\ \A i \in NewUrls(c) : Gateways(c)[i].url = Urls(c)[i]
<1>1. /\ c.gateways \in Seq(GatewayEntry) /\ c.urls \in Seq(Nat) /\ c.url \in Nat
      /\ c.listeners \in Seq(ListenerEntry)
  BY DEF ConfigFile
<1>2. Urls(c) \in Seq(Nat)
  <2>1. [i \in DOMAIN c.listeners |-> c.listeners[i].url] \in Seq(Nat)
    BY GivenUrls
  <2>2. <<c.url>> \in Seq(Nat)
    BY <1>1
  <2> QED BY <1>1, <2>1, <2>2 DEF Urls
<1>3. NewUrls(c) \in SUBSET (Nat \ {0})
  BY <1>2 DEF NewUrls
<1>4. CASE c.gateways = <<>>
  BY <1>3, <1>4 DEF Gateways, LegacyGateways
<1>5. CASE c.gateways # <<>>
  BY <1>1, <1>5 DEF Gateways
<1> QED BY <1>4, <1>5

\* The URL of the access section, if there is one, is the first gateway.
LEMMA AccessUrlFirst ==
    ASSUME NEW c \in ConfigFile, c.gateways = <<>>, c.url # None
    PROVE  1 \in At(Gateways(c), c.url)
<1>1. /\ c.urls \in Seq(Nat) /\ c.url \in Nat /\ c.listeners \in Seq(ListenerEntry)
  BY DEF ConfigFile
<1> DEFINE given == [i \in DOMAIN c.listeners |-> c.listeners[i].url]
<1>2. given \in Seq(Nat)
  BY GivenUrls
<1> HIDE DEF given
<1>3. 1 \in DOMAIN (<<c.url>> \o c.urls \o given) /\ (<<c.url>> \o c.urls \o given)[1] = c.url
  <2>1. <<c.url>> \o c.urls \in Seq(Nat) /\ Len(<<c.url>> \o c.urls) >= 1
        /\ (<<c.url>> \o c.urls)[1] = c.url
    BY <1>1
  <2> DEFINE s == <<c.url>> \o c.urls
  <2> HIDE DEF s
  <2>2. s \in Seq(Nat) /\ Len(s) >= 1 /\ s[1] = c.url
    BY <2>1 DEF s
  <2>3. 1 \in DOMAIN (s \o given) /\ (s \o given)[1] = s[1]
    BY <2>2, <1>2
  <2> QED BY <2>2, <2>3 DEF s
<1>4. 1 \in DOMAIN Urls(c) /\ Urls(c)[1] = c.url
  BY <1>3 DEF Urls, given
<1>5. 1 \in NewUrls(c)
  BY <1>4 DEF NewUrls
<1> QED BY <1>4, <1>5, GatewaysType DEF At

\* What a listener asks for, of a gateway of the configuration.
Serves(c, listener, p) ==
    /\ p # None /\ p \in DOMAIN Gateways(c)
    /\ listener.gateway # None => Gateways(c)[p].name = listener.gateway
    /\ listener.url # None => Gateways(c)[p].url = listener.url
    /\ listener.gateway = None /\ listener.url = None =>
          Only(Gateways(c)) # {} \/ Gateways(c)[p].url = c.url

\* Every listener of an accepted configuration finds the pool it asks for.
LEMMA AcceptedServes ==
    ASSUME NEW c \in ConfigFile, Accepted(c), NEW i \in DOMAIN c.listeners
    PROVE  Serves(c, c.listeners[i], Pool(c, c.listeners[i]))
<1> DEFINE l == c.listeners[i]
           G == Gateways(c)
<1>1. ListenerAccepted(c, l) /\ \A p \in DOMAIN G : G[p].url # None
  BY DEF Accepted
<1>2. DOMAIN G \in SUBSET (Nat \ {0})
  BY GatewaysType
<1>3. ASSUME NEW name, Named(G, name) # {}
      PROVE  First(Named(G, name)) \in Named(G, name)
  BY <1>2, <1>3, FirstIsLeast DEF Named
<1>4. ASSUME NEW url, At(G, url) # {}
      PROVE  First(At(G, url)) \in At(G, url)
  BY <1>2, <1>4, FirstIsLeast DEF At
<1> HIDE DEF l, G
<1>5. CASE l.gateway # None
  <2>1. l.url = None /\ Named(G, l.gateway) # {}
    BY <1>1, <1>5 DEF ListenerAccepted, G
  <2>2. Pool(c, l) = First(Named(G, l.gateway))
    BY <1>5, <2>1 DEF Pool, G
  <2>3. Pool(c, l) \in Named(G, l.gateway)
    BY <1>3, <2>1, <2>2
  <2> QED BY <1>2, <1>5, <2>1, <2>3 DEF Serves, Named, G, l, None
<1>6. CASE l.gateway = None /\ l.url # None
  <2>1. At(G, l.url) # {}
    BY <1>1, <1>6 DEF ListenerAccepted, G
  <2>2. Pool(c, l) = First(At(G, l.url))
    BY <1>6 DEF Pool, UrlFor, G
  <2>3. Pool(c, l) \in At(G, l.url)
    BY <1>4, <2>1, <2>2
  <2> QED BY <1>2, <1>6, <2>3 DEF Serves, At, G, l, None
<1>7. CASE l.gateway = None /\ l.url = None
  <2>1. HasDefault(c) /\ UrlFor(c, l) = DefaultUrl(c)
    BY <1>1, <1>7 DEF ListenerAccepted, UrlFor
  <2>2. /\ DefaultUrl(c) # None /\ At(G, DefaultUrl(c)) # {}
        /\ Only(G) # {} \/ DefaultUrl(c) = c.url
    <3>1. CASE c.gateways # <<>>
      <4>1. G = c.gateways /\ Only(G) # {}
        BY <2>1, <3>1 DEF HasDefault, Gateways, G
      <4>2. 1 \in DOMAIN G
        BY <3>1, <4>1 DEF ConfigFile
      <4>3. DefaultUrl(c) = G[1].url
        BY <3>1, <4>1 DEF DefaultUrl
      <4> QED BY <1>1, <4>1, <4>2, <4>3 DEF At
    <3>2. CASE c.gateways = <<>> /\ c.url # None
      <4>1. DefaultUrl(c) = c.url
        BY <3>2 DEF DefaultUrl
      <4> QED BY <3>2, <4>1, AccessUrlFirst DEF G
    <3>3. CASE c.gateways = <<>> /\ c.url = None
      <4>1. Only(G) # {}
        BY <2>1, <3>3 DEF HasDefault, G
      <4>2. First(DOMAIN G) \in DOMAIN G
        BY <1>2, <4>1, FirstIsLeast DEF Only
      <4>3. DefaultUrl(c) = G[First(DOMAIN G)].url
        BY <3>3, <4>1 DEF DefaultUrl, G
      <4> QED BY <1>1, <4>1, <4>2, <4>3 DEF At
    <3> QED BY <3>1, <3>2, <3>3
  <2>3. Pool(c, l) = First(At(G, DefaultUrl(c)))
    BY <1>7, <2>1, <2>2 DEF Pool, G
  <2>4. Pool(c, l) \in At(G, DefaultUrl(c))
    BY <1>4, <2>2, <2>3
  <2> QED BY <1>2, <1>7, <2>2, <2>4 DEF Serves, At, G, l, None
<1> QED BY <1>5, <1>6, <1>7 DEF l

-------------------------------------------------------------------------------
\* The connections a scan has read after n rounds.
Visited(start, n, size) == {(start + k) % size : k \in {j \in Nat : j < n}}

\* A scan of as many rounds as there are connections reads them all, from any start.
LEMMA Rotation ==
    ASSUME NEW size \in Nat \ {0}, NEW start \in 0..(size - 1)
    PROVE  Visited(start, size, size) = 0..(size - 1)
<1>1. \A x \in Nat : x % size \in 0..(size - 1)
  OBVIOUS
<1>2. ASSUME NEW i \in 0..(size - 1)
      PROVE  \E k \in {j \in Nat : j < size} : (start + k) % size = i
  <2>1. CASE i >= start
    <3>1. i - start \in {j \in Nat : j < size} /\ start + (i - start) = i /\ i % size = i
      BY <2>1
    <3> QED BY <3>1
  <2>2. CASE i < start
    <3> DEFINE k == size + i - start
    <3>1. k \in {j \in Nat : j < size} /\ start + k = size + i
      BY <2>2
    <3>2. (size + i) % size = i
      OBVIOUS
    <3> QED BY <3>1, <3>2
  <2> QED BY <2>1, <2>2
<1>3. \A k \in {j \in Nat : j < size} : (start + k) % size \in 0..(size - 1)
  BY <1>1
<1> QED BY <1>2, <1>3 DEF Visited

\* One more round reads one more position.
LEMMA VisitNext ==
    ASSUME NEW size \in Nat \ {0}, NEW start \in Nat, NEW n \in Nat
    PROVE  Visited(start, n + 1, size) = Visited(start, n, size) \cup {(start + n) % size}
<1>1. {j \in Nat : j < n + 1} = {j \in Nat : j < n} \cup {n}
  OBVIOUS
<1> QED BY <1>1 DEF Visited

-------------------------------------------------------------------------------
\* The scan so far: the connections read, and the best open one of them.
ScanOK(c, s) ==
    LET open == {r \in s.seen : r.open}
    IN /\ {r.connection : r \in s.seen} = Visited(s.start, s.offset, c.pool_size)
       /\ ~s.found => open = {}
       /\ s.found => \E r \in open : /\ r.connection = s.best.connection
                                     /\ r.load = s.best.load
                                     /\ \A other \in open : r.load <= other.load

\* The handler of one client, under the configuration c.
ClientOK(c, s) ==
    /\ s \in Client /\ s.pc # "unroutable"
    /\ s.start < c.pool_size /\ s.offset <= c.pool_size /\ s.best.connection < c.pool_size
    /\ s.pc \in {"scanning", "chosen", "opening", "open"} => s.pool \in DOMAIN Gateways(c)
    /\ s.pool # None => Serves(c, c.listeners[s.listener], s.pool)
    /\ s.pc \in {"scanning", "chosen"} => ScanOK(c, s)
    /\ s.pc = "chosen" => s.offset = c.pool_size

\* The inductive invariant.
RoutingInv ==
    /\ config \in Configs /\ running = Accepted(config)
    /\ next \in [Pools -> 0..(config.pool_size - 1)]
    /\ closed \subseteq Connections
    /\ client \in [Clients -> Client]
    /\ \A h \in Clients : ClientOK(config, client[h])

\* What a configuration that may be in the file says.
LEMMA ConfigFacts ==
    ASSUME NEW c \in Configs
    PROVE  c \in ConfigFile /\ c.pool_size \in Nat \ {0}
BY RoutingAssumption DEF ConfigFile

\* A client that is turned away, or leaves, satisfies it.
LEMMA IdleOK ==
    ASSUME NEW c \in Configs
    PROVE  Idle \in Client /\ ClientOK(c, Idle)
<1>1. Idle \in Client
  BY DEF Idle, Client, NoBest, Best, None
<1>2. 0 < c.pool_size /\ 0 <= c.pool_size
  BY ConfigFacts
<1> QED BY <1>1, <1>2 DEF ClientOK, Idle, NoBest, None

\* One client's handler goes on; the connections stay as they are.
LEMMA ClientStep ==
    ASSUME RoutingInv, NEW h \in Clients, NEW s, ClientOK(config, s),
           client' = [client EXCEPT ![h] = s], UNCHANGED <<config, running, closed>>,
           next' \in [Pools -> 0..(config.pool_size - 1)]
    PROVE  RoutingInv'
<1>1. s \in Client
  BY DEF ClientOK
<1>2. client' \in [Clients -> Client]
  BY <1>1 DEF RoutingInv
<1>3. \A g \in Clients : client'[g] = IF g = h THEN s ELSE client[g]
  BY DEF RoutingInv
<1>4. Pools' = Pools /\ Connections' = Connections
  BY DEF Pools, Connections
<1> QED BY <1>2, <1>3, <1>4 DEF RoutingInv

\* A client is routed only while the configuration was accepted.
LEMMA RouteInv ==
    ASSUME RoutingInv, NEW h \in Clients, Route(h)
    PROVE  RoutingInv'
<1>1. config \in Configs /\ Accepted(config) /\ config \in ConfigFile
      /\ config.pool_size \in Nat \ {0}
  BY ConfigFacts DEF RoutingInv, Route
<1>2. PICK i \in DOMAIN config.listeners :
        LET p == Pool(config, config.listeners[i])
        IN IF p = None
           THEN /\ client' = [client EXCEPT ![h] = [Idle EXCEPT !.pc = "unroutable",
                                                                  !.listener = i]]
                /\ UNCHANGED next
           ELSE /\ client' = [client EXCEPT ![h] =
                      [Idle EXCEPT !.pc = "scanning", !.listener = i, !.pool = p,
                                   !.start = next[p]]]
                /\ next' = [next EXCEPT ![p] = (@ + 1) % config.pool_size]
  BY DEF Route
<1> DEFINE p == Pool(config, config.listeners[i])
           s == [Idle EXCEPT !.pc = "scanning", !.listener = i, !.pool = p, !.start = next[p]]
<1>3. Serves(config, config.listeners[i], p) /\ p # None /\ p \in Pools
  BY <1>1, AcceptedServes DEF Serves, Pools
<1>4. client' = [client EXCEPT ![h] = s] /\ next' = [next EXCEPT ![p] = (@ + 1) % config.pool_size]
  BY <1>2, <1>3
<1> HIDE DEF p
<1>5. /\ next[p] \in 0..(config.pool_size - 1)
      /\ (next[p] + 1) % config.pool_size \in 0..(config.pool_size - 1)
  <2>1. \A n \in Nat : n % config.pool_size \in 0..(config.pool_size - 1)
    BY <1>1
  <2>2. next[p] \in 0..(config.pool_size - 1)
    BY <1>3 DEF RoutingInv
  <2>3. next[p] + 1 \in Nat
    BY <2>2, <1>1
  <2> QED BY <2>1, <2>2, <2>3
<1>6. next' \in [Pools -> 0..(config.pool_size - 1)]
  BY <1>3, <1>4, <1>5 DEF RoutingInv
<1>7. p \in Nat /\ i \in Nat /\ next[p] \in Nat /\ next[p] < config.pool_size
  <2>1. p \in Nat
    BY <1>1, <1>3, GatewaysType DEF Pools
  <2>2. DOMAIN config.listeners \subseteq Nat
    BY <1>1 DEF ConfigFile
  <2> QED BY <1>1, <1>5, <2>1, <2>2
<1>8. ClientOK(config, s)
  <2>1. /\ s.pc = "scanning" /\ s.listener = i /\ s.pool = p /\ s.start = next[p]
        /\ s.offset = 0 /\ s.found = FALSE /\ s.best = NoBest /\ s.seen = {}
    BY DEF Idle
  <2>2. s \in Client
    BY <1>1, <1>7, IdleOK DEF Client
  <2> HIDE DEF s
  <2>3. ScanOK(config, s)
    <3>1. Visited(next[p], 0, config.pool_size) = {}
      BY DEF Visited
    <3> QED BY <2>1, <3>1 DEF ScanOK
  <2> QED BY <1>1, <1>3, <1>7, <2>1, <2>2, <2>3 DEF ClientOK, NoBest, None, Pools
<1>9. UNCHANGED <<config, running, closed>>
  BY DEF Route
<1> QED BY <1>4, <1>6, <1>8, <1>9, ClientStep

\* What connection_load adds up is a number.
LEMMA LoadType ==
    ASSUME NEW x
    PROVE  Load(x) \in Nat
<1> DEFINE On(s) == {h \in Clients : client[h].pc = s
                                     /\ <<client[h].pool, client[h].best.connection>> = x}
<1>1. \A s : On(s) \subseteq Clients
  OBVIOUS
<1> HIDE DEF On
<1>2. \A s : Cardinality(On(s)) \in Nat
  BY <1>1, RoutingAssumption, FS_Subset, FS_CardinalityType
<1>3. 2 * Cardinality(On("opening")) + Cardinality(On("open")) \in Nat
  BY <1>2
<1> QED BY <1>3 DEF Load, On

\* A round of the scan keeps the best of the open connections read: the one it
\* replaces has no smaller load.
LEMMA ScanKeeps ==
    ASSUME NEW c \in Configs, NEW s, ClientOK(c, s), s.pc = "scanning",
           s.offset < c.pool_size, NEW load \in Nat, NEW capacity \in Nat, NEW open \in BOOLEAN,
           NEW i, i = (s.start + s.offset) % c.pool_size,
           NEW read, read = [connection |-> i, open |-> open, load |-> load],
           NEW step, step = [s EXCEPT !.offset = @ + 1, !.seen = @ \cup {read}],
           NEW t,
           t = IF open /\ Better(s, load, capacity)
               THEN [step EXCEPT !.found = TRUE,
                                 !.best = [connection |-> i, load |-> load, capacity |-> capacity]]
               ELSE step
    PROVE  ClientOK(c, t)
<1>1. c.pool_size \in Nat \ {0} /\ s \in Client /\ s.start \in Nat /\ s.offset \in Nat
  BY ConfigFacts DEF ClientOK, Client
<1>2. i \in Nat /\ i < c.pool_size
  <2>1. \A n \in Nat : n % c.pool_size \in 0..(c.pool_size - 1)
    BY <1>1
  <2>2. s.start + s.offset \in Nat
    BY <1>1
  <2> QED BY <1>1, <2>1, <2>2
<1>3. step \in Client
  <2>1. read \in [connection : Nat, open : BOOLEAN, load : Nat]
    BY <1>2
  <2>2. s.seen \cup {read} \in SUBSET [connection : Nat, open : BOOLEAN, load : Nat]
    BY <1>1, <2>1 DEF Client
  <2>3. s.offset + 1 \in Nat
    BY <1>1
  <2> QED BY <1>1, <2>2, <2>3 DEF Client
<1>4. /\ step.pc = "scanning" /\ step.listener = s.listener /\ step.pool = s.pool
      /\ step.start = s.start /\ step.offset = s.offset + 1 /\ step.found = s.found
      /\ step.best = s.best /\ step.seen = s.seen \cup {read}
  BY <1>1 DEF Client
<1>5. t \in Client
  BY <1>2, <1>3 DEF Client, Best
<1>6. /\ t.pc = "scanning" /\ t.listener = s.listener /\ t.pool = s.pool
      /\ t.start = s.start /\ t.offset = s.offset + 1 /\ t.seen = s.seen \cup {read}
  BY <1>3, <1>4 DEF Client
<1>7. IF open /\ Better(s, load, capacity)
      THEN t.found = TRUE /\ t.best = [connection |-> i, load |-> load, capacity |-> capacity]
      ELSE t.found = s.found /\ t.best = s.best
  BY <1>3, <1>4 DEF Client
<1>8. t.best.connection < c.pool_size
  BY <1>2, <1>7 DEF ClientOK
<1>9. ScanOK(c, t)
  <2> DEFINE before == {r \in s.seen : r.open}
             after == {r \in t.seen : r.open}
  <2>1. ScanOK(c, s)
    BY DEF ClientOK
  <2>2. {r.connection : r \in t.seen} = Visited(t.start, t.offset, c.pool_size)
    <3>1. {r.connection : r \in s.seen \cup {read}} = {r.connection : r \in s.seen} \cup {i}
      OBVIOUS
    <3> QED BY <1>1, <1>6, <2>1, <3>1, VisitNext DEF ScanOK
  <2>3. s.seen \subseteq [connection : Nat, open : BOOLEAN, load : Nat]
    BY <1>1 DEF Client
  <2>4. after = IF open THEN before \cup {read} ELSE before
    BY <1>6
  <2>5. \A r \in before : r.load \in Nat
    BY <2>3
  <2>6. read.load = load /\ read.connection = i
    OBVIOUS
  <2>7. s.best.load \in Nat
    BY <1>1 DEF Client, Best
  <2>8. /\ ~s.found => before = {}
        /\ s.found => \E r \in before : /\ r.connection = s.best.connection
                                        /\ r.load = s.best.load
                                        /\ \A other \in before : r.load <= other.load
    BY <2>1 DEF ScanOK
  <2> HIDE DEF before, after
  <2>9. CASE open /\ Better(s, load, capacity)
    <3>1. read \in after /\ t.best.connection = i /\ t.best.load = load
      BY <1>7, <2>4, <2>9
    <3>2. \A other \in before : load <= other.load
      <4>1. CASE ~s.found
        BY <2>8, <4>1
      <4>2. CASE s.found
        <5>1. load <= s.best.load
          BY <2>7, <2>9, <4>2 DEF Better
        <5>2. \A other \in before : s.best.load <= other.load
          BY <2>8, <4>2
        <5> QED BY <2>5, <2>7, <5>1, <5>2
      <4> QED BY <4>1, <4>2
    <3>3. \A other \in after : read.load <= other.load
      BY <2>4, <2>6, <3>2
    <3> QED BY <1>7, <2>2, <2>6, <2>9, <3>1, <3>3 DEF ScanOK, after
  <2>10. CASE ~(open /\ Better(s, load, capacity))
    <3>1. t.found = s.found /\ t.best = s.best
      BY <1>7, <2>10
    <3>2. CASE ~open
      BY <2>2, <2>4, <2>8, <3>1, <3>2 DEF ScanOK, after
    <3>3. CASE open
      <4>1. s.found /\ s.best.load <= load
        BY <2>7, <2>10, <3>3 DEF Better
      <4>2. PICK r \in before : /\ r.connection = s.best.connection
                                /\ r.load = s.best.load
                                /\ \A other \in before : r.load <= other.load
        BY <2>8, <4>1
      <4>3. r \in after /\ \A other \in after : r.load <= other.load
        BY <2>4, <2>6, <3>3, <4>1, <4>2
      <4> QED BY <2>2, <3>1, <4>1, <4>2, <4>3 DEF ScanOK, after
    <3> QED BY <3>2, <3>3
  <2> QED BY <2>9, <2>10
<1>10. t.offset <= c.pool_size
  BY <1>1, <1>6
<1> QED BY <1>5, <1>6, <1>8, <1>9, <1>10 DEF ClientOK

\* The scan reads the counters of one connection as they are at that moment.
LEMMA ScanInv ==
    ASSUME RoutingInv, NEW h \in Clients, Scan(h)
    PROVE  RoutingInv'
<1> DEFINE s == client[h]
           i == (s.start + s.offset) % config.pool_size
           load == Load(<<s.pool, i>>)
           open == <<s.pool, i>> \notin closed
           read == [connection |-> i, open |-> open, load |-> load]
           step == [s EXCEPT !.offset = @ + 1, !.seen = @ \cup {read}]
           After(capacity) ==
               IF open /\ Better(s, load, capacity)
               THEN [step EXCEPT !.found = TRUE,
                                 !.best = [connection |-> i, load |-> load, capacity |-> capacity]]
               ELSE step
<1>1. PICK capacity \in 0..Capacity : client' = [client EXCEPT ![h] = After(capacity)]
  BY DEF Scan
<1>2. capacity \in Nat /\ load \in Nat /\ open \in BOOLEAN
  BY LoadType
<1>3. s.pc = "scanning" /\ s.offset < config.pool_size
  BY DEF Scan, Remaining
<1>4. config \in Configs /\ ClientOK(config, s)
  BY DEF RoutingInv
<1>5. ClientOK(config, After(capacity))
  <2> HIDE DEF s, load, open
  <2> QED BY <1>2, <1>3, <1>4, ScanKeeps
<1> HIDE DEF After
<1>6. UNCHANGED <<config, running, next, closed>>
  BY DEF Scan
<1>7. next' \in [Pools -> 0..(config.pool_size - 1)]
  BY <1>6 DEF RoutingInv
<1> QED BY <1>1, <1>5, <1>6, <1>7, ClientStep

\* The scan is over once every connection was read.
LEMMA ChooseInv ==
    ASSUME RoutingInv, NEW h \in Clients, Choose(h)
    PROVE  RoutingInv'
<1> DEFINE s == client[h]
           t == [s EXCEPT !.pc = "chosen", !.best.connection = IF s.found THEN @ ELSE s.start]
<1>1. config \in Configs /\ ClientOK(config, s) /\ client \in [Clients -> Client]
  BY DEF RoutingInv
<1>2. s \in Client /\ config.pool_size \in Nat \ {0}
  BY <1>1, ConfigFacts DEF ClientOK
<1>3. client' = [client EXCEPT ![h] = t]
  BY <1>1 DEF Choose, Client, Best
<1>4. s.pc = "scanning" /\ s.offset = config.pool_size
  BY <1>1, <1>2 DEF Choose, Remaining, ClientOK, Client
<1> HIDE DEF s
<1>5. t \in Client
  BY <1>2 DEF Client, Best
<1>6. /\ t.pc = "chosen" /\ t.listener = s.listener /\ t.pool = s.pool /\ t.start = s.start
      /\ t.offset = s.offset /\ t.found = s.found /\ t.seen = s.seen
      /\ t.best.load = s.best.load
      /\ t.best.connection = IF s.found THEN s.best.connection ELSE s.start
  BY <1>2 DEF Client, Best
<1> HIDE DEF t
<1>7. ScanOK(config, t)
  BY <1>1, <1>4, <1>6 DEF ScanOK, ClientOK
<1>8. ClientOK(config, t)
  BY <1>1, <1>4, <1>5, <1>6, <1>7 DEF ClientOK
<1>9. UNCHANGED <<config, running, next, closed>>
  BY DEF Choose
<1>10. next' \in [Pools -> 0..(config.pool_size - 1)]
  BY <1>9 DEF RoutingInv
<1> QED BY <1>3, <1>8, <1>9, <1>10, ClientStep

\* The stream is opened over the connection that was chosen.
LEMMA OpenStreamInv ==
    ASSUME RoutingInv, NEW h \in Clients, OpenStream(h)
    PROVE  RoutingInv'
<1> DEFINE s == client[h]
           t == [Idle EXCEPT !.pc = "opening", !.listener = s.listener, !.pool = s.pool,
                             !.best.connection = s.best.connection]
<1>1. config \in Configs /\ ClientOK(config, s) /\ s.pc = "chosen"
  BY DEF RoutingInv, OpenStream
<1>2. s \in Client /\ config.pool_size \in Nat \ {0}
  BY <1>1, ConfigFacts DEF ClientOK
<1>3. client' = [client EXCEPT ![h] = t]
  BY DEF OpenStream
<1> HIDE DEF s
<1>4. t \in Client
  BY <1>1, <1>2, IdleOK DEF Client, Best
<1>5. /\ t.pc = "opening" /\ t.listener = s.listener /\ t.pool = s.pool /\ t.start = 0
      /\ t.offset = 0 /\ t.best.connection = s.best.connection
  BY DEF Idle, NoBest
<1> HIDE DEF t
<1>6. ClientOK(config, t)
  BY <1>1, <1>2, <1>4, <1>5 DEF ClientOK
<1>7. UNCHANGED <<config, running, next, closed>>
  BY DEF OpenStream
<1>8. next' \in [Pools -> 0..(config.pool_size - 1)]
  BY <1>7 DEF RoutingInv
<1> QED BY <1>3, <1>6, <1>7, <1>8, ClientStep

\* A client is turned away, or leaves.
LEMMA LeaveInv ==
    ASSUME RoutingInv, NEW h \in Clients, NotReady(h) \/ End(h)
    PROVE  RoutingInv'
<1>1. client' = [client EXCEPT ![h] = Idle] /\ UNCHANGED <<config, running, next, closed>>
  BY DEF NotReady, End
<1>2. ClientOK(config, Idle)
  BY IdleOK DEF RoutingInv
<1>3. next' \in [Pools -> 0..(config.pool_size - 1)]
  BY <1>1 DEF RoutingInv
<1> QED BY <1>1, <1>2, <1>3, ClientStep

\* The stream is open.
LEMMA OpenedInv ==
    ASSUME RoutingInv, NEW h \in Clients, Opened(h)
    PROVE  RoutingInv'
<1> DEFINE s == client[h]
           t == [s EXCEPT !.pc = "open"]
<1>1. ClientOK(config, s) /\ s.pc = "opening" /\ client \in [Clients -> Client]
  BY DEF RoutingInv, Opened
<1>2. s \in Client
  BY <1>1 DEF ClientOK
<1>3. client' = [client EXCEPT ![h] = t]
  BY <1>1 DEF Opened, Client
<1> HIDE DEF s
<1>4. t \in Client
  BY <1>2 DEF Client
<1>5. /\ t.pc = "open" /\ t.listener = s.listener /\ t.pool = s.pool /\ t.start = s.start
      /\ t.offset = s.offset /\ t.best = s.best
  BY <1>2 DEF Client
<1> HIDE DEF t
<1>6. ClientOK(config, t)
  BY <1>1, <1>4, <1>5 DEF ClientOK
<1>7. UNCHANGED <<config, running, next, closed>>
  BY DEF Opened
<1>8. next' \in [Pools -> 0..(config.pool_size - 1)]
  BY <1>7 DEF RoutingInv
<1> QED BY <1>3, <1>6, <1>7, <1>8, ClientStep

\* A connection that closes ends the streams it carries; a scan goes on with
\* what it has read.
LEMMA ConnectionInv ==
    ASSUME RoutingInv, NEW x \in Connections, CloseConnection(x) \/ Reopen(x)
    PROVE  RoutingInv'
<1>1. UNCHANGED <<config, running, next>> /\ closed' \subseteq Connections
  BY DEF CloseConnection, Reopen, RoutingInv
<1>2. Pools' = Pools /\ Connections' = Connections
  BY <1>1 DEF Pools, Connections
<1>3. Idle \in Client /\ ClientOK(config, Idle)
  BY IdleOK DEF RoutingInv
<1>4. client' \in [Clients -> Client] /\ \A h \in Clients : client'[h] \in {client[h], Idle}
  BY <1>3 DEF CloseConnection, Reopen, RoutingInv
<1>5. \A h \in Clients : ClientOK(config, client'[h])
  BY <1>3, <1>4 DEF RoutingInv
<1> QED BY <1>1, <1>2, <1>4, <1>5 DEF RoutingInv

\* The invariant holds at first.
LEMMA RoutingInitInv == RoutingInit => RoutingInv
<1> SUFFICES ASSUME RoutingInit PROVE RoutingInv
  OBVIOUS
<1>1. config \in Configs /\ config.pool_size \in Nat \ {0}
  BY ConfigFacts DEF RoutingInit
<1>2. next \in [Pools -> 0..(config.pool_size - 1)] /\ closed \subseteq Connections
  BY <1>1 DEF RoutingInit
<1>3. Idle \in Client /\ ClientOK(config, Idle)
  BY <1>1, IdleOK
<1> QED BY <1>1, <1>2, <1>3 DEF RoutingInit, RoutingInv

\* Every step keeps it.
LEMMA RoutingNextInv == RoutingInv /\ [RoutingNext]_routing_vars => RoutingInv'
<1> SUFFICES ASSUME RoutingInv, [RoutingNext]_routing_vars PROVE RoutingInv'
  OBVIOUS
<1>1. ASSUME NEW h \in Clients,
             Route(h) \/ Scan(h) \/ Choose(h) \/ OpenStream(h) \/ NotReady(h) \/ Opened(h) \/ End(h)
      PROVE  RoutingInv'
  BY <1>1, RouteInv, ScanInv, ChooseInv, OpenStreamInv, LeaveInv, OpenedInv
<1>2. ASSUME NEW x \in Connections, CloseConnection(x) \/ Reopen(x)
      PROVE  RoutingInv'
  BY <1>2, ConnectionInv
<1>3. CASE UNCHANGED routing_vars
  BY <1>3 DEF routing_vars, RoutingInv, Pools, Connections
<1> QED BY <1>1, <1>2, <1>3 DEF RoutingNext

\* The routing keeps its invariant.
THEOREM RoutingInvariance == RoutingSpec => []RoutingInv
BY RoutingInitInv, RoutingNextInv, PTL DEF RoutingSpec

\* For every set of configurations and of clients and every capacity: a scan stays
\* within the pool of its gateway.
THEOREM RoutingTypeCorrect == RoutingSpec => []RoutingTypeOK
<1>1. RoutingInv => RoutingTypeOK
  BY DEF RoutingInv, RoutingTypeOK, ClientOK, Accepted, Pools
<1> QED BY <1>1, RoutingInvariance, PTL

\* Whatever file gateway_configs accepts, every listener finds a pool in for_listener,
\* and it belongs to the gateway the listener asks for.
THEOREM RoutedAsConfiguredHolds == RoutingSpec => []RoutedAsConfigured
<1>1. RoutingInv => RoutedAsConfigured
  BY DEF RoutingInv, RoutedAsConfigured, AcceptedIsRoutable, ClientOK, Serves
<1> QED BY <1>1, RoutingInvariance, PTL

\* next_connection reads each connection of the pool once and ends with one that was
\* open when it was read, if any was, and has the least load of those.
THEOREM ChoosesOpenLeastLoadedHolds == RoutingSpec => []ChoosesOpenLeastLoaded
<1>1. ASSUME RoutingInv, NEW h \in Clients, client[h].pc = "chosen"
      PROVE  LET open == {r \in client[h].seen : r.open}
             IN /\ {r.connection : r \in client[h].seen} = 0..(config.pool_size - 1)
                /\ open # {} => \E r \in open : r.connection = client[h].best.connection
                                                /\ \A other \in open : r.load <= other.load
  <2>1. ClientOK(config, client[h]) /\ config.pool_size \in Nat \ {0}
    BY <1>1, ConfigFacts DEF RoutingInv
  <2>2. ScanOK(config, client[h]) /\ client[h].offset = config.pool_size
    BY <1>1, <2>1 DEF ClientOK
  <2>3. client[h].start \in 0..(config.pool_size - 1)
    BY <2>1 DEF ClientOK, Client
  <2>4. Visited(client[h].start, config.pool_size, config.pool_size) = 0..(config.pool_size - 1)
    BY <2>1, <2>3, Rotation
  <2> QED BY <2>2, <2>4 DEF ScanOK
<1>2. RoutingInv => ChoosesOpenLeastLoaded
  BY <1>1 DEF ChoosesOpenLeastLoaded
<1> QED BY <1>2, RoutingInvariance, PTL
================================================================================
