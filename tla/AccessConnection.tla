---------------------------- MODULE AccessConnection ----------------------------
(***************************************************************************)
(* One connection of the access (ws-net-access/src/gateway.rs): its        *)
(* supervisor run_gateway_connection with the session loop of              *)
(* run_gateway_session, the outbound queue, the TCP handlers that open      *)
(* streams over it (tcp.rs), and the ways it is stopped: a reload, or a    *)
(* terminal error that blocks the identity.                                *)
(*                                                                         *)
(* The session loop, the writer and the heartbeat are one task: while the  *)
(* loop waits in send_text ("sending"), the writer does not run.  The      *)
(* outbound queue belongs to the connection and outlives its sessions.     *)
(* Data frames and HTTP requests are left out; the gateway is the set of   *)
(* the streams it has opened in the present session.                       *)
(***************************************************************************)
EXTENDS Naturals, Sequences

CONSTANTS Handlers,       \* TCP handlers, one stream each
          QueueCapacity,  \* capacity of the outbound queue (1024 in the code)
          MaxSessions     \* bound on the sessions that are opened

ASSUME BoundsAssumption == QueueCapacity \in Nat \ {0} /\ MaxSessions \in Nat \ {0}

VARIABLES conn,      \* the atomics of GatewayConnection; permit: a stored notify_one of
                     \* reconnect_now; stopping: stop_gateway_connections is under way
          blocked,   \* the identity's terminal error is set
          task,      \* where the supervisor is
          outbound,  \* the outbound queue
          link,      \* does the gateway keep the present session?
          handler,   \* the TCP handlers and their waiters
          opened,    \* streams the gateway has in the present session
          sessions   \* number of sessions opened

vars == <<conn, blocked, task, outbound, link, handler, opened, sessions>>
gateway == <<link, opened>>

Frame(t, h) == [type |-> t, stream |-> h]
Beat == [type |-> "Beat"]    \* Ping and Pong of the loop itself

Init ==
    /\ conn = [closed |-> TRUE, stopped |-> FALSE, stopping |-> FALSE,
               requested |-> FALSE, permit |-> FALSE]
    /\ blocked \in BOOLEAN     \* a new pool may belong to an identity blocked before
    /\ task = "starting"
    /\ outbound = <<>>
    /\ link = FALSE /\ opened = {} /\ sessions = 0
    /\ handler = [h \in Handlers |-> [pc |-> "idle", waiter |-> "none"]]

-------------------------------------------------------------------------------
(******************************** Closing *********************************)

\* close_gateway_connection: the flag is swapped once, and every waiter that is
\* still registered is answered with an error.
Close(c) == [c EXCEPT !.closed = TRUE]
FailWaiters ==
    [h \in Handlers |-> IF handler[h].waiter = "set" /\ ~conn.closed
                        THEN [handler[h] EXCEPT !.waiter = "err"] ELSE handler[h]]

\* stop_gateway_connections, or stop_identity once the identity is blocked: the
\* connection is stopped, then closed.
StopRequested ==
    /\ ~conn.stopped
    /\ conn' = [conn EXCEPT !.stopped = TRUE, !.stopping = TRUE]
    /\ UNCHANGED <<blocked, task, outbound, gateway, handler, sessions>>

StopCloses ==
    /\ conn.stopping
    /\ conn' = [Close(conn) EXCEPT !.stopping = FALSE]
    /\ handler' = FailWaiters
    /\ UNCHANGED <<blocked, task, outbound, gateway, sessions>>

\* stop_identity, by this connection or by another one of the identity, first sets
\* the error.  The lock of the identity excludes it while a session is being
\* marked open.
StopIdentity ==
    /\ ~blocked /\ task # "opening"
    /\ blocked' = TRUE
    /\ UNCHANGED <<conn, task, outbound, gateway, handler, sessions>>

-------------------------------------------------------------------------------
(******************************* Supervisor *******************************)

\* The condition of the supervisor's loop.
Start ==
    /\ task = "starting"
    /\ task' = IF conn.stopped \/ blocked THEN "stopped" ELSE "connecting"
    /\ UNCHANGED <<conn, blocked, outbound, gateway, handler, sessions>>

\* The end of the handshake takes the identity's lock and checks both flags;
\* stopped may still be set before closed is cleared.
\* Mutant: the identity is not checked again after the handshake.
CheckStoppedOnly ==
    /\ task = "connecting" /\ sessions < MaxSessions
    /\ ~conn.stopped
    /\ task' = "opening"
    /\ UNCHANGED <<conn, blocked, outbound, gateway, handler, sessions>>
CheckOpen ==
    /\ task = "connecting" /\ sessions < MaxSessions
    /\ ~blocked /\ ~conn.stopped
    /\ task' = "opening"
    /\ UNCHANGED <<conn, blocked, outbound, gateway, handler, sessions>>

MarkOpen ==
    /\ task = "opening"
    /\ task' = "open"
    /\ conn' = [conn EXCEPT !.closed = FALSE, !.requested = FALSE]
    /\ sessions' = sessions + 1
    /\ link' = TRUE /\ opened' = {}
    /\ UNCHANGED <<blocked, outbound, handler>>

ConnectFails ==
    /\ task = "connecting"
    /\ task' = "ending"
    /\ UNCHANGED <<conn, blocked, outbound, gateway, handler, sessions>>

\* The writer takes the next message; a message for a session the gateway has
\* left is lost or ends the session.
Write ==
    /\ task = "open" /\ outbound # <<>>
    /\ outbound' = Tail(outbound)
    /\ LET m == Head(outbound)
       IN  opened' = IF ~link THEN opened
                     ELSE IF m.type = "Open" THEN opened \cup {m.stream}
                     ELSE IF m.type = "Close" THEN opened \ {m.stream} ELSE opened
    /\ UNCHANGED <<conn, blocked, task, link, handler, sessions>>

\* The loop answers a Ping or is due to send one: send_text waits for room.
BeginBeat ==
    /\ task = "open"
    /\ task' = "sending"
    /\ UNCHANGED <<conn, blocked, outbound, gateway, handler, sessions>>

FinishBeat ==
    /\ task = "sending" /\ Len(outbound) < QueueCapacity
    /\ task' = "open"
    /\ outbound' = Append(outbound, Beat)
    /\ UNCHANGED <<conn, blocked, gateway, handler, sessions>>

\* reconnect_now fires in the session loop.
Notified ==
    /\ task = "open" /\ conn.permit
    /\ conn' = [conn EXCEPT !.permit = FALSE]
    /\ task' = IF conn.stopped \/ conn.requested THEN "ending" ELSE task
    /\ UNCHANGED <<blocked, outbound, gateway, handler, sessions>>

\* gateway_stopped waits for the same notification, may take it, and waits again.
StopWatchTakes ==
    /\ task \in {"connecting", "opening", "open", "sending"} /\ conn.permit /\ ~conn.stopped
    /\ conn' = [conn EXCEPT !.permit = FALSE]
    /\ UNCHANGED <<blocked, task, outbound, gateway, handler, sessions>>

\* The gateway answers an Open, with OpenOk or with Error.
Answer(h, result) ==
    /\ task = "open" /\ link /\ h \in opened /\ handler[h].waiter = "set"
    /\ handler' = [handler EXCEPT ![h].waiter = result]
    /\ opened' = IF result = "ok" THEN opened ELSE opened \ {h}
    /\ UNCHANGED <<conn, blocked, task, outbound, link, sessions>>

\* Reading ends or times out (GATEWAY_READ_IDLE_TIMEOUT), or writing fails.
LossNoticed ==
    /\ task = "open" /\ ~link
    /\ task' = "ending"
    /\ UNCHANGED <<conn, blocked, outbound, gateway, handler, sessions>>

\* The select around the session: it drops the session whatever it waits for.
\* Mutant: only the blocked identity is watched.
InterruptByIdentity ==
    /\ task \in {"connecting", "open", "sending"} /\ blocked
    /\ task' = "ending"
    /\ UNCHANGED <<conn, blocked, outbound, gateway, handler, sessions>>
Interrupt ==
    /\ task \in {"connecting", "open", "sending"} /\ (blocked \/ conn.stopped)
    /\ task' = "ending"
    /\ UNCHANGED <<conn, blocked, outbound, gateway, handler, sessions>>

\* close_gateway_connection; the socket is dropped with the session.
EndSession ==
    /\ task = "ending"
    /\ task' = "draining"
    /\ conn' = Close(conn)
    /\ handler' = FailWaiters
    /\ link' = FALSE /\ opened' = {}
    /\ UNCHANGED <<blocked, outbound, sessions>>

\* while outbound_rx.try_recv().is_ok() {}
Drain ==
    /\ task = "draining"
    /\ IF outbound # <<>>
       THEN outbound' = Tail(outbound) /\ UNCHANGED task
       ELSE /\ task' = IF conn.stopped \/ blocked THEN "stopped" ELSE "backoff"
            /\ UNCHANGED outbound
    /\ UNCHANGED <<conn, blocked, gateway, handler, sessions>>

\* The wait before the next attempt ends: a request, a notification, or the time.
BackoffEnds ==
    /\ task = "backoff"
    /\ \/ conn' = [conn EXCEPT !.requested = FALSE]
       \/ conn.permit /\ conn' = [conn EXCEPT !.requested = FALSE, !.permit = FALSE]
       \/ ~conn.requested /\ conn' = conn
    /\ task' = "starting"
    /\ UNCHANGED <<blocked, outbound, gateway, handler, sessions>>

\* The gateway ends the session: it restarts, times out, or loses the network.
GatewayEnds ==
    /\ link
    /\ link' = FALSE /\ opened' = {}
    /\ UNCHANGED <<conn, blocked, task, outbound, handler, sessions>>

-------------------------------------------------------------------------------
(****************************** TCP handlers ******************************)

Open == ~blocked /\ ~conn.closed    \* ensure_gateway_open, while the receiver exists

Goto(h, pc) == handler' = [handler EXCEPT ![h].pc = pc]
Leave(h) == handler' = [handler EXCEPT ![h] = [pc |-> "done", waiter |-> "none"]]
others == <<blocked, task, gateway, sessions>>

\* ensure_gateway_ready: the first look, the request, and the wait for a session.
Arrive(h) ==
    /\ handler[h].pc = "idle"
    /\ \/ blocked /\ Leave(h)
       \/ Open /\ Goto(h, "ready")
       \/ ~blocked /\ conn.closed /\ Goto(h, "asking")
    /\ UNCHANGED <<others, conn, outbound>>

Ask(h) ==
    /\ handler[h].pc = "asking"
    /\ Goto(h, "awaiting")
    /\ conn' = IF conn.stopped \/ blocked THEN conn
               ELSE [conn EXCEPT !.requested = TRUE, !.permit = TRUE]
    /\ UNCHANGED <<others, outbound>>

Ready(h) ==
    /\ handler[h].pc = "awaiting"
    /\ \/ Open /\ Goto(h, "ready")
       \/ Leave(h)     \* the identity is blocked, or GATEWAY_READY_TIMEOUT
    /\ UNCHANGED <<others, conn, outbound>>

\* The waiter and the stream are registered first; send_text then checks that the
\* connection is open, and waits for room.
Register(h) ==
    /\ handler[h].pc = "ready"
    /\ handler' = [handler EXCEPT ![h] = [pc |-> "registered", waiter |-> "set"]]
    /\ UNCHANGED <<others, conn, outbound>>

\* Mutant: send_text without its check.
SendUnchecked(h) ==
    /\ handler[h].pc = "registered"
    /\ Goto(h, "sending")
    /\ UNCHANGED <<others, conn, outbound>>
CheckSend(h) ==
    /\ handler[h].pc = "registered"
    /\ IF Open THEN Goto(h, "sending") ELSE Leave(h)
    /\ UNCHANGED <<others, conn, outbound>>

SendOpen(h) ==
    /\ handler[h].pc = "sending"
    /\ IF task = "stopped"
       THEN Leave(h) /\ UNCHANGED outbound
       ELSE /\ Len(outbound) < QueueCapacity
            /\ outbound' = Append(outbound, Frame("Open", h))
            /\ Goto(h, "waiting")
    /\ UNCHANGED <<others, conn>>

\* The answer of the waiter: forward, or return the error.
Answered(h) ==
    /\ handler[h].pc = "waiting"
    /\ \/ handler[h].waiter = "ok" /\ Goto(h, "forwarding")
       \/ handler[h].waiter = "err" /\ Leave(h)
    /\ UNCHANGED <<others, conn, outbound>>

\* STREAM_OPEN_TIMEOUT, or the end of forwarding: Close is sent.
OpenTimeout(h) ==
    /\ handler[h].pc = "waiting" /\ handler[h].waiter = "set"
    /\ handler' = [handler EXCEPT ![h] = [pc |-> "closing", waiter |-> "none"]]
    /\ UNCHANGED <<others, conn, outbound>>

LocalEnds(h) ==
    /\ handler[h].pc = "forwarding"
    /\ Goto(h, "closing")
    /\ UNCHANGED <<others, conn, outbound>>

\* gateway_closed: the handler sees that the session has ended.
SessionEnded(h) ==
    /\ handler[h].pc = "forwarding" /\ (conn.closed \/ conn.stopped \/ blocked)
    /\ Goto(h, "closing")
    /\ UNCHANGED <<others, conn, outbound>>

SendClose(h) ==
    /\ handler[h].pc = "closing"
    /\ Leave(h)
    /\ IF Open
       THEN Len(outbound) < QueueCapacity /\ outbound' = Append(outbound, Frame("Close", h))
       ELSE UNCHANGED outbound
    /\ UNCHANGED <<others, conn>>

-------------------------------------------------------------------------------
Opening(h) == Arrive(h) \/ Ask(h) \/ Ready(h) \/ Register(h) \/ CheckSend(h) \/ SendOpen(h)
Serving(h) == Answered(h) \/ OpenTimeout(h) \/ LocalEnds(h) \/ SessionEnded(h) \/ SendClose(h)

Session == Write \/ FinishBeat \/ Notified \/ LossNoticed
Supervisor == Start \/ CheckOpen \/ MarkOpen \/ ConnectFails \/ EndSession \/ Drain \/ BackoffEnds

Next ==
    \/ Session \/ Supervisor \/ Interrupt \/ BeginBeat \/ StopWatchTakes
    \/ StopRequested \/ StopCloses \/ StopIdentity \/ GatewayEnds
    \/ \E h \in Handlers : Opening(h) \/ Serving(h) \/ Answer(h, "ok") \/ Answer(h, "err")

Spec == Init /\ [][Next]_vars

\* The task runs: its writer and its reader, the select around them and the
\* steps between two sessions.  The inner select is biased, but polls the writer in
\* every round and the socket in every round without a signal or a heartbeat; neither
\* is polled while the loop waits in send_text.  Nothing is assumed of the gateway or
\* the clients.
FairSpec ==
    /\ Spec
    /\ WF_vars(Session) /\ WF_vars(Supervisor) /\ WF_vars(Interrupt)
    /\ SF_vars(LossNoticed) /\ SF_vars(Write)

-------------------------------------------------------------------------------
(******************************* Properties *******************************)

\* Types of the state.
TypeOK ==
    /\ conn \in [closed : BOOLEAN, stopped : BOOLEAN, stopping : BOOLEAN,
                requested : BOOLEAN, permit : BOOLEAN]
    /\ blocked \in BOOLEAN
    /\ task \in {"starting", "connecting", "opening", "open", "sending", "ending", "draining", "backoff",
                 "stopped"}
    /\ outbound \in Seq([type : {"Open", "Close"}, stream : Handlers] \cup {Beat})
    /\ Len(outbound) <= QueueCapacity
    /\ handler \in [Handlers -> [pc : {"idle", "asking", "awaiting", "ready", "registered",
                                       "sending", "waiting", "forwarding", "closing", "done"},
                                 waiter : {"none", "set", "ok", "err"}]]
    /\ opened \subseteq Handlers /\ link \in BOOLEAN
    /\ sessions \in 0..MaxSessions

\* A connection never reopens for an identity that a terminal error has blocked,
\* whichever connection of the pool met the error.
BlockedStaysClosed == [][blocked /\ conn.closed => conn'.closed]_vars

\* No handler is left with a waiter nobody will answer: closing the connection
\* answers every waiter whose handler went on to send its Open.
WaitersOfOpenOnly ==
    \A h \in Handlers :
        handler[h].pc \in {"sending", "waiting"} /\ handler[h].waiter = "set" => ~conn.closed

\* A stopped or blocked connection ends for good, even if its session loop is
\* waiting for room in the outbound queue.
StopSettles == conn.stopped ~> [](task = "stopped" /\ conn.closed)

\* In an open session the gateway holds no stream whose handler has returned,
\* unless its Close is on the way: streams end with the session they belong to.
NoOrphanStream ==
    \A h \in opened :
        ~conn.closed /\ ~conn.stopped /\ ~blocked /\ handler[h].pc = "done" => \E i \in DOMAIN outbound : outbound[i] = Frame("Close", h)

\* When the gateway has ended the session, the access ends it too.
LossEndsSession == ~link /\ ~conn.closed ~> conn.closed
================================================================================
