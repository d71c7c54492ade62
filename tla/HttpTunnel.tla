------------------------------- MODULE HttpTunnel -------------------------------
(***************************************************************************)
(* One HTTP request through the tunnel: the access handler                 *)
(* (ws-net-access/src/http.rs), the connection readers (gateway.rs, ws.rs)  *)
(* and the gateway's request task (ws.rs, http_proxy.rs), between a local   *)
(* client and a target.                                                    *)
(*                                                                         *)
(* Body chunks are numbered.  a2g and g2a are the outbound queues of the    *)
(* two sides with the ordered channel behind them.  conn is the HTTP       *)
(* connection to the target: a task of the HTTP library, which owns the    *)
(* receiver of the request body and learns later than the request task     *)
(* that the request was dropped.                                           *)
(***************************************************************************)
EXTENDS Naturals, Sequences

CONSTANTS MaxUp,          \* chunks of the request body
          MaxDown,        \* chunks of the response body
          QueueCapacity,  \* capacity of the outbound queues (1024 in the code)
          BodyCapacity    \* capacity of the body channels (64 in the code)

ASSUME CapacityAssumption ==
    /\ QueueCapacity \in Nat \ {0} /\ BodyCapacity \in Nat \ {0}
    /\ MaxUp \in Nat /\ MaxDown \in Nat

VARIABLES acc,      \* the access handler and its entries in the connection's maps
          gw,       \* the gateway's request task and its entries
          conn,     \* the connection to the target: "none", "open" or "closed"
          a2g, g2a, \* queued messages
          session,  \* is it open for the access, for the gateway; is the access's loop stuck?
          client,   \* what the local client saw of the response:
                    \* "waiting", "complete", "error", or "gone" when it left
          target,   \* the target: did it see the end of the request; its answer
          up_sent, up_recv,     \* chunks read from the client; taken by the target
          down_sent, down_recv  \* chunks read from the target; taken by the client

vars == <<acc, gw, conn, a2g, g2a, session, client, target, up_sent, up_recv, down_sent, down_recv>>
payload == <<up_sent, up_recv, down_sent, down_recv>>

Data(n) == [type |-> "Data", n |-> n]
Control(t) == [type |-> t, n |-> 0]
BodyError == 0    \* Err(_) among the chunks of a body channel

\* The handler after ensure_gateway_ready: head waiter and body stream are
\* registered, HttpRequestStart is on its way to the queue.
Init ==
    /\ acc = [pc |-> "starting", out |-> <<Control("Start")>>, upload |-> "running",
              head |-> "pending", waiter |-> TRUE, body |-> TRUE, chan |-> <<>>, held |-> 0,
              unknown |-> FALSE, error_lost |-> FALSE]
    /\ gw = [pc |-> "none", out |-> <<>>, body |-> FALSE, chan |-> <<>>, held |-> 0, canceled |-> FALSE]
    /\ conn = "none"
    /\ a2g = <<>> /\ g2a = <<>>
    /\ session = [access |-> TRUE, gateway |-> TRUE, unsent |-> 0]
    /\ client = "waiting"
    /\ target = [request_end |-> FALSE, answer |-> "none"]
    /\ up_sent = 0 /\ up_recv = <<>> /\ down_sent = 0 /\ down_recv = <<>>

-------------------------------------------------------------------------------
(***************************** Access handler *****************************)

\* A send succeeds: the queue has room.  While the session loop itself waits in send_text
\* for room it does not poll its own writer, so that the last session.unsent messages of
\* the queue never leave it and room never returns.
Room == Len(a2g) < QueueCapacity /\ session.unsent = 0

InRequest == acc.pc \in {"starting", "uploading"}
Uploading == acc.pc = "uploading" /\ acc.upload = "running" /\ acc.out = <<>>

\* What handle_http_request_result removes when it returns an error.
\* Mutant: the body stream stays registered.
FailedKeepsBody == [acc EXCEPT !.pc = "done", !.out = <<>>, !.waiter = FALSE]
Failed == [acc EXCEPT !.pc = "done", !.out = <<>>, !.waiter = FALSE, !.body = FALSE]

\* send_text / send_binary of what the handler is sending; HttpRequestEnd ends
\* the upload.
RequestSends ==
    /\ InRequest /\ acc.out # <<>> /\ session.access /\ Room
    /\ a2g' = Append(a2g, Head(acc.out))
    /\ acc' = [acc EXCEPT !.pc = "uploading", !.out = <<>>,
                 !.upload = IF Head(acc.out).type = "End" THEN "finished" ELSE @]
    /\ UNCHANGED <<gw, conn, g2a, session, client, target, payload>>

ReadChunk ==
    /\ Uploading /\ up_sent < MaxUp
    /\ up_sent' = up_sent + 1
    /\ acc' = [acc EXCEPT !.out = <<Data(up_sent + 1)>>]
    /\ UNCHANGED <<gw, conn, a2g, g2a, session, client, target, up_recv, down_sent, down_recv>>

RequestBodyEnds ==
    /\ Uploading
    /\ acc' = [acc EXCEPT !.out = <<Control("End")>>]
    /\ UNCHANGED <<gw, conn, a2g, g2a, session, client, target, payload>>

\* Reading the request body fails.  Removing the waiter ends head_rx, which the
\* biased select looks at first: a Close that has to wait for room is dropped
\* together with the upload.
RequestBodyFails ==
    /\ Uploading
    /\ acc' = Failed
    /\ client' = "error"
    /\ a2g' = IF session.access /\ Room
              THEN Append(a2g, Control("Close")) ELSE a2g
    /\ UNCHANGED <<gw, conn, g2a, session, target, payload>>

\* The select takes the response head and drops an upload that is not finished.
\* Mutant: the dropped upload is reported as finished to the gateway.
HeadEndsUpload ==
    /\ acc.pc = "uploading" /\ acc.head = "ok"
    /\ Room
    /\ a2g' = IF acc.upload = "running" THEN Append(a2g, Control("End")) ELSE a2g
    /\ acc' = [acc EXCEPT !.pc = "responding", !.out = <<>>,
                 !.upload = IF @ = "running" THEN "dropped" ELSE @]
    /\ UNCHANGED <<gw, conn, g2a, session, client, target, payload>>
HeadArrives ==
    /\ acc.pc = "uploading" /\ acc.head = "ok"
    /\ acc' = [acc EXCEPT !.pc = "responding", !.out = <<>>,
                 !.upload = IF @ = "running" THEN "dropped" ELSE @]
    /\ UNCHANGED <<gw, conn, a2g, g2a, session, client, target, payload>>

\* The head is an error, or a send finds the connection closed.
RequestFails ==
    /\ InRequest
    /\ \/ acc.pc = "uploading" /\ acc.head = "err"
       \/ acc.out # <<>> /\ ~session.access
    /\ acc' = Failed
    /\ client' = "error"
    /\ UNCHANGED <<gw, conn, a2g, g2a, session, target, payload>>

\* The stream of the response body, polled by the client: gateway_closed first,
\* then the channel; None ends the body.
Respond ==
    /\ acc.pc = "responding"
    /\ \/ /\ ~session.access \/ (acc.chan # <<>> /\ Head(acc.chan) = BodyError)
          /\ acc' = [acc EXCEPT !.pc = "done"]
          /\ client' = "error"
          /\ UNCHANGED down_recv
       \/ /\ session.access /\ acc.chan # <<>> /\ Head(acc.chan) # BodyError
          /\ down_recv' = Append(down_recv, Head(acc.chan))
          /\ acc' = [acc EXCEPT !.chan = Tail(@)]
          /\ UNCHANGED client
       \/ /\ session.access /\ acc.chan = <<>> /\ ~acc.body /\ acc.held = 0
          /\ acc' = [acc EXCEPT !.pc = "done"]
          /\ client' = "complete"
          /\ UNCHANGED down_recv
    /\ UNCHANGED <<gw, conn, a2g, g2a, session, target, up_sent, up_recv, down_sent>>

\* The local client disconnects: the handler or the response body is dropped,
\* whatever it was doing; the entries stay.
ClientLeaves ==
    /\ acc.pc # "done"
    /\ acc' = [acc EXCEPT !.pc = "done", !.out = <<>>]
    /\ client' = "gone"
    /\ UNCHANGED <<gw, conn, a2g, g2a, session, target, payload>>

\* An error for the body stream: its entry is removed and try_send is used,
\* which gives up when the channel is full.
\* Mutant: the error ignores the capacity.
BodyFailsAlways(a) ==
    [a EXCEPT !.body = FALSE, !.chan = IF a.body THEN Append(@, BodyError) ELSE @]
BodyFails(a) ==
    [a EXCEPT !.body = FALSE,
              !.chan = IF a.body /\ Len(@) < BodyCapacity THEN Append(@, BodyError) ELSE @,
              !.error_lost = @ \/ (a.body /\ Len(a.chan) = BodyCapacity)]

LoopRuns == session.access /\ session.unsent = 0

\* The session loop waits for room; some of what is queued has left the writer already.
LoopBlocks == \E n \in 1..Len(a2g) : session' = [session EXCEPT !.unsent = n]

\* send_text of the session loop.
LoopSends(m) ==
    \/ Room /\ a2g' = Append(a2g, m) /\ UNCHANGED session
    \/ ~Room /\ LoopBlocks /\ UNCHANGED a2g

\* The heartbeat, or the answer to the gateway's, finds the queue full.
HeartbeatBlocks ==
    /\ LoopRuns /\ acc.held = 0 /\ ~Room
    /\ LoopBlocks
    /\ UNCHANGED <<acc, gw, conn, a2g, g2a, client, target, payload>>

\* handle_gateway_frame / handle_gateway_message for this stream.
AccessDispatch ==
    LET m == Head(g2a)
        refuse == m.type = "Data" /\ ~acc.body /\ ~acc.unknown
    IN  /\ LoopRuns /\ g2a # <<>> /\ acc.held = 0
        /\ g2a' = Tail(g2a)
        /\ IF refuse THEN LoopSends(Control("Close")) ELSE UNCHANGED <<a2g, session>>
        /\ \/ /\ m.type = "ResponseStart"
              /\ acc' = [acc EXCEPT !.waiter = FALSE, !.head = IF acc.waiter THEN "ok" ELSE @]
           \/ /\ m.type = "ResponseEnd"
              /\ acc' = [acc EXCEPT !.body = FALSE]
           \/ /\ m.type = "Error"
              /\ acc' = [BodyFails(acc) EXCEPT !.waiter = FALSE,
                                               !.head = IF acc.waiter THEN "err" ELSE @]
           \/ /\ m.type = "Data"
              /\ acc' = [acc EXCEPT !.held = IF acc.body THEN m.n ELSE 0, !.unknown = @ \/ refuse]
        /\ UNCHANGED <<gw, conn, client, target, payload>>

\* tx.send returns: the chunk is queued, or the receiver is gone with the handler.
\* Mutant: a full channel gives up its oldest chunk.
AccessDropsOldest ==
    /\ LoopRuns /\ acc.held # 0
    /\ \/ /\ acc.pc # "done"
          /\ acc' = [acc EXCEPT !.held = 0,
                       !.chan = IF Len(@) < BodyCapacity THEN Append(@, acc.held)
                                ELSE Append(Tail(@), acc.held)]
          /\ UNCHANGED <<a2g, session>>
       \/ /\ acc.pc = "done"
          /\ acc' = [acc EXCEPT !.body = FALSE, !.held = 0]
          /\ LoopSends(Control("Close"))
    /\ UNCHANGED <<gw, conn, g2a, client, target, payload>>
AccessDeliver ==
    /\ LoopRuns /\ acc.held # 0
    /\ \/ /\ acc.pc # "done" /\ Len(acc.chan) < BodyCapacity
          /\ acc' = [acc EXCEPT !.chan = Append(@, acc.held), !.held = 0]
          /\ UNCHANGED <<a2g, session>>
       \/ /\ acc.pc = "done"
          /\ acc' = [acc EXCEPT !.body = FALSE, !.held = 0]
          /\ LoopSends(Control("Close"))
    /\ UNCHANGED <<gw, conn, g2a, client, target, payload>>

\* The session ends for the access: it broke, the client did not take a chunk within ten
\* seconds, or the connection was stopped.  close_gateway_connection answers the waiter
\* and fails the body stream.
AccessLosesSession ==
    /\ session.access
    /\ session' = [session EXCEPT !.access = FALSE]
    /\ acc' = [BodyFails(acc) EXCEPT !.waiter = FALSE, !.held = 0,
                                     !.head = IF acc.waiter THEN "err" ELSE @]
    /\ UNCHANGED <<gw, conn, a2g, g2a, client, target, payload>>

-------------------------------------------------------------------------------
(********************* Gateway reader and request task ********************)

Running == gw.pc \notin {"none", "done"}

\* Close and SessionCleanup: the cancellation is set, the body sender removed.
\* Mutant: only the body sender is removed.
CancelledBodyOnly == [gw EXCEPT !.body = FALSE]
Cancelled == [gw EXCEPT !.body = FALSE, !.canceled = @ \/ Running]

\* handle_socket_result / handle_text_message for this stream.  A request whose
\* target is not authorized is refused; a body chunk waits for room.
GatewayDispatch ==
    LET m == Head(a2g)
    IN  /\ session.gateway /\ Len(a2g) > session.unsent /\ gw.held = 0
        /\ a2g' = Tail(a2g)
        /\ \/ /\ m.type = "Start"
              /\ gw' = [gw EXCEPT !.pc = "requesting", !.body = TRUE]
              /\ conn' = "open" /\ UNCHANGED g2a
           \/ /\ m.type = "Start" /\ Len(g2a) < QueueCapacity
              /\ g2a' = Append(g2a, Control("Error"))
              /\ UNCHANGED <<gw, conn>>
           \/ /\ m.type = "End"
              /\ gw' = [gw EXCEPT !.body = FALSE] /\ UNCHANGED <<conn, g2a>>
           \/ /\ m.type = "Close"
              /\ gw' = Cancelled /\ UNCHANGED <<conn, g2a>>
           \/ /\ m.type = "Data"
              /\ gw' = [gw EXCEPT !.held = IF gw.body THEN m.n ELSE 0] /\ UNCHANGED <<conn, g2a>>
        /\ UNCHANGED <<acc, session, client, target, payload>>

\* tx.send returns: the chunk is queued, or the receiver is gone with the
\* connection to the target.
GatewayDeliver ==
    /\ session.gateway /\ gw.held # 0
    /\ \/ /\ conn = "open" /\ Len(gw.chan) < BodyCapacity
          /\ gw' = [gw EXCEPT !.chan = Append(@, gw.held), !.held = 0]
          /\ UNCHANGED g2a
       \/ /\ conn = "closed" /\ Len(g2a) < QueueCapacity
          /\ gw' = [gw EXCEPT !.body = FALSE, !.held = 0]
          /\ g2a' = Append(g2a, Control("Error"))
    /\ UNCHANGED <<acc, conn, a2g, session, client, target, payload>>

\* The session ends for the gateway, or its lease is revoked: SessionCleanup.
GatewayLosesSession ==
    /\ session.gateway
    /\ session' = [session EXCEPT !.gateway = FALSE]
    /\ gw' = [Cancelled EXCEPT !.held = 0]
    /\ UNCHANGED <<acc, conn, a2g, g2a, client, target, payload>>

\* The biased select of the request task sees the cancellation and drops the work.
TaskCancelled ==
    /\ Running /\ gw.canceled
    /\ gw' = [gw EXCEPT !.pc = "done", !.out = <<>>, !.body = FALSE]
    /\ UNCHANGED <<acc, conn, a2g, g2a, session, client, target, payload>>

TaskSends ==
    /\ Running /\ gw.out # <<>> /\ session.gateway /\ Len(g2a) < QueueCapacity
    /\ g2a' = Append(g2a, Head(gw.out))
    /\ gw' = [gw EXCEPT !.out = <<>>]
    /\ UNCHANGED <<acc, conn, a2g, session, client, target, payload>>

\* builder.send() returns the response head, perhaps before the end of the request.
TargetAnswers ==
    /\ gw.pc = "requesting" /\ conn = "open"
    /\ target' = [target EXCEPT !.answer = "open"]
    /\ gw' = [gw EXCEPT !.pc = "responding", !.out = <<Control("ResponseStart")>>]
    /\ UNCHANGED <<acc, conn, a2g, g2a, session, client, payload>>

TargetChunk ==
    /\ gw.pc = "responding" /\ gw.out = <<>> /\ down_sent < MaxDown
    /\ down_sent' = down_sent + 1
    /\ gw' = [gw EXCEPT !.out = <<Data(down_sent + 1)>>]
    /\ UNCHANGED <<acc, conn, a2g, g2a, session, client, target, up_sent, up_recv, down_recv>>

\* handle_http_request returns: the body sender is removed, then the end or the
\* error of the response is sent.
TaskEnds(answer, message) ==
    /\ target' = [target EXCEPT !.answer = answer]
    /\ gw' = [gw EXCEPT !.pc = "ending", !.body = FALSE, !.out = <<Control(message)>>]
    /\ UNCHANGED <<acc, conn, a2g, g2a, session, client, payload>>

TargetEnds ==
    /\ gw.pc = "responding" /\ gw.out = <<>>
    /\ TaskEnds("ended", "ResponseEnd")

TargetFails ==
    /\ gw.pc = "requesting" \/ (gw.pc = "responding" /\ gw.out = <<>>)
    /\ TaskEnds("failed", "Error")

TaskReturns ==
    /\ gw.pc = "ending" /\ gw.out = <<>>
    /\ gw' = [gw EXCEPT !.pc = "done"]
    /\ UNCHANGED <<acc, conn, a2g, g2a, session, client, target, payload>>

\* The connection to the target: it sends the chunks, ends the request when all
\* senders are gone, and closes once the target has answered or the request was
\* dropped or failed.
ConnectionSends ==
    /\ conn = "open" /\ gw.chan # <<>>
    /\ up_recv' = Append(up_recv, Head(gw.chan))
    /\ gw' = [gw EXCEPT !.chan = Tail(@)]
    /\ UNCHANGED <<acc, conn, a2g, g2a, session, client, target, up_sent, down_sent, down_recv>>

ConnectionEnds ==
    /\ conn = "open" /\ gw.chan = <<>> /\ ~gw.body /\ gw.held = 0
    /\ ~target.request_end
    /\ target' = [target EXCEPT !.request_end = TRUE]
    /\ UNCHANGED <<acc, gw, conn, a2g, g2a, session, client, payload>>

ConnectionCloses ==
    /\ conn = "open" /\ gw.pc \in {"responding", "ending", "done"}
    /\ conn' = "closed"
    /\ gw' = [gw EXCEPT !.chan = <<>>]
    /\ UNCHANGED <<acc, a2g, g2a, session, client, target, payload>>

-------------------------------------------------------------------------------
Handler == RequestSends \/ HeadArrives \/ RequestFails
Readers == AccessDispatch \/ HeartbeatBlocks \/ AccessDeliver \/ GatewayDispatch \/ GatewayDeliver
RequestTask == TaskCancelled \/ TaskSends \/ TaskReturns
Client == ReadChunk \/ RequestBodyEnds \/ RequestBodyFails \/ ClientLeaves
Target == TargetAnswers \/ TargetChunk \/ TargetEnds \/ TargetFails
Connection == ConnectionSends \/ ConnectionEnds \/ ConnectionCloses
Losses == AccessLosesSession \/ GatewayLosesSession

Next == Handler \/ Respond \/ Readers \/ RequestTask \/ Client \/ Target \/ Connection \/ Losses

Spec == Init /\ [][Next]_vars

\* The tasks run, and the response of a closed connection ends or fails.  Each side
\* notices the loss of the other by its idle timeout, the access unless its session
\* loop waits for room in its own queue, the gateway unless its reader waits for room
\* in a body channel (in its queue it does not wait for ever: the writer, a task of its
\* own, fails with the connection).  Nothing is assumed of the client (but that a
\* present client takes its response) or of the target.
FairSpec ==
    /\ Spec
    /\ WF_vars(Handler) /\ WF_vars(Respond) /\ WF_vars(RequestTask)
    /\ WF_vars(AccessDispatch \/ AccessDeliver) /\ WF_vars(GatewayDispatch \/ GatewayDeliver)
    /\ WF_vars(~session.access /\ gw.held = 0 /\ GatewayLosesSession)
    /\ WF_vars(~session.gateway /\ session.unsent = 0 /\ AccessLosesSession)
    /\ WF_vars(conn = "closed" /\ (TargetEnds \/ TargetFails))

\* A target that takes the request as it comes and, having seen all of it,
\* answers and ends its answer.
ServingSpec ==
    /\ FairSpec
    /\ WF_vars(ConnectionSends) /\ WF_vars(ConnectionEnds)
    /\ WF_vars(target.request_end /\ (TargetAnswers \/ TargetEnds))

-------------------------------------------------------------------------------
(******************************* Properties *******************************)

Message == [type : {"Data"}, n : 1..(MaxUp + MaxDown)]
           \cup [type : {"Start", "End", "Close", "ResponseStart", "ResponseEnd", "Error"}, n : {0}]

\* Types of the state, and the queues and body channels within their capacities.
TypeOK ==
    /\ acc.pc \in {"starting", "uploading", "responding", "done"}
    /\ acc.upload \in {"running", "finished", "dropped"}
    /\ acc.head \in {"pending", "ok", "err"}
    /\ gw.pc \in {"none", "requesting", "responding", "ending", "done"}
    /\ a2g \in Seq(Message) /\ Len(a2g) <= QueueCapacity
    /\ g2a \in Seq(Message) /\ Len(g2a) <= QueueCapacity
    /\ acc.chan \in Seq(0..MaxDown) /\ Len(acc.chan) <= BodyCapacity
    /\ gw.chan \in Seq(1..MaxUp) /\ Len(gw.chan) <= BodyCapacity
    /\ conn \in {"none", "open", "closed"}
    /\ client \in {"waiting", "complete", "error", "gone"}
    /\ session \in [access : BOOLEAN, gateway : BOOLEAN, unsent : 0..QueueCapacity]

\* What the target takes of the request and the client of the response is a
\* prefix of what the other sent, whatever fails or is dropped in between.
InOrder(received, sent) == Len(received) <= sent /\ \A i \in DOMAIN received : received[i] = i
BodiesInOrder == InOrder(up_recv, up_sent) /\ InOrder(down_recv, down_sent)

\* Both bodies, end to end, are ordered channels: what the target took of the request
\* and the client of the response is not taken back, and goes on with the next chunk.
Numbers(n) == [i \in 1..n |-> i]
RequestBody == INSTANCE OrderedChannel
               WITH Frames <- 1..MaxUp, Capacity <- MaxUp,
                    sent <- Numbers(up_sent), received <- up_recv
ResponseBody == INSTANCE OrderedChannel
                WITH Frames <- 1..MaxDown, Capacity <- MaxDown,
                     sent <- Numbers(down_sent), received <- down_recv
BodiesRefine == RequestBody!Spec /\ ResponseBody!Spec

WholeResponse == target.answer = "ended" /\ Len(down_recv) = down_sent
WholeRequest == acc.upload = "finished" /\ Len(up_recv) = up_sent

\* A response body that ends regularly for the client is the whole answer of the
\* target, unless an error found the body channel full and was dropped:
\* neither a lost session nor a failing target looks like the end.
ResponseComplete == client = "complete" /\ ~acc.error_lost => WholeResponse

\* ResponseComplete without the exception: what an HTTP proxy owes its client.
ResponseHonest == client = "complete" => WholeResponse

\* While its request is being served and was not cancelled, the target sees the
\* end of the request body only after the whole of it; an upload dropped
\* because the head came early never looks complete.
RequestComplete ==
    target.request_end /\ ~gw.canceled /\ target.answer \notin {"ended", "failed"} => WholeRequest

\* Neither body looks complete before it is.
BodiesComplete == RequestComplete /\ ResponseComplete

\* RequestComplete for a cancelled request too: cancelling must not complete it.
RequestHonest ==
    target.request_end /\ target.answer \notin {"ended", "failed"} => WholeRequest

\* A handler that returned to its client, with a response or an error, leaves
\* neither a head waiter nor a body stream behind.
NoEntryLeft == client \in {"complete", "error"} => ~acc.waiter /\ ~acc.body

\* The loss of the session ends the request on both sides, for good, unless the session
\* loop of the access got stuck in its own queue: then its client waits on.
LossEndsRequest ==
    <>[](/\ ~session.access => acc.pc = "done"
         /\ ~session.gateway => ~Running /\ (acc.pc = "done" \/ session.unsent # 0))

\* LossEndsRequest without the exception: the client of a lost session is answered.
LossAnswersClient == ~session.gateway ~> acc.pc = "done"

\* Once the client is gone or answered, the gateway ends the request.
RequestReleased == acc.pc = "done" ~> ~Running

\* A response whose head has arrived is completed, or fails.
ResponseEnds == acc.pc = "responding" ~> acc.pc = "done"
================================================================================
