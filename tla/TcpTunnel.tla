------------------------------- MODULE TcpTunnel -------------------------------
(***************************************************************************)
(* One TCP stream through the tunnel, end to end: the access handler       *)
(* (ws-net-access/src/tcp.rs), the two connection readers that dispatch     *)
(* frames (gateway.rs, ws.rs) and the gateway's stream task                *)
(* (ws-net-gateway/src/tcp.rs), between a local client and a target.       *)
(*                                                                         *)
(* a2g and g2a are the outbound queue of a side, its writer and the        *)
(* encrypted channel together: bounded FIFOs (TunnelCipher shows that the  *)
(* channel is ordered).  acc.out and gw.out hold what a task is sending:   *)
(* it does nothing else until the queue has taken it.  Data frames are     *)
(* numbered; merging of frames by the writer keeps their order and is left *)
(* out.  The session may break at any time, and the two sides notice       *)
(* separately.                                                             *)
(***************************************************************************)
EXTENDS Naturals, Sequences

CONSTANTS MaxUp,          \* data frames the local client sends
          MaxDown,        \* data frames the target sends
          QueueCapacity,  \* capacity of the outbound queues (1024 in the code)
          StreamCapacity  \* TCP_STREAM_CHANNEL_CAPACITY (64 in the code)

ASSUME CapacityAssumption ==
    /\ QueueCapacity \in Nat \ {0} /\ StreamCapacity \in Nat \ {0}
    /\ MaxUp \in Nat /\ MaxDown \in Nat

VARIABLES acc,        \* the access handler and its entries in the connection's maps
          gw,         \* the gateway stream task and its entries
          a2g, g2a,   \* queued messages
          session,    \* is the session open for the access, for the gateway's loop,
                      \* for the gateway's writer?
          up_sent, up_recv,     \* frames read from the client; frames written to the target
          down_sent, down_recv  \* frames read from the target; frames written to the client

vars == <<acc, gw, a2g, g2a, session, up_sent, up_recv, down_sent, down_recv>>

Data(n) == [type |-> "Data", n |-> n]
Control(t) == [type |-> t, n |-> 0]

\* The handler after ensure_gateway_ready: waiter and stream registered, Open
\* on its way to the queue.
Init ==
    /\ acc = [pc |-> "waiting", out |-> <<Control("Open")>>, open |-> "pending", entry |-> TRUE,
              chan |-> <<>>, held |-> 0, unknown |-> FALSE,
              local_read_closed |-> FALSE, remote_closed |-> FALSE, failed |-> FALSE]
    /\ gw = [pc |-> "none", out |-> <<>>, entry |-> FALSE, chan |-> <<>>, held |-> 0, canceled |-> FALSE,
             revoked |-> FALSE, target_read_closed |-> FALSE, access_closed |-> FALSE, failed |-> FALSE]
    /\ a2g = <<>> /\ g2a = <<>>
    /\ session = [access |-> TRUE, gateway |-> TRUE, writer |-> TRUE]
    /\ up_sent = 0 /\ up_recv = <<>>
    /\ down_sent = 0 /\ down_recv = <<>>

-------------------------------------------------------------------------------
(***************************** Access handler *****************************)

payload == <<up_sent, up_recv, down_sent, down_recv>>

\* outbound.send of what the handler is sending.
AccessSends ==
    /\ acc.out # <<>> /\ session.access
    /\ Len(a2g) < QueueCapacity
    /\ a2g' = Append(a2g, Head(acc.out))
    /\ acc' = [acc EXCEPT !.out = Tail(@)]
    /\ UNCHANGED <<gw, g2a, session, payload>>

\* The wait for OpenOk is over: forward, give up, or time out and send Close.
AccessOpened ==
    /\ acc.pc = "waiting" /\ acc.out = <<>> /\ acc.open = "ok"
    /\ acc' = [acc EXCEPT !.pc = "forwarding"]
    /\ UNCHANGED <<gw, a2g, g2a, session, payload>>

AccessOpenFailed ==
    /\ acc.pc = "waiting" /\ acc.out = <<>> /\ acc.open = "err"
    /\ acc' = [acc EXCEPT !.pc = "done", !.entry = FALSE]
    /\ UNCHANGED <<gw, a2g, g2a, session, payload>>

AccessOpenTimeout ==
    /\ acc.pc = "waiting" /\ acc.out = <<>> /\ acc.open = "pending"
    /\ acc' = [acc EXCEPT !.pc = "closing", !.open = "err", !.entry = FALSE,
                          !.out = <<Control("Close")>>]
    /\ UNCHANGED <<gw, a2g, g2a, session, payload>>

Forwarding == acc.pc = "forwarding" /\ acc.out = <<>> /\ session.access

\* Leaving the forwarding loop: the stream entry is removed and Close is sent
\* after what is still to be sent.
AccessBreak(a) == [a EXCEPT !.pc = "closing", !.entry = FALSE, !.out = Append(@, Control("Close"))]

ReadLocal ==
    /\ Forwarding /\ ~acc.local_read_closed /\ up_sent < MaxUp
    /\ up_sent' = up_sent + 1
    /\ acc' = [acc EXCEPT !.out = <<Data(up_sent + 1)>>]
    /\ UNCHANGED <<gw, a2g, g2a, session, up_recv, down_sent, down_recv>>

\* End of the local stream: TcpEof, and Close at once if the remote side has
\* closed before.
LocalEof ==
    LET a == [acc EXCEPT !.local_read_closed = TRUE, !.out = <<Control("TcpEof")>>]
    IN  /\ Forwarding /\ ~acc.local_read_closed
        /\ acc' = IF acc.remote_closed THEN AccessBreak(a) ELSE a
        /\ UNCHANGED <<gw, a2g, g2a, session, payload>>

WriteLocal ==
    /\ Forwarding /\ ~acc.remote_closed /\ acc.chan # <<>>
    /\ down_recv' = Append(down_recv, Head(acc.chan))
    /\ acc' = [acc EXCEPT !.chan = Tail(@)]
    /\ UNCHANGED <<gw, a2g, g2a, session, up_sent, up_recv, down_sent>>

\* write_rx.recv() returns None: the entry is gone and the channel drained.
ShutdownLocal ==
    LET a == [acc EXCEPT !.remote_closed = TRUE]
    IN  /\ Forwarding /\ ~acc.remote_closed /\ acc.chan = <<>> /\ ~acc.entry /\ acc.held = 0
        /\ acc' = IF acc.local_read_closed THEN AccessBreak(a) ELSE a
        /\ UNCHANGED <<gw, a2g, g2a, session, payload>>

\* Reading from or writing to the local socket fails.
LocalFails ==
    /\ Forwarding
    /\ acc' = [AccessBreak(acc) EXCEPT !.failed = TRUE]
    /\ UNCHANGED <<gw, a2g, g2a, session, payload>>

\* The last message of the handler is queued, or the session is closed: sending
\* fails, gateway_closed wins the outer select, and the handler returns.
AccessReturns ==
    /\ \/ acc.pc = "closing" /\ acc.out = <<>>
       \/ ~session.access /\ acc.pc # "done" /\ (acc.pc = "waiting" => acc.out # <<>>)
    /\ acc' = [acc EXCEPT !.pc = "done", !.out = <<>>, !.entry = FALSE, !.chan = <<>>]
    /\ UNCHANGED <<gw, a2g, g2a, session, payload>>

\* handle_gateway_frame / handle_gateway_message for this stream.  For data the
\* reader takes the sender of the stream and waits for room (AccessDeliver);
\* the first data frame for a stream without an entry is answered with Close.
AccessDispatch ==
    LET m == Head(g2a)
        refuse == m.type = "Data" /\ ~acc.entry /\ ~acc.unknown
    IN  /\ session.access /\ g2a # <<>> /\ acc.held = 0
        /\ refuse => Len(a2g) < QueueCapacity
        /\ g2a' = Tail(g2a)
        /\ a2g' = IF refuse THEN Append(a2g, Control("Close")) ELSE a2g
        /\ acc' = [acc EXCEPT
                     !.open = IF @ # "pending" THEN @
                              ELSE IF m.type = "OpenOk" THEN "ok"
                              ELSE IF m.type \in {"Error", "Close"} THEN "err" ELSE @,
                     !.entry = @ /\ m.type \notin {"Close", "TcpEof"},
                     !.held = IF m.type = "Data" /\ acc.entry THEN m.n ELSE @,
                     !.unknown = @ \/ refuse]
        /\ UNCHANGED <<gw, session, payload>>

\* tx.send returns: the frame is queued, or the handler and its receiver are gone.
AccessDeliver ==
    /\ session.access /\ acc.held # 0
    /\ \/ /\ acc.pc # "done" /\ Len(acc.chan) < StreamCapacity
          /\ acc' = [acc EXCEPT !.chan = Append(@, acc.held), !.held = 0]
          /\ UNCHANGED a2g
       \/ /\ acc.pc = "done" /\ Len(a2g) < QueueCapacity
          /\ acc' = [acc EXCEPT !.entry = FALSE, !.held = 0]
          /\ a2g' = Append(a2g, Control("Close"))
    /\ UNCHANGED <<gw, g2a, session, payload>>

\* The session ends for the access: it broke, or the local client did not take
\* a frame in time.  close_gateway_connection drops the entry and fails the
\* waiter; what was queued is drained.
AccessLosesSession ==
    /\ session.access
    /\ session' = [session EXCEPT !.access = FALSE]
    /\ acc' = [acc EXCEPT !.entry = FALSE, !.held = 0, !.open = IF @ = "pending" THEN "err" ELSE @]
    /\ UNCHANGED <<gw, a2g, g2a, payload>>

-------------------------------------------------------------------------------
(************************ Gateway reader and stream ***********************)

\* The entry is removed and the stream's StreamCancellation set; there is none
\* before the task starts and after it has ended.
\* Mutant: only the entry is removed.
CancelledEntryOnly == [gw EXCEPT !.entry = FALSE]
Cancelled == [gw EXCEPT !.entry = FALSE, !.canceled = gw.pc \notin {"none", "done"}]

\* outbound.send of the gateway: it waits for room, or fails without the writer.
Post(m) ==
    IF session.writer THEN Len(g2a) < QueueCapacity /\ g2a' = Append(g2a, m) ELSE UNCHANGED g2a

\* handle_socket_result / handle_text_message for this stream.  Open starts the
\* stream task unless the target is refused; data of an unknown stream is dropped.
GatewayDispatch ==
    LET m == Head(a2g)
    IN  /\ session.gateway /\ session.writer /\ a2g # <<>> /\ gw.held = 0
        /\ a2g' = Tail(a2g)
        /\ \/ /\ m.type = "Open"
              /\ \/ gw' = [gw EXCEPT !.pc = "connecting"] /\ UNCHANGED g2a
                 \/ Post(Control("Error")) /\ UNCHANGED gw
           \/ /\ m.type = "TcpEof"
              /\ gw' = [gw EXCEPT !.entry = FALSE] /\ UNCHANGED g2a
           \/ /\ m.type = "Close"
              /\ gw' = Cancelled /\ UNCHANGED g2a
           \/ /\ m.type = "Data"
              /\ gw' = [gw EXCEPT !.held = IF gw.entry THEN m.n ELSE 0] /\ UNCHANGED g2a
        /\ UNCHANGED <<acc, session, payload>>

\* tx.send returns: the frame is queued, or the stream's receiver is gone.
\* Mutant: try_send, which drops the frame when the channel is full.
GatewayTryDeliver ==
    /\ session.gateway /\ gw.held # 0
    /\ \/ /\ gw.pc \notin {"ended", "done"}
          /\ gw' = [gw EXCEPT !.held = 0,
                     !.chan = IF Len(@) < StreamCapacity THEN Append(@, gw.held) ELSE @]
          /\ UNCHANGED g2a
       \/ /\ gw.pc \in {"ended", "done"}
          /\ gw' = [gw EXCEPT !.entry = FALSE, !.held = 0]
          /\ Post(Control("Close"))
    /\ UNCHANGED <<acc, a2g, session, payload>>
GatewayDeliver ==
    /\ session.gateway /\ gw.held # 0
    /\ \/ /\ gw.pc \notin {"ended", "done"} /\ Len(gw.chan) < StreamCapacity
          /\ gw' = [gw EXCEPT !.chan = Append(@, gw.held), !.held = 0]
          /\ UNCHANGED g2a
       \/ /\ gw.pc \in {"ended", "done"}
          /\ gw' = [gw EXCEPT !.entry = FALSE, !.held = 0]
          /\ Post(Control("Close"))
    /\ UNCHANGED <<acc, a2g, session, payload>>

\* Writing to an access that is gone fails; the loop sees it when it is polled next.
GatewayWriterEnds ==
    /\ session.writer /\ ~session.access
    /\ session' = [session EXCEPT !.writer = FALSE]
    /\ UNCHANGED <<acc, gw, a2g, g2a, payload>>

\* The session loop ends; its SessionCleanup cancels every stream and clears the
\* maps.  The loop does not notice while it waits for room in a stream.
GatewayLosesSession ==
    /\ session.gateway /\ gw.held = 0
    /\ session' = [session EXCEPT !.gateway = FALSE, !.writer = FALSE]
    /\ gw' = Cancelled
    /\ UNCHANGED <<acc, a2g, g2a, payload>>

\* A reload revokes the lease: the loop ends whatever it waits for, and lease.run
\* drops the stream's future at its next await.
LeaseRevoked ==
    /\ session.gateway
    /\ session' = [session EXCEPT !.gateway = FALSE, !.writer = FALSE]
    /\ gw' = [Cancelled EXCEPT !.revoked = TRUE, !.held = 0]
    /\ UNCHANGED <<acc, a2g, g2a, payload>>

StreamRevoked ==
    /\ gw.revoked /\ gw.pc \in {"connecting", "forwarding", "writing"}
    /\ gw' = [gw EXCEPT !.pc = "ended", !.failed = TRUE, !.chan = <<>>, !.out = <<>>]
    /\ UNCHANGED <<acc, a2g, g2a, session, payload>>

\* outbound.send of what the stream task is sending; it fails once the writer is
\* gone, which ends the task unless it was reporting an end itself.
StreamSends ==
    /\ gw.out # <<>>
    /\ Post(Head(gw.out))
    /\ gw' = IF ~session.writer /\ Head(gw.out).type \in {"OpenOk", "Data"}
             THEN [gw EXCEPT !.out = <<>>, !.pc = "ended", !.failed = TRUE, !.chan = <<>>]
             ELSE [gw EXCEPT !.out = Tail(@)]
    /\ UNCHANGED <<acc, a2g, session, payload>>

\* TcpStream::connect returns; the stream is registered and OpenOk is sent.
Connect ==
    /\ gw.pc = "connecting"
    /\ gw' = [gw EXCEPT !.pc = "forwarding", !.entry = TRUE, !.out = <<Control("OpenOk")>>]
    /\ UNCHANGED <<acc, a2g, g2a, session, payload>>

ConnectFails ==
    /\ gw.pc = "connecting"
    /\ gw' = [gw EXCEPT !.pc = "ended", !.failed = TRUE]
    /\ UNCHANGED <<acc, a2g, g2a, session, payload>>

Selecting == gw.pc = "forwarding" /\ gw.out = <<>>

\* The select of the stream task is not biased: with several branches ready,
\* any may be taken.
ObserveCancel ==
    /\ Selecting /\ gw.canceled
    /\ gw' = [gw EXCEPT !.pc = "ended", !.chan = <<>>]
    /\ UNCHANGED <<acc, a2g, g2a, session, payload>>

ReadTarget ==
    /\ Selecting /\ ~gw.target_read_closed /\ down_sent < MaxDown
    /\ down_sent' = down_sent + 1
    /\ gw' = [gw EXCEPT !.out = <<Data(down_sent + 1)>>]
    /\ UNCHANGED <<acc, a2g, g2a, session, up_sent, up_recv, down_recv>>

TargetEof ==
    /\ Selecting /\ ~gw.target_read_closed
    /\ gw' = [gw EXCEPT !.target_read_closed = TRUE, !.out = <<Control("TcpEof")>>,
                        !.pc = IF gw.access_closed THEN "ended" ELSE @]
    /\ UNCHANGED <<acc, a2g, g2a, session, payload>>

\* write_all to the target runs in the branch: nothing else is polled until the
\* target has taken the frame.
BeginWrite ==
    /\ Selecting /\ ~gw.access_closed /\ gw.chan # <<>>
    /\ gw' = [gw EXCEPT !.pc = "writing"]
    /\ UNCHANGED <<acc, a2g, g2a, session, payload>>

FinishWrite ==
    /\ gw.pc = "writing"
    /\ up_recv' = Append(up_recv, Head(gw.chan))
    /\ gw' = [gw EXCEPT !.pc = "forwarding", !.chan = Tail(@)]
    /\ UNCHANGED <<acc, a2g, g2a, session, up_sent, down_sent, down_recv>>

\* write_rx.recv() returns None: shut down the write side of the target.
\* Mutant: the write side is shut down although frames are still queued.
ShutdownTargetEarly ==
    /\ Selecting /\ ~gw.access_closed /\ ~gw.entry
    /\ gw' = [gw EXCEPT !.access_closed = TRUE, !.pc = IF gw.target_read_closed THEN "ended" ELSE @]
    /\ UNCHANGED <<acc, a2g, g2a, session, payload>>
ShutdownTarget ==
    /\ Selecting /\ ~gw.access_closed /\ gw.chan = <<>> /\ ~gw.entry /\ gw.held = 0
    /\ gw' = [gw EXCEPT !.access_closed = TRUE, !.pc = IF gw.target_read_closed THEN "ended" ELSE @]
    /\ UNCHANGED <<acc, a2g, g2a, session, payload>>

\* Reading from or writing to the target fails.
TargetFails ==
    /\ gw.pc = "writing" \/ Selecting
    /\ gw' = [gw EXCEPT !.pc = "ended", !.failed = TRUE, !.chan = <<>>]
    /\ UNCHANGED <<acc, a2g, g2a, session, payload>>

\* The tail of handle_tcp_stream: report an error, remove the entries, send Close.
StreamCleanup ==
    /\ gw.pc = "ended" /\ gw.out = <<>>
    /\ gw' = [gw EXCEPT !.pc = "done", !.entry = FALSE, !.canceled = FALSE,
                        !.out = IF gw.failed THEN <<Control("Error"), Control("Close")>>
                                ELSE <<Control("Close")>>]
    /\ UNCHANGED <<acc, a2g, g2a, session, payload>>

-------------------------------------------------------------------------------
AccessTask == AccessSends \/ AccessOpened \/ AccessOpenFailed \/ WriteLocal \/ ShutdownLocal
              \/ AccessReturns
AccessReader == AccessDispatch \/ AccessDeliver
GatewayReader == GatewayDispatch \/ GatewayDeliver
StreamTask == StreamSends \/ ObserveCancel \/ BeginWrite \/ ShutdownTarget \/ StreamRevoked
              \/ StreamCleanup
Sockets == ReadLocal \/ LocalEof \/ LocalFails \/ ReadTarget \/ TargetEof \/ TargetFails
Breaks == AccessOpenTimeout \/ AccessLosesSession \/ GatewayWriterEnds \/ GatewayLosesSession
          \/ LeaseRevoked

Next == \/ AccessTask \/ AccessReader \/ GatewayReader \/ StreamTask \/ Sockets \/ Breaks
        \/ Connect \/ ConnectFails \/ FinishWrite

Spec == Init /\ [][Next]_vars

\* The tasks run, the system answers a connect, and the gateway notices that the
\* access is gone (ACCESS_READ_IDLE_TIMEOUT).  The select of the stream task is
\* random: a branch that stays ready is taken.  Nothing is assumed of the client
\* or of the target.
FairSpec ==
    /\ Spec
    /\ WF_vars(AccessTask) /\ WF_vars(AccessReader) /\ WF_vars(GatewayReader) /\ WF_vars(StreamTask)
    /\ WF_vars(Connect \/ ConnectFails)
    /\ SF_vars(ObserveCancel)
    /\ WF_vars(GatewayWriterEnds) /\ WF_vars(~session.access /\ GatewayLosesSession)

\* The target takes what is written to it or its connection fails.
TargetReadsSpec == FairSpec /\ WF_vars(gw.pc = "writing" /\ (FinishWrite \/ TargetFails))

-------------------------------------------------------------------------------
(******************************* Properties *******************************)

Message == [type : {"Data"}, n : 1..(MaxUp + MaxDown)]
           \cup [type : {"Open", "OpenOk", "Error", "Close", "TcpEof"}, n : {0}]

\* Types of the state, and the queues and channels within their capacities.
TypeOK ==
    /\ acc.pc \in {"waiting", "forwarding", "closing", "done"}
    /\ acc.open \in {"pending", "ok", "err"}
    /\ gw.pc \in {"none", "connecting", "forwarding", "writing", "ended", "done"}
    /\ acc.out \in Seq(Message) /\ gw.out \in Seq(Message)
    /\ a2g \in Seq(Message) /\ Len(a2g) <= QueueCapacity
    /\ g2a \in Seq(Message) /\ Len(g2a) <= QueueCapacity
    /\ acc.chan \in Seq(1..MaxDown) /\ Len(acc.chan) <= StreamCapacity
    /\ gw.chan \in Seq(1..MaxUp) /\ Len(gw.chan) <= StreamCapacity
    /\ acc.held \in 0..MaxDown /\ gw.held \in 0..MaxUp
    /\ session \in [access : BOOLEAN, gateway : BOOLEAN, writer : BOOLEAN]
    /\ up_sent \in 0..MaxUp /\ down_sent \in 0..MaxDown

\* The bytes that reach the target are a prefix of those the client sent, and
\* the other way round: whatever closes, fails or is cancelled in between,
\* nothing is lost in the middle, duplicated or reordered.
InOrder(received, sent) == Len(received) <= sent /\ \A i \in DOMAIN received : received[i] = i
BytesInOrder == InOrder(up_recv, up_sent) /\ InOrder(down_recv, down_sent)

\* Each direction of the stream, end to end, is an ordered channel: bytes that were
\* delivered stay delivered, and the next ones are those that were sent next,
\* through two queues, two readers and two stream channels.
Numbers(n) == [i \in 1..n |-> i]
Upload == INSTANCE OrderedChannel
          WITH Frames <- 1..MaxUp, Capacity <- MaxUp, sent <- Numbers(up_sent), received <- up_recv
Download == INSTANCE OrderedChannel
            WITH Frames <- 1..MaxDown, Capacity <- MaxDown,
                 sent <- Numbers(down_sent), received <- down_recv
EndToEnd == Upload!Spec /\ Download!Spec

\* The client sees a regular end of the download only after all of it, unless
\* the stream itself failed: the entry that is removed on TcpEof ends the
\* channel behind the frames queued before.
DownloadComplete ==
    session.access /\ acc.remote_closed /\ gw.target_read_closed => Len(down_recv) = down_sent

\* Half-close: the write side of the target is shut down only behind the last
\* frame of the client, as long as the client has not closed the whole stream.
UploadComplete ==
    session.gateway /\ gw.access_closed /\ acc.pc = "forwarding" => Len(up_recv) = up_sent

\* Neither side sees a regular end of the stream before all of it.
EndsComplete == UploadComplete /\ DownloadComplete

\* A client that sends everything, ends its stream without an error and whose
\* session stays open reaches the target with everything: what transparent
\* forwarding means for the upload.
CleanCloseDelivers ==
    /\ session.access /\ session.gateway
    /\ acc.pc = "done" /\ acc.local_read_closed /\ ~acc.failed
    /\ gw.pc = "done" /\ ~gw.failed
    => Len(up_recv) = up_sent

\* Each side has as many messages in its outbound queue as it holds: a reader that
\* answers, and a stream task that sends, wait for the other side.
QueuesFull == Len(a2g) = QueueCapacity /\ Len(g2a) = QueueCapacity

\* Once the access handler is gone the stream task ends and the connection to
\* the target is closed; the one thing that can keep it are two outbound queues
\* that stay full, the task waiting for the access and the access for the gateway.
StreamReleased ==
    \/ acc.pc = "done" ~> gw.pc \in {"none", "done"}
    \/ <>[]QueuesFull
================================================================================
