------------------------------- MODULE WriterBatch -------------------------------
(***************************************************************************)
(* The writer of a session: it takes messages from the outbound queue,      *)
(* gathers them into a batch (merging the data frames of one stream that    *)
(* follow each other), encrypts them one by one and feeds them to the       *)
(* WebSocket. The access and the gateway gather alike                       *)
(* (ws-net-access/src/gateway.rs, ws-net-gateway/src/ws.rs); the gateway's  *)
(* writer, modelled here, also watches the lease of its session and reports *)
(* the reason when it is cancelled. A writer of the access is one whose     *)
(* lease is never cancelled.                                               *)
(*                                                                         *)
(* Bytes are numbered in the order they are posted; a control message has a *)
(* number of its own. The cipher is its sequence number.                    *)
(***************************************************************************)
EXTENDS Naturals, Sequences, SequencesExt

CONSTANTS Streams, Control,  \* stream identifiers; the kind of a text message
          MaxPayload,        \* WS_DATA_FRAME_MAX_PAYLOAD
          MaxBytes,          \* WS_WRITE_BATCH_MAX_BYTES
          MaxMessages,       \* WS_WRITE_BATCH_MAX_MESSAGES
          HeaderLen,         \* DATA_FRAME_HEADER_LEN
          QueueCapacity,     \* capacity of the outbound queue
          WireCapacity,      \* frames the socket takes before feed has to wait
          MaxPosted          \* bound: numbers that are posted

ASSUME WriterAssumption ==
    /\ Control \notin Streams
    /\ {MaxPayload, MaxBytes, MaxMessages, QueueCapacity, WireCapacity} \subseteq Nat \ {0}
    /\ HeaderLen \in Nat /\ HeaderLen < MaxBytes /\ MaxPosted \in Nat

VARIABLES posted,    \* what was posted: the kind of each number
          queue,     \* outbound_tx .. outbound_rx
          pending,   \* the message deferred to the next batch, if any
          batch,     \* what is still to be encrypted
          batch_bytes, \* what was counted while it was gathered
          hand,      \* the encrypted frame that waits in feed, if any
          phase,     \* where the writer is
          sequence,  \* next_send_sequence
          cancelled, \* the lease's signal
          wire,      \* frames the socket took
          access,    \* [expected, received, state] of the receiving side
          linked     \* the connection

writer == <<pending, batch, batch_bytes, hand, phase, sequence>>
vars == <<posted, queue, writer, cancelled, wire, access, linked>>

Error == [kind |-> Control, units |-> <<>>]  \* Message::Error of the lease
IsData(message) == message.kind # Control

Size(message) == IF IsData(message) THEN HeaderLen + Len(message.units) ELSE 1

Init == /\ posted = <<>> /\ queue = <<>> /\ pending = <<>> /\ batch = <<>>
        /\ batch_bytes = 0 /\ hand = <<>> /\ phase = "waiting" /\ sequence = 0
        /\ cancelled = FALSE /\ wire = <<>>
        /\ access = [expected |-> 0, received |-> <<>>, state |-> "open"]
        /\ linked = TRUE

-------------------------------------------------------------------------------
\* A stream or the session posts data or a control message.
Post(kind, n) ==
    /\ Len(queue) < QueueCapacity /\ Len(posted) + n <= MaxPosted
    /\ posted' = posted \o [i \in 1..n |-> kind]
    /\ queue' = Append(queue, [kind |-> kind, units |-> [i \in 1..n |-> Len(posted) + i]])
    /\ UNCHANGED <<writer, cancelled, wire, access, linked>>

\* A registration or a reload cancels the lease.
Cancel == /\ ~cancelled /\ cancelled' = TRUE
          /\ UNCHANGED <<posted, queue, writer, wire, access, linked>>

-------------------------------------------------------------------------------
(********************************* gathering ******************************)
\* The first message of a batch: the deferred one, or the next of the queue.
TakeFirst ==
    /\ phase = "waiting"
    /\ \/ /\ pending # <<>>
          /\ batch' = pending /\ pending' = <<>> /\ queue' = queue
       \/ /\ pending = <<>> /\ ~cancelled /\ queue # <<>>
          /\ batch' = <<Head(queue)>> /\ queue' = Tail(queue) /\ pending' = pending
    /\ phase' = IF IsData(batch'[1]) THEN "collecting" ELSE "writing"
    /\ batch_bytes' = Size(batch'[1])
    /\ UNCHANGED <<posted, hand, sequence, cancelled, wire, access, linked>>

\* try_merge_data_frames.
\* Mutant: the payload is not limited.
MergeableUnlimited(current, next) == IsData(current) /\ IsData(next) /\ current.kind = next.kind
Mergeable(current, next) ==
    /\ IsData(current) /\ IsData(next) /\ current.kind = next.kind
    /\ Len(current.units) + Len(next.units) <= MaxPayload

\* The last message of the batch takes the payload of the next.
Merged(next) == [Last(batch) EXCEPT !.units = @ \o next.units]

\* What a merge adds to batch_bytes.
Counted(next) == Len(next.units)

\* Mutant: a message that does not fit goes back into the queue.
DeferBehind(next) == queue' = Append(Tail(queue), next) /\ UNCHANGED pending
\* A message that does not fit opens the next batch.
Defer(next) == queue' = Tail(queue) /\ pending' = <<next>>

\* push_ws_message of a message just received: it is merged, deferred or appended.
Push(next) ==
    \/ /\ Mergeable(Last(batch), next)
       /\ batch' = Append(Front(batch), Merged(next)) /\ batch_bytes' = batch_bytes + Counted(next)
       /\ queue' = Tail(queue) /\ UNCHANGED <<pending, phase>>
    \/ /\ ~Mergeable(Last(batch), next) /\ batch_bytes + Size(next) > MaxBytes
       /\ Defer(next) /\ phase' = "writing"
       /\ UNCHANGED <<batch, batch_bytes>>
    \/ /\ ~Mergeable(Last(batch), next) /\ batch_bytes + Size(next) <= MaxBytes
       /\ batch' = Append(batch, next) /\ batch_bytes' = batch_bytes + Size(next)
       /\ phase' = (IF IsData(next) THEN phase ELSE "writing")
       /\ queue' = Tail(queue) /\ UNCHANGED pending

Collect == /\ phase = "collecting" /\ Len(batch) < MaxMessages
           /\ queue # <<>> /\ Push(Head(queue))
           /\ UNCHANGED <<posted, hand, sequence, cancelled, wire, access, linked>>

\* Mutant: the writer waits until the batch is full.
CollectedWhenFull ==
    /\ phase = "collecting" /\ Len(batch) = MaxMessages
    /\ phase' = "writing"
    /\ UNCHANGED <<posted, queue, pending, batch, batch_bytes, hand, sequence, cancelled, wire,
                   access, linked>>
\* try_recv finds nothing, or the batch is full.
Collected == /\ phase = "collecting" /\ (queue = <<>> \/ Len(batch) = MaxMessages)
             /\ phase' = "writing"
             /\ UNCHANGED <<posted, queue, pending, batch, batch_bytes, hand, sequence,
                            cancelled, wire, access, linked>>

-------------------------------------------------------------------------------
(********************************** writing *******************************)
\* encrypt_gateway_message, which takes a sequence number.
EncryptMessage == /\ phase = "writing" /\ hand = <<>> /\ batch # <<>>
           /\ hand' = <<[sequence |-> sequence, message |-> Head(batch)]>>
           /\ batch' = Tail(batch) /\ sequence' = sequence + 1
           /\ UNCHANGED <<posted, queue, pending, batch_bytes, phase, cancelled, wire,
                          access, linked>>

\* feed waits for the socket and hands the frame over.
Feed == /\ phase = "writing" /\ hand # <<>> /\ Len(wire) < WireCapacity
        /\ wire' = wire \o hand /\ hand' = <<>>
        /\ UNCHANGED <<posted, queue, pending, batch, batch_bytes, phase, sequence, cancelled,
                       access, linked>>

Flush == /\ phase = "writing" /\ hand = <<>> /\ batch = <<>>
         /\ phase' = "waiting" /\ batch_bytes' = 0
         /\ UNCHANGED <<posted, queue, pending, batch, hand, sequence, cancelled, wire, access,
                        linked>>

\* The lease is found cancelled while nothing is deferred.
Notice == /\ phase = "waiting" /\ pending = <<>> /\ cancelled
          /\ hand' = <<[sequence |-> sequence, message |-> Error]>>
          /\ sequence' = sequence + 1 /\ phase' = "reporting"
          /\ UNCHANGED <<posted, queue, pending, batch, batch_bytes, cancelled, wire,
                         access, linked>>

\* Mutant: the lease is looked at between two frames only.
AbortBetweenFrames ==
    /\ phase = "writing" /\ cancelled /\ hand = <<>>
    /\ batch' = <<>> /\ batch_bytes' = 0 /\ hand' = <<[sequence |-> sequence, message |-> Error]>>
    /\ sequence' = sequence + 1 /\ phase' = "reporting"
    /\ UNCHANGED <<posted, queue, pending, cancelled, wire, access, linked>>
\* lease.run drops the write where it waits: the frame that feed has no room for, whose
\* sequence number is taken, and the rest of the batch.
Abort == /\ phase = "writing" /\ cancelled
         /\ hand # <<>> => Len(wire) = WireCapacity
         /\ batch' = <<>> /\ batch_bytes' = 0
         /\ hand' = <<[sequence |-> sequence, message |-> Error]>>
         /\ sequence' = sequence + 1 /\ phase' = "reporting"
         /\ UNCHANGED <<posted, queue, pending, cancelled, wire, access, linked>>

\* The error is sent and the WebSocket closed, or a second passes.
Report == /\ phase = "reporting" /\ phase' = "ended" /\ hand' = <<>>
          /\ \/ Len(wire) < WireCapacity /\ wire' = wire \o hand
             \/ wire' = wire
          /\ UNCHANGED <<posted, queue, pending, batch, batch_bytes, sequence, cancelled,
                          access, linked>>

-------------------------------------------------------------------------------
\* The access decrypts the next frame: any sequence but the expected one is an
\* error that ends its session, like the reported one.
Receive ==
    /\ linked /\ access.state = "open" /\ wire # <<>>
    /\ wire' = Tail(wire)
    /\ LET frame == Head(wire) IN
       access' = IF frame.sequence # access.expected THEN [access EXCEPT !.state = "refused"]
                 ELSE [expected |-> access.expected + 1,
                       received |-> Append(access.received, frame.message),
                       state |-> IF frame.message = Error THEN "told" ELSE "open"]
    /\ UNCHANGED <<posted, queue, writer, cancelled, linked>>

\* The connection breaks: the next write fails, or the session's end aborts the writer.
Lose == /\ linked /\ linked' = FALSE /\ wire' = <<>> /\ phase' = "ended"
        /\ UNCHANGED <<posted, queue, pending, batch, batch_bytes, hand, sequence, cancelled,
                        access>>

WriterStep == TakeFirst \/ Collect \/ Collected \/ EncryptMessage \/ Feed \/ Flush \/ Notice
              \/ Abort \/ Report

\* The queue outlives the writer; what is posted then is never taken.
Next == \/ \E kind \in Streams, n \in 1..MaxPayload : Post(kind, n)
        \/ Post(Control, 1)
        \/ Cancel \/ WriterStep \/ Receive \/ Lose

Spec == Init /\ [][Next]_vars

\* The runtime polls the writer again and again and its timer fires.
FairSpec == Spec /\ WF_vars(WriterStep)

-------------------------------------------------------------------------------
(********************************* properties *****************************)
Message == [kind : Streams \cup {Control}, units : Seq(Nat)]
WireFrame == [sequence : Nat, message : Message]

\* What is written at once stays within the limits: a merge, which the byte limit does not
\* look at, adds less than one payload to it, and no data frame outgrows the payload limit.
BatchBounded ==
    /\ Len(batch) <= MaxMessages /\ batch_bytes < MaxBytes + MaxPayload
    /\ \A i \in DOMAIN batch : IsData(batch[i]) => Len(batch[i].units) <= MaxPayload

\* The count that the limit is compared with is the size of what was gathered: a header for
\* each frame, but none for what was merged. The numbers of a batch follow one another.
Gathered == Last(Last(batch).units) - Head(Head(batch).units) + 1
BytesCounted == phase = "collecting" => batch_bytes = HeaderLen * Len(batch) + Gathered

\* A queue, the socket and the batch hold no more than they can, at most one message is
\* deferred and at most one frame is in the writer's hand.
Types == /\ posted \in Seq(Streams \cup {Control}) /\ Len(posted) <= MaxPosted
         /\ queue \in Seq(Message) /\ Len(queue) <= QueueCapacity
         /\ pending \in Seq(Message) /\ Len(pending) <= 1
         /\ batch \in Seq(Message) /\ batch_bytes \in Nat /\ BatchBounded
         /\ hand \in Seq(WireFrame) /\ Len(hand) <= 1
         /\ phase \in {"waiting", "collecting", "writing", "reporting", "ended"}
         /\ sequence \in Nat /\ cancelled \in BOOLEAN /\ linked \in BOOLEAN
         /\ wire \in Seq(WireFrame) /\ Len(wire) <= WireCapacity
         /\ access \in [expected : Nat, received : Seq(Message),
                        state : {"open", "told", "refused"}]

\* Types, limits, and the count that the byte limit relies on.
TypeOK == Types /\ BytesCounted

\* The messages on their way, in the order in which they will be received.
Messages(frames) == [i \in DOMAIN frames |-> frames[i].message]
InTransit ==
    access.received \o Messages(wire) \o Messages(hand) \o batch \o pending \o queue

\* The last number up to the i-th message.
End(messages, i) == IF i = 0 THEN 0 ELSE Last(messages[i].units)

\* The i-th message continues the one before, number by number, and carries each number
\* under the kind it was posted with: no control message is merged with data.
Fits(messages, i) ==
    LET units == messages[i].units IN
    /\ units # <<>>
    /\ \A k \in DOMAIN units : /\ units[k] = End(messages, i - 1) + k
                              /\ units[k] \in DOMAIN posted /\ posted[units[k]] = messages[i].kind

\* Until its writer stops, a session neither loses, repeats nor reorders a byte, across
\* streams and control messages: received, on the wire, in the batch, deferred and queued
\* together are what was posted (a message that did not fit must open the next batch).
NothingLost ==
    phase \in {"waiting", "collecting", "writing"} =>
        /\ \A i \in DOMAIN InTransit : Fits(InTransit, i)
        /\ End(InTransit, Len(InTransit)) = Len(posted)

\* Whatever aborts the writer, the access received a beginning of what was posted, and
\* behind it the report at most.
ReceivedAsPosted ==
    \A i \in DOMAIN access.received :
        \/ Fits(access.received, i)
        \/ i = Len(access.received) /\ access.received[i] = Error

\* Both: the order of posting survives deferring, merging and aborting.
InPostedOrder == NothingLost /\ ReceivedAsPosted

\* A cancelled session ends its writer even when the access no longer reads.
CancelledEnds == cancelled ~> phase = "ended"

\* Without a cancellation or a loss everything that was posted is received once the
\* connection carries what it was given: no message stays deferred, or in a batch that
\* waits for more.
EverythingReceived ==
    WF_vars(Receive) =>
        <>[](cancelled \/ ~linked \/ End(access.received, Len(access.received)) = Len(posted))

\* The frames of one writer carry successive sequence numbers, so the access refuses none
\* and is told why its session was cancelled.
ReasonUnderstood == access.state # "refused"
================================================================================
