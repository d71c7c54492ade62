---------------------------- MODULE HttpTunnel_proofs ----------------------------
(***************************************************************************)
(* Proofs about HttpTunnel for every number of chunks and every capacity:   *)
(* the types, that the chunks of each body arrive in order, that no body    *)
(* looks complete before it is, and that an answered handler leaves no      *)
(* entry behind.                                                           *)
(***************************************************************************)
EXTENDS HttpTunnel, TLAPS

(******************************** Types **********************************)

Up == [type : {"Data"}, n : 1..MaxUp] \cup [type : {"Start", "End", "Close"}, n : {0}]
Down == [type : {"Data"}, n : 1..MaxDown]
        \cup [type : {"ResponseStart", "ResponseEnd", "Error"}, n : {0}]

Ups == Seq(Up)
Downs == Seq(Down)
UpNumbers == Seq(1..MaxUp)
UpHeld == 0..MaxUp
DownHeld == 0..MaxDown
DownNumbers == Seq(DownHeld)

AccessState ==
    [pc : {"starting", "uploading", "responding", "done"}, out : Ups,
     upload : {"running", "finished", "dropped"}, head : {"pending", "ok", "err"},
     waiter : BOOLEAN, body : BOOLEAN, chan : DownNumbers, held : DownHeld,
     unknown : BOOLEAN, error_lost : BOOLEAN]
TaskState ==
    [pc : {"none", "requesting", "responding", "ending", "done"}, out : Downs,
     body : BOOLEAN, chan : UpNumbers, held : UpHeld, canceled : BOOLEAN]

AccessTyped == acc \in AccessState /\ Len(acc.chan) <= BodyCapacity
TaskTyped == gw \in TaskState /\ Len(gw.chan) <= BodyCapacity
QueuesTyped ==
    /\ a2g \in Ups /\ Len(a2g) <= QueueCapacity
    /\ g2a \in Downs /\ Len(g2a) <= QueueCapacity
EnvironmentTyped ==
    /\ conn \in {"none", "open", "closed"}
    /\ client \in {"waiting", "complete", "error", "gone"}
    /\ target \in [request_end : BOOLEAN, answer : {"none", "open", "ended", "failed"}]
    /\ session \in [access : BOOLEAN, gateway : BOOLEAN, unsent : 0..QueueCapacity]
PayloadTyped ==
    /\ up_sent \in UpHeld /\ down_sent \in DownHeld
    /\ up_recv \in UpNumbers /\ down_recv \in DownNumbers

\* The types in full, each direction with its own messages.
Typed == AccessTyped /\ TaskTyped /\ QueuesTyped /\ EnvironmentTyped /\ PayloadTyped

\* What the sequence operators do to sequences of each kind.
LEMMA Queues ==
    ASSUME NEW S
    PROVE  /\ <<>> \in Seq(S) /\ Len(<<>>) = 0
           /\ \A x \in S : <<x>> \in Seq(S)
           /\ \A q \in Seq(S), x \in S : Append(q, x) \in Seq(S) /\ Len(Append(q, x)) = Len(q) + 1
           /\ \A q \in Seq(S) : Len(q) \in Nat
           /\ \A q \in Seq(S) : q # <<>> =>
                 Head(q) \in S /\ Tail(q) \in Seq(S) /\ Len(Tail(q)) = Len(q) - 1
  OBVIOUS

\* The messages of the two directions.
LEMMA Messages ==
    /\ \A t \in {"Start", "End", "Close"} : Control(t) \in Up
    /\ \A t \in {"ResponseStart", "ResponseEnd", "Error"} : Control(t) \in Down
    /\ \A n \in 1..MaxUp : Data(n) \in Up
    /\ \A n \in 1..MaxDown : Data(n) \in Down
    /\ \A m \in Up : m.type = "Data" => m.n \in 1..MaxUp
    /\ \A m \in Down : m.type = "Data" => m.n \in 1..MaxDown
  BY DEF Control, Data, Up, Down

\* Queues for sequences of messages to the gateway.
LEMMA UpsFacts ==
    /\ <<>> \in Ups
    /\ \A x \in Up : <<x>> \in Ups
    /\ \A q \in Ups, x \in Up : Append(q, x) \in Ups /\ Len(Append(q, x)) = Len(q) + 1
    /\ \A q \in Ups : Len(q) \in Nat
    /\ \A q \in Ups : q # <<>> => Head(q) \in Up /\ Tail(q) \in Ups /\ Len(Tail(q)) = Len(q) - 1
  BY Queues DEF Ups

\* Queues for sequences of messages to the access.
LEMMA DownsFacts ==
    /\ <<>> \in Downs
    /\ \A x \in Down : <<x>> \in Downs
    /\ \A q \in Downs, x \in Down : Append(q, x) \in Downs /\ Len(Append(q, x)) = Len(q) + 1
    /\ \A q \in Downs : Len(q) \in Nat
    /\ \A q \in Downs : q # <<>> =>
          Head(q) \in Down /\ Tail(q) \in Downs /\ Len(Tail(q)) = Len(q) - 1
  BY Queues DEF Downs

\* Queues for sequences of chunk numbers.
LEMMA NumbersFacts ==
    /\ <<>> \in UpNumbers /\ <<>> \in DownNumbers /\ Len(<<>>) = 0
    /\ \A q \in UpNumbers : Len(q) \in Nat
    /\ \A q \in DownNumbers : Len(q) \in Nat
    /\ \A q \in UpNumbers, x \in UpHeld \ {0} :
          Append(q, x) \in UpNumbers /\ Len(Append(q, x)) = Len(q) + 1
    /\ \A q \in DownNumbers, x \in DownHeld :
          Append(q, x) \in DownNumbers /\ Len(Append(q, x)) = Len(q) + 1
    /\ \A q \in UpNumbers : q # <<>> =>
          Head(q) \in UpHeld \ {0} /\ Tail(q) \in UpNumbers /\ Len(Tail(q)) = Len(q) - 1
    /\ \A q \in DownNumbers : q # <<>> =>
          Head(q) \in DownHeld /\ Tail(q) \in DownNumbers /\ Len(Tail(q)) = Len(q) - 1
<1>1. 1..MaxUp = UpHeld \ {0}
  BY CapacityAssumption DEF UpHeld
<1> DEFINE N == UpHeld \ {0}
<1>2. UpNumbers = Seq(N)
  BY <1>1 DEF UpNumbers
<1> HIDE DEF N
<1>3. /\ <<>> \in UpNumbers
      /\ \A q \in UpNumbers : Len(q) \in Nat
      /\ \A q \in UpNumbers, x \in N : Append(q, x) \in UpNumbers /\ Len(Append(q, x)) = Len(q) + 1
      /\ \A q \in UpNumbers : q # <<>> =>
            Head(q) \in N /\ Tail(q) \in UpNumbers /\ Len(Tail(q)) = Len(q) - 1
  BY <1>2, Queues
<1>4. /\ <<>> \in DownNumbers /\ Len(<<>>) = 0
      /\ \A q \in DownNumbers : Len(q) \in Nat
      /\ \A q \in DownNumbers, x \in DownHeld :
            Append(q, x) \in DownNumbers /\ Len(Append(q, x)) = Len(q) + 1
      /\ \A q \in DownNumbers : q # <<>> =>
            Head(q) \in DownHeld /\ Tail(q) \in DownNumbers /\ Len(Tail(q)) = Len(q) - 1
  BY Queues DEF DownNumbers
<1> QED BY <1>3, <1>4 DEF N

\* The numbers of chunks, and the next one.
LEMMA HeldFacts ==
    /\ 0 \in UpHeld /\ 0 \in DownHeld
    /\ \A n \in UpHeld : n \in Nat /\ (n < MaxUp => n + 1 \in UpHeld /\ n + 1 \in 1..MaxUp)
    /\ \A n \in DownHeld : n \in Nat /\ (n < MaxDown => n + 1 \in DownHeld /\ n + 1 \in 1..MaxDown)
    /\ \A n \in 1..MaxUp : n \in UpHeld \ {0}
    /\ \A n \in 1..MaxDown : n \in DownHeld \ {0}
  BY CapacityAssumption DEF UpHeld, DownHeld

\* The initial state is typed.
LEMMA InitTyped == Init => Typed
<1> SUFFICES ASSUME Init PROVE Typed
  OBVIOUS
<1>0. <<Control("Start")>> \in Ups
  BY Messages, UpsFacts
<1>1. AccessTyped
  BY <1>0, NumbersFacts, HeldFacts, CapacityAssumption DEF Init, AccessTyped, AccessState
<1>2. TaskTyped
  BY DownsFacts, NumbersFacts, HeldFacts, CapacityAssumption DEF Init, TaskTyped, TaskState
<1>3. QueuesTyped /\ EnvironmentTyped /\ PayloadTyped
  BY UpsFacts, DownsFacts, NumbersFacts, HeldFacts, CapacityAssumption
     DEF Init, QueuesTyped, EnvironmentTyped, PayloadTyped
<1> QED BY <1>1, <1>2, <1>3 DEF Typed

\* A queue that has room takes a message.
LEMMA RoomFacts ==
    /\ \A q \in Ups, x \in Up :
          Len(q) < QueueCapacity => Append(q, x) \in Ups /\ Len(Append(q, x)) <= QueueCapacity
    /\ \A q \in Downs, x \in Down :
          Len(q) < QueueCapacity => Append(q, x) \in Downs /\ Len(Append(q, x)) <= QueueCapacity
    /\ \A q \in DownNumbers, x \in DownHeld :
          Len(q) < BodyCapacity => Append(q, x) \in DownNumbers /\ Len(Append(q, x)) <= BodyCapacity
    /\ \A q \in UpNumbers, x \in UpHeld \ {0} :
          Len(q) < BodyCapacity => Append(q, x) \in UpNumbers /\ Len(Append(q, x)) <= BodyCapacity
<1>1. \A l \in Nat, c \in Nat : l < c => l + 1 <= c
  OBVIOUS
<1>2. QueueCapacity \in Nat /\ BodyCapacity \in Nat
  BY CapacityAssumption
<1> QED BY <1>1, <1>2, UpsFacts, DownsFacts, NumbersFacts

\* What is taken from a queue leaves it shorter.
LEMMA TailFacts ==
    /\ \A q \in Ups : q # <<>> =>
          Head(q) \in Up /\ Tail(q) \in Ups /\ (Len(q) <= QueueCapacity => Len(Tail(q)) <= QueueCapacity)
    /\ \A q \in Downs : q # <<>> =>
          Head(q) \in Down /\ Tail(q) \in Downs /\ (Len(q) <= QueueCapacity => Len(Tail(q)) <= QueueCapacity)
    /\ \A q \in UpNumbers : q # <<>> =>
          /\ Head(q) \in UpHeld \ {0} /\ Tail(q) \in UpNumbers
          /\ Len(q) <= BodyCapacity => Len(Tail(q)) <= BodyCapacity
    /\ \A q \in DownNumbers : q # <<>> =>
          /\ Head(q) \in DownHeld /\ Tail(q) \in DownNumbers
          /\ Len(q) <= BodyCapacity => Len(Tail(q)) <= BodyCapacity
<1>1. \A l \in Nat, c \in Nat : l <= c => l - 1 <= c
  OBVIOUS
<1>2. QueueCapacity \in Nat /\ BodyCapacity \in Nat
  BY CapacityAssumption
<1> QED BY <1>1, <1>2, UpsFacts, DownsFacts, NumbersFacts

\* The access handler, its client and the body of its response.
LEMMA HandlerTyped == ASSUME Typed, Handler \/ Client \/ Respond PROVE Typed'
<1> USE DEF Typed
<1>t. acc \in AccessState /\ Len(acc.chan) <= BodyCapacity /\ acc.out \in Ups /\ acc.chan \in DownNumbers
  BY DEF AccessTyped, AccessState
<1>q. a2g \in Ups /\ Len(a2g) <= QueueCapacity
  BY DEF QueuesTyped
<1>e. <<>> \in Ups
  BY UpsFacts
<1>f. Failed \in AccessState /\ Failed.chan = acc.chan
  BY <1>t, <1>e DEF Failed, AccessState
<1>1. CASE RequestSends
  <2>1. Append(a2g, Head(acc.out)) \in Ups /\ Len(Append(a2g, Head(acc.out))) <= QueueCapacity
    BY <1>1, <1>t, <1>q, TailFacts, RoomFacts DEF RequestSends, Room
  <2>2. AccessTyped'
    BY <1>1, <1>t, <1>e DEF RequestSends, AccessTyped, AccessState
  <2> QED BY <1>1, <2>1, <2>2 DEF RequestSends, payload, TaskTyped, QueuesTyped, EnvironmentTyped,
                                  PayloadTyped
<1>2. CASE HeadArrives
  <2>1. AccessTyped'
    BY <1>2, <1>t, <1>e DEF HeadArrives, AccessTyped, AccessState
  <2> QED BY <1>2, <2>1 DEF HeadArrives, payload, TaskTyped, QueuesTyped, EnvironmentTyped,
                            PayloadTyped
<1>3. CASE RequestFails
  <2>1. AccessTyped'
    BY <1>3, <1>t, <1>f DEF RequestFails, AccessTyped
  <2> QED BY <1>3, <2>1 DEF RequestFails, payload, TaskTyped, QueuesTyped, EnvironmentTyped,
                            PayloadTyped
<1>4. CASE ReadChunk
  <2>1. up_sent + 1 \in UpHeld /\ <<Data(up_sent + 1)>> \in Ups
    BY <1>4, HeldFacts, Messages, UpsFacts DEF ReadChunk, PayloadTyped
  <2>2. AccessTyped'
    BY <1>4, <1>t, <2>1 DEF ReadChunk, AccessTyped, AccessState
  <2> QED BY <1>4, <2>1, <2>2 DEF ReadChunk, TaskTyped, QueuesTyped, EnvironmentTyped, PayloadTyped
<1>5. CASE RequestBodyEnds
  <2>1. <<Control("End")>> \in Ups
    BY Messages, UpsFacts
  <2>2. AccessTyped'
    BY <1>5, <1>t, <2>1 DEF RequestBodyEnds, AccessTyped, AccessState
  <2> QED BY <1>5, <2>2 DEF RequestBodyEnds, payload, TaskTyped, QueuesTyped, EnvironmentTyped,
                            PayloadTyped
<1>6. CASE RequestBodyFails
  <2>1. a2g' \in Ups /\ Len(a2g') <= QueueCapacity
    BY <1>6, <1>q, Messages, RoomFacts DEF RequestBodyFails, Room
  <2>2. AccessTyped'
    BY <1>6, <1>t, <1>f DEF RequestBodyFails, AccessTyped
  <2> QED BY <1>6, <2>1, <2>2 DEF RequestBodyFails, payload, TaskTyped, QueuesTyped,
                                  EnvironmentTyped, PayloadTyped
<1>7. CASE ClientLeaves
  <2>1. AccessTyped'
    BY <1>7, <1>t, <1>e DEF ClientLeaves, AccessTyped, AccessState
  <2> QED BY <1>7, <2>1 DEF ClientLeaves, payload, TaskTyped, QueuesTyped, EnvironmentTyped,
                            PayloadTyped
<1>8. CASE Respond
  <2>1. acc.chan # <<>> => /\ Head(acc.chan) \in DownHeld /\ Tail(acc.chan) \in DownNumbers
                           /\ Len(Tail(acc.chan)) <= BodyCapacity
    BY <1>t, TailFacts
  <2>2. AccessTyped'
    BY <1>8, <1>t, <2>1 DEF Respond, AccessTyped, AccessState
  <2>3. down_recv' \in DownNumbers
    BY <1>8, <2>1, NumbersFacts DEF Respond, PayloadTyped
  <2>4. EnvironmentTyped'
    BY <1>8 DEF Respond, EnvironmentTyped
  <2> QED BY <1>8, <2>2, <2>3, <2>4 DEF Respond, TaskTyped, QueuesTyped, PayloadTyped
<1> QED BY <1>1, <1>2, <1>3, <1>4, <1>5, <1>6, <1>7, <1>8 DEF Handler, Client

\* What an error does to the body stream.
LEMMA BodyFailsFields ==
    ASSUME AccessTyped
    PROVE  /\ BodyFails(acc) \in AccessState
           /\ \A x \in {"pc", "out", "upload", "head", "waiter", "held", "unknown"} :
                 BodyFails(acc)[x] = acc[x]
           /\ ~BodyFails(acc).body
           /\ BodyFails(acc).error_lost = (acc.error_lost \/ (acc.body /\ Len(acc.chan) = BodyCapacity))
           /\ BodyFails(acc).chan = IF acc.body /\ Len(acc.chan) < BodyCapacity
                                    THEN Append(acc.chan, BodyError) ELSE acc.chan
           /\ Len(BodyFails(acc).chan) <= BodyCapacity
<1>1. acc \in AccessState /\ Len(acc.chan) <= BodyCapacity /\ acc.chan \in DownNumbers
  BY DEF AccessTyped, AccessState
<1>2. BodyError \in DownHeld
  BY HeldFacts DEF BodyError
<1>3. Len(acc.chan) < BodyCapacity =>
         Append(acc.chan, BodyError) \in DownNumbers /\ Len(Append(acc.chan, BodyError)) <= BodyCapacity
  BY <1>1, <1>2, RoomFacts
<1> DEFINE c == IF acc.body /\ Len(acc.chan) < BodyCapacity
                THEN Append(acc.chan, BodyError) ELSE acc.chan
           l == acc.error_lost \/ (acc.body /\ Len(acc.chan) = BodyCapacity)
<1>4. c \in DownNumbers /\ Len(c) <= BodyCapacity /\ l \in BOOLEAN
  BY <1>1, <1>3 DEF AccessState
<1>5. BodyFails(acc) = [acc EXCEPT !.body = FALSE, !.chan = c, !.error_lost = l]
  BY <1>1 DEF BodyFails, AccessState
<1> HIDE DEF c, l
<1>6. /\ BodyFails(acc) \in AccessState
      /\ \A x \in {"pc", "out", "upload", "head", "waiter", "held", "unknown"} :
            BodyFails(acc)[x] = acc[x]
      /\ ~BodyFails(acc).body
      /\ BodyFails(acc).error_lost = l
      /\ BodyFails(acc).chan = c
  BY <1>1, <1>4, <1>5 DEF AccessState
<1> QED BY <1>4, <1>6 DEF c, l

\* A session loop that sends, or waits to send, leaves the session as open as it was.
LEMMA LoopFacts ==
    ASSUME Typed, NEW m \in Up, LoopSends(m) \/ (LoopBlocks /\ UNCHANGED a2g)
    PROVE  /\ a2g' \in {a2g, Append(a2g, m)} /\ (a2g' = a2g \/ Len(a2g) < QueueCapacity)
           /\ session'.access = session.access /\ session'.gateway = session.gateway
           /\ EnvironmentTyped /\ UNCHANGED <<conn, client, target>> => EnvironmentTyped'
<1>1. session \in [access : BOOLEAN, gateway : BOOLEAN, unsent : 0..QueueCapacity]
      /\ Len(a2g) \in Nat /\ Len(a2g) <= QueueCapacity
  BY UpsFacts DEF Typed, EnvironmentTyped, QueuesTyped
<1>2. CASE a2g' = Append(a2g, m) /\ Room /\ UNCHANGED session
  BY <1>1, <1>2 DEF Room, EnvironmentTyped
<1>3. CASE UNCHANGED a2g /\ LoopBlocks
  <2>1. PICK n \in 1..Len(a2g) : session' = [session EXCEPT !.unsent = n]
    BY <1>3 DEF LoopBlocks
  <2>2. n \in 0..QueueCapacity
    BY <1>1, CapacityAssumption
  <2> QED BY <1>1, <1>3, <2>1, <2>2 DEF EnvironmentTyped
<1> QED BY <1>2, <1>3 DEF LoopSends

\* What a session loop that dispatches or delivers does to its queue and its session.
LEMMA AccessLoopFacts ==
    ASSUME Typed, AccessDispatch \/ AccessDeliver \/ HeartbeatBlocks
    PROVE  /\ a2g' \in {a2g, Append(a2g, Control("Close"))}
           /\ a2g' = a2g \/ Len(a2g) < QueueCapacity
           /\ session'.access = session.access /\ session'.gateway = session.gateway
           /\ EnvironmentTyped'
<1> DEFINE c == Control("Close")
<1>1. c \in Up
  BY Messages
<1>2. \/ LoopSends(c) \/ (LoopBlocks /\ UNCHANGED a2g)
      \/ UNCHANGED <<a2g, session>>
  BY DEF AccessDispatch, AccessDeliver, HeartbeatBlocks
<1>3. UNCHANGED <<conn, client, target>> /\ EnvironmentTyped
  BY DEF AccessDispatch, AccessDeliver, HeartbeatBlocks, Typed
<1> HIDE DEF c
<1>4. CASE LoopSends(c) \/ (LoopBlocks /\ UNCHANGED a2g)
  BY <1>1, <1>3, <1>4, LoopFacts DEF c
<1>5. CASE UNCHANGED <<a2g, session>>
  BY <1>3, <1>5 DEF EnvironmentTyped
<1> QED BY <1>2, <1>4, <1>5

\* What the gateway dispatches has left the writer of the access.
LEMMA DispatchFacts ==
    ASSUME Typed, GatewayDispatch
    PROVE  a2g # <<>>
<1>1. session.unsent \in Nat /\ Len(<<>>) = 0
  BY Queues DEF Typed, EnvironmentTyped
<1> QED BY <1>1 DEF GatewayDispatch

\* The readers of the two sides.
LEMMA ReaderTyped == ASSUME Typed, Readers PROVE Typed'
<1> USE DEF Typed
<1>t. acc \in AccessState /\ Len(acc.chan) <= BodyCapacity /\ acc.chan \in DownNumbers
      /\ acc.held \in DownHeld
  BY DEF AccessTyped, AccessState
<1>g. gw \in TaskState /\ Len(gw.chan) <= BodyCapacity /\ gw.chan \in UpNumbers /\ gw.held \in UpHeld
  BY DEF TaskTyped, TaskState
<1>q. /\ a2g \in Ups /\ Len(a2g) <= QueueCapacity
      /\ g2a \in Downs /\ Len(g2a) <= QueueCapacity
  BY DEF QueuesTyped
<1>c. Control("Close") \in Up /\ Control("Error") \in Down
  BY Messages
<1>1. CASE AccessDispatch
  <2>1. g2a # <<>> /\ g2a' = Tail(g2a) /\ a2g' \in {a2g, Append(a2g, Control("Close"))}
        /\ (a2g' = a2g \/ Len(a2g) < QueueCapacity) /\ EnvironmentTyped'
    BY <1>1, AccessLoopFacts DEF AccessDispatch
  <2>2. QueuesTyped'
    BY <2>1, <1>q, <1>c, TailFacts, RoomFacts DEF QueuesTyped
  <2>3. Head(g2a) \in Down /\ (Head(g2a).type = "Data" => Head(g2a).n \in DownHeld)
    BY <2>1, <1>q, TailFacts, Messages, HeldFacts
  <2>4. AccessTyped'
    <3>1. CASE acc' = [acc EXCEPT !.waiter = FALSE, !.head = IF acc.waiter THEN "ok" ELSE @]
      BY <3>1, <1>t DEF AccessTyped, AccessState
    <3>2. CASE acc' = [acc EXCEPT !.body = FALSE]
      BY <3>2, <1>t DEF AccessTyped, AccessState
    <3>3. CASE acc' = [BodyFails(acc) EXCEPT !.waiter = FALSE, !.head = IF acc.waiter THEN "err" ELSE @]
      <4> DEFINE b == BodyFails(acc)
      <4>1. b \in AccessState /\ Len(b.chan) <= BodyCapacity
        BY BodyFailsFields
      <4>2. acc' = [b EXCEPT !.waiter = FALSE, !.head = IF acc.waiter THEN "err" ELSE @]
        BY <3>3
      <4> HIDE DEF b
      <4> QED BY <4>1, <4>2 DEF AccessTyped, AccessState
    <3>4. CASE /\ Head(g2a).type = "Data"
               /\ \E u \in BOOLEAN :
                     acc' = [acc EXCEPT !.held = IF acc.body THEN Head(g2a).n ELSE 0, !.unknown = u]
      BY <3>4, <1>t, <2>3, HeldFacts DEF AccessTyped, AccessState
    <3>5. ASSUME Head(g2a).type = "Data",
                 acc' = [acc EXCEPT !.held = IF acc.body THEN Head(g2a).n ELSE 0,
                           !.unknown = @ \/ (Head(g2a).type = "Data" /\ ~acc.body /\ ~acc.unknown)]
          PROVE  AccessTyped'
      <4>1. (acc.unknown \/ (Head(g2a).type = "Data" /\ ~acc.body /\ ~acc.unknown)) \in BOOLEAN
        OBVIOUS
      <4> QED BY <3>4, <3>5, <4>1
    <3>6. \/ acc' = [acc EXCEPT !.waiter = FALSE, !.head = IF acc.waiter THEN "ok" ELSE @]
          \/ acc' = [acc EXCEPT !.body = FALSE]
          \/ acc' = [BodyFails(acc) EXCEPT !.waiter = FALSE, !.head = IF acc.waiter THEN "err" ELSE @]
          \/ /\ Head(g2a).type = "Data"
             /\ acc' = [acc EXCEPT !.held = IF acc.body THEN Head(g2a).n ELSE 0,
                          !.unknown = @ \/ (Head(g2a).type = "Data" /\ ~acc.body /\ ~acc.unknown)]
      BY <1>1 DEF AccessDispatch
    <3> QED BY <3>1, <3>2, <3>3, <3>5, <3>6
  <2> QED BY <1>1, <2>1, <2>2, <2>4 DEF AccessDispatch, payload, TaskTyped, PayloadTyped
<1>2. CASE AccessDeliver
  <2>1. a2g' \in Ups /\ Len(a2g') <= QueueCapacity /\ EnvironmentTyped'
    BY <1>2, <1>q, <1>c, RoomFacts, AccessLoopFacts
  <2>2. Len(acc.chan) < BodyCapacity =>
           Append(acc.chan, acc.held) \in DownNumbers /\ Len(Append(acc.chan, acc.held)) <= BodyCapacity
    BY <1>t, RoomFacts
  <2>3. AccessTyped'
    BY <1>2, <1>t, <2>2, HeldFacts DEF AccessDeliver, AccessTyped, AccessState
  <2> QED BY <1>2, <2>1, <2>3 DEF AccessDeliver, payload, TaskTyped, QueuesTyped, PayloadTyped
<1>3. CASE GatewayDispatch
  <2>1. a2g # <<>> /\ a2g' = Tail(a2g) /\ g2a' \in {g2a, Append(g2a, Control("Error"))}
        /\ (g2a' = g2a \/ Len(g2a) < QueueCapacity)
    BY <1>3, DispatchFacts DEF GatewayDispatch
  <2>2. QueuesTyped'
    BY <2>1, <1>q, <1>c, TailFacts, RoomFacts DEF QueuesTyped
  <2>3. Head(a2g) \in Up /\ (Head(a2g).type = "Data" => Head(a2g).n \in UpHeld)
    BY <2>1, <1>q, TailFacts, Messages, HeldFacts
  <2>4. TaskTyped'
    BY <1>3, <1>g, <2>3, HeldFacts DEF GatewayDispatch, Cancelled, Running, TaskTyped, TaskState
  <2>5. conn' \in {"open", conn}
    BY <1>3 DEF GatewayDispatch
  <2> QED BY <1>3, <2>2, <2>4, <2>5 DEF GatewayDispatch, payload, AccessTyped, EnvironmentTyped,
                                        PayloadTyped
<1>4. CASE GatewayDeliver
  <2>1. g2a' \in Downs /\ Len(g2a') <= QueueCapacity
    BY <1>4, <1>q, <1>c, RoomFacts DEF GatewayDeliver
  <2>2. gw.held # 0 /\ Len(gw.chan) < BodyCapacity =>
           Append(gw.chan, gw.held) \in UpNumbers /\ Len(Append(gw.chan, gw.held)) <= BodyCapacity
    BY <1>g, RoomFacts
  <2>3. TaskTyped'
    BY <1>4, <1>g, <2>2, HeldFacts DEF GatewayDeliver, TaskTyped, TaskState
  <2> QED BY <1>4, <2>1, <2>3 DEF GatewayDeliver, payload, AccessTyped, QueuesTyped,
                                  EnvironmentTyped, PayloadTyped
<1>5. CASE HeartbeatBlocks
  <2>1. EnvironmentTyped'
    BY <1>5, AccessLoopFacts
  <2> QED BY <1>5, <2>1 DEF HeartbeatBlocks, payload, AccessTyped, TaskTyped, QueuesTyped,
                            PayloadTyped
<1> QED BY <1>1, <1>2, <1>3, <1>4, <1>5 DEF Readers

\* The request task, its target and the connection between them.
LEMMA TaskSideTyped == ASSUME Typed, RequestTask \/ Target \/ Connection PROVE Typed'
<1> USE DEF Typed
<1>g. gw \in TaskState /\ Len(gw.chan) <= BodyCapacity /\ gw.chan \in UpNumbers /\ gw.out \in Downs
  BY DEF TaskTyped, TaskState
<1>q. g2a \in Downs /\ Len(g2a) <= QueueCapacity
  BY DEF QueuesTyped
<1>e. <<>> \in Downs /\ <<>> \in UpNumbers /\ Len(<<>>) <= BodyCapacity
  BY DownsFacts, NumbersFacts, CapacityAssumption
<1>m. \A t \in {"ResponseStart", "ResponseEnd", "Error"} : <<Control(t)>> \in Downs
  BY Messages, DownsFacts
<1>1. CASE TaskCancelled \/ TaskReturns
  <2>1. TaskTyped'
    BY <1>1, <1>g, <1>e DEF TaskCancelled, TaskReturns, TaskTyped, TaskState
  <2> QED BY <1>1, <2>1 DEF TaskCancelled, TaskReturns, payload, AccessTyped, QueuesTyped,
                            EnvironmentTyped, PayloadTyped
<1>2. CASE TaskSends
  <2>1. Append(g2a, Head(gw.out)) \in Downs /\ Len(Append(g2a, Head(gw.out))) <= QueueCapacity
    BY <1>2, <1>g, <1>q, TailFacts, RoomFacts DEF TaskSends
  <2>2. TaskTyped'
    BY <1>2, <1>g, <1>e DEF TaskSends, TaskTyped, TaskState
  <2> QED BY <1>2, <2>1, <2>2 DEF TaskSends, payload, AccessTyped, QueuesTyped, EnvironmentTyped,
                                  PayloadTyped
<1>3. CASE TargetAnswers
  <2>1. TaskTyped'
    BY <1>3, <1>g, <1>m DEF TargetAnswers, TaskTyped, TaskState
  <2>2. target' \in [request_end : BOOLEAN, answer : {"none", "open", "ended", "failed"}]
    BY <1>3 DEF TargetAnswers, EnvironmentTyped
  <2> QED BY <1>3, <2>1, <2>2 DEF TargetAnswers, payload, AccessTyped, QueuesTyped,
                                  EnvironmentTyped, PayloadTyped
<1>4. CASE TargetChunk
  <2>1. down_sent + 1 \in DownHeld /\ <<Data(down_sent + 1)>> \in Downs
    BY <1>4, HeldFacts, Messages, DownsFacts DEF TargetChunk, PayloadTyped
  <2>2. TaskTyped'
    BY <1>4, <1>g, <2>1 DEF TargetChunk, TaskTyped, TaskState
  <2> QED BY <1>4, <2>1, <2>2 DEF TargetChunk, AccessTyped, QueuesTyped, EnvironmentTyped,
                                  PayloadTyped
<1>5. CASE TargetEnds \/ TargetFails
  <2>1. TaskTyped'
    BY <1>5, <1>g, <1>m DEF TargetEnds, TargetFails, TaskEnds, TaskTyped, TaskState
  <2>2. target' \in [request_end : BOOLEAN, answer : {"none", "open", "ended", "failed"}]
    BY <1>5 DEF TargetEnds, TargetFails, TaskEnds, EnvironmentTyped
  <2> QED BY <1>5, <2>1, <2>2 DEF TargetEnds, TargetFails, TaskEnds, payload, AccessTyped,
                                  QueuesTyped, EnvironmentTyped, PayloadTyped
<1>6. CASE ConnectionSends
  <2>1. /\ Head(gw.chan) \in UpHeld \ {0} /\ Tail(gw.chan) \in UpNumbers
        /\ Len(Tail(gw.chan)) <= BodyCapacity
    BY <1>6, <1>g, TailFacts DEF ConnectionSends
  <2>2. TaskTyped'
    BY <1>6, <1>g, <2>1 DEF ConnectionSends, TaskTyped, TaskState
  <2>3. PayloadTyped'
    BY <1>6, <2>1, NumbersFacts DEF ConnectionSends, PayloadTyped
  <2> QED BY <1>6, <2>2, <2>3 DEF ConnectionSends, AccessTyped, QueuesTyped, EnvironmentTyped
<1>7. CASE ConnectionEnds
  BY <1>7 DEF ConnectionEnds, payload, AccessTyped, TaskTyped, QueuesTyped, EnvironmentTyped,
              PayloadTyped
<1>8. CASE ConnectionCloses
  <2>1. TaskTyped'
    BY <1>8, <1>g, <1>e DEF ConnectionCloses, TaskTyped, TaskState
  <2> QED BY <1>8, <2>1 DEF ConnectionCloses, payload, AccessTyped, QueuesTyped, EnvironmentTyped,
                            PayloadTyped
<1> QED BY <1>1, <1>2, <1>3, <1>4, <1>5, <1>6, <1>7, <1>8 DEF RequestTask, Target, Connection

\* The loss of a session keeps the types.
LEMMA LossTyped == ASSUME Typed, Losses PROVE Typed'
<1> USE DEF Typed
<1>1. session' \in [access : BOOLEAN, gateway : BOOLEAN, unsent : 0..QueueCapacity]
  BY DEF Losses, AccessLosesSession, GatewayLosesSession, EnvironmentTyped
<1>2. CASE AccessLosesSession
  <2> DEFINE b == BodyFails(acc)
  <2>1. b \in AccessState /\ Len(b.chan) <= BodyCapacity
    BY BodyFailsFields
  <2>2. acc' = [b EXCEPT !.waiter = FALSE, !.held = 0, !.head = IF acc.waiter THEN "err" ELSE @]
    BY <1>2 DEF AccessLosesSession
  <2> HIDE DEF b
  <2>3. AccessTyped'
    BY <2>1, <2>2, HeldFacts DEF AccessTyped, AccessState
  <2> QED BY <1>1, <1>2, <2>3 DEF AccessLosesSession, payload, TaskTyped, QueuesTyped,
                                  EnvironmentTyped, PayloadTyped
<1>3. CASE GatewayLosesSession
  <2>1. TaskTyped'
    BY <1>3, HeldFacts DEF GatewayLosesSession, Cancelled, Running, TaskTyped, TaskState
  <2> QED BY <1>1, <1>3, <2>1 DEF GatewayLosesSession, payload, AccessTyped, QueuesTyped,
                                  EnvironmentTyped, PayloadTyped
<1> QED BY <1>2, <1>3 DEF Losses

\* Every step keeps the types.
LEMMA NextTyped == Typed /\ [Next]_vars => Typed'
<1> SUFFICES ASSUME Typed, [Next]_vars PROVE Typed'
  OBVIOUS
<1>1. CASE UNCHANGED vars
  BY <1>1 DEF vars, Typed, AccessTyped, TaskTyped, QueuesTyped, EnvironmentTyped, PayloadTyped
<1> QED BY <1>1, HandlerTyped, ReaderTyped, TaskSideTyped, LossTyped DEF Next

\* The types hold in every reachable state, for every number of chunks and every
\* capacity: no queue and no body channel of a request grows beyond its bound, the
\* error that ends a body included.
THEOREM TypeCorrect == Spec => []TypeOK
<1>1. Typed => TypeOK
  <2> SUFFICES ASSUME Typed PROVE TypeOK
    OBVIOUS
  <2>1. Ups \subseteq Seq(Message) /\ Downs \subseteq Seq(Message)
    <3>1. Up \subseteq Message /\ Down \subseteq Message
      BY CapacityAssumption DEF Up, Down, Message
    <3> QED BY <3>1 DEF Ups, Downs
  <2>2. /\ acc.pc \in {"starting", "uploading", "responding", "done"}
        /\ acc.upload \in {"running", "finished", "dropped"}
        /\ acc.head \in {"pending", "ok", "err"} /\ acc.chan \in DownNumbers
    BY DEF Typed, AccessTyped, AccessState
  <2>3. gw.pc \in {"none", "requesting", "responding", "ending", "done"} /\ gw.chan \in UpNumbers
    BY DEF Typed, TaskTyped, TaskState
  <2> QED BY <2>1, <2>2, <2>3 DEF Typed, TypeOK, AccessTyped, TaskTyped, QueuesTyped,
             EnvironmentTyped, DownNumbers, DownHeld, UpNumbers
<1> QED BY <1>1, InitTyped, NextTyped, PTL DEF Spec

(********************** Queues of numbered frames *************************)

\* The data frames of a queue are numbered base + 1 .. top, in this order.
IsData(m) == m.type = "Data"
Consecutive(q, base, top) ==
    /\ base <= top
    /\ \A i \in DOMAIN q : IsData(q[i]) => q[i].n \in (base + 1)..top
    /\ \A i, j \in DOMAIN q : i < j /\ IsData(q[i]) /\ IsData(q[j]) => q[i].n < q[j].n
    /\ \A k \in (base + 1)..top : \E i \in DOMAIN q : IsData(q[i]) /\ q[i].n = k

\* No message of kind t is in a queue; or no data is behind one.
None(q, t) == \A i \in DOMAIN q : q[i].type # t
EndLast(q, t) == \A i, j \in DOMAIN q : i < j /\ q[i].type = t => ~IsData(q[j])

\* Where the elements of an extended and of a shortened sequence are.
LEMMA Positions ==
    ASSUME NEW S, NEW q \in Seq(S)
    PROVE  /\ DOMAIN q = 1..Len(q) /\ Len(q) \in Nat
           /\ \A x \in S : /\ DOMAIN Append(q, x) = 1..(Len(q) + 1)
                           /\ \A i \in 1..Len(q) : Append(q, x)[i] = q[i]
                           /\ Append(q, x)[Len(q) + 1] = x
           /\ q # <<>> => /\ Len(q) > 0 /\ Head(q) = q[1]
                          /\ DOMAIN Tail(q) = 1..(Len(q) - 1)
                          /\ \A i \in 1..(Len(q) - 1) : Tail(q)[i] = q[i + 1]
  OBVIOUS

\* An empty queue is consecutive from wherever it is.
LEMMA ConsecutiveEmpty ==
    ASSUME NEW b \in Nat PROVE Consecutive(<<>>, b, b)
  BY DEF Consecutive

\* The next number may be appended,
LEMMA ConsecutiveAppendData ==
    ASSUME NEW S, NEW q \in Seq(S), NEW m \in S, NEW b \in Nat, NEW t \in Nat,
           Consecutive(q, b, t), IsData(m), m.n = t + 1
    PROVE  Consecutive(Append(q, m), b, t + 1)
<1> DEFINE r == Append(q, m)
<1>1. /\ DOMAIN q = 1..Len(q) /\ DOMAIN r = 1..(Len(q) + 1) /\ Len(q) \in Nat
      /\ \A i \in 1..Len(q) : r[i] = q[i]
      /\ r[Len(q) + 1] = m
  OBVIOUS
<1> HIDE DEF r
<1>2. \A i \in DOMAIN r : IsData(r[i]) => r[i].n \in (b + 1)..(t + 1)
  <2> SUFFICES ASSUME NEW i \in DOMAIN r, IsData(r[i]) PROVE r[i].n \in (b + 1)..(t + 1)
    OBVIOUS
  <2>1. CASE i \in 1..Len(q)
    <3>1. r[i] = q[i] /\ q[i].n \in (b + 1)..t
      BY <2>1, <1>1 DEF Consecutive
    <3> QED BY <3>1
  <2>2. CASE i = Len(q) + 1
    BY <2>2, <1>1 DEF Consecutive
  <2> QED BY <1>1, <2>1, <2>2
<1>3. \A i, j \in DOMAIN r : i < j /\ IsData(r[i]) /\ IsData(r[j]) => r[i].n < r[j].n
  <2> SUFFICES ASSUME NEW i \in DOMAIN r, NEW j \in DOMAIN r, i < j, IsData(r[i]), IsData(r[j])
               PROVE  r[i].n < r[j].n
    OBVIOUS
  <2>1. i \in 1..Len(q) /\ r[i] = q[i] /\ q[i].n \in (b + 1)..t
    BY <1>1 DEF Consecutive
  <2>2. CASE j \in 1..Len(q)
    BY <2>1, <2>2, <1>1 DEF Consecutive
  <2>3. CASE j = Len(q) + 1
    BY <2>1, <2>3, <1>1
  <2> QED BY <1>1, <2>2, <2>3
<1>4. \A k \in (b + 1)..(t + 1) : \E i \in DOMAIN r : IsData(r[i]) /\ r[i].n = k
  <2> SUFFICES ASSUME NEW k \in (b + 1)..(t + 1)
               PROVE  \E i \in DOMAIN r : IsData(r[i]) /\ r[i].n = k
    OBVIOUS
  <2>1. CASE k = t + 1
    BY <2>1, <1>1
  <2>2. CASE k \in (b + 1)..t
    <3>1. PICK i \in DOMAIN q : IsData(q[i]) /\ q[i].n = k
      BY <2>2 DEF Consecutive
    <3>2. i \in DOMAIN r /\ r[i] = q[i]
      BY <1>1
    <3> QED BY <3>1, <3>2
  <2> QED BY <2>1, <2>2
<1>5. b <= t + 1
  BY DEF Consecutive
<1>6. Consecutive(r, b, t + 1)
  BY <1>2, <1>3, <1>4, <1>5 DEF Consecutive
<1> QED BY <1>6 DEF r

\* and any message without a number;
LEMMA ConsecutiveAppend ==
    ASSUME NEW S, NEW q \in Seq(S), NEW m \in S, NEW b \in Nat, NEW t \in Nat,
           Consecutive(q, b, t), ~IsData(m)
    PROVE  Consecutive(Append(q, m), b, t)
<1> DEFINE r == Append(q, m)
<1>1. /\ DOMAIN q = 1..Len(q) /\ DOMAIN r = 1..(Len(q) + 1) /\ Len(q) \in Nat
      /\ \A i \in 1..Len(q) : r[i] = q[i]
      /\ r[Len(q) + 1] = m
  OBVIOUS
<1> HIDE DEF r
<1>2. \A i \in DOMAIN r : IsData(r[i]) => i \in DOMAIN q /\ r[i] = q[i]
  BY <1>1
<1>3. \A i \in DOMAIN q : i \in DOMAIN r /\ r[i] = q[i]
  BY <1>1
<1> QED BY <1>2, <1>3 DEF Consecutive, r

\* taking a message without a number changes nothing,
LEMMA ConsecutiveTail ==
    ASSUME NEW S, NEW q \in Seq(S), q # <<>>, NEW b \in Nat, NEW t \in Nat,
           Consecutive(q, b, t), ~IsData(Head(q))
    PROVE  Consecutive(Tail(q), b, t)
<1> DEFINE r == Tail(q)
<1>1. /\ DOMAIN q = 1..Len(q) /\ DOMAIN r = 1..(Len(q) - 1) /\ Len(q) \in Nat /\ Len(q) > 0
      /\ \A i \in 1..(Len(q) - 1) : r[i] = q[i + 1]
      /\ q[1] = Head(q)
  OBVIOUS
<1> HIDE DEF r
<1>2. \A i \in DOMAIN r : i + 1 \in DOMAIN q /\ r[i] = q[i + 1]
  BY <1>1
<1>3. \A i \in DOMAIN q : IsData(q[i]) => i - 1 \in DOMAIN r /\ r[i - 1] = q[i]
  BY <1>1
<1>4. \A i, j \in DOMAIN r : i < j /\ IsData(r[i]) /\ IsData(r[j]) => r[i].n < r[j].n
  <2> SUFFICES ASSUME NEW i \in DOMAIN r, NEW j \in DOMAIN r, i < j, IsData(r[i]), IsData(r[j])
               PROVE  r[i].n < r[j].n
    OBVIOUS
  <2>1. i + 1 < j + 1 /\ i + 1 \in DOMAIN q /\ j + 1 \in DOMAIN q /\ r[i] = q[i + 1] /\ r[j] = q[j + 1]
    BY <1>1, <1>2
  <2> QED BY <2>1 DEF Consecutive
<1>5. \A i \in DOMAIN r : IsData(r[i]) => r[i].n \in (b + 1)..t
  BY <1>2 DEF Consecutive
<1>6. \A k \in (b + 1)..t : \E i \in DOMAIN r : IsData(r[i]) /\ r[i].n = k
  <2> SUFFICES ASSUME NEW k \in (b + 1)..t PROVE \E i \in DOMAIN r : IsData(r[i]) /\ r[i].n = k
    OBVIOUS
  <2>1. PICK i \in DOMAIN q : IsData(q[i]) /\ q[i].n = k
    BY DEF Consecutive
  <2> QED BY <2>1, <1>3
<1> QED BY <1>4, <1>5, <1>6 DEF Consecutive, r

\* and the first number taken is the next one.
LEMMA ConsecutiveTailData ==
    ASSUME NEW S, NEW q \in Seq(S), q # <<>>, NEW b \in Nat, NEW t \in Nat,
           Consecutive(q, b, t), IsData(Head(q))
    PROVE  Head(q).n = b + 1 /\ b + 1 <= t /\ Consecutive(Tail(q), b + 1, t)
<1> DEFINE r == Tail(q)
<1>1. /\ DOMAIN q = 1..Len(q) /\ DOMAIN r = 1..(Len(q) - 1) /\ Len(q) \in Nat /\ Len(q) > 0
      /\ \A i \in 1..(Len(q) - 1) : r[i] = q[i + 1]
      /\ q[1] = Head(q) /\ 1 \in DOMAIN q
  OBVIOUS
<1> HIDE DEF r
<1>2. \A i \in DOMAIN r : i + 1 \in DOMAIN q /\ r[i] = q[i + 1] /\ 1 < i + 1
  BY <1>1
<1>3. \A i \in DOMAIN q : i # 1 => i - 1 \in DOMAIN r /\ r[i - 1] = q[i] /\ 1 < i
  BY <1>1
<1>4. q[1].n \in (b + 1)..t
  BY <1>1 DEF Consecutive
<1>5. q[1].n = b + 1
  <2>1. PICK i \in DOMAIN q : IsData(q[i]) /\ q[i].n = b + 1
    <3>1. b + 1 \in (b + 1)..t
      BY <1>4
    <3> QED BY <3>1 DEF Consecutive
  <2>2. CASE i # 1
    <3>1. q[1].n < q[i].n
      BY <2>1, <2>2, <1>1, <1>3 DEF Consecutive
    <3> QED BY <3>1, <2>1, <1>4
  <2> QED BY <2>1, <2>2
<1>6. \A i \in DOMAIN r : IsData(r[i]) => r[i].n \in ((b + 1) + 1)..t
  <2> SUFFICES ASSUME NEW i \in DOMAIN r, IsData(r[i]) PROVE r[i].n \in ((b + 1) + 1)..t
    OBVIOUS
  <2>1. r[i] = q[i + 1] /\ i + 1 \in DOMAIN q /\ 1 < i + 1
    BY <1>2
  <2>2. q[1].n < q[i + 1].n /\ q[i + 1].n \in (b + 1)..t
    BY <2>1, <1>1 DEF Consecutive
  <2> QED BY <2>1, <2>2, <1>5
<1>7. \A i, j \in DOMAIN r : i < j /\ IsData(r[i]) /\ IsData(r[j]) => r[i].n < r[j].n
  <2> SUFFICES ASSUME NEW i \in DOMAIN r, NEW j \in DOMAIN r, i < j, IsData(r[i]), IsData(r[j])
               PROVE  r[i].n < r[j].n
    OBVIOUS
  <2>1. i + 1 < j + 1 /\ i + 1 \in DOMAIN q /\ j + 1 \in DOMAIN q /\ r[i] = q[i + 1] /\ r[j] = q[j + 1]
    BY <1>1, <1>2
  <2> QED BY <2>1 DEF Consecutive
<1>8. \A k \in ((b + 1) + 1)..t : \E i \in DOMAIN r : IsData(r[i]) /\ r[i].n = k
  <2> SUFFICES ASSUME NEW k \in ((b + 1) + 1)..t PROVE \E i \in DOMAIN r : IsData(r[i]) /\ r[i].n = k
    OBVIOUS
  <2>1. PICK i \in DOMAIN q : IsData(q[i]) /\ q[i].n = k
    BY DEF Consecutive
  <2>2. i # 1
    BY <2>1, <1>5
  <2> QED BY <2>1, <2>2, <1>3
<1>9. b + 1 <= t
  BY <1>4
<1>10. Consecutive(r, b + 1, t)
  BY <1>6, <1>7, <1>8, <1>9 DEF Consecutive
<1> QED BY <1>1, <1>5, <1>9, <1>10 DEF r

\* None and EndLast over an empty queue and the steps of a queue.
LEMMA EndFacts ==
    ASSUME NEW S, NEW q \in Seq(S), NEW t
    PROVE  /\ None(<<>>, t) /\ EndLast(<<>>, t)
           /\ \A x \in S : /\ None(q, t) /\ x.type # t => None(Append(q, x), t)
                           /\ EndLast(q, t) /\ (~IsData(x) \/ None(q, t)) => EndLast(Append(q, x), t)
           /\ q # <<>> => /\ None(q, t) => None(Tail(q), t) /\ Head(q).type # t
                          /\ EndLast(q, t) => EndLast(Tail(q), t)
                          /\ EndLast(q, t) /\ Head(q).type = t => None(Tail(q), "Data")
<1>1. None(<<>>, t) /\ EndLast(<<>>, t)
  BY DEF None, EndLast
<1>2. ASSUME NEW x \in S
      PROVE  /\ None(q, t) /\ x.type # t => None(Append(q, x), t)
             /\ EndLast(q, t) /\ (~IsData(x) \/ None(q, t)) => EndLast(Append(q, x), t)
  <2> DEFINE r == Append(q, x)
  <2>1. /\ DOMAIN q = 1..Len(q) /\ Len(q) \in Nat /\ DOMAIN r = 1..(Len(q) + 1)
        /\ \A i \in 1..Len(q) : r[i] = q[i]
        /\ r[Len(q) + 1] = x
    BY Positions
  <2> HIDE DEF r
  <2>2. \A i \in DOMAIN r : (i \in DOMAIN q /\ r[i] = q[i]) \/ (i = Len(q) + 1 /\ r[i] = x)
    BY <2>1
  <2>3. \A i, j \in DOMAIN r : i < j => i \in DOMAIN q /\ r[i] = q[i]
    BY <2>1
  <2>4. None(q, t) /\ x.type # t => None(r, t)
    BY <2>2 DEF None
  <2>5. EndLast(q, t) /\ (~IsData(x) \/ None(q, t)) => EndLast(r, t)
    BY <2>2, <2>3 DEF None, EndLast
  <2> QED BY <2>4, <2>5 DEF r
<1>3. ASSUME q # <<>>
      PROVE  /\ None(q, t) => None(Tail(q), t) /\ Head(q).type # t
             /\ EndLast(q, t) => EndLast(Tail(q), t)
             /\ EndLast(q, t) /\ Head(q).type = t => None(Tail(q), "Data")
  <2> DEFINE r == Tail(q)
  <2>1. /\ DOMAIN q = 1..Len(q) /\ Len(q) \in Nat /\ Len(q) > 0 /\ Head(q) = q[1]
        /\ DOMAIN r = 1..(Len(q) - 1)
        /\ \A i \in 1..(Len(q) - 1) : r[i] = q[i + 1]
    BY <1>3, Positions
  <2> HIDE DEF r
  <2>2. 1 \in DOMAIN q /\ \A i \in DOMAIN r : i + 1 \in DOMAIN q /\ 1 < i + 1 /\ r[i] = q[i + 1]
    BY <2>1
  <2>3. \A i, j \in DOMAIN r : i < j => i + 1 < j + 1
    BY <2>1
  <2>4. None(q, t) => None(r, t) /\ Head(q).type # t
    BY <2>1, <2>2 DEF None
  <2>5. EndLast(q, t) => EndLast(r, t)
    <3> SUFFICES ASSUME EndLast(q, t), NEW i \in DOMAIN r, NEW j \in DOMAIN r, i < j, r[i].type = t
                 PROVE  ~IsData(r[j])
      BY DEF EndLast
    <3>1. /\ i + 1 \in DOMAIN q /\ r[i] = q[i + 1] /\ j + 1 \in DOMAIN q /\ r[j] = q[j + 1]
          /\ i + 1 < j + 1
      BY <2>2, <2>3
    <3> QED BY <3>1 DEF EndLast
  <2>6. EndLast(q, t) /\ Head(q).type = t => None(r, "Data")
    <3> SUFFICES ASSUME EndLast(q, t), Head(q).type = t, NEW j \in DOMAIN r
                 PROVE  r[j].type # "Data"
      BY DEF None
    <3>1. j + 1 \in DOMAIN q /\ 1 < j + 1 /\ r[j] = q[j + 1]
      BY <2>2
    <3> QED BY <3>1, <2>1, <2>2 DEF EndLast, IsData
  <2> QED BY <2>4, <2>5, <2>6 DEF r
<1> QED BY <1>1, <1>2, <1>3

\* A queue without data is at its top.
LEMMA ConsecutiveNone ==
    ASSUME NEW q, NEW b \in Nat, NEW t \in Nat, Consecutive(q, b, t), None(q, "Data")
    PROVE  b = t
<1>1. \A k \in (b + 1)..t : FALSE
  BY DEF Consecutive, None, IsData
<1>2. b <= t
  BY DEF Consecutive
<1>3. b < t => b + 1 \in (b + 1)..t
  OBVIOUS
<1> QED BY <1>1, <1>2, <1>3

(************************ The inductive invariant *************************)

Settled == target.answer \in {"ended", "failed"}

(***************************** Who does what ******************************)

\* What a task is sending.  A chunk that was read and is not yet queued is the latest.
Unsent == acc.out = <<Data(up_sent)>>
TaskUnsent == gw.out = <<Data(down_sent)>>
AccessOut ==
    \/ acc.out = <<>> /\ acc.pc # "starting"
    \/ acc.out = <<Control("Start")>> /\ acc.pc = "starting"
    \/ acc.out = <<Control("End")>> /\ acc.pc = "uploading" /\ acc.upload = "running"
    \/ Unsent /\ up_sent # 0 /\ acc.pc = "uploading" /\ acc.upload = "running"
TaskOut ==
    \/ gw.out = <<>>
    \/ gw.out = <<Control("ResponseStart")>> /\ gw.pc = "responding"
    \/ TaskUnsent /\ down_sent # 0 /\ gw.pc = "responding"
    \/ gw.out = <<Control("ResponseEnd")>> /\ gw.pc = "ending" /\ target.answer = "ended"
    \/ gw.out = <<Control("Error")>> /\ gw.pc = "ending" /\ target.answer = "failed"
OutOK == AccessOut /\ TaskOut

\* Start is the first message, and nothing happened at the gateway before it.
Fresh ==
    gw.pc = "none" =>
       /\ conn = "none" /\ gw.held = 0 /\ ~gw.body /\ gw.chan = <<>> /\ gw.out = <<>>
       /\ up_recv = <<>> /\ down_sent = 0 /\ ~target.request_end /\ ~Settled
Starting == acc.pc = "starting" => a2g = <<>> /\ g2a = <<>> /\ acc.held = 0 /\ gw.pc = "none" /\ up_sent = 0
StartFirst ==
    /\ \A i \in DOMAIN a2g : a2g[i].type = "Start" => i = 1
    /\ ~None(a2g, "Start") => gw.pc = "none"
TaskPhases ==
    /\ conn = "none" => gw.pc = "none"
    /\ Settled => gw.pc \in {"ending", "done"}
    /\ gw.pc = "ending" => Settled
    /\ gw.pc = "done" => Settled \/ gw.canceled
StartOK == Fresh /\ Starting /\ StartFirst /\ TaskPhases

(****************************** The upload ********************************)

\* The target's connection takes the chunks of the client, or will.
Receiving ==
    acc.pc = "starting" \/ ~None(a2g, "Start") \/ (gw.body /\ conn = "open")
Taken == Len(up_recv) + Len(gw.chan) + (IF gw.held # 0 THEN 1 ELSE 0)
UpQueued(t) ==
    /\ Unsent => t = up_sent - 1
    /\ InRequest /\ ~Unsent => t = up_sent
    /\ acc.upload = "finished" => t = up_sent
UpReceived ==
    /\ \A i \in DOMAIN up_recv : up_recv[i] = i
    /\ \A i \in DOMAIN gw.chan : gw.chan[i] = Len(up_recv) + i
    /\ Len(up_recv) + Len(gw.chan) <= up_sent
UpHeldNext ==
    gw.held # 0 /\ conn = "open" =>
       gw.held = Len(up_recv) + Len(gw.chan) + 1 /\ gw.held <= up_sent
UpComing == Receiving => \E t \in 0..up_sent : UpQueued(t) /\ Consecutive(a2g, Taken, t)
UploadOK == UpReceived /\ UpHeldNext /\ UpComing

\* The end of the request is behind all of it.
UpEndLast == EndLast(a2g, "End") /\ (~None(a2g, "End") => acc.upload = "finished")
BodySenderGone ==
    conn = "open" /\ ~gw.body /\ ~gw.canceled /\ ~Settled =>
       acc.upload = "finished" /\ gw.held = 0 /\ Len(up_recv) + Len(gw.chan) = up_sent
RequestEnded ==
    target.request_end =>
       /\ conn # "none" /\ ~gw.body /\ gw.held = 0 /\ gw.chan = <<>>
       /\ ~gw.canceled /\ ~Settled => WholeRequest
UpEndsOK == UpEndLast /\ BodySenderGone /\ RequestEnded

(***************************** The download *******************************)

Delivering == acc.body /\ acc.pc # "done"
AccessTaken == Len(down_recv) + Len(acc.chan) + (IF acc.held # 0 THEN 1 ELSE 0)
DownQueued(t) ==
    /\ TaskUnsent => t = down_sent - 1
    /\ gw.pc \in {"none", "requesting", "responding"} /\ ~TaskUnsent => t = down_sent
    /\ target.answer = "ended" => t = down_sent
DownReceived ==
    /\ \A i \in DOMAIN down_recv : down_recv[i] = i
    /\ Len(down_recv) <= down_sent
    /\ \A i \in DOMAIN acc.chan :
          \/ acc.chan[i] = Len(down_recv) + i /\ Len(down_recv) + i <= down_sent
          \/ acc.chan[i] = BodyError /\ i = Len(acc.chan) /\ ~acc.body
DownHeldNext ==
    /\ acc.held # 0 /\ acc.pc # "done" =>
          /\ acc.body
          /\ acc.held = Len(down_recv) + Len(acc.chan) + 1 /\ acc.held <= down_sent
DownComing == Delivering => \E t \in 0..down_sent : DownQueued(t) /\ Consecutive(g2a, AccessTaken, t)
DownloadOK == DownReceived /\ DownHeldNext /\ DownComing

\* The end of the response is behind all of it.
DownEndLast == EndLast(g2a, "ResponseEnd") /\ (~None(g2a, "ResponseEnd") => target.answer = "ended")
BodyGone ==
    acc.pc # "done" /\ ~acc.body =>
       \/ acc.error_lost
       \/ acc.chan # <<>> /\ acc.chan[Len(acc.chan)] = BodyError
       \/ target.answer = "ended" /\ Len(down_recv) + Len(acc.chan) = down_sent
DownEndsOK == DownEndLast /\ BodyGone /\ ResponseComplete

\* The head waiter is there only before the head.
Waiting ==
    /\ acc.waiter => acc.head = "pending"
    /\ acc.pc = "responding" => acc.head = "ok"
    /\ ~session.access => ~acc.waiter /\ ~acc.body
    /\ client \in {"complete", "error"} => acc.pc = "done"
EntriesOK == Waiting /\ NoEntryLeft

Inductive == OutOK /\ StartOK /\ UploadOK /\ UpEndsOK /\ DownloadOK /\ DownEndsOK /\ EntriesOK

(*************************** What a step does *****************************)

AccessSide == Handler \/ Client \/ Respond \/ AccessDispatch \/ HeartbeatBlocks \/ AccessDeliver
              \/ AccessLosesSession
GatewaySide == GatewayDispatch \/ GatewayDeliver \/ RequestTask \/ Target \/ Connection
               \/ GatewayLosesSession

\* Every step is a step of one of the two sides.
LEMMA Steps == Next => AccessSide \/ GatewaySide
  BY DEF Next, AccessSide, GatewaySide, Readers, Losses

\* A step of one side leaves the state of the other alone.
LEMMA AccessFrame ==
    ASSUME Typed, GatewaySide
    PROVE  /\ acc' = acc /\ client' = client /\ up_sent' = up_sent /\ down_recv' = down_recv
           /\ session'.access = session.access
<1>1. acc' = acc /\ client' = client /\ up_sent' = up_sent /\ down_recv' = down_recv
  BY DEF GatewaySide, GatewayDispatch, GatewayDeliver, RequestTask, TaskCancelled, TaskSends,
     TaskReturns, Target, TargetAnswers, TargetChunk, TargetEnds, TargetFails, TaskEnds,
     Connection, ConnectionSends, ConnectionEnds, ConnectionCloses, GatewayLosesSession, payload
<1>2. session' = session \/ session' = [session EXCEPT !.gateway = FALSE]
  BY DEF GatewaySide, GatewayDispatch, GatewayDeliver, RequestTask, TaskCancelled, TaskSends,
     TaskReturns, Target, TargetAnswers, TargetChunk, TargetEnds, TargetFails, TaskEnds,
     Connection, ConnectionSends, ConnectionEnds, ConnectionCloses, GatewayLosesSession
<1> QED BY <1>1, <1>2 DEF Typed, EnvironmentTyped

\* And the access leaves that of the gateway alone.
LEMMA GatewayFrame ==
    ASSUME AccessSide
    PROVE  /\ gw' = gw /\ conn' = conn /\ target' = target
           /\ up_recv' = up_recv /\ down_sent' = down_sent
  BY DEF AccessSide, Handler, RequestSends, HeadArrives, RequestFails, Client, ReadChunk,
     RequestBodyEnds, RequestBodyFails, ClientLeaves, Respond, AccessDispatch,
     HeartbeatBlocks, AccessDeliver, AccessLosesSession, payload

\* What a step of the access leaves of the upload.
LEMMA UploadFields ==
    ASSUME Typed, AccessOut, AccessSide
    PROVE  \/ /\ RequestSends /\ acc.out # <<>> /\ acc.pc \in {"starting", "uploading"}
              /\ a2g' = Append(a2g, Head(acc.out)) /\ g2a' = g2a
              /\ acc'.pc = "uploading" /\ acc'.out = <<>> /\ up_sent' = up_sent
              /\ acc'.upload = IF Head(acc.out).type = "End" THEN "finished" ELSE acc.upload
           \/ /\ acc.pc = "uploading" /\ acc'.pc = "uploading" /\ acc.out = <<>>
              /\ acc.upload = "running" /\ acc'.upload = "running" /\ a2g' = a2g /\ g2a' = g2a
              /\ \/ acc'.out = <<Data(up_sent')>> /\ up_sent' = up_sent + 1
                 \/ acc'.out = <<Control("End")>> /\ up_sent' = up_sent
           \/ /\ acc'.pc \in {"responding", "done"} /\ acc'.out = <<>> /\ up_sent' = up_sent
              /\ (acc'.upload = acc.upload \/ (acc.upload = "running" /\ acc'.upload = "dropped"))
              /\ a2g' \in {a2g, Append(a2g, Control("Close"))}
              /\ acc.pc = "starting" => a2g' = a2g
              /\ g2a' = g2a
           \/ /\ acc'.pc = acc.pc /\ acc'.out = acc.out /\ up_sent' = up_sent /\ acc'.upload = acc.upload
              /\ a2g' \in {a2g, Append(a2g, Control("Close"))}
              /\ acc.pc = "starting" /\ g2a = <<>> /\ acc.held = 0 => a2g' = a2g /\ g2a' = g2a /\ acc'.held = 0
<1>1. acc \in AccessState
  BY DEF Typed, AccessTyped
<1>2. CASE RequestSends
  BY <1>1, <1>2 DEF RequestSends, InRequest, AccessState, payload
<1>3. CASE ReadChunk \/ RequestBodyEnds
  BY <1>1, <1>3 DEF ReadChunk, RequestBodyEnds, Uploading, AccessState, payload
<1>4. CASE HeadArrives \/ RequestFails \/ ClientLeaves
  BY <1>1, <1>4 DEF HeadArrives, RequestFails, ClientLeaves, Failed, AccessState, payload
<1>5. CASE RequestBodyFails
  BY <1>1, <1>5 DEF RequestBodyFails, Uploading, Failed, AccessState, payload
<1>6. CASE Respond
  <2>1. acc.pc = "responding" /\ acc.out = <<>>
    BY <1>6 DEF Respond, AccessOut
  <2> QED BY <1>1, <1>6, <2>1 DEF Respond, AccessState
<1>7. CASE AccessDispatch
  <2>1. AccessTyped
    BY DEF Typed
  <2>2. acc'.pc = acc.pc /\ acc'.out = acc.out /\ acc'.upload = acc.upload
    <3> DEFINE b == BodyFails(acc)
    <3>1. b \in AccessState /\ b.pc = acc.pc /\ b.out = acc.out /\ b.upload = acc.upload
      BY <2>1, BodyFailsFields
    <3>2. CASE acc' = [b EXCEPT !.waiter = FALSE, !.head = IF acc.waiter THEN "err" ELSE @]
      <4> HIDE DEF b
      <4> QED BY <3>1, <3>2 DEF AccessState
    <3> QED BY <1>1, <1>7, <3>2 DEF AccessDispatch, AccessState
  <2>3. /\ a2g' \in {a2g, Append(a2g, Control("Close"))} /\ g2a # <<>> /\ up_sent' = up_sent
    BY <1>7, AccessLoopFacts DEF AccessDispatch, payload
  <2> QED BY <2>2, <2>3
<1>8. CASE AccessDeliver
  BY <1>1, <1>8, AccessLoopFacts DEF AccessDeliver, AccessState, payload
<1>9. CASE AccessLosesSession
  <2> DEFINE b == BodyFails(acc)
  <2>1. b \in AccessState /\ b.pc = acc.pc /\ b.out = acc.out /\ b.upload = acc.upload
    BY BodyFailsFields DEF Typed
  <2>2. acc' = [b EXCEPT !.waiter = FALSE, !.held = 0, !.head = IF acc.waiter THEN "err" ELSE @]
    BY <1>9 DEF AccessLosesSession
  <2>3. a2g' = a2g /\ g2a' = g2a /\ up_sent' = up_sent
    BY <1>9 DEF AccessLosesSession, payload
  <2> HIDE DEF b
  <2> QED BY <2>1, <2>2, <2>3 DEF AccessState
<1>10. CASE HeartbeatBlocks
  BY <1>1, <1>10 DEF HeartbeatBlocks, payload
<1> QED BY <1>2, <1>3, <1>4, <1>5, <1>6, <1>7, <1>8, <1>9, <1>10 DEF AccessSide, Handler, Client

\* What a step of the gateway does to the phases of its task.
LEMMA TaskFields ==
    ASSUME Typed, GatewaySide
    PROVE  \/ /\ GatewayDispatch /\ a2g # <<>> /\ a2g' = Tail(a2g) /\ gw.held = 0
              /\ gw'.out = gw.out /\ target' = target /\ gw'.chan = gw.chan
              /\ up_recv' = up_recv /\ down_sent' = down_sent
              /\ g2a' \in {g2a, Append(g2a, Control("Error"))}
              /\ gw.canceled => gw'.canceled
              /\ \/ Head(a2g).type = "Start" /\ gw'.pc = "requesting" /\ conn' = "open" /\ gw'.body
                    /\ gw'.held = 0
                 \/ Head(a2g).type = "Start" /\ gw' = gw /\ conn' = conn
                 \/ Head(a2g).type = "End" /\ gw'.pc = gw.pc /\ conn' = conn /\ ~gw'.body /\ gw'.held = 0
                    /\ gw'.canceled = gw.canceled
                 \/ Head(a2g).type = "Close" /\ gw'.pc = gw.pc /\ conn' = conn /\ ~gw'.body
                    /\ gw'.held = 0 /\ (Running => gw'.canceled)
                 \/ Head(a2g).type = "Data" /\ gw'.pc = gw.pc /\ conn' = conn /\ gw'.body = gw.body
                    /\ gw'.held = (IF gw.body THEN Head(a2g).n ELSE 0) /\ gw'.canceled = gw.canceled
           \/ /\ ~GatewayDispatch /\ a2g' = a2g /\ (gw'.body => gw.body)
              /\ gw.canceled => gw'.canceled
              /\ \/ /\ GatewayDeliver /\ gw.held # 0 /\ gw'.held = 0 /\ gw'.pc = gw.pc
                    /\ gw'.out = gw.out /\ conn' = conn /\ target' = target
                    /\ up_recv' = up_recv /\ down_sent' = down_sent /\ gw'.canceled = gw.canceled
                    /\ \/ conn = "open" /\ gw'.chan = Append(gw.chan, gw.held) /\ gw'.body = gw.body
                          /\ g2a' = g2a
                       \/ conn = "closed" /\ gw'.chan = gw.chan /\ ~gw'.body
                          /\ g2a' = Append(g2a, Control("Error"))
                 \/ /\ GatewayLosesSession /\ gw'.pc = gw.pc /\ gw'.out = gw.out /\ gw'.held = 0
                    /\ ~gw'.body /\ gw'.chan = gw.chan /\ conn' = conn /\ target' = target
                    /\ up_recv' = up_recv /\ down_sent' = down_sent /\ g2a' = g2a
                    /\ (Running => gw'.canceled)
                 \/ /\ RequestTask \/ Target
                    /\ gw.pc # "none" /\ gw'.pc # "none"
                    /\ conn' = conn /\ up_recv' = up_recv /\ gw'.chan = gw.chan /\ gw'.held = gw.held
                    /\ target'.request_end = target.request_end /\ gw'.canceled = gw.canceled
                    /\ gw'.body = gw.body \/ gw.canceled \/ Settled'
                 \/ /\ Connection /\ conn = "open" /\ conn' \in {"open", "closed"}
                    /\ gw'.pc = gw.pc /\ gw'.out = gw.out /\ down_sent' = down_sent /\ g2a' = g2a
                    /\ gw'.held = gw.held /\ gw'.body = gw.body /\ gw'.canceled = gw.canceled
                    /\ target'.answer = target.answer
                    /\ \/ ConnectionSends /\ gw.chan # <<>> /\ up_recv' = Append(up_recv, Head(gw.chan))
                          /\ gw'.chan = Tail(gw.chan) /\ conn' = "open" /\ target' = target
                       \/ ConnectionEnds /\ up_recv' = up_recv /\ gw' = gw /\ conn' = "open"
                          /\ gw.chan = <<>> /\ ~gw.body /\ gw.held = 0 /\ target'.request_end
                       \/ ConnectionCloses /\ up_recv' = up_recv /\ gw'.chan = <<>> /\ conn' = "closed"
                          /\ target' = target
<1>1. gw \in TaskState /\ target \in [request_end : BOOLEAN, answer : {"none", "open", "ended", "failed"}]
  BY DEF Typed, TaskTyped, EnvironmentTyped
<1>2. CASE GatewayDispatch
  BY <1>1, <1>2, DispatchFacts DEF GatewayDispatch, Cancelled, Running, TaskState, payload
<1>3. CASE GatewayDeliver
  <2>1. ~GatewayDispatch
    BY <1>3 DEF GatewayDeliver, GatewayDispatch
  <2> QED BY <1>1, <1>3, <2>1 DEF GatewayDeliver, TaskState, payload
<1>4. CASE GatewayLosesSession /\ ~GatewayDispatch
  BY <1>1, <1>4 DEF GatewayLosesSession, Cancelled, Running, TaskState, payload
<1>5. CASE TaskCancelled /\ ~GatewayDispatch
  BY <1>1, <1>5 DEF RequestTask, TaskCancelled, Running, TaskState, payload
<1>6. CASE (TaskSends \/ TaskReturns) /\ ~GatewayDispatch
  BY <1>1, <1>6 DEF RequestTask, TaskSends, TaskReturns, Running, TaskState, payload
<1>7. CASE (TargetAnswers \/ TargetChunk) /\ ~GatewayDispatch
  BY <1>1, <1>7 DEF Target, TargetAnswers, TargetChunk, TaskState, payload
<1>8. CASE (TargetEnds \/ TargetFails) /\ ~GatewayDispatch
  BY <1>1, <1>8 DEF Target, TargetEnds, TargetFails, TaskEnds, TaskState, payload, Settled
<1>9. CASE ConnectionSends /\ ~GatewayDispatch
  BY <1>1, <1>9 DEF Connection, ConnectionSends, TaskState, payload
<1>10. CASE ConnectionEnds /\ ~GatewayDispatch
  BY <1>1, <1>10 DEF Connection, ConnectionEnds, TaskState, payload
<1>11. CASE ConnectionCloses /\ ~GatewayDispatch
  BY <1>1, <1>11 DEF Connection, ConnectionCloses, TaskState, payload
<1> QED BY <1>2, <1>3, <1>4, <1>5, <1>6, <1>7, <1>8, <1>9, <1>10, <1>11
           DEF GatewaySide, RequestTask, Target, Connection

(*************************** Who does what ********************************)

\* A control message or a chunk of the client is a message of the upload.
LEMMA Sending ==
    ASSUME Typed, AccessOut, acc.out # <<>>
    PROVE  /\ Head(acc.out) \in Up
           /\ \/ Head(acc.out) = Control("Start") /\ acc.pc = "starting"
              \/ Head(acc.out) = Control("End") /\ acc.pc = "uploading" /\ acc.upload = "running" /\ ~Unsent
              \/ Head(acc.out) = Data(up_sent) /\ Unsent /\ up_sent # 0
                 /\ acc.pc = "uploading" /\ acc.upload = "running"
<1>1. acc.out \in Ups
  BY DEF Typed, AccessTyped, AccessState
<1>2. Head(acc.out) \in Up
  BY <1>1, UpsFacts
<1>3. acc.out = <<Control("End")>> => ~Unsent
  <2>1. <<Control("End")>> # <<Data(up_sent)>>
    <3>1. Control("End") # Data(up_sent)
      BY DEF Control, Data
    <3> QED BY <3>1
  <2> QED BY <2>1 DEF Unsent
<1> QED BY <1>2, <1>3 DEF AccessOut, Unsent

\* What the handler is sending, after a step.
LEMMA AccessOutNext ==
    ASSUME Typed, AccessOut, AccessSide \/ GatewaySide
    PROVE  AccessOut'
<1>1. CASE AccessSide
  <2>1. up_sent \in Nat
    BY HeldFacts DEF Typed, PayloadTyped
  <2>2. up_sent' = up_sent + 1 => up_sent' # 0
    BY <2>1
  <2> QED BY <1>1, <2>2, UploadFields DEF AccessOut, Unsent
<1>2. CASE GatewaySide
  BY <1>2, AccessFrame DEF AccessOut, Unsent
<1> QED BY <1>1, <1>2

\* While Start is on its way, nothing happened at the gateway.
LEMMA StartHead ==
    ASSUME Typed, StartOK, a2g # <<>>, Head(a2g).type = "Start"
    PROVE  gw.pc = "none" /\ None(Tail(a2g), "Start")
<1>1. /\ DOMAIN a2g = 1..Len(a2g) /\ Len(a2g) \in Nat /\ Len(a2g) > 0 /\ Head(a2g) = a2g[1]
      /\ DOMAIN Tail(a2g) = 1..(Len(a2g) - 1)
      /\ \A i \in 1..(Len(a2g) - 1) : Tail(a2g)[i] = a2g[i + 1]
  BY Positions DEF Typed, QueuesTyped, Ups
<1>2. 1 \in DOMAIN a2g /\ \A i \in DOMAIN Tail(a2g) :
        i + 1 \in DOMAIN a2g /\ i + 1 # 1 /\ Tail(a2g)[i] = a2g[i + 1]
  BY <1>1
<1>3. gw.pc = "none"
  BY <1>1, <1>2 DEF StartOK, StartFirst, None
<1>4. None(Tail(a2g), "Start")
  BY <1>2 DEF StartOK, StartFirst, None
<1> QED BY <1>3, <1>4

\* What the request task is sending, after a step.
LEMMA TaskOutNext ==
    ASSUME Typed, TaskOut, StartOK, AccessSide \/ GatewaySide
    PROVE  TaskOut'
<1>1. CASE AccessSide
  BY <1>1, GatewayFrame DEF TaskOut, TaskUnsent
<1>2. CASE GatewayDispatch
  <2>1. CASE a2g # <<>> /\ Head(a2g).type = "Start"
    <3>1. gw.out = <<>>
      BY <2>1, StartHead DEF StartOK, Fresh
    <3> QED BY <1>2, <3>1, TaskFields DEF TaskOut, GatewaySide
  <2>2. CASE ~(a2g # <<>> /\ Head(a2g).type = "Start")
    <3>1. gw'.pc = gw.pc /\ gw'.out = gw.out /\ target' = target /\ down_sent' = down_sent
      BY <1>2, <2>2, TaskFields DEF GatewaySide
    <3> QED BY <3>1 DEF TaskOut, TaskUnsent
  <2> QED BY <2>1, <2>2
<1>3. CASE (GatewayDeliver \/ GatewayLosesSession \/ Connection) /\ ~GatewayDispatch
  <2>1. gw'.pc = gw.pc /\ gw'.out = gw.out /\ target'.answer = target.answer /\ down_sent' = down_sent
    <3>1. gw \in TaskState /\ target \in [request_end : BOOLEAN, answer : {"none", "open", "ended", "failed"}]
      BY DEF Typed, TaskTyped, EnvironmentTyped
    <3> QED BY <3>1, <1>3 DEF GatewayDeliver, GatewayLosesSession, Cancelled, Connection,
               ConnectionSends, ConnectionEnds, ConnectionCloses, TaskState, payload
  <2> QED BY <2>1 DEF TaskOut, TaskUnsent
<1>4. CASE RequestTask \/ Target
  <2>0. /\ gw \in TaskState /\ target \in [request_end : BOOLEAN, answer : {"none", "open", "ended", "failed"}]
        /\ down_sent \in Nat /\ (down_sent' = down_sent + 1 => down_sent' # 0)
    BY HeldFacts DEF Typed, TaskTyped, EnvironmentTyped, PayloadTyped
  <2>1. CASE TaskCancelled \/ TaskSends
    BY <2>0, <2>1 DEF TaskCancelled, TaskSends, TaskOut, TaskState
  <2>2. CASE TaskReturns
    BY <2>0, <2>2 DEF TaskReturns, TaskOut, TaskState
  <2>3. CASE TargetAnswers \/ TargetChunk
    BY <2>0, <2>3 DEF TargetAnswers, TargetChunk, TaskOut, TaskUnsent, TaskState
  <2>4. CASE TargetEnds \/ TargetFails
    BY <2>0, <2>4 DEF TargetEnds, TargetFails, TaskEnds, TaskOut, TaskState
  <2> QED BY <1>4, <2>1, <2>2, <2>3, <2>4 DEF RequestTask, Target
<1> QED BY <1>1, <1>2, <1>3, <1>4 DEF GatewaySide

\* OutOK is kept.
LEMMA OutNext ==
    ASSUME Typed, OutOK, StartOK, AccessSide \/ GatewaySide
    PROVE  OutOK'
  BY AccessOutNext, TaskOutNext DEF OutOK

(**************************** Start comes first ***************************)

\* The messages of the upload after a step of the access.
LEMMA UploadAppends ==
    ASSUME Typed, AccessOut, AccessSide
    PROVE  \/ a2g' = a2g
           \/ \E x \in Up : /\ a2g' = Append(a2g, x)
                            /\ x.type = "Start" => acc.pc = "starting"
                            /\ IsData(x) => Unsent /\ acc.upload = "running"
                            /\ x.type = "End" => acc'.upload = "finished"
<1>1. Control("Close") \in Up
  BY Messages
<1>2. CASE acc.out # <<>> /\ a2g' = Append(a2g, Head(acc.out))
          /\ acc'.upload = IF Head(acc.out).type = "End" THEN "finished" ELSE acc.upload
  <2>1. Head(acc.out) \in Up /\ (Head(acc.out).type = "Start" => acc.pc = "starting")
        /\ (IsData(Head(acc.out)) => Unsent /\ acc.upload = "running")
    BY <1>2, Sending DEF Control, Data, IsData
  <2> QED BY <1>2, <2>1
<1>3. CASE a2g' = Append(a2g, Control("Close"))
  BY <1>1, <1>3 DEF Control, IsData
<1> QED BY <1>2, <1>3, UploadFields

\* StartOK is kept.
LEMMA StartNext ==
    ASSUME Typed, OutOK, StartOK, AccessSide \/ GatewaySide
    PROVE  StartOK'
<1>0. a2g \in Seq(Up) /\ a2g' \in Seq(Up)
  <2>1. Next
    BY DEF Next, AccessSide, GatewaySide, Readers, Losses
  <2> QED BY <2>1, NextTyped DEF Typed, QueuesTyped, Ups
<1>1. Fresh'
  <2>1. CASE AccessSide
    BY <2>1, GatewayFrame DEF StartOK, Fresh, Settled
  <2>2. CASE GatewaySide
    BY <2>2, TaskFields DEF StartOK, Fresh, Settled, TaskPhases
  <2> QED BY <2>1, <2>2
<1>2. Starting'
  <2>1. CASE AccessSide
    <3> SUFFICES ASSUME acc'.pc = "starting"
                 PROVE  a2g' = <<>> /\ g2a' = <<>> /\ acc'.held = 0 /\ gw'.pc = "none" /\ up_sent' = 0
      BY DEF Starting
    <3>1. acc.pc = "starting" /\ a2g = <<>> /\ g2a = <<>> /\ acc.held = 0 /\ gw.pc = "none" /\ up_sent = 0
      BY <2>1, UploadFields DEF OutOK, StartOK, Starting
    <3> QED BY <2>1, <3>1, UploadFields, GatewayFrame DEF OutOK
  <2>2. CASE GatewaySide
    <3>1. acc' = acc /\ up_sent' = up_sent
      BY <2>2, AccessFrame
    <3>2. ASSUME acc.pc = "starting" PROVE a2g' = <<>> /\ g2a' = <<>> /\ gw'.pc = "none"
      <4>1. a2g = <<>> /\ g2a = <<>> /\ gw.pc = "none" /\ conn = "none" /\ gw.held = 0
        BY <3>2 DEF StartOK, Starting, Fresh
      <4> QED BY <2>2, <4>1, TaskFields
    <3> QED BY <3>1, <3>2 DEF StartOK, Starting
  <2> QED BY <2>1, <2>2
<1>3. StartFirst'
  <2>1. CASE AccessSide
    <3>1. CASE a2g' = a2g
      BY <2>1, <3>1, GatewayFrame DEF StartOK, StartFirst, None
    <3>2. ASSUME NEW x \in Up, a2g' = Append(a2g, x), x.type = "Start" => acc.pc = "starting"
          PROVE  StartFirst'
      <4>1. CASE x.type = "Start"
        <5>1. a2g = <<>> /\ gw.pc = "none"
          BY <4>1, <3>2 DEF StartOK, Starting
        <5>2. DOMAIN a2g' = 1..1
          BY <3>2, <5>1
        <5> QED BY <2>1, <5>1, <5>2, GatewayFrame DEF StartFirst
      <4>2. CASE x.type # "Start"
        <5>1. /\ DOMAIN a2g = 1..Len(a2g) /\ Len(a2g) \in Nat /\ DOMAIN a2g' = 1..(Len(a2g) + 1)
              /\ \A i \in 1..Len(a2g) : a2g'[i] = a2g[i]
              /\ a2g'[Len(a2g) + 1] = x
          BY <1>0, <3>2, Positions
        <5>2. \A i \in DOMAIN a2g' : a2g'[i].type = "Start" => i \in DOMAIN a2g /\ a2g[i].type = "Start"
          BY <4>2, <5>1
        <5> QED BY <2>1, <5>2, GatewayFrame DEF StartOK, StartFirst, None
      <4> QED BY <4>1, <4>2
    <3> QED BY <2>1, <3>1, <3>2, UploadAppends DEF OutOK
  <2>2. CASE GatewayDispatch
    <3>0. a2g # <<>> /\ a2g' = Tail(a2g)
      BY <2>2, TaskFields DEF GatewaySide
    <3>1. None(Tail(a2g), "Start")
      <4>1. CASE Head(a2g).type = "Start"
        BY <3>0, <4>1, StartHead
      <4>2. CASE Head(a2g).type # "Start"
        <5>1. /\ DOMAIN a2g = 1..Len(a2g) /\ Len(a2g) \in Nat /\ Len(a2g) > 0
              /\ DOMAIN Tail(a2g) = 1..(Len(a2g) - 1)
              /\ \A i \in 1..(Len(a2g) - 1) : Tail(a2g)[i] = a2g[i + 1]
          BY <1>0, <3>0, Positions
        <5>2. \A i \in DOMAIN Tail(a2g) :
                i + 1 \in DOMAIN a2g /\ i + 1 # 1 /\ Tail(a2g)[i] = a2g[i + 1]
          BY <5>1
        <5> QED BY <5>2 DEF StartOK, StartFirst, None
      <4> QED BY <4>1, <4>2
    <3> QED BY <3>0, <3>1 DEF StartFirst, None
  <2>3. CASE GatewaySide /\ ~GatewayDispatch
    <3>1. a2g' = a2g /\ (gw.pc = "none" => gw'.pc = "none")
      BY <2>3, TaskFields DEF StartOK, Fresh, TaskPhases
    <3> QED BY <3>1 DEF StartOK, StartFirst, None
  <2> QED BY <2>1, <2>2, <2>3
<1>4. TaskPhases'
  <2>1. CASE AccessSide
    BY <2>1, GatewayFrame DEF StartOK, TaskPhases, Settled
  <2>2. CASE GatewayDispatch
    <3>1. CASE Head(a2g).type = "Start"
      BY <2>2, <3>1, StartHead, TaskFields DEF GatewaySide, StartOK, Fresh, TaskPhases, Settled
    <3>2. CASE Head(a2g).type # "Start"
      BY <2>2, <3>2, TaskFields DEF GatewaySide, StartOK, TaskPhases, Settled
    <3> QED BY <3>1, <3>2
  <2>3. CASE (GatewayDeliver \/ GatewayLosesSession \/ Connection) /\ ~GatewayDispatch
    <3>1. gw'.pc = gw.pc /\ target'.answer = target.answer /\ (gw.canceled => gw'.canceled)
          /\ (conn' = conn \/ (conn = "open" /\ conn' \in {"open", "closed"}))
      <4>1. gw \in TaskState /\ target \in [request_end : BOOLEAN, answer : {"none", "open", "ended", "failed"}]
        BY DEF Typed, TaskTyped, EnvironmentTyped
      <4> QED BY <4>1, <2>3 DEF GatewayDeliver, GatewayLosesSession, Cancelled, Connection,
               ConnectionSends, ConnectionEnds, ConnectionCloses, TaskState, payload
    <3> QED BY <3>1 DEF StartOK, TaskPhases, Settled
  <2>4. CASE RequestTask \/ Target
    <3>0. gw \in TaskState /\ target \in [request_end : BOOLEAN, answer : {"none", "open", "ended", "failed"}]
      BY DEF Typed, TaskTyped, EnvironmentTyped
    <3>1. CASE TaskCancelled \/ TaskSends \/ TaskReturns
      BY <3>0, <3>1 DEF TaskCancelled, TaskSends, TaskReturns, Running, StartOK, TaskPhases, Settled, TaskState
    <3>2. CASE TargetAnswers \/ TargetChunk
      BY <3>0, <3>2 DEF TargetAnswers, TargetChunk, StartOK, TaskPhases, Settled, TaskState
    <3>3. CASE TargetEnds \/ TargetFails
      BY <3>0, <3>3 DEF TargetEnds, TargetFails, TaskEnds, StartOK, TaskPhases, Settled, TaskState
    <3> QED BY <2>4, <3>1, <3>2, <3>3 DEF RequestTask, Target
  <2> QED BY <2>1, <2>2, <2>3, <2>4 DEF GatewaySide
<1> QED BY <1>1, <1>2, <1>3, <1>4 DEF StartOK

(****************************** The upload ********************************)

\* The counts of the upload are numbers.
LEMMA UploadCounts ==
    ASSUME Typed
    PROVE  /\ up_sent \in Nat /\ gw.held \in Nat /\ Taken \in Nat
           /\ Len(up_recv) \in Nat /\ Len(gw.chan) \in Nat
           /\ gw.held = 0 => Taken = Len(up_recv) + Len(gw.chan)
           /\ gw.held # 0 => Taken = Len(up_recv) + Len(gw.chan) + 1
<1>1. up_sent \in Nat /\ gw.held \in Nat /\ Len(up_recv) \in Nat /\ Len(gw.chan) \in Nat
  BY HeldFacts, NumbersFacts DEF Typed, PayloadTyped, TaskTyped, TaskState
<1> DEFINE a == Len(up_recv)
           b == Len(gw.chan)
           h == IF gw.held # 0 THEN 1 ELSE 0
<1>2. Taken = a + b + h
  BY DEF Taken
<1>3. a \in Nat /\ b \in Nat /\ (gw.held = 0 => h = 0) /\ (gw.held # 0 => h = 1)
  BY <1>1
<1>4. Taken \in Nat /\ (gw.held = 0 => Taken = a + b) /\ (gw.held # 0 => Taken = a + b + 1)
  <2> HIDE DEF a, b, h
  <2> QED BY <1>2, <1>3
<1> QED BY <1>1, <1>4

\* The types hold after a step of either side.
LEMMA NextTypes ==
    ASSUME Typed, AccessSide \/ GatewaySide
    PROVE  Typed'
<1>1. Next
  BY DEF Next, AccessSide, GatewaySide, Readers, Losses
<1> QED BY <1>1, NextTyped

\* Whatever the target has not yet answered to is behind the first message.
LEMMA NoLaterStart ==
    ASSUME Typed, StartOK, a2g # <<>>
    PROVE  None(Tail(a2g), "Start")
<1>1. CASE Head(a2g).type = "Start"
  BY <1>1, StartHead
<1>2. CASE Head(a2g).type # "Start"
  <2>1. /\ DOMAIN a2g = 1..Len(a2g) /\ Len(a2g) \in Nat /\ Len(a2g) > 0
        /\ DOMAIN Tail(a2g) = 1..(Len(a2g) - 1)
        /\ \A i \in 1..(Len(a2g) - 1) : Tail(a2g)[i] = a2g[i + 1]
    BY Positions DEF Typed, QueuesTyped, Ups
  <2>2. \A i \in DOMAIN Tail(a2g) : i + 1 \in DOMAIN a2g /\ i + 1 # 1 /\ Tail(a2g)[i] = a2g[i + 1]
    BY <2>1
  <2> QED BY <2>2 DEF StartOK, StartFirst, None
<1> QED BY <1>1, <1>2

\* Before the request reached the gateway, nothing of it is there.
LEMMA NothingTaken ==
    ASSUME Typed, StartOK, acc.pc = "starting" \/ ~None(a2g, "Start")
    PROVE  gw.pc = "none" /\ gw.held = 0 /\ gw.chan = <<>> /\ conn = "none" /\ ~gw.body
  BY DEF StartOK, Starting, StartFirst, Fresh

\* What the target took, and its connection will take, stays in order.
LEMMA UpReceivedNext ==
    ASSUME Typed, StartOK, UploadOK, OutOK, AccessSide \/ GatewaySide
    PROVE  UpReceived'
<1>0. UpReceived /\ UpHeldNext
  BY DEF UploadOK
<1> DEFINE r == up_recv
           c == gw.chan
           a == Len(r)
           b == Len(c)
<1>1. /\ up_sent \in Nat /\ a \in Nat /\ b \in Nat /\ r \in UpNumbers /\ c \in UpNumbers
      /\ DOMAIN r = 1..a /\ DOMAIN c = 1..b
      /\ gw.held \in Nat
  <2>1. r \in UpNumbers /\ c \in UpNumbers
    BY DEF Typed, PayloadTyped, TaskTyped, TaskState
  <2> QED BY <2>1, UploadCounts, Positions DEF UpNumbers
<1>2. /\ \A i \in 1..a : r[i] = i
      /\ \A i \in 1..b : c[i] = a + i
      /\ a + b <= up_sent
  BY <1>0, <1>1 DEF UpReceived
<1>3. CASE AccessSide
  <2>1. up_recv' = up_recv /\ gw' = gw
    BY <1>3, GatewayFrame
  <2>2. up_sent' = up_sent \/ up_sent' = up_sent + 1
    BY <1>3, UploadFields DEF OutOK
  <2>3. a + b <= up_sent'
    <3> HIDE DEF a, b
    <3> QED BY <1>1, <1>2, <2>2
  <2> QED BY <1>0, <2>1, <2>3 DEF UpReceived
<1>4. CASE GatewaySide
  <2>0. up_sent' = up_sent
    BY <1>4, AccessFrame
  <2>1. CASE up_recv' = up_recv /\ gw'.chan = gw.chan
    BY <2>0, <2>1, <1>0 DEF UpReceived
  <2>2. CASE gw.held # 0 /\ conn = "open" /\ gw'.chan = Append(gw.chan, gw.held) /\ up_recv' = up_recv
    <3>1. gw.held = a + b + 1 /\ gw.held <= up_sent
      BY <2>2, <1>0 DEF UpHeldNext
    <3>2. gw.held \in 1..MaxUp
      BY <1>1, <2>2, CapacityAssumption DEF Typed, TaskTyped, TaskState, UpHeld
    <3>3. /\ DOMAIN Append(c, gw.held) = 1..(b + 1) /\ Len(Append(c, gw.held)) = b + 1
          /\ \A i \in 1..b : Append(c, gw.held)[i] = c[i]
          /\ Append(c, gw.held)[b + 1] = gw.held
      BY <3>2, <1>1 DEF UpNumbers
    <3> DEFINE d == Append(c, gw.held)
    <3> HIDE DEF d
    <3>4. gw'.chan = d
      BY <2>2 DEF d
    <3>5. DOMAIN d = 1..(b + 1) /\ Len(d) = b + 1 /\ (\A i \in 1..b : d[i] = c[i]) /\ d[b + 1] = gw.held
      BY <3>3 DEF d
    <3> HIDE DEF a, b, c
    <3>6. (\A i \in DOMAIN d : d[i] = a + i) /\ a + Len(d) <= up_sent
      BY <3>5, <3>1, <1>1, <1>2
    <3> QED BY <3>4, <3>6, <2>0, <2>2, <1>2, <1>1 DEF UpReceived, a
  <2>3. CASE gw.chan # <<>> /\ up_recv' = Append(up_recv, Head(gw.chan)) /\ gw'.chan = Tail(gw.chan)
    <3> DEFINE d == Tail(c)
               s == Append(r, Head(c))
    <3>1. /\ b > 0 /\ Head(c) = c[1] /\ DOMAIN d = 1..(b - 1) /\ Len(d) = b - 1
          /\ \A i \in 1..(b - 1) : d[i] = c[i + 1]
          /\ DOMAIN s = 1..(a + 1) /\ Len(s) = a + 1 /\ (\A i \in 1..a : s[i] = r[i]) /\ s[a + 1] = c[1]
      BY <2>3, <1>1 DEF UpNumbers
    <3>2. up_recv' = s /\ gw'.chan = d
      BY <2>3
    <3> HIDE DEF a, b, c, d, r, s
    <3>3. \A i \in DOMAIN s : s[i] = i
      <4>1. c[1] = a + 1
        BY <3>1, <1>1, <1>2
      <4> QED BY <3>1, <1>1, <1>2, <4>1
    <3>4. \A i \in DOMAIN d : d[i] = Len(s) + i
      <4> SUFFICES ASSUME NEW i \in DOMAIN d PROVE d[i] = Len(s) + i
        OBVIOUS
      <4>1. i \in 1..(b - 1) /\ i + 1 \in 1..b /\ d[i] = c[i + 1]
        BY <3>1, <1>1
      <4>2. d[i] = a + (i + 1)
        BY <4>1, <1>2
      <4> QED BY <4>1, <4>2, <3>1, <1>1
    <3>5. Len(s) + Len(d) <= up_sent
      BY <3>1, <1>1, <1>2
    <3> QED BY <3>2, <3>3, <3>4, <3>5, <2>0 DEF UpReceived
  <2>4. CASE up_recv' = up_recv /\ gw'.chan = <<>>
    <3>1. DOMAIN <<>> = {} /\ Len(<<>>) = 0
      OBVIOUS
    <3>2. a + 0 <= up_sent
      <4> HIDE DEF a, b
      <4> QED BY <1>1, <1>2
    <3> QED BY <3>1, <3>2, <2>0, <2>4, <1>0 DEF UpReceived
  <2>5. GatewayDispatch => up_recv' = up_recv /\ gw'.chan = gw.chan
    BY <1>4, TaskFields
  <2> QED BY <1>4, <2>1, <2>2, <2>3, <2>4, <2>5, TaskFields
<1> QED BY <1>3, <1>4

\* The next message is the chunk after those that were taken.
LEMMA UploadHead ==
    ASSUME Typed, StartOK, UploadOK, a2g # <<>>, IsData(Head(a2g)), gw.body, conn = "open"
    PROVE  Head(a2g).n = Taken + 1 /\ Head(a2g).n <= up_sent
<1>1. PICK t \in 0..up_sent : UpQueued(t) /\ Consecutive(a2g, Taken, t)
  BY DEF UploadOK, UpComing, Receiving
<1>2. a2g \in Seq(Up) /\ up_sent \in Nat /\ Taken \in Nat /\ t \in Nat
  BY UploadCounts DEF Typed, QueuesTyped, Ups
<1>3. Head(a2g).n = Taken + 1 /\ Taken + 1 <= t
  BY <1>1, <1>2, ConsecutiveTailData
<1> QED BY <1>2, <1>3

\* A chunk that waits for the body channel is the one after those in it.
LEMMA UpHeldNextNext ==
    ASSUME Typed, StartOK, UploadOK, AccessSide \/ GatewaySide
    PROVE  UpHeldNext'
<1>0. UpHeldNext
  BY DEF UploadOK
<1>1. CASE AccessSide
  <2>1. gw' = gw /\ conn' = conn /\ up_recv' = up_recv
    BY <1>1, GatewayFrame
  <2>2. up_sent' = up_sent \/ up_sent' = up_sent + 1
    BY <1>1 DEF AccessSide, Handler, RequestSends, HeadArrives, RequestFails, Client, ReadChunk,
     RequestBodyEnds, RequestBodyFails, ClientLeaves, Respond, AccessDispatch,
     HeartbeatBlocks, AccessDeliver, AccessLosesSession, payload
  <2>3. gw.held <= up_sent => gw.held <= up_sent'
    BY <2>2, UploadCounts
  <2> QED BY <2>1, <2>3, <1>0 DEF UpHeldNext
<1>2. CASE GatewaySide
  <2>0. up_sent' = up_sent
    BY <1>2, AccessFrame
  <2>1. CASE gw'.held = 0 \/ conn' = "closed"
    BY <2>1 DEF UpHeldNext
  <2>2. CASE gw'.held = gw.held /\ gw'.chan = gw.chan /\ up_recv' = up_recv /\ conn' = conn
    BY <2>0, <2>2, <1>0 DEF UpHeldNext
  <2>3. CASE GatewayDispatch
    <3> SUFFICES ASSUME gw'.held # 0, conn' = "open"
                 PROVE  gw'.held = Len(up_recv') + Len(gw'.chan) + 1 /\ gw'.held <= up_sent'
      BY DEF UpHeldNext
    <3>1. /\ a2g # <<>> /\ Head(a2g).type = "Data" /\ gw.body /\ gw'.held = Head(a2g).n /\ gw.held = 0
          /\ conn = "open" /\ up_recv' = up_recv /\ gw'.chan = gw.chan
      <4>1. Head(a2g).type # "Start" \/ gw' = gw
        BY <1>2, <2>3, TaskFields
      <4> QED BY <1>2, <2>3, <4>1, TaskFields
    <3>2. gw'.held = Taken + 1 /\ gw'.held <= up_sent
      BY <3>1, UploadHead DEF IsData
    <3>3. Taken = Len(up_recv) + Len(gw.chan)
      BY <3>1, UploadCounts
    <3> QED BY <3>1, <3>2, <3>3, <2>0
  <2>4. CASE gw.chan # <<>> /\ up_recv' = Append(up_recv, Head(gw.chan)) /\ gw'.chan = Tail(gw.chan)
          /\ gw'.held = gw.held /\ conn = "open"
    <3>1. gw.chan \in UpNumbers /\ up_recv \in UpNumbers
      BY DEF Typed, PayloadTyped, TaskTyped, TaskState
    <3>2. Len(up_recv') = Len(up_recv) + 1 /\ Len(gw'.chan) = Len(gw.chan) - 1
      BY <2>4, <3>1, NumbersFacts
    <3> DEFINE a == Len(up_recv)
               b == Len(gw.chan)
               a1 == Len(up_recv')
               b1 == Len(gw'.chan)
    <3>3. a \in Nat /\ b \in Nat /\ a1 = a + 1 /\ b1 = b - 1
      BY <3>2, UploadCounts
    <3>4. a1 + b1 + 1 = a + b + 1
      <4> HIDE DEF a, b, a1, b1
      <4> QED BY <3>3
    <3> QED BY <3>4, <2>0, <2>4, <1>0 DEF UpHeldNext
  <2> QED BY <1>2, <2>1, <2>2, <2>3, <2>4, TaskFields
<1> QED BY <1>1, <1>2

\* The chunks after those that were taken are queued, up to the one being sent.
LEMMA UpComingNext ==
    ASSUME Typed, OutOK, StartOK, UploadOK, AccessSide \/ GatewaySide
    PROVE  UpComing'
<1>0. a2g \in Seq(Up) /\ up_sent \in Nat /\ up_sent' \in Nat /\ Taken \in Nat
  <2>1. Typed'
    BY NextTypes
  <2>2. up_sent' \in Nat
    BY <2>1, HeldFacts DEF Typed, PayloadTyped
  <2> QED BY <2>2, UploadCounts DEF Typed, QueuesTyped, Ups
<1> SUFFICES ASSUME Receiving'
             PROVE  \E t \in 0..up_sent' : UpQueued(t)' /\ Consecutive(a2g', Taken', t)
  BY DEF UpComing
<1>1. CASE AccessSide
  <2>1. gw' = gw /\ conn' = conn /\ up_recv' = up_recv /\ Taken' = Taken
    BY <1>1, GatewayFrame DEF Taken
  <2>2. Receiving
    <3>1. CASE acc'.pc = "starting"
      <4>1. acc.pc = "starting"
        BY <1>1, <3>1, UploadFields DEF OutOK
      <4> QED BY <4>1 DEF Receiving
    <3>2. CASE ~None(a2g', "Start")
      <4>1. acc.pc = "starting" \/ ~None(a2g, "Start")
        <5>1. CASE a2g' = a2g
          BY <3>2, <5>1
        <5>2. ASSUME NEW x \in Up, a2g' = Append(a2g, x), x.type = "Start" => acc.pc = "starting"
              PROVE  acc.pc = "starting" \/ ~None(a2g, "Start")
          BY <1>0, <3>2, <5>2, EndFacts
        <5> QED BY <1>1, <5>1, <5>2, UploadAppends DEF OutOK
      <4> QED BY <4>1 DEF Receiving
    <3> QED BY <2>1, <3>1, <3>2 DEF Receiving
  <2>3. PICK t \in 0..up_sent : UpQueued(t) /\ Consecutive(a2g, Taken, t)
    BY <2>2 DEF UploadOK, UpComing
  <2>4. t \in Nat /\ t <= up_sent
    BY <1>0, <2>3
  <2>5. CASE RequestSends /\ acc.out # <<>> /\ a2g' = Append(a2g, Head(acc.out)) /\ acc'.pc = "uploading"
             /\ acc'.out = <<>> /\ up_sent' = up_sent
             /\ acc'.upload = IF Head(acc.out).type = "End" THEN "finished" ELSE acc.upload
    <3>1. ~Unsent' /\ InRequest /\ Head(acc.out) \in Up
      BY <2>5, Sending DEF Unsent, InRequest, OutOK, AccessOut
    <3>2. CASE Unsent
      <4>1. t = up_sent - 1 /\ IsData(Head(acc.out)) /\ Head(acc.out).n = up_sent
        BY <2>3, <3>2 DEF UpQueued, Unsent, IsData, Data
      <4>2. Consecutive(Append(a2g, Head(acc.out)), Taken, t + 1)
        BY <1>0, <2>3, <2>4, <3>1, <4>1, ConsecutiveAppendData
      <4>3. t + 1 = up_sent /\ up_sent \in 0..up_sent
        BY <4>1, <1>0, <2>4
      <4>4. UpQueued(up_sent)'
        BY <3>1, <2>5 DEF UpQueued
      <4> QED BY <4>2, <4>3, <4>4, <2>5, <2>1
    <3>3. CASE ~Unsent
      <4>1. ~IsData(Head(acc.out)) /\ t = up_sent
        BY <2>3, <3>1, <3>3, <2>5, Sending DEF UpQueued, OutOK, IsData, Control
      <4>2. Consecutive(Append(a2g, Head(acc.out)), Taken, t)
        BY <1>0, <2>3, <2>4, <3>1, <4>1, ConsecutiveAppend
      <4>3. UpQueued(t)'
        BY <3>1, <4>1, <2>5 DEF UpQueued
      <4> QED BY <4>2, <4>3, <2>3, <2>5, <2>1
    <3> QED BY <3>2, <3>3
  <2>6. CASE acc'.out = <<Data(up_sent')>> /\ up_sent' = up_sent + 1 /\ acc.pc = "uploading"
             /\ acc.out = <<>> /\ acc'.upload = "running" /\ a2g' = a2g
    <3>1. Unsent' /\ ~Unsent /\ InRequest
      BY <2>6 DEF Unsent, InRequest
    <3>2. t = up_sent' - 1 /\ t \in 0..up_sent'
      BY <3>1, <2>3, <2>4, <2>6, <1>0 DEF UpQueued
    <3>3. UpQueued(t)'
      BY <3>1, <3>2, <2>6 DEF UpQueued
    <3> QED BY <3>2, <3>3, <2>3, <2>6, <2>1
  <2>7. CASE /\ up_sent' = up_sent /\ (acc'.upload = "finished" => acc.upload = "finished")
             /\ Unsent' => Unsent
             /\ InRequest' /\ ~Unsent' => InRequest /\ ~Unsent
             /\ a2g' \in {a2g, Append(a2g, Control("Close"))}
    <3>1. UpQueued(t)'
      BY <2>3, <2>7 DEF UpQueued
    <3>2. Consecutive(Append(a2g, Control("Close")), Taken, t)
      <4>1. Control("Close") \in Up /\ ~IsData(Control("Close"))
        BY Messages DEF IsData, Control
      <4> QED BY <1>0, <2>3, <2>4, <4>1, ConsecutiveAppend
    <3> QED BY <3>1, <3>2, <2>1, <2>3, <2>7
  <2>8. CASE /\ acc.pc = "uploading" /\ acc'.pc = "uploading" /\ acc.out = <<>>
             /\ acc.upload = "running" /\ acc'.upload = "running" /\ a2g' = a2g
             /\ acc'.out = <<Control("End")>> /\ up_sent' = up_sent
    <3>1. <<Control("End")>> # <<Data(up_sent)>>
      <4>1. Control("End") # Data(up_sent)
        BY DEF Control, Data
      <4> QED BY <4>1
    <3>2. ~Unsent /\ ~Unsent' /\ InRequest
      BY <2>8, <3>1 DEF Unsent, InRequest
    <3> QED BY <2>8, <3>2, <2>7
  <2>9. CASE /\ acc'.pc \in {"responding", "done"} /\ acc'.out = <<>> /\ up_sent' = up_sent
             /\ (acc'.upload = acc.upload \/ (acc.upload = "running" /\ acc'.upload = "dropped"))
             /\ a2g' \in {a2g, Append(a2g, Control("Close"))}
    <3>1. ~Unsent' /\ ~InRequest'
      BY <2>9 DEF Unsent, InRequest
    <3> QED BY <2>9, <3>1, <2>7
  <2>10. CASE /\ acc'.pc = acc.pc /\ acc'.out = acc.out /\ up_sent' = up_sent /\ acc'.upload = acc.upload
              /\ a2g' \in {a2g, Append(a2g, Control("Close"))}
    <3>1. Unsent' = Unsent /\ InRequest' = InRequest
      BY <2>10 DEF Unsent, InRequest
    <3> QED BY <2>10, <3>1, <2>7
  <2> QED BY <1>1, <2>5, <2>6, <2>8, <2>9, <2>10, UploadFields DEF OutOK
<1>2. CASE GatewaySide
  <2>0. acc' = acc /\ up_sent' = up_sent /\ \A t : UpQueued(t)' <=> UpQueued(t)
    BY <1>2, AccessFrame DEF UpQueued, Unsent, InRequest
  <2>1. CASE GatewayDispatch
    <3>0. a2g # <<>> /\ a2g' = Tail(a2g) /\ None(Tail(a2g), "Start") /\ gw.held = 0
          /\ gw'.chan = gw.chan /\ up_recv' = up_recv
      BY <1>2, <2>1, TaskFields, NoLaterStart
    <3>1. acc.pc # "starting"
      BY <3>0 DEF StartOK, Starting
    <3>2. gw'.body /\ conn' = "open"
      BY <3>0, <3>1, <2>0 DEF Receiving
    <3>3. ~None(a2g, "Start") \/ (gw.body /\ conn = "open")
      <4>1. CASE Head(a2g).type = "Start"
        BY <3>0, <4>1, <1>0, EndFacts
      <4>2. CASE Head(a2g).type # "Start"
        BY <1>2, <2>1, <3>2, <4>2, TaskFields
      <4> QED BY <4>1, <4>2
    <3>4. Receiving
      BY <3>3 DEF Receiving
    <3>5. PICK t \in 0..up_sent : UpQueued(t) /\ Consecutive(a2g, Taken, t)
      BY <3>4 DEF UploadOK, UpComing
    <3>6. t \in Nat
      BY <1>0, <3>5
    <3>7. CASE Head(a2g).type = "Data"
      <4>1. gw.body /\ gw'.held = Head(a2g).n
        BY <1>2, <2>1, <3>2, <3>7, TaskFields
      <4>2. Head(a2g).n = Taken + 1 /\ Consecutive(Tail(a2g), Taken + 1, t)
        BY <1>0, <3>0, <3>5, <3>6, <3>7, ConsecutiveTailData DEF IsData
      <4>3. gw'.held # 0
        BY <4>1, <4>2, <1>0
      <4>4. Taken' = Taken + 1
        <5>1. Taken = Len(up_recv) + Len(gw.chan)
          BY <3>0, UploadCounts
        <5>2. Taken' = Len(up_recv') + Len(gw'.chan) + 1
          BY <4>3 DEF Taken
        <5> QED BY <5>1, <5>2, <3>0
      <4> QED BY <4>2, <4>4, <3>0, <3>5, <2>0
    <3>8. CASE Head(a2g).type # "Data"
      <4>1. gw'.held = 0
        BY <1>2, <2>1, <3>0, <3>8, TaskFields
      <4>2. Taken' = Taken
        BY <3>0, <4>1 DEF Taken
      <4>3. Consecutive(Tail(a2g), Taken, t)
        BY <1>0, <3>0, <3>5, <3>6, <3>8, ConsecutiveTail DEF IsData
      <4> QED BY <4>2, <4>3, <3>0, <3>5, <2>0
    <3> QED BY <3>7, <3>8
  <2>2. CASE ~GatewayDispatch
    <3>0. a2g' = a2g /\ (gw'.body => gw.body)
          /\ (conn' = "open" => conn = "open")
      BY <1>2, <2>2, TaskFields
    <3>1. Receiving
      BY <3>0, <2>0 DEF Receiving
    <3>2. PICK t \in 0..up_sent : UpQueued(t) /\ Consecutive(a2g, Taken, t)
      BY <3>1 DEF UploadOK, UpComing
    <3>3. Taken' = Taken
      <4> DEFINE a == Len(up_recv)
                 b == Len(gw.chan)
                 a1 == Len(up_recv')
                 b1 == Len(gw'.chan)
      <4>0. a \in Nat /\ b \in Nat /\ gw.chan \in UpNumbers /\ up_recv \in UpNumbers
            /\ (gw.held # 0 => gw.held \in UpHeld \ {0})
        BY UploadCounts DEF Typed, PayloadTyped, TaskTyped, TaskState
      <4>1. CASE acc'.pc = "starting" \/ ~None(a2g', "Start")
        <5>1. gw.pc = "none" /\ gw.held = 0 /\ gw.chan = <<>> /\ conn = "none" /\ ~gw.body
          BY <2>0, <3>0, <4>1, NothingTaken
        <5>2. up_recv' = up_recv /\ gw'.chan = gw.chan /\ gw'.held = gw.held
          BY <1>2, <2>2, <5>1, TaskFields
        <5> QED BY <5>2 DEF Taken
      <4>2. CASE gw'.body /\ conn' = "open"
        <5>1. CASE gw.held # 0 /\ gw'.held = 0 /\ gw'.chan = Append(gw.chan, gw.held) /\ up_recv' = up_recv
          <6>1. b1 = b + 1 /\ a1 = a
            BY <4>0, <5>1, NumbersFacts
          <6>2. Taken = a + b + 1 /\ Taken' = a1 + b1 + 0
            BY <5>1, UploadCounts DEF Taken
          <6> HIDE DEF a, b, a1, b1
          <6> QED BY <6>1, <6>2, <4>0
        <5>2. CASE gw'.held = gw.held /\ gw.chan # <<>> /\ up_recv' = Append(up_recv, Head(gw.chan))
                   /\ gw'.chan = Tail(gw.chan)
          <6>1. b1 = b - 1 /\ a1 = a + 1
            BY <4>0, <5>2, NumbersFacts
          <6> DEFINE h == IF gw.held # 0 THEN 1 ELSE 0
          <6>2. Taken = a + b + h /\ Taken' = a1 + b1 + h /\ h \in Nat
            BY <5>2 DEF Taken
          <6> HIDE DEF a, b, a1, b1, h
          <6> QED BY <6>1, <6>2, <4>0
        <5>3. CASE gw'.held = gw.held /\ gw'.chan = gw.chan /\ up_recv' = up_recv
          BY <5>3 DEF Taken
        <5> QED BY <1>2, <2>2, <4>2, <5>1, <5>2, <5>3, TaskFields
      <4> QED BY <4>1, <4>2 DEF Receiving
    <3> QED BY <3>0, <3>2, <3>3, <2>0
  <2> QED BY <2>1, <2>2
<1> QED BY <1>1, <1>2

\* UploadOK is kept.
LEMMA UploadNext ==
    ASSUME Typed, OutOK, StartOK, UploadOK, AccessSide \/ GatewaySide
    PROVE  UploadOK'
  BY UpReceivedNext, UpHeldNextNext, UpComingNext DEF UploadOK

(*********************** The end of the request ***************************)

\* A finished upload stays finished, and nothing is read any more.
LEMMA FinishedStays ==
    ASSUME Typed, OutOK, AccessSide \/ GatewaySide, acc.upload = "finished"
    PROVE  acc'.upload = "finished" /\ up_sent' = up_sent
<1>1. CASE AccessSide
  <2>1. up_sent' = up_sent
    BY <1>1, UploadFields DEF OutOK
  <2>2. acc'.upload = "finished"
    BY <1>1, UploadFields DEF OutOK
  <2> QED BY <2>1, <2>2
<1>2. CASE GatewaySide
  BY <1>2, AccessFrame
<1> QED BY <1>1, <1>2

\* A task that has its answer keeps it, and a cancellation stays.
LEMMA SettledStays ==
    ASSUME Typed, StartOK, AccessSide \/ GatewaySide
    PROVE  (Settled => Settled') /\ (gw.canceled => gw'.canceled)
<1>1. CASE AccessSide
  BY <1>1, GatewayFrame DEF Settled
<1>2. CASE GatewaySide
  <2>1. CASE Target
    <3>1. Settled => gw.pc \in {"ending", "done"}
      BY DEF StartOK, TaskPhases
    <3>2. ~Settled \/ ~Target
      BY <3>1 DEF Target, TargetAnswers, TargetChunk, TargetEnds, TargetFails
    <3> QED BY <1>2, <2>1, <3>2, TaskFields
  <2>2. CASE RequestTask
    <3>1. target' = target
      BY <2>2 DEF RequestTask, TaskCancelled, TaskSends, TaskReturns
    <3> QED BY <1>2, <3>1, TaskFields DEF Settled
  <2>3. CASE ~Target /\ ~RequestTask
    <3>1. target'.answer = target.answer
      BY <1>2, <2>3, TaskFields
    <3> QED BY <1>2, <3>1, TaskFields DEF Settled
  <2> QED BY <2>1, <2>2, <2>3
<1> QED BY <1>1, <1>2

\* HttpRequestEnd is queued behind every chunk, by a handler that has finished.
LEMMA UpEndLastNext ==
    ASSUME Typed, OutOK, UpEndLast, AccessSide \/ GatewaySide
    PROVE  UpEndLast'
<1>0. a2g \in Seq(Up)
  BY DEF Typed, QueuesTyped, Ups
<1>1. CASE AccessSide
  <2>1. CASE a2g' = a2g
    BY <2>1, FinishedStays DEF UpEndLast
  <2>2. ASSUME NEW x \in Up, a2g' = Append(a2g, x), IsData(x) => acc.upload = "running",
               x.type = "End" => acc'.upload = "finished"
        PROVE  UpEndLast'
    <3>1. IsData(x) => None(a2g, "End")
      BY <2>2 DEF UpEndLast
    <3>2. EndLast(a2g', "End")
      BY <1>0, <2>2, <3>1, EndFacts DEF UpEndLast
    <3>3. ~None(a2g', "End") => acc'.upload = "finished"
      <4>1. CASE None(a2g, "End")
        BY <1>0, <2>2, <4>1, EndFacts
      <4>2. CASE ~None(a2g, "End")
        BY <4>2, FinishedStays DEF UpEndLast
      <4> QED BY <4>1, <4>2
    <3> QED BY <3>2, <3>3 DEF UpEndLast
  <2> QED BY <1>1, <2>1, <2>2, UploadAppends DEF OutOK
<1>2. CASE GatewaySide
  <2>1. acc' = acc
    BY <1>2, AccessFrame
  <2>2. CASE a2g' = a2g
    BY <2>1, <2>2 DEF UpEndLast
  <2>3. CASE a2g # <<>> /\ a2g' = Tail(a2g)
    <3>1. EndLast(a2g', "End") /\ (None(a2g, "End") => None(a2g', "End"))
      BY <1>0, <2>3, EndFacts DEF UpEndLast
    <3> QED BY <3>1, <2>1 DEF UpEndLast
  <2> QED BY <1>2, <2>2, <2>3, TaskFields
<1> QED BY <1>1, <1>2

\* The end of the request takes the sender away after the last chunk.
LEMMA EndTaken ==
    ASSUME Typed, StartOK, UploadOK, UpEndLast, a2g # <<>>, Head(a2g).type = "End",
           gw.body, conn = "open", gw.held = 0
    PROVE  acc.upload = "finished" /\ Len(up_recv) + Len(gw.chan) = up_sent
<1>1. PICK t \in 0..up_sent : UpQueued(t) /\ Consecutive(a2g, Taken, t)
  BY DEF UploadOK, UpComing, Receiving
<1>2. a2g \in Seq(Up) /\ up_sent \in Nat /\ Taken \in Nat /\ t \in Nat
  BY UploadCounts DEF Typed, QueuesTyped, Ups
<1>3. acc.upload = "finished" /\ None(Tail(a2g), "Data")
  BY <1>2, EndFacts DEF UpEndLast
<1>4. Consecutive(Tail(a2g), Taken, t)
  BY <1>1, <1>2, ConsecutiveTail DEF IsData
<1>5. Taken = t
  BY <1>2, <1>3, <1>4, ConsecutiveNone
<1>6. t = up_sent
  BY <1>1, <1>3 DEF UpQueued
<1> QED BY <1>3, <1>5, <1>6, UploadCounts

\* A cancelled request: the task that runs is told, one that does not has ended.
LEMMA CancelledTask ==
    ASSUME StartOK, conn = "open", Running => gw'.canceled, gw.canceled => gw'.canceled
    PROVE  Settled \/ gw'.canceled
<1>1. gw.pc # "none"
  BY DEF StartOK, Fresh
<1>2. gw.pc = "done" => Settled \/ gw.canceled
  BY DEF StartOK, TaskPhases
<1> QED BY <1>1, <1>2 DEF Running

\* Without a cancellation the body sender goes only after the last chunk.
LEMMA BodySenderGoneNext ==
    ASSUME Typed, OutOK, StartOK, UploadOK, UpEndsOK, AccessSide \/ GatewaySide
    PROVE  BodySenderGone'
<1> SUFFICES ASSUME conn' = "open", ~gw'.body, ~gw'.canceled, ~Settled'
             PROVE  acc'.upload = "finished" /\ gw'.held = 0 /\ Len(up_recv') + Len(gw'.chan) = up_sent'
  BY DEF BodySenderGone
<1>0. ~Settled /\ ~gw.canceled
  BY SettledStays
<1>1. CASE /\ conn = "open" /\ ~gw.body
           /\ (gw.held = 0 => gw'.held = 0 /\ Len(up_recv') + Len(gw'.chan) = Len(up_recv) + Len(gw.chan))
  <2>1. acc.upload = "finished" /\ gw.held = 0 /\ Len(up_recv) + Len(gw.chan) = up_sent
    BY <1>0, <1>1 DEF UpEndsOK, BodySenderGone
  <2> QED BY <1>1, <2>1, FinishedStays
<1>2. CASE AccessSide
  BY <1>1, <1>2, GatewayFrame
<1>3. CASE GatewayDispatch
  <2>0. GatewaySide /\ a2g # <<>> /\ gw.held = 0 /\ gw'.chan = gw.chan /\ up_recv' = up_recv
    BY <1>3, TaskFields DEF GatewaySide
  <2>1. CASE Head(a2g).type = "End"
    <3>1. conn = "open" /\ gw'.held = 0
      BY <1>3, <2>0, <2>1, TaskFields
    <3>2. CASE gw.body
      BY <2>0, <2>1, <3>1, <3>2, EndTaken, FinishedStays DEF UpEndsOK
    <3>3. CASE ~gw.body
      BY <2>0, <3>1, <3>3, <1>1
    <3> QED BY <3>2, <3>3
  <2>2. CASE Head(a2g).type = "Close"
    <3>1. conn = "open" /\ (Running => gw'.canceled) /\ (gw.canceled => gw'.canceled)
      BY <1>3, <2>0, <2>2, TaskFields
    <3> QED BY <3>1, <1>0, CancelledTask
  <2>3. CASE Head(a2g).type = "Start"
    <3>1. gw' = gw /\ conn' = conn
      BY <1>3, <2>0, <2>3, TaskFields
    <3> QED BY <2>0, <3>1, <1>1
  <2>4. CASE Head(a2g).type = "Data"
    <3>1. conn = "open" /\ ~gw.body /\ gw'.held = 0
      BY <1>3, <2>0, <2>4, TaskFields
    <3> QED BY <2>0, <3>1, <1>1
  <2>5. Head(a2g).type \in {"Start", "End", "Close", "Data"}
    BY <1>3, <2>0, TaskFields
  <2> QED BY <2>1, <2>2, <2>3, <2>4, <2>5
<1>4. CASE GatewayLosesSession /\ ~GatewayDispatch
  <2>1. conn = "open" /\ (Running => gw'.canceled) /\ (gw.canceled => gw'.canceled)
    <3>1. gw \in TaskState
      BY DEF Typed, TaskTyped
    <3> QED BY <1>4, <3>1 DEF GatewayLosesSession, Cancelled, Running, TaskState
  <2> QED BY <2>1, <1>0, CancelledTask
<1>5. CASE GatewaySide /\ ~GatewayDispatch /\ ~GatewayLosesSession
  <2>1. CASE GatewayDeliver
    <3>1. gw.held # 0 /\ conn = "open" /\ ~gw.body
      <4>1. gw \in TaskState
        BY DEF Typed, TaskTyped
      <4> QED BY <2>1, <4>1 DEF GatewayDeliver, TaskState
    <3> QED BY <3>1, <1>1
  <2>2. CASE RequestTask \/ Target
    <3>1. gw'.held = gw.held /\ conn' = conn /\ up_recv' = up_recv /\ gw'.chan = gw.chan
          /\ (gw'.body = gw.body \/ gw.canceled \/ Settled')
      <4>1. CASE RequestTask
        <5>1. gw \in TaskState
          BY DEF Typed, TaskTyped
        <5> QED BY <4>1, <5>1 DEF RequestTask, TaskCancelled, TaskSends, TaskReturns, Running, payload, TaskState
      <4>2. CASE Target
        <5>1. gw \in TaskState /\ target \in [request_end : BOOLEAN, answer : {"none", "open", "ended", "failed"}]
          BY DEF Typed, TaskTyped, EnvironmentTyped
        <5> QED BY <4>2, <5>1 DEF Target, TargetAnswers, TargetChunk, TargetEnds, TargetFails, TaskEnds,
                   payload, TaskState, Settled
      <4> QED BY <2>2, <4>1, <4>2
    <3> QED BY <3>1, <1>0, <1>1
  <2>3. CASE Connection
    <3>1. gw \in TaskState /\ gw.chan \in UpNumbers /\ up_recv \in UpNumbers
      BY DEF Typed, TaskTyped, TaskState, PayloadTyped
    <3>2. conn = "open" /\ gw'.held = gw.held /\ ~gw.body
      BY <2>3, <3>1 DEF Connection, ConnectionSends, ConnectionEnds, ConnectionCloses, TaskState
    <3>3. CASE ConnectionSends
      <4> DEFINE a == Len(up_recv)
                 b == Len(gw.chan)
                 a1 == Len(up_recv')
                 b1 == Len(gw'.chan)
      <4>1. gw.chan # <<>> /\ up_recv' = Append(up_recv, Head(gw.chan)) /\ gw'.chan = Tail(gw.chan)
        BY <3>1, <3>3 DEF ConnectionSends, TaskState
      <4>2. a1 = a + 1 /\ b1 = b - 1 /\ a \in Nat /\ b \in Nat
        BY <3>1, <4>1, NumbersFacts
      <4>3. a1 + b1 = a + b
        <5> HIDE DEF a, b, a1, b1
        <5> QED BY <4>2
      <4> QED BY <4>3, <3>2, <1>1
    <3>4. CASE ConnectionEnds
      BY <3>2, <3>4, <1>1 DEF ConnectionEnds, payload
    <3>5. CASE ConnectionCloses
      BY <3>5 DEF ConnectionCloses
    <3> QED BY <2>3, <3>3, <3>4, <3>5 DEF Connection
  <2> QED BY <1>5, <2>1, <2>2, <2>3 DEF GatewaySide
<1> QED BY <1>2, <1>3, <1>4, <1>5

\* The target sees the end only when the channel is empty and closed.
LEMMA RequestEndedNext ==
    ASSUME Typed, OutOK, StartOK, UploadOK, UpEndsOK, AccessSide \/ GatewaySide
    PROVE  RequestEnded'
<1> SUFFICES ASSUME target'.request_end
             PROVE  /\ conn' # "none" /\ ~gw'.body /\ gw'.held = 0 /\ gw'.chan = <<>>
                    /\ ~gw'.canceled /\ ~Settled' => WholeRequest'
  BY DEF RequestEnded
<1>1. CASE target.request_end /\ conn' # "none" /\ ~gw'.body /\ gw'.held = 0 /\ gw'.chan = <<>>
           /\ up_recv' = up_recv
  <2>1. ~gw'.canceled /\ ~Settled' => WholeRequest
    BY <1>1, SettledStays DEF UpEndsOK, RequestEnded
  <2>2. WholeRequest => WholeRequest'
    BY <1>1, FinishedStays DEF WholeRequest
  <2> QED BY <1>1, <2>1, <2>2
<1>2. CASE AccessSide
  BY <1>1, <1>2, GatewayFrame DEF UpEndsOK, RequestEnded
<1>3. CASE ConnectionEnds
  <2>1. /\ conn = "open" /\ conn' = conn /\ gw.chan = <<>> /\ ~gw.body /\ gw.held = 0 /\ gw' = gw
        /\ up_recv' = up_recv /\ acc' = acc /\ up_sent' = up_sent
    BY <1>3 DEF ConnectionEnds, payload
  <2>2. ~gw.canceled /\ ~Settled => acc.upload = "finished" /\ Len(up_recv) + Len(gw.chan) = up_sent
    BY <2>1 DEF UpEndsOK, BodySenderGone
  <2>3. Len(up_recv) \in Nat /\ Len(gw.chan) = 0
    BY <2>1, UploadCounts
  <2>4. ~gw.canceled /\ ~Settled => WholeRequest
    <3> DEFINE a == Len(up_recv)
               b == Len(gw.chan)
    <3>1. a \in Nat /\ b = 0
      BY <2>3
    <3>2. a + b = up_sent => a = up_sent
      <4> HIDE DEF a, b
      <4> QED BY <3>1
    <3> QED BY <2>2, <3>2 DEF WholeRequest
  <2>5. ~gw'.canceled /\ ~Settled' => WholeRequest'
    BY <2>1, <2>4, SettledStays DEF WholeRequest
  <2> QED BY <2>1, <2>5
<1>4. CASE GatewaySide /\ target.request_end /\ ~ConnectionEnds
  <2>0. conn # "none" /\ ~gw.body /\ gw.held = 0 /\ gw.chan = <<>>
    BY <1>4 DEF UpEndsOK, RequestEnded
  <2>1. CASE GatewayDispatch
    <3>1. gw.pc # "none"
      BY <2>0 DEF StartOK, Fresh
    <3>2. a2g # <<>> /\ Head(a2g).type # "Start"
      BY <1>4, <2>1, <3>1, StartHead, TaskFields
    <3> QED BY <1>4, <2>0, <2>1, <3>2, <1>1, TaskFields
  <2>2. CASE ~GatewayDispatch
    <3>1. conn' # "none" /\ ~gw'.body /\ gw'.held = 0 /\ gw'.chan = <<>> /\ up_recv' = up_recv
      BY <1>4, <2>0, <2>2, TaskFields
    <3> QED BY <1>4, <3>1, <1>1
  <2> QED BY <2>1, <2>2
<1>5. GatewaySide /\ ~ConnectionEnds => target.request_end
  <2>1. target \in [request_end : BOOLEAN, answer : {"none", "open", "ended", "failed"}]
    BY DEF Typed, EnvironmentTyped
  <2> QED BY <2>1 DEF GatewaySide, GatewayDispatch, GatewayDeliver, RequestTask, TaskCancelled, TaskSends,
     TaskReturns, Target, TargetAnswers, TargetChunk, TargetEnds, TargetFails, TaskEnds,
     Connection, ConnectionSends, ConnectionCloses, GatewayLosesSession
<1> QED BY <1>2, <1>3, <1>4, <1>5

\* UpEndsOK is kept.
LEMMA UpEndsNext ==
    ASSUME Typed, OutOK, StartOK, UploadOK, UpEndsOK, AccessSide \/ GatewaySide
    PROVE  UpEndsOK'
  BY UpEndLastNext, BodySenderGoneNext, RequestEndedNext DEF UpEndsOK

(***************************** The download *******************************)

\* What a failed body stream leaves in its channel.
FailsInto(chan, lost) ==
    \/ ~acc.body /\ chan = acc.chan /\ (acc.error_lost => lost)
    \/ acc.body /\ Len(acc.chan) < BodyCapacity /\ chan = Append(acc.chan, BodyError)
       /\ (acc.error_lost => lost)
    \/ acc.body /\ chan = acc.chan /\ lost

\* BodyFails as FailsInto tells it.
LEMMA BodyFailsInto ==
    ASSUME AccessTyped
    PROVE  /\ FailsInto(BodyFails(acc).chan, BodyFails(acc).error_lost)
           /\ BodyFails(acc) \in AccessState /\ ~BodyFails(acc).body
<1>1. acc \in AccessState /\ Len(acc.chan) <= BodyCapacity /\ Len(acc.chan) \in Nat /\ BodyCapacity \in Nat
  BY NumbersFacts, CapacityAssumption DEF AccessTyped, AccessState
<1>2. Len(acc.chan) < BodyCapacity \/ Len(acc.chan) = BodyCapacity
  BY <1>1
<1>3. /\ BodyFails(acc) \in AccessState /\ ~BodyFails(acc).body
      /\ BodyFails(acc).chan = IF acc.body /\ Len(acc.chan) < BodyCapacity
                               THEN Append(acc.chan, BodyError) ELSE acc.chan
      /\ BodyFails(acc).error_lost = (acc.error_lost \/ (acc.body /\ Len(acc.chan) = BodyCapacity))
  BY BodyFailsFields
<1> DEFINE b == BodyFails(acc)
<1> HIDE DEF b
<1>4. FailsInto(b.chan, b.error_lost)
  BY <1>2, <1>3 DEF FailsInto, b
<1> QED BY <1>3, <1>4 DEF b

\* What a step of the access does to the response.
LEMMA ResponseFields ==
    ASSUME Typed, OutOK, AccessSide
    PROVE  /\ acc.error_lost => acc'.error_lost
           /\ acc.pc = "done" => acc'.pc = "done"
           /\ (acc'.body => acc.body) /\ (acc'.waiter => acc.waiter)
           /\ \/ /\ AccessDispatch /\ g2a # <<>> /\ g2a' = Tail(g2a) /\ acc.held = 0
                 /\ acc'.pc = acc.pc /\ down_recv' = down_recv /\ client' = client /\ session'.access = session.access
                 /\ session.access
                 /\ \/ Head(g2a).type = "ResponseStart" /\ acc'.chan = acc.chan /\ acc'.held = 0
                       /\ acc'.body = acc.body /\ ~acc'.waiter /\ (acc.waiter \/ acc'.head = acc.head)
                    \/ Head(g2a).type = "ResponseEnd" /\ acc'.chan = acc.chan /\ acc'.held = 0
                       /\ ~acc'.body /\ acc'.waiter = acc.waiter /\ acc'.head = acc.head
                    \/ Head(g2a).type = "Error" /\ FailsInto(acc'.chan, acc'.error_lost) /\ acc'.held = 0
                       /\ ~acc'.body /\ ~acc'.waiter /\ (acc.waiter \/ acc'.head = acc.head)
                    \/ Head(g2a).type = "Data" /\ acc'.chan = acc.chan /\ acc'.body = acc.body
                       /\ acc'.held = (IF acc.body THEN Head(g2a).n ELSE 0)
                       /\ acc'.waiter = acc.waiter /\ acc'.head = acc.head
              \/ /\ ~AccessDispatch /\ g2a' = g2a
                 /\ \/ /\ acc.held # 0 /\ acc'.held = 0 /\ acc'.pc = acc.pc /\ session'.access = session.access
                       /\ client' = client /\ down_recv' = down_recv
                       /\ acc'.waiter = acc.waiter /\ acc'.head = acc.head
                       /\ \/ acc.pc # "done" /\ acc'.chan = Append(acc.chan, acc.held) /\ acc'.body = acc.body
                          \/ acc.pc = "done" /\ acc'.chan = acc.chan
                    \/ /\ acc'.held = 0 /\ acc'.pc = acc.pc /\ down_recv' = down_recv /\ client' = client
                       /\ FailsInto(acc'.chan, acc'.error_lost) /\ ~acc'.body
                       /\ ~acc'.waiter /\ (acc.waiter \/ acc'.head = acc.head)
                    \/ /\ acc.pc = "responding" /\ acc'.pc = "responding" /\ acc.chan # <<>>
                       /\ Head(acc.chan) # BodyError /\ session'.access = session.access
                       /\ down_recv' = Append(down_recv, Head(acc.chan)) /\ acc'.chan = Tail(acc.chan)
                       /\ acc'.held = acc.held /\ acc'.body = acc.body /\ client' = client
                       /\ acc'.waiter = acc.waiter /\ acc'.head = acc.head
                    \/ /\ acc'.chan = acc.chan /\ acc'.held = acc.held /\ down_recv' = down_recv
                       /\ session'.access = session.access /\ acc'.head = acc.head
                       /\ \/ (acc'.pc # "starting" \/ acc' = acc) /\ acc'.body = acc.body /\ acc'.waiter = acc.waiter
                             /\ client' = client
                             /\ (acc'.pc \in {"responding", "done"} => acc.pc = acc'.pc \/ acc.head = "ok")
                          \/ acc'.pc = "done" /\ client' = "error" /\ ~acc'.waiter /\ ~acc'.body
                          \/ acc'.pc = "done" /\ client' = "gone" /\ acc'.body = acc.body
                             /\ acc'.waiter = acc.waiter
                          \/ acc'.pc = "done" /\ client' = "error" /\ acc.pc = "responding"
                             /\ acc'.waiter = acc.waiter /\ acc'.body = acc.body
                             /\ (~session.access \/ (acc.chan # <<>> /\ Head(acc.chan) = BodyError))
                          \/ acc'.pc = "done" /\ client' = "complete" /\ acc.pc = "responding"
                             /\ acc.chan = <<>> /\ ~acc.body /\ acc'.waiter = acc.waiter
<1>1. acc \in AccessState /\ AccessTyped
  BY DEF Typed, AccessTyped
<1>2. CASE AccessDispatch
  <2>1. CASE Head(g2a).type = "Error"
    <3> DEFINE b == BodyFails(acc)
    <3>1. b \in AccessState /\ b.pc = acc.pc /\ b.held = acc.held /\ b.head = acc.head
          /\ FailsInto(b.chan, b.error_lost) /\ ~b.body
      BY <1>1, BodyFailsInto, BodyFailsFields
    <3>2. acc' = [b EXCEPT !.waiter = FALSE, !.head = IF acc.waiter THEN "err" ELSE @]
      BY <1>2, <2>1 DEF AccessDispatch
    <3>3. g2a # <<>> /\ g2a' = Tail(g2a) /\ acc.held = 0 /\ down_recv' = down_recv /\ client' = client
          /\ session'.access = session.access /\ session.access
      BY <1>2, AccessLoopFacts DEF AccessDispatch, LoopRuns, payload
    <3>4. acc.error_lost => b.error_lost
      BY <3>1 DEF FailsInto
    <3> HIDE DEF b
    <3>5. /\ acc'.pc = acc.pc /\ acc'.chan = b.chan /\ acc'.error_lost = b.error_lost /\ acc'.held = 0
          /\ ~acc'.body /\ ~acc'.waiter /\ (acc.waiter \/ acc'.head = acc.head)
      BY <3>1, <3>2, <3>3 DEF AccessState
    <3> QED BY <1>2, <2>1, <3>1, <3>3, <3>4, <3>5
  <2>2. CASE Head(g2a).type # "Error"
    BY <1>1, <1>2, <2>2, AccessLoopFacts DEF AccessDispatch, LoopRuns, AccessState, payload
  <2> QED BY <2>1, <2>2
<1>3. CASE AccessDeliver
  <2>1. ~AccessDispatch
    BY <1>3 DEF AccessDeliver, AccessDispatch
  <2> QED BY <1>1, <1>3, <2>1, AccessLoopFacts DEF AccessDeliver, AccessState, payload
<1>4. CASE AccessLosesSession /\ ~AccessDispatch
  <2> DEFINE b == BodyFails(acc)
  <2>1. b \in AccessState /\ b.pc = acc.pc /\ b.held = acc.held /\ b.head = acc.head
        /\ FailsInto(b.chan, b.error_lost) /\ ~b.body
    BY <1>1, BodyFailsInto, BodyFailsFields
  <2>2. acc' = [b EXCEPT !.waiter = FALSE, !.held = 0, !.head = IF acc.waiter THEN "err" ELSE @]
    BY <1>4 DEF AccessLosesSession
  <2>3. g2a' = g2a /\ down_recv' = down_recv /\ client' = client
    BY <1>4 DEF AccessLosesSession, payload
  <2>4. acc.error_lost => b.error_lost
    BY <2>1 DEF FailsInto
  <2> HIDE DEF b
  <2>5. /\ acc'.pc = acc.pc /\ acc'.chan = b.chan /\ acc'.error_lost = b.error_lost /\ acc'.held = 0
        /\ ~acc'.body /\ ~acc'.waiter /\ (acc.waiter \/ acc'.head = acc.head)
    BY <2>1, <2>2 DEF AccessState
  <2> QED BY <1>4, <2>1, <2>3, <2>4, <2>5
<1>5. CASE Respond /\ ~AccessDispatch
  BY <1>1, <1>5 DEF Respond, AccessState
<1>6. CASE RequestSends /\ ~AccessDispatch
  BY <1>1, <1>6 DEF RequestSends, InRequest, AccessState, payload
<1>7. CASE (ReadChunk \/ RequestBodyEnds) /\ ~AccessDispatch
  BY <1>1, <1>7 DEF ReadChunk, RequestBodyEnds, Uploading, AccessState, payload
<1>8. CASE (HeadArrives \/ ClientLeaves) /\ ~AccessDispatch
  BY <1>1, <1>8 DEF HeadArrives, ClientLeaves, AccessState, payload
<1>9. CASE (RequestFails \/ RequestBodyFails) /\ ~AccessDispatch
  BY <1>1, <1>9 DEF RequestFails, RequestBodyFails, InRequest, Uploading, Failed, AccessState, payload
<1>10. CASE HeartbeatBlocks /\ ~AccessDispatch
  BY <1>1, <1>10, AccessLoopFacts DEF HeartbeatBlocks, AccessState, payload
<1> QED BY <1>2, <1>3, <1>4, <1>5, <1>6, <1>7, <1>8, <1>9, <1>10 DEF AccessSide, Handler, Client

\* The counts of the download are numbers.
LEMMA DownCounts ==
    ASSUME Typed
    PROVE  /\ down_sent \in Nat /\ acc.held \in Nat /\ AccessTaken \in Nat
           /\ Len(down_recv) \in Nat /\ Len(acc.chan) \in Nat
           /\ acc.held = 0 => AccessTaken = Len(down_recv) + Len(acc.chan)
           /\ acc.held # 0 => AccessTaken = Len(down_recv) + Len(acc.chan) + 1
<1>1. down_sent \in Nat /\ acc.held \in Nat /\ Len(down_recv) \in Nat /\ Len(acc.chan) \in Nat
  BY HeldFacts, NumbersFacts DEF Typed, PayloadTyped, AccessTyped, AccessState
<1> DEFINE a == Len(down_recv)
           b == Len(acc.chan)
           h == IF acc.held # 0 THEN 1 ELSE 0
<1>2. AccessTaken = a + b + h
  BY DEF AccessTaken
<1>3. a \in Nat /\ b \in Nat /\ (acc.held = 0 => h = 0) /\ (acc.held # 0 => h = 1)
  BY <1>1
<1>4. AccessTaken \in Nat /\ (acc.held = 0 => AccessTaken = a + b) /\ (acc.held # 0 => AccessTaken = a + b + 1)
  <2> HIDE DEF a, b, h
  <2> QED BY <1>2, <1>3
<1> QED BY <1>1, <1>4

\* The chunks that the target sent are counted up, and no more once it has answered.
LEMMA DownSent ==
    ASSUME Typed, StartOK, AccessSide \/ GatewaySide
    PROVE  /\ down_sent' = down_sent \/ down_sent' = down_sent + 1
           /\ \A n \in Nat : n <= down_sent => n <= down_sent'
           /\ Settled => down_sent' = down_sent /\ target'.answer = target.answer
<1>0. target \in [request_end : BOOLEAN, answer : {"none", "open", "ended", "failed"}] /\ down_sent \in Nat
  BY DownCounts DEF Typed, EnvironmentTyped
<1>1. CASE AccessSide
  BY <1>1, GatewayFrame
<1>2. CASE GatewaySide
  <2>1. Settled => gw.pc \in {"ending", "done"}
    BY DEF StartOK, TaskPhases
  <2>2. CASE Target
    <3>1. ~Settled
      BY <2>1, <2>2 DEF Target, TargetAnswers, TargetChunk, TargetEnds, TargetFails
    <3>2. down_sent' = down_sent \/ down_sent' = down_sent + 1
      BY <2>2 DEF Target, TargetAnswers, TargetChunk, TargetEnds, TargetFails, TaskEnds, payload
    <3> QED BY <1>0, <3>1, <3>2
  <2>3. CASE ~Target
    <3>1. down_sent' = down_sent /\ target'.answer = target.answer
      BY <1>0, <1>2, <2>3 DEF GatewaySide, GatewayDispatch, GatewayDeliver, RequestTask, TaskCancelled,
         TaskSends, TaskReturns, Connection, ConnectionSends, ConnectionEnds, ConnectionCloses,
         GatewayLosesSession, payload
    <3> QED BY <3>1
  <2> QED BY <2>2, <2>3
<1> QED BY <1>1, <1>2

\* What the client took, and its channel holds, stays in order; an error is last.
LEMMA DownReceivedNext ==
    ASSUME Typed, OutOK, StartOK, DownloadOK, AccessSide \/ GatewaySide
    PROVE  DownReceived'
<1>0. DownReceived /\ DownHeldNext
  BY DEF DownloadOK
<1> DEFINE r == down_recv
           c == acc.chan
           a == Len(r)
           b == Len(c)
<1>1. /\ down_sent \in Nat /\ a \in Nat /\ b \in Nat /\ r \in DownNumbers /\ c \in DownNumbers
      /\ DOMAIN r = 1..a /\ DOMAIN c = 1..b
      /\ acc.held \in DownHeld
  <2>1. r \in DownNumbers /\ c \in DownNumbers /\ acc.held \in DownHeld
    BY DEF Typed, PayloadTyped, AccessTyped, AccessState
  <2> QED BY <2>1, DownCounts, Positions DEF DownNumbers
<1>2. /\ \A i \in 1..a : r[i] = i
      /\ a <= down_sent
      /\ \A i \in 1..b : \/ c[i] = a + i /\ a + i <= down_sent
                         \/ c[i] = BodyError /\ i = b /\ ~acc.body
  BY <1>0, <1>1 DEF DownReceived
<1>3. CASE GatewaySide
  <2>1. down_recv' = down_recv /\ acc' = acc
    BY <1>3, AccessFrame
  <2>2. \A n \in Nat : n <= down_sent => n <= down_sent'
    BY <1>3, DownSent
  <2>3. a <= down_sent'
    BY <1>1, <1>2, <2>2
  <2>4. \A i \in 1..b : \/ c[i] = a + i /\ a + i <= down_sent'
                        \/ c[i] = BodyError /\ i = b /\ ~acc.body
    <3> SUFFICES ASSUME NEW i \in 1..b, a + i <= down_sent PROVE a + i <= down_sent'
      BY <1>2
    <3>1. a + i \in Nat
      <4> HIDE DEF a, b
      <4> QED BY <1>1
    <3> QED BY <3>1, <2>2
  <2> QED BY <1>1, <1>2, <2>1, <2>3, <2>4 DEF DownReceived
<1>4. CASE AccessSide
  <2>0. down_sent' = down_sent /\ (acc'.body => acc.body)
    BY <1>4, GatewayFrame, ResponseFields
  <2>1. CASE acc'.chan = acc.chan /\ down_recv' = down_recv
    BY <2>0, <2>1, <1>0 DEF DownReceived
  <2>2. ASSUME NEW x \in DownHeld, acc'.chan = Append(acc.chan, x), down_recv' = down_recv, acc.body,
               (x = a + b + 1 /\ x <= down_sent) \/ (x = BodyError /\ ~acc'.body)
        PROVE  DownReceived'
    <3> DEFINE d == Append(c, x)
    <3>1. /\ DOMAIN d = 1..(b + 1) /\ Len(d) = b + 1
          /\ \A i \in 1..b : d[i] = c[i]
          /\ d[b + 1] = x
      BY <1>1 DEF DownNumbers
    <3>2. acc'.chan = d
      BY <2>2
    <3> HIDE DEF a, b, c, d
    <3>3. \A i \in DOMAIN d : \/ d[i] = a + i /\ a + i <= down_sent
                              \/ d[i] = BodyError /\ i = Len(d) /\ ~acc'.body
      <4> SUFFICES ASSUME NEW i \in DOMAIN d
                   PROVE  \/ d[i] = a + i /\ a + i <= down_sent
                          \/ d[i] = BodyError /\ i = Len(d) /\ ~acc'.body
        OBVIOUS
      <4>1. CASE i \in 1..b
        BY <4>1, <3>1, <1>2, <2>2
      <4>2. CASE i = b + 1
        BY <4>2, <3>1, <1>1, <2>2
      <4> QED BY <4>1, <4>2, <3>1, <1>1
    <3> QED BY <3>2, <3>3, <2>0, <2>2, <1>2, <1>1 DEF DownReceived, a
  <2>3. CASE /\ acc.chan # <<>> /\ Head(acc.chan) # BodyError /\ down_recv' = Append(down_recv, Head(acc.chan))
             /\ acc'.chan = Tail(acc.chan)
    <3> DEFINE d == Tail(c)
               s == Append(r, Head(c))
    <3>1. /\ b > 0 /\ Head(c) = c[1] /\ DOMAIN d = 1..(b - 1) /\ Len(d) = b - 1
          /\ \A i \in 1..(b - 1) : d[i] = c[i + 1]
          /\ DOMAIN s = 1..(a + 1) /\ Len(s) = a + 1 /\ (\A i \in 1..a : s[i] = r[i]) /\ s[a + 1] = c[1]
      BY <2>3, <1>1 DEF DownNumbers
    <3>2. down_recv' = s /\ acc'.chan = d /\ c[1] # BodyError
      BY <2>3, <3>1
    <3> HIDE DEF a, b, c, d, r, s
    <3>3. c[1] = a + 1 /\ a + 1 <= down_sent
      BY <3>1, <3>2, <1>1, <1>2
    <3>4. \A i \in DOMAIN s : s[i] = i
      BY <3>1, <1>1, <1>2, <3>3
    <3>5. \A i \in DOMAIN d : \/ d[i] = Len(s) + i /\ Len(s) + i <= down_sent
                              \/ d[i] = BodyError /\ i = Len(d) /\ ~acc'.body
      <4> SUFFICES ASSUME NEW i \in DOMAIN d
                   PROVE  \/ d[i] = Len(s) + i /\ Len(s) + i <= down_sent
                          \/ d[i] = BodyError /\ i = Len(d) /\ ~acc'.body
        OBVIOUS
      <4>1. i \in 1..(b - 1) /\ i + 1 \in 1..b /\ d[i] = c[i + 1]
        BY <3>1, <1>1
      <4>2. \/ d[i] = a + (i + 1) /\ a + (i + 1) <= down_sent
            \/ d[i] = BodyError /\ i + 1 = b /\ ~acc.body
        BY <4>1, <1>2
      <4>3. Len(s) + i = a + (i + 1)
        BY <4>1, <3>1, <1>1
      <4>4. i + 1 = b => i = Len(d)
        BY <4>1, <3>1, <1>1
      <4> QED BY <4>2, <4>3, <4>4, <2>0
    <3>6. Len(s) <= down_sent
      BY <3>1, <3>3
    <3> QED BY <3>2, <3>4, <3>5, <3>6, <2>0 DEF DownReceived
  <2>4. CASE acc.held # 0 /\ acc.pc # "done" /\ acc'.chan = Append(acc.chan, acc.held) /\ down_recv' = down_recv
    <3>1. acc.body /\ acc.held = a + b + 1 /\ acc.held <= down_sent
      BY <2>4, <1>0 DEF DownHeldNext
    <3> QED BY <3>1, <2>4, <2>2, <1>1
  <2>5. CASE FailsInto(acc'.chan, acc'.error_lost) /\ ~acc'.body /\ down_recv' = down_recv
    <3>1. BodyError \in DownHeld
      BY HeldFacts DEF BodyError
    <3> QED BY <3>1, <2>5, <2>1, <2>2 DEF FailsInto
  <2> QED BY <1>4, <2>1, <2>3, <2>4, <2>5, ResponseFields
<1> QED BY <1>3, <1>4

\* The next frame for the access is the chunk after those that were taken.
LEMMA DownHead ==
    ASSUME Typed, DownloadOK, g2a # <<>>, IsData(Head(g2a)), Delivering
    PROVE  Head(g2a).n = AccessTaken + 1 /\ Head(g2a).n <= down_sent
<1>1. PICK t \in 0..down_sent : DownQueued(t) /\ Consecutive(g2a, AccessTaken, t)
  BY DEF DownloadOK, DownComing
<1>2. g2a \in Seq(Down) /\ down_sent \in Nat /\ AccessTaken \in Nat /\ t \in Nat
  BY DownCounts DEF Typed, QueuesTyped, Downs
<1>3. Head(g2a).n = AccessTaken + 1 /\ AccessTaken + 1 <= t
  BY <1>1, <1>2, ConsecutiveTailData
<1> QED BY <1>2, <1>3

\* A chunk that waits for the body channel of a handler is the next one.
LEMMA DownHeldNextNext ==
    ASSUME Typed, OutOK, StartOK, DownloadOK, AccessSide \/ GatewaySide
    PROVE  DownHeldNext'
<1>0. DownHeldNext
  BY DEF DownloadOK
<1>1. CASE GatewaySide
  <2>1. down_recv' = down_recv /\ acc' = acc
    BY <1>1, AccessFrame
  <2>2. acc.held <= down_sent => acc.held <= down_sent'
    BY <1>1, DownSent, DownCounts
  <2> QED BY <2>1, <2>2, <1>0 DEF DownHeldNext
<1>2. CASE AccessSide
  <2>0. down_sent' = down_sent
    BY <1>2, GatewayFrame
  <2>1. CASE acc'.held = 0 \/ acc'.pc = "done"
    BY <2>1 DEF DownHeldNext
  <2>2. CASE acc'.held = acc.held /\ acc'.chan = acc.chan /\ down_recv' = down_recv /\ acc'.body = acc.body
             /\ (acc'.pc # "done" => acc.pc # "done")
    BY <2>0, <2>2, <1>0 DEF DownHeldNext
  <2>3. CASE AccessDispatch
    <3> SUFFICES ASSUME acc'.held # 0, acc'.pc # "done"
                 PROVE  /\ acc'.body /\ acc'.held = Len(down_recv') + Len(acc'.chan) + 1
                        /\ acc'.held <= down_sent'
      BY DEF DownHeldNext
    <3>1. /\ g2a # <<>> /\ Head(g2a).type = "Data" /\ acc.body /\ acc'.held = Head(g2a).n /\ acc.held = 0
          /\ acc.pc # "done" /\ down_recv' = down_recv /\ acc'.chan = acc.chan /\ acc'.body
      BY <1>2, <2>3, ResponseFields
    <3>2. acc'.held = AccessTaken + 1 /\ acc'.held <= down_sent
      BY <3>1, DownHead DEF IsData, Delivering
    <3>3. AccessTaken = Len(down_recv) + Len(acc.chan)
      BY <3>1, DownCounts
    <3> QED BY <3>1, <3>2, <3>3, <2>0
  <2>4. CASE /\ acc.chan # <<>> /\ down_recv' = Append(down_recv, Head(acc.chan)) /\ acc'.chan = Tail(acc.chan)
             /\ acc'.held = acc.held /\ acc'.body = acc.body /\ acc.pc = "responding"
    <3>1. acc.chan \in DownNumbers /\ down_recv \in DownNumbers
      BY DEF Typed, PayloadTyped, AccessTyped, AccessState
    <3> DEFINE a == Len(down_recv)
               b == Len(acc.chan)
               a1 == Len(down_recv')
               b1 == Len(acc'.chan)
    <3>2. a \in Nat /\ b \in Nat /\ a1 = a + 1 /\ b1 = b - 1
      BY <2>4, <3>1, NumbersFacts
    <3>3. a1 + b1 + 1 = a + b + 1
      <4> HIDE DEF a, b, a1, b1
      <4> QED BY <3>2
    <3> QED BY <3>3, <2>0, <2>4, <1>0 DEF DownHeldNext
  <2> QED BY <1>2, <2>1, <2>2, <2>3, <2>4, ResponseFields
<1> QED BY <1>1, <1>2

\* What a step of the gateway adds to the response.
LEMMA ResponseAppends ==
    ASSUME Typed, OutOK, StartOK, GatewaySide
    PROVE  \/ /\ g2a' = Append(g2a, Head(gw.out)) /\ TaskSends /\ gw.out # <<>> /\ gw'.out = <<>>
              /\ gw'.pc = gw.pc /\ down_sent' = down_sent /\ target' = target
              /\ Head(gw.out) \in Down
              /\ \/ TaskUnsent /\ down_sent # 0 /\ Head(gw.out) = Data(down_sent) /\ gw.pc = "responding"
                 \/ ~TaskUnsent /\ ~IsData(Head(gw.out))
                    /\ (Head(gw.out).type = "ResponseEnd" => target.answer = "ended")
           \/ /\ TargetChunk /\ g2a' = g2a /\ gw.out = <<>> /\ down_sent' = down_sent + 1 /\ target' = target
              /\ gw'.out = <<Data(down_sent')>> /\ gw.pc = "responding" /\ gw'.pc = "responding"
           \/ /\ g2a' \in {g2a, Append(g2a, Control("Error"))} /\ down_sent' = down_sent
              /\ TaskUnsent' => TaskUnsent
              /\ ~TaskUnsent' /\ gw'.pc \in {"none", "requesting", "responding"} =>
                    ~TaskUnsent /\ gw.pc \in {"none", "requesting", "responding"}
              /\ target'.answer = "ended" =>
                    \/ target.answer = "ended"
                    \/ ~TaskUnsent /\ gw.pc = "responding"
<1>1. /\ gw \in TaskState /\ target \in [request_end : BOOLEAN, answer : {"none", "open", "ended", "failed"}]
      /\ down_sent \in Nat
  BY DownCounts DEF Typed, TaskTyped, EnvironmentTyped
<1>2. CASE TaskSends
  <2>1. /\ g2a' = Append(g2a, Head(gw.out)) /\ gw.out # <<>> /\ gw'.out = <<>>
        /\ gw'.pc = gw.pc /\ down_sent' = down_sent /\ target' = target
    BY <1>1, <1>2 DEF TaskSends, TaskState, payload
  <2>2. gw.out \in Downs
    BY <1>1 DEF TaskState
  <2>3. Head(gw.out) \in Down
    BY <2>1, <2>2, DownsFacts
  <2>4. CASE TaskUnsent
    <3>1. Head(gw.out) = Data(down_sent)
      BY <2>4 DEF TaskUnsent
    <3>2. \A t : <<Data(down_sent)>> # <<Control(t)>> \/ Data(down_sent) = Control(t)
      OBVIOUS
    <3>3. \A t \in {"ResponseStart", "ResponseEnd", "Error"} : Data(down_sent) # Control(t)
      BY DEF Data, Control
    <3> QED BY <1>2, <2>1, <2>3, <2>4, <3>1, <3>2, <3>3 DEF OutOK, TaskOut, TaskUnsent
  <2>5. CASE ~TaskUnsent
    <3>1. \A m : Head(<<m>>) = m
      OBVIOUS
    <3>2. ~IsData(Head(gw.out)) /\ (Head(gw.out).type = "ResponseEnd" => target.answer = "ended")
      BY <2>1, <2>5, <3>1 DEF OutOK, TaskOut, IsData, Control
    <3> QED BY <1>2, <2>1, <2>3, <2>5, <3>2
  <2> QED BY <2>4, <2>5
<1>3. CASE TargetChunk
  BY <1>1, <1>3 DEF TargetChunk, TaskState
<1>4. CASE TargetAnswers
  <2>1. gw.pc = "requesting" /\ gw'.out = <<Control("ResponseStart")>>
        /\ g2a' = g2a /\ down_sent' = down_sent /\ target'.answer = "open"
    BY <1>1, <1>4 DEF TargetAnswers, TaskState, payload
  <2>2. gw.out = <<>>
    BY <2>1 DEF OutOK, TaskOut
  <2>3. ~TaskUnsent /\ ~TaskUnsent'
    <3>1. Control("ResponseStart") # Data(down_sent')
      BY DEF Control, Data
    <3>2. <<Control("ResponseStart")>> # <<Data(down_sent')>>
      BY <3>1
    <3> QED BY <2>1, <2>2, <3>2 DEF TaskUnsent
  <2> QED BY <2>1, <2>3
<1>5. CASE TargetEnds \/ TargetFails
  <2>1. /\ g2a' = g2a /\ down_sent' = down_sent /\ gw'.pc = "ending"
        /\ \/ TargetEnds /\ gw'.out = <<Control("ResponseEnd")>>
           \/ gw'.out = <<Control("Error")>> /\ target'.answer = "failed"
    <3>1. CASE TargetEnds
      BY <1>1, <3>1 DEF TargetEnds, TaskEnds, TaskState, payload
    <3>2. CASE TargetFails
      BY <1>1, <3>2 DEF TargetFails, TaskEnds, TaskState, payload
    <3> QED BY <1>5, <3>1, <3>2
  <2>2. ~TaskUnsent'
    <3>1. Control("ResponseEnd") # Data(down_sent') /\ Control("Error") # Data(down_sent')
      BY DEF Control, Data
    <3>2. <<Control("ResponseEnd")>> # <<Data(down_sent')>> /\ <<Control("Error")>> # <<Data(down_sent')>>
      BY <3>1
    <3> QED BY <2>1, <3>2 DEF TaskUnsent
  <2>3. TargetEnds => ~TaskUnsent /\ gw.pc = "responding"
    BY DEF TargetEnds, TaskUnsent
  <2> QED BY <2>1, <2>2, <2>3
<1>6. CASE GatewayDispatch
  <2>0. /\ a2g # <<>> /\ gw'.out = gw.out /\ down_sent' = down_sent /\ target' = target
        /\ g2a' \in {g2a, Append(g2a, Control("Error"))}
        /\ (Head(a2g).type # "Start" => gw'.pc = gw.pc)
    BY <1>6, TaskFields
  <2>1. CASE Head(a2g).type = "Start"
    <3>1. gw.pc = "none" /\ gw.out = <<>>
      BY <2>0, <2>1, StartHead DEF StartOK, Fresh
    <3> QED BY <2>0, <3>1 DEF TaskUnsent
  <2>2. CASE Head(a2g).type # "Start"
    BY <2>0, <2>2 DEF TaskUnsent
  <2> QED BY <2>1, <2>2
<1>7. CASE TaskCancelled \/ TaskReturns
  <2>1. gw'.pc = "done" /\ gw'.out = <<>> /\ target' = target /\ g2a' = g2a /\ down_sent' = down_sent
    <3>1. CASE TaskCancelled
      BY <1>1, <3>1 DEF TaskCancelled, TaskState, payload
    <3>2. CASE TaskReturns
      BY <1>1, <3>2 DEF TaskReturns, TaskState, payload
    <3> QED BY <1>7, <3>1, <3>2
  <2>2. ~TaskUnsent'
    BY <2>1 DEF TaskUnsent
  <2> QED BY <2>1, <2>2
<1>8. CASE GatewayDeliver \/ GatewayLosesSession \/ Connection
  <2>1. /\ g2a' \in {g2a, Append(g2a, Control("Error"))} /\ down_sent' = down_sent
        /\ gw'.out = gw.out /\ gw'.pc = gw.pc /\ target'.answer = target.answer
    BY <1>1, <1>8 DEF GatewayDeliver, GatewayLosesSession, Cancelled, Connection, ConnectionSends,
       ConnectionEnds, ConnectionCloses, TaskState, payload
  <2> QED BY <2>1 DEF TaskUnsent
<1> QED BY <1>2, <1>3, <1>4, <1>5, <1>6, <1>7, <1>8 DEF GatewaySide, RequestTask, Target

\* While the body stream is registered, the chunks after those taken are queued.
LEMMA DownComingNext ==
    ASSUME Typed, OutOK, StartOK, DownloadOK, AccessSide \/ GatewaySide
    PROVE  DownComing'
<1>0. g2a \in Seq(Down) /\ down_sent \in Nat /\ AccessTaken \in Nat
  BY DownCounts DEF Typed, QueuesTyped, Downs
<1> SUFFICES ASSUME Delivering'
             PROVE  \E t \in 0..down_sent' : DownQueued(t)' /\ Consecutive(g2a', AccessTaken', t)
  BY DEF DownComing
<1>1. Delivering
  <2>1. CASE AccessSide
    BY <2>1, ResponseFields DEF Delivering
  <2>2. CASE GatewaySide
    BY <2>2, AccessFrame DEF Delivering
  <2> QED BY <2>1, <2>2
<1>2. PICK t \in 0..down_sent : DownQueued(t) /\ Consecutive(g2a, AccessTaken, t)
  BY <1>1 DEF DownloadOK, DownComing
<1>3. t \in Nat /\ t <= down_sent
  BY <1>0, <1>2
<1>4. CASE AccessSide
  <2>0. down_sent' = down_sent /\ DownQueued(t)'
    BY <1>2, <1>4, GatewayFrame DEF DownQueued, TaskUnsent
  <2>1. CASE AccessDispatch
    <3>0. /\ g2a # <<>> /\ g2a' = Tail(g2a) /\ acc.held = 0 /\ down_recv' = down_recv
          /\ acc'.chan = acc.chan
      BY <1>4, <2>1, ResponseFields DEF Delivering
    <3>1. CASE Head(g2a).type = "Data"
      <4>1. acc'.held = Head(g2a).n
        BY <1>1, <1>4, <2>1, <3>1, ResponseFields DEF Delivering
      <4>2. Head(g2a).n = AccessTaken + 1 /\ Consecutive(Tail(g2a), AccessTaken + 1, t)
        BY <1>0, <1>2, <1>3, <3>0, <3>1, ConsecutiveTailData DEF IsData
      <4>3. acc'.held # 0
        BY <4>1, <4>2, <1>0
      <4>4. AccessTaken' = AccessTaken + 1
        <5>1. AccessTaken = Len(down_recv) + Len(acc.chan)
          BY <3>0, DownCounts
        <5>2. AccessTaken' = Len(down_recv') + Len(acc'.chan) + 1
          BY <4>3 DEF AccessTaken
        <5> QED BY <5>1, <5>2, <3>0
      <4> QED BY <4>2, <4>4, <3>0, <2>0
    <3>2. CASE Head(g2a).type # "Data"
      <4>1. acc'.held = 0
        BY <1>4, <2>1, <3>2, ResponseFields
      <4>2. AccessTaken' = AccessTaken
        BY <3>0, <4>1 DEF AccessTaken
      <4>3. Consecutive(Tail(g2a), AccessTaken, t)
        BY <1>0, <1>2, <1>3, <3>0, <3>2, ConsecutiveTail DEF IsData
      <4> QED BY <4>2, <4>3, <3>0, <2>0
    <3> QED BY <3>1, <3>2
  <2>2. CASE ~AccessDispatch
    <3>1. g2a' = g2a
      BY <1>4, <2>2, ResponseFields
    <3>2. AccessTaken' = AccessTaken
      <4> DEFINE a == Len(down_recv)
                 b == Len(acc.chan)
                 a1 == Len(down_recv')
                 b1 == Len(acc'.chan)
      <4>0. a \in Nat /\ b \in Nat /\ acc.chan \in DownNumbers /\ down_recv \in DownNumbers
            /\ acc.held \in DownHeld
        BY DownCounts DEF Typed, PayloadTyped, AccessTyped, AccessState
      <4>1. CASE acc.held # 0 /\ acc'.held = 0 /\ acc'.chan = Append(acc.chan, acc.held) /\ down_recv' = down_recv
        <5>1. b1 = b + 1 /\ a1 = a
          BY <4>0, <4>1, NumbersFacts
        <5>2. AccessTaken = a + b + 1 /\ AccessTaken' = a1 + b1 + 0
          BY <4>1, DownCounts DEF AccessTaken
        <5> HIDE DEF a, b, a1, b1
        <5> QED BY <5>1, <5>2, <4>0
      <4>2. CASE acc'.held = acc.held /\ acc.chan # <<>> /\ down_recv' = Append(down_recv, Head(acc.chan))
                 /\ acc'.chan = Tail(acc.chan)
        <5>1. b1 = b - 1 /\ a1 = a + 1
          BY <4>0, <4>2, NumbersFacts
        <5> DEFINE h == IF acc.held # 0 THEN 1 ELSE 0
        <5>2. AccessTaken = a + b + h /\ AccessTaken' = a1 + b1 + h /\ h \in Nat
          BY <4>2 DEF AccessTaken
        <5> HIDE DEF a, b, a1, b1, h
        <5> QED BY <5>1, <5>2, <4>0
      <4>3. CASE acc'.held = acc.held /\ acc'.chan = acc.chan /\ down_recv' = down_recv
        BY <4>3 DEF AccessTaken
      <4>4. acc'.body /\ acc'.pc # "done"
        BY DEF Delivering
      <4> QED BY <1>4, <2>2, <4>1, <4>2, <4>3, <4>4, ResponseFields
    <3> QED BY <1>2, <3>1, <3>2, <2>0
  <2> QED BY <2>1, <2>2
<1>5. CASE GatewaySide
  <2>0. AccessTaken' = AccessTaken
    BY <1>5, AccessFrame DEF AccessTaken
  <2>1. CASE /\ g2a' = Append(g2a, Head(gw.out)) /\ gw'.out = <<>> /\ gw'.pc = gw.pc /\ down_sent' = down_sent
             /\ target' = target /\ Head(gw.out) \in Down
             /\ TaskUnsent /\ down_sent # 0 /\ Head(gw.out) = Data(down_sent) /\ gw.pc = "responding"
    <3>1. t = down_sent - 1 /\ IsData(Head(gw.out)) /\ Head(gw.out).n = t + 1 /\ t + 1 = down_sent
      <4>1. t = down_sent - 1 /\ IsData(Head(gw.out)) /\ Head(gw.out).n = down_sent
        BY <1>2, <2>1 DEF DownQueued, IsData, Data
      <4> QED BY <4>1, <1>0, <1>3
    <3>2. Consecutive(Append(g2a, Head(gw.out)), AccessTaken, t + 1)
      BY <1>0, <1>2, <1>3, <2>1, <3>1, ConsecutiveAppendData
    <3>3. down_sent \in 0..down_sent /\ DownQueued(down_sent)'
      BY <1>0, <2>1 DEF DownQueued, TaskUnsent
    <3> QED BY <3>1, <3>2, <3>3, <2>0, <2>1
  <2>2. CASE /\ g2a' = Append(g2a, Head(gw.out)) /\ gw'.out = <<>> /\ gw'.pc = gw.pc /\ down_sent' = down_sent
             /\ target' = target /\ Head(gw.out) \in Down /\ ~TaskUnsent /\ ~IsData(Head(gw.out))
    <3>1. Consecutive(Append(g2a, Head(gw.out)), AccessTaken, t)
      BY <1>0, <1>2, <1>3, <2>2, ConsecutiveAppend
    <3>2. DownQueued(t)'
      BY <1>2, <2>2 DEF DownQueued, TaskUnsent
    <3> QED BY <3>1, <3>2, <1>2, <2>0, <2>2
  <2>3. CASE /\ TargetChunk /\ g2a' = g2a /\ gw.out = <<>> /\ down_sent' = down_sent + 1 /\ target' = target
             /\ gw'.out = <<Data(down_sent')>> /\ gw.pc = "responding" /\ gw'.pc = "responding"
    <3>1. ~TaskUnsent /\ TaskUnsent'
      BY <2>3 DEF TaskUnsent
    <3>2. t = down_sent
      BY <1>2, <2>3, <3>1 DEF DownQueued
    <3>3. target.answer # "ended"
      BY <2>3 DEF StartOK, TaskPhases, Settled
    <3>4. t = down_sent' - 1 /\ t \in 0..down_sent'
      BY <1>0, <2>3, <3>2
    <3>5. DownQueued(t)'
      BY <2>3, <3>1, <3>3, <3>4 DEF DownQueued
    <3> QED BY <1>2, <2>0, <2>3, <3>4, <3>5
  <2>4. CASE /\ g2a' \in {g2a, Append(g2a, Control("Error"))} /\ down_sent' = down_sent
             /\ TaskUnsent' => TaskUnsent
             /\ ~TaskUnsent' /\ gw'.pc \in {"none", "requesting", "responding"} =>
                   ~TaskUnsent /\ gw.pc \in {"none", "requesting", "responding"}
             /\ target'.answer = "ended" =>
                   \/ target.answer = "ended"
                   \/ ~TaskUnsent /\ gw.pc = "responding"
    <3>1. DownQueued(t)'
      BY <1>2, <2>4 DEF DownQueued
    <3>2. Consecutive(Append(g2a, Control("Error")), AccessTaken, t)
      <4>1. Control("Error") \in Down /\ ~IsData(Control("Error"))
        BY Messages DEF IsData, Control
      <4> QED BY <1>0, <1>2, <1>3, <4>1, ConsecutiveAppend
    <3> QED BY <1>2, <2>0, <2>4, <3>1, <3>2
  <2> QED BY <1>5, <2>1, <2>2, <2>3, <2>4, ResponseAppends
<1> QED BY <1>4, <1>5

\* DownloadOK is kept.
LEMMA DownloadNext ==
    ASSUME Typed, OutOK, StartOK, DownloadOK, AccessSide \/ GatewaySide
    PROVE  DownloadOK'
  BY DownReceivedNext, DownHeldNextNext, DownComingNext DEF DownloadOK

(*********************** The end of the response **************************)

\* ResponseEnd is queued behind every chunk, by a task that saw the end.
LEMMA DownEndLastNext ==
    ASSUME Typed, OutOK, StartOK, DownEndLast, AccessSide \/ GatewaySide
    PROVE  DownEndLast'
<1>0. g2a \in Seq(Down)
  BY DEF Typed, QueuesTyped, Downs
<1>1. target.answer = "ended" => target'.answer = "ended"
  BY DownSent DEF Settled
<1>2. CASE g2a' = g2a
  BY <1>1, <1>2 DEF DownEndLast
<1>3. CASE g2a # <<>> /\ g2a' = Tail(g2a)
  <2>1. EndLast(g2a', "ResponseEnd") /\ (None(g2a, "ResponseEnd") => None(g2a', "ResponseEnd"))
    BY <1>0, <1>3, EndFacts DEF DownEndLast
  <2> QED BY <2>1, <1>1 DEF DownEndLast
<1>4. ASSUME NEW x \in Down, g2a' = Append(g2a, x),
             IsData(x) => gw.pc = "responding", x.type = "ResponseEnd" => target.answer = "ended"
      PROVE  DownEndLast'
  <2>1. IsData(x) => None(g2a, "ResponseEnd")
    BY <1>4 DEF DownEndLast, StartOK, TaskPhases, Settled
  <2>2. EndLast(g2a', "ResponseEnd")
    BY <1>0, <1>4, <2>1, EndFacts DEF DownEndLast
  <2>3. ~None(g2a', "ResponseEnd") => target.answer = "ended"
    <3>1. CASE None(g2a, "ResponseEnd")
      BY <1>0, <1>4, <3>1, EndFacts
    <3>2. CASE ~None(g2a, "ResponseEnd")
      BY <3>2 DEF DownEndLast
    <3> QED BY <3>1, <3>2
  <2> QED BY <2>2, <2>3, <1>1 DEF DownEndLast
<1>5. CASE AccessSide
  BY <1>2, <1>3, <1>5, ResponseFields
<1>6. CASE GatewaySide
  <2>1. CASE g2a' \in {g2a, Append(g2a, Control("Error"))}
    <3>1. Control("Error") \in Down /\ ~IsData(Control("Error")) /\ Control("Error").type # "ResponseEnd"
      BY Messages DEF IsData, Control
    <3> QED BY <2>1, <3>1, <1>2, <1>4
  <2>2. CASE /\ g2a' = Append(g2a, Head(gw.out)) /\ Head(gw.out) \in Down
             /\ \/ TaskUnsent /\ Head(gw.out) = Data(down_sent) /\ gw.pc = "responding"
                \/ ~IsData(Head(gw.out)) /\ (Head(gw.out).type = "ResponseEnd" => target.answer = "ended")
    <3>1. Head(gw.out) = Data(down_sent) => Head(gw.out).type # "ResponseEnd"
      BY DEF Data
    <3> QED BY <2>2, <3>1, <1>4
  <2> QED BY <1>6, <2>1, <2>2, ResponseAppends
<1> QED BY <1>5, <1>6

\* The end of the response takes the body stream away after the last chunk.
LEMMA ResponseTaken ==
    ASSUME Typed, StartOK, DownloadOK, DownEndLast, g2a # <<>>, Head(g2a).type = "ResponseEnd",
           Delivering, acc.held = 0
    PROVE  target.answer = "ended" /\ Len(down_recv) + Len(acc.chan) = down_sent
<1>1. PICK t \in 0..down_sent : DownQueued(t) /\ Consecutive(g2a, AccessTaken, t)
  BY DEF DownloadOK, DownComing
<1>2. g2a \in Seq(Down) /\ down_sent \in Nat /\ AccessTaken \in Nat /\ t \in Nat
  BY DownCounts DEF Typed, QueuesTyped, Downs
<1>3. target.answer = "ended" /\ None(Tail(g2a), "Data")
  BY <1>2, EndFacts DEF DownEndLast
<1>4. Consecutive(Tail(g2a), AccessTaken, t)
  BY <1>1, <1>2, ConsecutiveTail DEF IsData
<1>5. AccessTaken = t
  BY <1>2, <1>3, <1>4, ConsecutiveNone
<1>6. t = down_sent
  BY <1>1, <1>3 DEF DownQueued
<1> QED BY <1>3, <1>5, <1>6, DownCounts

\* The last of a body channel, when it grows or its first chunk is taken.
LEMMA LastFacts ==
    ASSUME NEW q \in DownNumbers
    PROVE  /\ \A x \in DownHeld : Append(q, x) # <<>> /\ Append(q, x)[Len(Append(q, x))] = x
           /\ q # <<>> /\ q[Len(q)] # Head(q) =>
                 Tail(q) # <<>> /\ Tail(q)[Len(Tail(q))] = q[Len(q)]
<1>0. q \in Seq(DownHeld)
  BY DEF DownNumbers
<1>1. ASSUME NEW x \in DownHeld PROVE Append(q, x) # <<>> /\ Append(q, x)[Len(Append(q, x))] = x
  BY <1>0
<1>2. ASSUME q # <<>>, q[Len(q)] # Head(q)
      PROVE  Tail(q) # <<>> /\ Tail(q)[Len(Tail(q))] = q[Len(q)]
  <2> DEFINE d == Tail(q)
             l == Len(q)
  <2>1. /\ l \in Nat /\ l > 0 /\ Head(q) = q[1] /\ Len(d) = l - 1
        /\ \A i \in 1..(l - 1) : d[i] = q[i + 1]
        /\ d = <<>> => Len(d) = 0
    <3>1. Len(<<>>) = 0
      OBVIOUS
    <3> QED BY <1>0, <1>2, <3>1, Positions, Queues
  <2>2. q[l] # q[1]
    BY <1>2, <2>1
  <2> HIDE DEF d, l
  <2>3. l - 1 \in 1..(l - 1) /\ (l - 1) + 1 = l /\ l - 1 # 0
    BY <2>1, <2>2
  <2>4. d # <<>> /\ d[Len(d)] = q[l]
    BY <2>1, <2>3
  <2> QED BY <2>4 DEF d, l
<1> QED BY <1>1, <1>2

\* An error on the body stream is its last entry, or it was lost.
LEMMA FailsBodyGone ==
    ASSUME Typed, DownEndsOK, target'.answer = target.answer, down_sent' = down_sent,
           down_recv' = down_recv, acc'.pc = acc.pc, FailsInto(acc'.chan, acc'.error_lost)
    PROVE  BodyGone'
<1> SUFFICES ASSUME acc'.pc # "done", ~acc'.body
             PROVE  \/ acc'.error_lost
                    \/ acc'.chan # <<>> /\ acc'.chan[Len(acc'.chan)] = BodyError
                    \/ target'.answer = "ended" /\ Len(down_recv') + Len(acc'.chan) = down_sent'
  BY DEF BodyGone
<1>0. acc.chan \in DownNumbers /\ BodyError \in DownHeld
  BY HeldFacts DEF Typed, AccessTyped, AccessState, BodyError
<1>1. CASE ~acc.body /\ acc'.chan = acc.chan /\ (acc.error_lost => acc'.error_lost)
  BY <1>1 DEF DownEndsOK, BodyGone
<1>2. CASE acc'.chan = Append(acc.chan, BodyError)
  BY <1>0, <1>2, LastFacts
<1> QED BY <1>1, <1>2 DEF FailsInto

\* A body stream is removed for an error, or after the last chunk.
LEMMA BodyGoneNext ==
    ASSUME Typed, OutOK, StartOK, DownloadOK, DownEndsOK, AccessSide \/ GatewaySide
    PROVE  BodyGone'
<1>0. BodyGone
  BY DEF DownEndsOK
<1>1. CASE GatewaySide
  <2>1. down_recv' = down_recv /\ acc' = acc
    BY <1>1, AccessFrame
  <2>2. target.answer = "ended" => target'.answer = "ended" /\ down_sent' = down_sent
    BY <1>1, DownSent DEF Settled
  <2> QED BY <2>1, <2>2, <1>0 DEF BodyGone
<1>2. CASE AccessSide
  <2>0. target' = target /\ down_sent' = down_sent /\ (acc.error_lost => acc'.error_lost)
    BY <1>2, GatewayFrame, ResponseFields
  <2>1. CASE /\ acc'.chan = acc.chan /\ down_recv' = down_recv /\ acc'.body = acc.body
             /\ (acc'.pc # "done" => acc.pc # "done")
    BY <2>0, <2>1, <1>0 DEF BodyGone
  <2>2. CASE acc'.pc = "done" \/ acc'.body
    BY <2>2 DEF BodyGone
  <2>3. CASE /\ FailsInto(acc'.chan, acc'.error_lost) /\ acc'.pc = acc.pc /\ down_recv' = down_recv
    BY <2>0, <2>3, FailsBodyGone
  <2>4. CASE AccessDispatch
    <3>1. CASE Head(g2a).type = "ResponseEnd"
      <4>1. /\ g2a # <<>> /\ acc.held = 0 /\ acc'.chan = acc.chan /\ down_recv' = down_recv
            /\ acc'.pc = acc.pc
        BY <1>2, <2>4, <3>1, ResponseFields
      <4>2. CASE acc.body /\ acc.pc # "done"
        <5>1. target.answer = "ended" /\ Len(down_recv) + Len(acc.chan) = down_sent
          BY <3>1, <4>1, <4>2, ResponseTaken DEF Delivering, DownEndsOK
        <5> QED BY <5>1, <4>1, <2>0 DEF BodyGone
      <4>3. CASE ~acc.body
        BY <2>0, <4>1, <4>3, <1>0 DEF BodyGone
      <4>4. CASE acc.pc = "done"
        BY <4>1, <4>4, <2>2
      <4> QED BY <4>2, <4>3, <4>4
    <3>2. CASE Head(g2a).type # "ResponseEnd"
      BY <1>2, <2>1, <2>3, <2>4, <3>2, ResponseFields
    <3> QED BY <3>1, <3>2
  <2>5. CASE acc.held # 0 /\ acc.pc # "done" /\ acc'.body = acc.body
    <3>1. acc.body
      BY <2>5 DEF DownloadOK, DownHeldNext
    <3> QED BY <3>1, <2>5, <2>2
  <2>6. CASE /\ acc.pc = "responding" /\ acc.chan # <<>> /\ Head(acc.chan) # BodyError
             /\ down_recv' = Append(down_recv, Head(acc.chan)) /\ acc'.chan = Tail(acc.chan)
             /\ acc'.body = acc.body
    <3> SUFFICES ASSUME ~acc'.body
                 PROVE  \/ acc'.error_lost
                        \/ acc'.chan # <<>> /\ acc'.chan[Len(acc'.chan)] = BodyError
                        \/ target'.answer = "ended" /\ Len(down_recv') + Len(acc'.chan) = down_sent'
      BY DEF BodyGone
    <3>0. acc.chan \in DownNumbers /\ down_recv \in DownNumbers
      BY DEF Typed, PayloadTyped, AccessTyped, AccessState
    <3>1. \/ acc.error_lost
          \/ acc.chan[Len(acc.chan)] = BodyError
          \/ target.answer = "ended" /\ Len(down_recv) + Len(acc.chan) = down_sent
      BY <2>6, <1>0 DEF BodyGone
    <3>2. acc.chan[Len(acc.chan)] = BodyError => acc'.chan # <<>> /\ acc'.chan[Len(acc'.chan)] = BodyError
      BY <2>6, <3>0, LastFacts
    <3> DEFINE a == Len(down_recv)
               b == Len(acc.chan)
               a1 == Len(down_recv')
               b1 == Len(acc'.chan)
    <3>3. a \in Nat /\ b \in Nat /\ a1 = a + 1 /\ b1 = b - 1
      BY <2>6, <3>0, NumbersFacts
    <3>4. a1 + b1 = a + b
      <4> HIDE DEF a, b, a1, b1
      <4> QED BY <3>3
    <3> QED BY <3>1, <3>2, <3>4, <2>0
  <2>7. CASE ~AccessDispatch
    BY <1>2, <2>7, <2>1, <2>2, <2>3, <2>5, <2>6, ResponseFields
  <2> QED BY <2>4, <2>7
<1> QED BY <1>1, <1>2

\* Only Respond completes a response, when BodyGone tells it is whole.
LEMMA ResponseCompleteNext ==
    ASSUME Typed, OutOK, StartOK, DownEndsOK, EntriesOK, AccessSide \/ GatewaySide
    PROVE  ResponseComplete'
<1> SUFFICES ASSUME client' = "complete", ~acc'.error_lost PROVE WholeResponse'
  BY DEF ResponseComplete
<1>1. CASE GatewaySide
  <2>1. down_recv' = down_recv /\ acc' = acc /\ client' = client
    BY <1>1, AccessFrame
  <2>2. WholeResponse
    BY <2>1 DEF DownEndsOK, ResponseComplete
  <2>3. target'.answer = "ended" /\ down_sent' = down_sent
    BY <1>1, <2>2, DownSent DEF Settled, WholeResponse
  <2> QED BY <2>1, <2>2, <2>3 DEF WholeResponse
<1>2. CASE AccessSide
  <2>0. target' = target /\ down_sent' = down_sent /\ ~acc.error_lost
    BY <1>2, GatewayFrame, ResponseFields
  <2>1. CASE client' = client
    <3>1. WholeResponse /\ acc.pc = "done"
      BY <2>0, <2>1 DEF DownEndsOK, ResponseComplete, EntriesOK, Waiting
    <3>2. down_recv' = down_recv
      BY <1>2, <3>1, ResponseFields
    <3> QED BY <2>0, <3>1, <3>2 DEF WholeResponse
  <2>2. CASE client' # client
    <3>1. acc.pc = "responding" /\ acc.chan = <<>> /\ ~acc.body /\ down_recv' = down_recv
      BY <1>2, <2>2, ResponseFields
    <3>2. target.answer = "ended" /\ Len(down_recv) + Len(acc.chan) = down_sent
      BY <2>0, <3>1 DEF DownEndsOK, BodyGone
    <3>3. Len(down_recv) \in Nat /\ Len(acc.chan) = 0
      BY <3>1, DownCounts
    <3> DEFINE a == Len(down_recv)
               b == Len(acc.chan)
    <3>4. a + b = down_sent => a = down_sent
      <4>1. a \in Nat /\ b = 0
        BY <3>3
      <4> HIDE DEF a, b
      <4> QED BY <4>1
    <3> QED BY <2>0, <3>1, <3>2, <3>4 DEF WholeResponse
  <2> QED BY <2>1, <2>2
<1> QED BY <1>1, <1>2

\* DownEndsOK is kept.
LEMMA DownEndsNext ==
    ASSUME Typed, OutOK, StartOK, DownloadOK, DownEndsOK, EntriesOK, AccessSide \/ GatewaySide
    PROVE  DownEndsOK'
  BY DownEndLastNext, BodyGoneNext, ResponseCompleteNext DEF DownEndsOK

(***************************** The entries ********************************)

\* EntriesOK is kept: the paths that answer the client remove both entries.
LEMMA EntriesNext ==
    ASSUME Typed, OutOK, DownloadOK, EntriesOK, AccessSide \/ GatewaySide
    PROVE  EntriesOK'
<1>0. Waiting /\ NoEntryLeft
  BY DEF EntriesOK
<1>1. CASE GatewaySide
  BY <1>0, <1>1, AccessFrame DEF EntriesOK, Waiting, NoEntryLeft
<1>2. CASE AccessSide
  <2>0. (acc'.body => acc.body) /\ (acc'.waiter => acc.waiter) /\ (acc.pc = "done" => acc'.pc = "done")
    BY <1>2, ResponseFields
  <2>1. acc'.waiter => acc'.head = "pending"
    <3>1. acc'.waiter => acc'.head = acc.head
      BY <1>2, ResponseFields
    <3> QED BY <1>0, <2>0, <3>1 DEF Waiting
  <2>2. acc'.pc = "responding" => acc'.head = "ok"
    <3>1. ASSUME acc'.pc = "responding" PROVE acc.head = "ok"
      <4>1. acc.pc = "responding" \/ acc.head = "ok"
        BY <1>2, <3>1, ResponseFields
      <4> QED BY <1>0, <4>1 DEF Waiting
    <3>2. ASSUME acc.head = "ok" PROVE acc'.head = "ok"
      <4>1. ~acc.waiter
        BY <1>0, <3>2 DEF Waiting
      <4>2. acc'.head = acc.head
        BY <1>2, <4>1, ResponseFields
      <4> QED BY <3>2, <4>2
    <3> QED BY <3>1, <3>2
  <2>3. ~session'.access => ~acc'.waiter /\ ~acc'.body
    <3>1. CASE session'.access = session.access
      BY <1>0, <2>0, <3>1 DEF Waiting
    <3>2. CASE session'.access # session.access
      BY <1>2, <3>2, ResponseFields
    <3> QED BY <3>1, <3>2
  <2>4. CASE client' = client
    BY <1>0, <2>0, <2>1, <2>2, <2>3, <2>4 DEF EntriesOK, Waiting, NoEntryLeft
  <2>5. CASE client' # client
    <3>1. acc'.pc = "done"
      BY <1>2, <2>5, ResponseFields
    <3>2. client' \in {"complete", "error"} => ~acc'.waiter /\ ~acc'.body
      <4>1. CASE acc.pc = "responding"
        <5>1. ~acc.waiter
          BY <1>0, <4>1 DEF Waiting
        <5>2. acc.chan # <<>> /\ Head(acc.chan) = BodyError => ~acc.body
          <6> SUFFICES ASSUME acc.chan # <<>>, Head(acc.chan) = BodyError PROVE ~acc.body
            OBVIOUS
          <6>1. 1 \in DOMAIN acc.chan /\ acc.chan[1] = BodyError
            BY Positions DEF Typed, AccessTyped, AccessState, DownNumbers
          <6>2. Len(down_recv) + 1 # BodyError
            BY DownCounts DEF BodyError
          <6> QED BY <6>1, <6>2 DEF DownloadOK, DownReceived
        <5>3. client' = "complete" => ~acc.body
          BY <1>2, <2>5, <4>1, ResponseFields
        <5>4. client' = "error" => \/ ~acc'.body
                                   \/ ~session.access
                                   \/ acc.chan # <<>> /\ Head(acc.chan) = BodyError
          BY <1>2, <2>5, <4>1, ResponseFields
        <5> QED BY <1>0, <2>0, <5>1, <5>2, <5>3, <5>4 DEF Waiting
      <4>2. CASE acc.pc # "responding"
        BY <1>2, <2>5, <4>2, ResponseFields
      <4> QED BY <4>1, <4>2
    <3> QED BY <2>1, <2>2, <2>3, <3>1, <3>2 DEF EntriesOK, Waiting, NoEntryLeft
  <2> QED BY <2>4, <2>5
<1> QED BY <1>1, <1>2

(************************* The request as a whole *************************)

\* The initial state satisfies the invariant,
LEMMA InitInductive == Init => Inductive
<1> SUFFICES ASSUME Init PROVE Inductive
  OBVIOUS
<1>1. OutOK /\ EntriesOK
  BY DEF Init, OutOK, AccessOut, TaskOut, EntriesOK, Waiting, NoEntryLeft
<1>2. StartOK
  BY DEF Init, StartOK, Fresh, Starting, StartFirst, TaskPhases, Settled, None
<1>3. DOMAIN <<>> = {} /\ Len(<<>>) = 0
  OBVIOUS
<1>4. ~Unsent /\ ~TaskUnsent
  <2>1. Control("Start") # Data(up_sent)
    BY DEF Control, Data
  <2>2. <<Control("Start")>> # <<Data(up_sent)>>
    BY <2>1
  <2> QED BY <2>2 DEF Init, Unsent, TaskUnsent
<1>5. Consecutive(<<>>, 0, 0) /\ None(<<>>, "End") /\ EndLast(<<>>, "End")
      /\ None(<<>>, "ResponseEnd") /\ EndLast(<<>>, "ResponseEnd")
  BY ConsecutiveEmpty, <1>3 DEF None, EndLast
<1>6. UploadOK
  <2>1. UpReceived /\ UpHeldNext
    BY <1>3 DEF Init, UpReceived, UpHeldNext
  <2>2. Taken = 0 /\ up_sent = 0 /\ a2g = <<>>
    BY <1>3 DEF Init, Taken
  <2>3. UpQueued(0)
    BY <1>4, <2>2 DEF UpQueued
  <2> QED BY <1>5, <2>1, <2>2, <2>3 DEF UploadOK, UpComing
<1>7. UpEndsOK
  BY <1>5 DEF Init, UpEndsOK, UpEndLast, BodySenderGone, RequestEnded
<1>8. DownloadOK
  <2>1. DownReceived /\ DownHeldNext
    BY <1>3 DEF Init, DownReceived, DownHeldNext
  <2>2. AccessTaken = 0 /\ down_sent = 0 /\ g2a = <<>>
    BY <1>3 DEF Init, AccessTaken
  <2>3. DownQueued(0)
    BY <1>4, <2>2 DEF DownQueued
  <2> QED BY <1>5, <2>1, <2>2, <2>3 DEF DownloadOK, DownComing
<1>9. DownEndsOK
  BY <1>5 DEF Init, DownEndsOK, DownEndLast, BodyGone, ResponseComplete
<1> QED BY <1>1, <1>2, <1>6, <1>7, <1>8, <1>9 DEF Inductive

\* and every step keeps it.
LEMMA NextInductive ==
    ASSUME Typed, Inductive, [Next]_vars
    PROVE  Inductive'
<1>1. CASE Next
  <2>1. AccessSide \/ GatewaySide
    BY <1>1, Steps
  <2>2. OutOK' /\ StartOK'
    BY <2>1, OutNext, StartNext DEF Inductive
  <2>3. UploadOK' /\ UpEndsOK'
    BY <2>1, UploadNext, UpEndsNext DEF Inductive
  <2>4. DownloadOK' /\ DownEndsOK' /\ EntriesOK'
    BY <2>1, DownloadNext, DownEndsNext, EntriesNext DEF Inductive
  <2> QED BY <2>2, <2>3, <2>4 DEF Inductive
<1>2. CASE UNCHANGED vars
  <2> USE <1>2 DEF vars
  <2>1. OutOK' = OutOK /\ EntriesOK' = EntriesOK
    BY DEF OutOK, AccessOut, TaskOut, Unsent, TaskUnsent, EntriesOK, Waiting, NoEntryLeft
  <2>2. StartOK' = StartOK
    BY DEF StartOK, Fresh, Starting, StartFirst, TaskPhases, Settled
  <2>3. Taken' = Taken /\ (\A t : UpQueued(t)' <=> UpQueued(t)) /\ (Receiving' <=> Receiving)
    BY DEF Taken, UpQueued, Unsent, InRequest, Receiving
  <2>4. UploadOK' = UploadOK
    BY <2>3 DEF UploadOK, UpReceived, UpHeldNext, UpComing
  <2>5. UpEndsOK' = UpEndsOK
    BY DEF UpEndsOK, UpEndLast, BodySenderGone, RequestEnded, WholeRequest, Settled
  <2>6. AccessTaken' = AccessTaken /\ (\A t : DownQueued(t)' <=> DownQueued(t)) /\ (Delivering' <=> Delivering)
    BY DEF AccessTaken, DownQueued, TaskUnsent, Delivering
  <2>7. DownloadOK' = DownloadOK
    BY <2>6 DEF DownloadOK, DownReceived, DownHeldNext, DownComing
  <2>8. DownEndsOK' = DownEndsOK
    BY DEF DownEndsOK, DownEndLast, BodyGone, ResponseComplete, WholeResponse
  <2> QED BY <2>1, <2>2, <2>4, <2>5, <2>7, <2>8 DEF Inductive
<1> QED BY <1>1, <1>2

\* The inductive invariant holds in every state, with the types.
LEMMA InductiveHolds == Spec => [](Typed /\ Inductive)
<1>1. Init => Typed /\ Inductive
  BY InitTyped, InitInductive
<1>2. Typed /\ Inductive /\ [Next]_vars => (Typed /\ Inductive)'
  <2> SUFFICES ASSUME Typed, Inductive, [Next]_vars PROVE (Typed /\ Inductive)'
    OBVIOUS
  <2>1. Typed'
    <3>1. CASE Next
      BY <3>1, NextTyped
    <3>2. CASE UNCHANGED vars
      BY <3>2 DEF vars, Typed, AccessTyped, TaskTyped, QueuesTyped, EnvironmentTyped, PayloadTyped
    <3> QED BY <3>1, <3>2
  <2> QED BY <2>1, NextInductive
<1> QED BY <1>1, <1>2, PTL DEF Spec

\* What the target takes of the request body, and the client of the response
\* body, is a prefix of what the other side sent: for every queue and channel
\* capacity, whatever is cancelled, refused, lost or dropped in between.
THEOREM BodiesInOrderHolds == Spec => []BodiesInOrder
<1>1. Typed /\ Inductive => BodiesInOrder
  <2> SUFFICES ASSUME Typed, Inductive PROVE BodiesInOrder
    OBVIOUS
  <2>1. InOrder(up_recv, up_sent)
    <3> DEFINE a == Len(up_recv)
               b == Len(gw.chan)
    <3>1. a + b <= up_sent => a <= up_sent
      <4>1. a \in Nat /\ b \in Nat /\ up_sent \in Nat
        BY UploadCounts
      <4> HIDE DEF a, b
      <4> QED BY <4>1
    <3> QED BY <3>1 DEF Inductive, UploadOK, UpReceived, InOrder
  <2>2. InOrder(down_recv, down_sent)
    BY DEF Inductive, DownloadOK, DownReceived, InOrder
  <2> QED BY <2>1, <2>2 DEF BodiesInOrder
<1> QED BY <1>1, InductiveHolds, PTL

(******************** Each body is an ordered channel *********************)

\* The numbers up to n as a sequence, and what reading one more frame makes of it.
LEMMA Counting ==
    ASSUME NEW n \in Nat
    PROVE  /\ Len(Numbers(n)) = n /\ \A i \in 1..n : Numbers(n)[i] = i
           /\ Numbers(n + 1) = Append(Numbers(n), n + 1)
<1>1. Numbers(n) \in Seq(Nat) /\ Numbers(n + 1) \in Seq(Nat)
  BY DEF Numbers
<1>2. Len(Numbers(n)) = n /\ Len(Numbers(n + 1)) = n + 1
  BY DEF Numbers
<1>3. \A i \in 1..n : Numbers(n)[i] = i
  BY DEF Numbers
<1>4. Numbers(n + 1) = Append(Numbers(n), n + 1)
  <2> DEFINE p == Append(Numbers(n), n + 1)
  <2>1. p \in Seq(Nat) /\ Len(p) = n + 1
    BY <1>1, <1>2
  <2>2. \A i \in 1..(n + 1) : p[i] = Numbers(n + 1)[i]
    BY <1>1, <1>2 DEF Numbers
  <2> HIDE DEF p
  <2>3. p = Numbers(n + 1)
    BY <1>1, <1>2, <2>1, <2>2
  <2> QED BY <2>3 DEF p
<1> QED BY <1>2, <1>3, <1>4

\* The steps that move a body: the others leave all of it where it is.
LEMMA PayloadSteps ==
    Next => ReadChunk \/ ConnectionSends \/ TargetChunk \/ Respond \/ UNCHANGED payload
<1> SUFFICES ASSUME Next, ~ReadChunk, ~ConnectionSends, ~TargetChunk, ~Respond
             PROVE  UNCHANGED payload
  OBVIOUS
<1>1. CASE Handler \/ Client
  BY <1>1 DEF Handler, RequestSends, HeadArrives, RequestFails, Client, RequestBodyEnds,
     RequestBodyFails, ClientLeaves
<1>2. CASE Readers \/ Losses
  BY <1>2 DEF Readers, AccessDispatch, HeartbeatBlocks, AccessDeliver, GatewayDispatch, GatewayDeliver, Losses,
     AccessLosesSession, GatewayLosesSession
<1>3. CASE RequestTask \/ Target \/ Connection
  BY <1>3 DEF RequestTask, TaskCancelled, TaskSends, TaskReturns, Target, TargetAnswers,
     TargetEnds, TargetFails, TaskEnds, Connection, ConnectionEnds, ConnectionCloses
<1> QED BY <1>1, <1>2, <1>3 DEF Next

\* A step reads one more chunk from the client, or gives the target the one after those
\* it took.
LEMMA RequestStep ==
    ASSUME Typed, Inductive, [Next]_vars
    PROVE  \/ up_sent' = up_sent + 1 /\ up_recv' = up_recv /\ up_sent < MaxUp
           \/ /\ up_sent' = up_sent /\ Len(up_recv) < up_sent
              /\ up_recv' = Append(up_recv, Len(up_recv) + 1)
           \/ up_sent' = up_sent /\ up_recv' = up_recv
<1>1. CASE ReadChunk
  BY <1>1 DEF ReadChunk
<1>2. CASE ConnectionSends
  <2>1. gw.chan \in UpNumbers /\ up_recv \in UpNumbers /\ up_sent \in Nat
    BY UploadCounts DEF Typed, TaskTyped, TaskState, PayloadTyped
  <2>2. Head(gw.chan) = gw.chan[1] /\ 1 \in DOMAIN gw.chan /\ Len(gw.chan) \in Nat \ {0}
        /\ Len(up_recv) \in Nat
    BY <1>2, <2>1 DEF UpNumbers, ConnectionSends
  <2>3. gw.chan[1] = Len(up_recv) + 1 /\ Len(up_recv) + Len(gw.chan) <= up_sent
    BY <2>2 DEF Inductive, UploadOK, UpReceived
  <2> QED BY <1>2, <2>1, <2>2, <2>3 DEF ConnectionSends
<1>3. CASE TargetChunk \/ Respond \/ UNCHANGED payload \/ UNCHANGED vars
  BY <1>3 DEF TargetChunk, Respond, payload, vars
<1> QED BY <1>1, <1>2, <1>3, PayloadSteps

\* The same for the response, whose channel may end with an error.
LEMMA ResponseStep ==
    ASSUME Typed, Inductive, [Next]_vars
    PROVE  \/ down_sent' = down_sent + 1 /\ down_recv' = down_recv /\ down_sent < MaxDown
           \/ /\ down_sent' = down_sent /\ Len(down_recv) < down_sent
              /\ down_recv' = Append(down_recv, Len(down_recv) + 1)
           \/ down_sent' = down_sent /\ down_recv' = down_recv
<1>1. CASE TargetChunk
  BY <1>1 DEF TargetChunk
<1>2. CASE Respond /\ down_recv' # down_recv
  <2>1. /\ acc.chan # <<>> /\ Head(acc.chan) # BodyError
        /\ down_recv' = Append(down_recv, Head(acc.chan)) /\ down_sent' = down_sent
    BY <1>2 DEF Respond
  <2>2. acc.chan \in DownNumbers /\ down_recv \in DownNumbers /\ down_sent \in Nat
    BY DownCounts DEF Typed, AccessTyped, AccessState, PayloadTyped
  <2>3. Head(acc.chan) = acc.chan[1] /\ 1 \in DOMAIN acc.chan /\ Len(down_recv) \in Nat
    BY <2>1, <2>2 DEF DownNumbers
  <2>4. acc.chan[1] = Len(down_recv) + 1 /\ Len(down_recv) + 1 <= down_sent
    BY <2>1, <2>3 DEF Inductive, DownloadOK, DownReceived
  <2> QED BY <2>1, <2>2, <2>3, <2>4
<1>3. CASE Respond /\ down_recv' = down_recv
  BY <1>3 DEF Respond
<1>4. CASE ReadChunk \/ ConnectionSends \/ UNCHANGED payload \/ UNCHANGED vars
  BY <1>4 DEF ReadChunk, ConnectionSends, payload, vars
<1> QED BY <1>1, <1>2, <1>3, <1>4, PayloadSteps

\* Both bodies implement the ordered channel, for every number of chunks and every
\* capacity: what the target took of the request and the client of the response is not
\* taken back, and goes on with the chunk that was read next, whatever fails or is dropped.
THEOREM BodiesRefineHolds == Spec => BodiesRefine
<1>1. Init => RequestBody!Init /\ ResponseBody!Init
  BY DEF Init, RequestBody!Init, ResponseBody!Init, Numbers
<1>2. Typed /\ Inductive /\ [Next]_vars => [RequestBody!Next]_RequestBody!chan
  <2> SUFFICES ASSUME Typed, Inductive, [Next]_vars PROVE [RequestBody!Next]_RequestBody!chan
    OBVIOUS
  <2>1. up_sent \in Nat /\ up_recv \in UpNumbers /\ MaxUp \in Nat
    BY CapacityAssumption DEF Typed, PayloadTyped, UpHeld
  <2>2. CASE up_sent' = up_sent + 1 /\ up_recv' = up_recv /\ up_sent < MaxUp
    <3>1. Len(Numbers(up_sent)) < MaxUp /\ up_sent + 1 \in 1..MaxUp
      BY <2>1, <2>2, Counting
    <3>2. Numbers(up_sent') = Append(Numbers(up_sent), up_sent + 1)
      BY <2>1, <2>2, Counting
    <3>3. RequestBody!Send(up_sent + 1)
      BY <2>2, <3>1, <3>2 DEF RequestBody!Send
    <3> QED BY <3>1, <3>3 DEF RequestBody!Next
  <2>3. CASE /\ up_sent' = up_sent /\ Len(up_recv) < up_sent
             /\ up_recv' = Append(up_recv, Len(up_recv) + 1)
    <3>1. Len(up_recv) \in Nat /\ Len(up_recv) + 1 \in 1..up_sent
      BY <2>1, <2>3 DEF UpNumbers
    <3>2. Len(up_recv) < Len(Numbers(up_sent)) /\ Numbers(up_sent)[Len(up_recv) + 1] = Len(up_recv) + 1
      BY <2>1, <2>3, <3>1, Counting
    <3>3. RequestBody!Receive
      BY <2>3, <3>2 DEF RequestBody!Receive
    <3> QED BY <3>3 DEF RequestBody!Next
  <2>4. CASE up_sent' = up_sent /\ up_recv' = up_recv
    BY <2>4 DEF RequestBody!chan
  <2> QED BY <2>2, <2>3, <2>4, RequestStep
<1>3. Typed /\ Inductive /\ [Next]_vars => [ResponseBody!Next]_ResponseBody!chan
  <2> SUFFICES ASSUME Typed, Inductive, [Next]_vars PROVE [ResponseBody!Next]_ResponseBody!chan
    OBVIOUS
  <2>1. down_sent \in Nat /\ down_recv \in DownNumbers /\ MaxDown \in Nat
    BY CapacityAssumption DEF Typed, PayloadTyped, DownHeld
  <2>2. CASE down_sent' = down_sent + 1 /\ down_recv' = down_recv /\ down_sent < MaxDown
    <3>1. Len(Numbers(down_sent)) < MaxDown /\ down_sent + 1 \in 1..MaxDown
      BY <2>1, <2>2, Counting
    <3>2. Numbers(down_sent') = Append(Numbers(down_sent), down_sent + 1)
      BY <2>1, <2>2, Counting
    <3>3. ResponseBody!Send(down_sent + 1)
      BY <2>2, <3>1, <3>2 DEF ResponseBody!Send
    <3> QED BY <3>1, <3>3 DEF ResponseBody!Next
  <2>3. CASE /\ down_sent' = down_sent /\ Len(down_recv) < down_sent
             /\ down_recv' = Append(down_recv, Len(down_recv) + 1)
    <3>1. Len(down_recv) \in Nat /\ Len(down_recv) + 1 \in 1..down_sent
      BY <2>1, <2>3 DEF DownNumbers
    <3>2. /\ Len(down_recv) < Len(Numbers(down_sent))
          /\ Numbers(down_sent)[Len(down_recv) + 1] = Len(down_recv) + 1
      BY <2>1, <2>3, <3>1, Counting
    <3>3. ResponseBody!Receive
      BY <2>3, <3>2 DEF ResponseBody!Receive
    <3> QED BY <3>3 DEF ResponseBody!Next
  <2>4. CASE down_sent' = down_sent /\ down_recv' = down_recv
    BY <2>4 DEF ResponseBody!chan
  <2> QED BY <2>2, <2>3, <2>4, ResponseStep
<1> QED BY <1>1, <1>2, <1>3, InductiveHolds, PTL
        DEF Spec, BodiesRefine, RequestBody!Spec, ResponseBody!Spec

\* No body looks complete before it is: the target sees the end of a request
\* it still serves only after the whole of it, and the client the end of a
\* response only after the whole of the target's answer, unless the error
\* found the body channel full.
THEOREM BodiesCompleteHolds == Spec => []BodiesComplete
<1>1. Inductive => BodiesComplete
  BY DEF Inductive, UpEndsOK, RequestEnded, DownEndsOK, BodiesComplete, RequestComplete, Settled
<1> QED BY <1>1, InductiveHolds, PTL

\* A handler that has answered its client leaves no entry in the maps of the
\* connection, whichever of head, error, end and loss of the session came first.
THEOREM NoEntryLeftHolds == Spec => []NoEntryLeft
<1>1. Inductive => NoEntryLeft
  BY DEF Inductive, EntriesOK
<1> QED BY <1>1, InductiveHolds, PTL
================================================================================
