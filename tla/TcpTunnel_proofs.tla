---------------------------- MODULE TcpTunnel_proofs ----------------------------
(***************************************************************************)
(* Proofs about TcpTunnel for every number of frames and every capacity:    *)
(* the types, that the bytes of each direction arrive in order, and that    *)
(* no side sees a regular end of the stream before all of it.               *)
(***************************************************************************)
EXTENDS TcpTunnel, TLAPS

(******************************** Types **********************************)

Up == [type : {"Data"}, n : 1..MaxUp] \cup [type : {"Open", "Close", "TcpEof"}, n : {0}]
Down == [type : {"Data"}, n : 1..MaxDown]
        \cup [type : {"OpenOk", "Error", "Close", "TcpEof"}, n : {0}]

Ups == Seq(Up)
Downs == Seq(Down)
UpNumbers == Seq(1..MaxUp)
DownNumbers == Seq(1..MaxDown)
UpHeld == 0..MaxUp
DownHeld == 0..MaxDown

AccessState ==
    [pc : {"waiting", "forwarding", "closing", "done"}, out : Ups,
     open : {"pending", "ok", "err"}, entry : BOOLEAN, chan : DownNumbers,
     held : DownHeld, unknown : BOOLEAN, local_read_closed : BOOLEAN,
     remote_closed : BOOLEAN, failed : BOOLEAN]
StreamState ==
    [pc : {"none", "connecting", "forwarding", "writing", "ended", "done"}, out : Downs,
     entry : BOOLEAN, chan : UpNumbers, held : UpHeld, canceled : BOOLEAN,
     revoked : BOOLEAN, target_read_closed : BOOLEAN, access_closed : BOOLEAN,
     failed : BOOLEAN]

\* A stream task that writes has a frame to write.
AccessTyped == acc \in AccessState /\ Len(acc.chan) <= StreamCapacity
StreamTyped ==
    gw \in StreamState /\ Len(gw.chan) <= StreamCapacity /\ (gw.pc = "writing" => gw.chan # <<>>)
QueuesTyped ==
    /\ a2g \in Ups /\ Len(a2g) <= QueueCapacity
    /\ g2a \in Downs /\ Len(g2a) <= QueueCapacity
SessionTyped == session \in [access : BOOLEAN, gateway : BOOLEAN, writer : BOOLEAN]
PayloadTyped ==
    /\ up_sent \in UpHeld /\ down_sent \in DownHeld
    /\ up_recv \in UpNumbers /\ down_recv \in DownNumbers

\* The types in full, each direction with its own messages.
Typed == AccessTyped /\ StreamTyped /\ QueuesTyped /\ SessionTyped /\ PayloadTyped

\* What the sequence operators do to sequences of each kind.
LEMMA Queues ==
    ASSUME NEW S
    PROVE  /\ <<>> \in Seq(S)
           /\ \A x \in S : <<x>> \in Seq(S)
           /\ \A x, y \in S : <<x, y>> \in Seq(S)
           /\ \A q \in Seq(S), x \in S : Append(q, x) \in Seq(S) /\ Len(Append(q, x)) = Len(q) + 1
           /\ \A q \in Seq(S) : Len(q) \in Nat
           /\ \A q \in Seq(S) : q # <<>> =>
                 Head(q) \in S /\ Tail(q) \in Seq(S) /\ Len(Tail(q)) = Len(q) - 1
  OBVIOUS

LEMMA Messages ==
    /\ \A t \in {"Open", "Close", "TcpEof"} : Control(t) \in Up
    /\ \A t \in {"OpenOk", "Error", "Close", "TcpEof"} : Control(t) \in Down
    /\ \A n \in 1..MaxUp : Data(n) \in Up
    /\ \A n \in 1..MaxDown : Data(n) \in Down
    /\ \A m \in Up : m.type = "Data" => m.n \in 1..MaxUp
    /\ \A m \in Down : m.type = "Data" => m.n \in 1..MaxDown
  BY DEF Control, Data, Up, Down

\* The same for the queues and channels of the two sides.
LEMMA UpsFacts ==
    /\ <<>> \in Ups
    /\ \A t \in {"Open", "Close", "TcpEof"} : <<Control(t)>> \in Ups
    /\ \A n \in 1..MaxUp : <<Data(n)>> \in Ups
    /\ \A q \in Ups, x \in Up : Append(q, x) \in Ups /\ Len(Append(q, x)) = Len(q) + 1
    /\ \A q \in Ups : Len(q) \in Nat
    /\ \A q \in Ups : q # <<>> =>
          Head(q) \in Up /\ Tail(q) \in Ups /\ Len(Tail(q)) = Len(q) - 1
  BY Queues, Messages DEF Ups

LEMMA DownsFacts ==
    /\ <<>> \in Downs
    /\ \A t \in {"OpenOk", "Error", "Close", "TcpEof"} : <<Control(t)>> \in Downs
    /\ <<Control("Error"), Control("Close")>> \in Downs
    /\ \A n \in 1..MaxDown : <<Data(n)>> \in Downs
    /\ \A q \in Downs, x \in Down : Append(q, x) \in Downs /\ Len(Append(q, x)) = Len(q) + 1
    /\ \A q \in Downs : Len(q) \in Nat
    /\ \A q \in Downs : q # <<>> =>
          Head(q) \in Down /\ Tail(q) \in Downs /\ Len(Tail(q)) = Len(q) - 1
<1>1. \A t \in {"OpenOk", "Error", "Close", "TcpEof"} : Control(t) \in Down
  BY Messages
<1>2. <<Control("Error"), Control("Close")>> \in Downs
  BY <1>1, Queues DEF Downs
<1> QED BY <1>1, <1>2, Queues, Messages DEF Downs

LEMMA NumbersFacts ==
    /\ <<>> \in UpNumbers /\ <<>> \in DownNumbers
    /\ \A q \in UpNumbers : Len(q) \in Nat
    /\ \A q \in DownNumbers : Len(q) \in Nat
    /\ \A q \in UpNumbers, x \in UpHeld \ {0} :
          Append(q, x) \in UpNumbers /\ Len(Append(q, x)) = Len(q) + 1
    /\ \A q \in DownNumbers, x \in DownHeld \ {0} :
          Append(q, x) \in DownNumbers /\ Len(Append(q, x)) = Len(q) + 1
    /\ \A q \in UpNumbers : q # <<>> =>
          Head(q) \in UpHeld \ {0} /\ Tail(q) \in UpNumbers /\ Len(Tail(q)) = Len(q) - 1
    /\ \A q \in DownNumbers : q # <<>> =>
          Head(q) \in DownHeld \ {0} /\ Tail(q) \in DownNumbers /\ Len(Tail(q)) = Len(q) - 1
<1>1. 1..MaxUp = UpHeld \ {0} /\ 1..MaxDown = DownHeld \ {0}
  BY CapacityAssumption DEF UpHeld, DownHeld
<1> DEFINE N == UpHeld \ {0}
           M == DownHeld \ {0}
<1>2. UpNumbers = Seq(N) /\ DownNumbers = Seq(M)
  BY <1>1 DEF UpNumbers, DownNumbers
<1> HIDE DEF N, M
<1>3. /\ <<>> \in UpNumbers /\ <<>> \in DownNumbers
      /\ \A q \in UpNumbers : Len(q) \in Nat
      /\ \A q \in DownNumbers : Len(q) \in Nat
      /\ \A q \in UpNumbers, x \in N : Append(q, x) \in UpNumbers /\ Len(Append(q, x)) = Len(q) + 1
      /\ \A q \in DownNumbers, x \in M :
            Append(q, x) \in DownNumbers /\ Len(Append(q, x)) = Len(q) + 1
      /\ \A q \in UpNumbers : q # <<>> =>
            Head(q) \in N /\ Tail(q) \in UpNumbers /\ Len(Tail(q)) = Len(q) - 1
      /\ \A q \in DownNumbers : q # <<>> =>
            Head(q) \in M /\ Tail(q) \in DownNumbers /\ Len(Tail(q)) = Len(q) - 1
  BY <1>2, Queues
<1> QED BY <1>3 DEF N, M

LEMMA HeldFacts ==
    /\ 0 \in UpHeld /\ 0 \in DownHeld
    /\ \A n \in 1..MaxUp : n \in UpHeld \ {0}
    /\ \A n \in 1..MaxDown : n \in DownHeld \ {0}
    /\ \A n \in UpHeld : n \in Nat /\ (n < MaxUp => n + 1 \in UpHeld /\ n + 1 \in 1..MaxUp)
    /\ \A n \in DownHeld : n \in Nat /\ (n < MaxDown => n + 1 \in DownHeld /\ n + 1 \in 1..MaxDown)
  BY CapacityAssumption DEF UpHeld, DownHeld

LEMMA InitTyped == Init => Typed
<1> SUFFICES ASSUME Init PROVE Typed
  OBVIOUS
<1>1. AccessTyped
  BY UpsFacts, NumbersFacts, HeldFacts, CapacityAssumption DEF Init, AccessTyped, AccessState
<1>2. StreamTyped
  BY DownsFacts, NumbersFacts, HeldFacts, CapacityAssumption DEF Init, StreamTyped, StreamState
<1>3. QueuesTyped /\ SessionTyped /\ PayloadTyped
  BY UpsFacts, DownsFacts, NumbersFacts, HeldFacts, CapacityAssumption
     DEF Init, QueuesTyped, SessionTyped, PayloadTyped
<1> QED BY <1>1, <1>2, <1>3 DEF Typed

\* The handler at the access and its sockets.
LEMMA HandlerTyped ==
    ASSUME Typed, AccessTask \/ ReadLocal \/ LocalEof \/ LocalFails \/ AccessOpenTimeout
    PROVE  Typed'
<1> USE DEF Typed
<1>c. \A q \in Ups : Append(q, Control("Close")) \in Ups
  BY UpsFacts, Messages
<1>l. acc.chan \in DownNumbers /\ acc.out \in Ups /\ Len(acc.chan) <= StreamCapacity
  BY DEF AccessTyped, AccessState
<1>e. <<>> \in Ups /\ <<>> \in DownNumbers /\ Len(<<>>) <= StreamCapacity
  BY UpsFacts, NumbersFacts, CapacityAssumption
<1>1. CASE AccessSends
  <2>1. Head(acc.out) \in Up /\ Tail(acc.out) \in Ups
    BY <1>1, <1>l, UpsFacts DEF AccessSends
  <2>2. QueuesTyped'
    BY <1>1, <2>1, UpsFacts, CapacityAssumption DEF AccessSends, QueuesTyped
  <2>3. AccessTyped'
    BY <1>1, <2>1 DEF AccessSends, AccessTyped, AccessState
  <2> QED BY <1>1, <2>2, <2>3 DEF AccessSends, payload, StreamTyped, SessionTyped, PayloadTyped
<1>2. CASE AccessOpened \/ AccessOpenFailed
  <2>1. AccessTyped'
    BY <1>2 DEF AccessOpened, AccessOpenFailed, AccessTyped, AccessState
  <2> QED BY <1>2, <2>1 DEF AccessOpened, AccessOpenFailed, payload, StreamTyped, SessionTyped,
                            PayloadTyped, QueuesTyped
<1>3. CASE WriteLocal
  <2>1. /\ Head(acc.chan) \in DownHeld \ {0} /\ Tail(acc.chan) \in DownNumbers
        /\ Len(Tail(acc.chan)) <= StreamCapacity
    BY <1>3, <1>l, NumbersFacts, CapacityAssumption DEF WriteLocal
  <2>2. AccessTyped'
    BY <1>3, <2>1 DEF WriteLocal, AccessTyped, AccessState
  <2>3. PayloadTyped'
    BY <1>3, <2>1, NumbersFacts DEF WriteLocal, PayloadTyped
  <2> QED BY <1>3, <2>2, <2>3 DEF WriteLocal, StreamTyped, SessionTyped, QueuesTyped
<1>4. CASE ShutdownLocal
  <2>1. AccessTyped'
    BY <1>4, <1>c, <1>l DEF ShutdownLocal, AccessBreak, AccessTyped, AccessState
  <2> QED BY <1>4, <2>1 DEF ShutdownLocal, payload, StreamTyped, SessionTyped, PayloadTyped,
                            QueuesTyped
<1>5. CASE AccessReturns
  <2>1. AccessTyped'
    BY <1>5, <1>e DEF AccessReturns, AccessTyped, AccessState
  <2> QED BY <1>5, <2>1 DEF AccessReturns, payload, StreamTyped, SessionTyped, PayloadTyped,
                            QueuesTyped
<1>6. CASE ReadLocal
  <2>1. up_sent + 1 \in UpHeld /\ <<Data(up_sent + 1)>> \in Ups
    BY <1>6, UpsFacts, HeldFacts DEF ReadLocal, PayloadTyped
  <2>2. AccessTyped'
    BY <1>6, <2>1 DEF ReadLocal, AccessTyped, AccessState
  <2>3. PayloadTyped'
    BY <1>6, <2>1 DEF ReadLocal, PayloadTyped
  <2> QED BY <1>6, <2>2, <2>3 DEF ReadLocal, StreamTyped, SessionTyped, QueuesTyped
<1>7. CASE LocalEof
  <2>1. <<Control("TcpEof")>> \in Ups
    BY UpsFacts
  <2>2. AccessTyped'
    BY <1>7, <1>c, <2>1 DEF LocalEof, AccessBreak, AccessTyped, AccessState
  <2> QED BY <1>7, <2>2 DEF LocalEof, payload, StreamTyped, SessionTyped, PayloadTyped, QueuesTyped
<1>8. CASE LocalFails
  <2>1. AccessTyped'
    BY <1>8, <1>c, <1>l DEF LocalFails, AccessBreak, AccessTyped, AccessState
  <2> QED BY <1>8, <2>1 DEF LocalFails, payload, StreamTyped, SessionTyped, PayloadTyped, QueuesTyped
<1>9. CASE AccessOpenTimeout
  <2>1. <<Control("Close")>> \in Ups
    BY UpsFacts
  <2>2. AccessTyped'
    BY <1>9, <2>1 DEF AccessOpenTimeout, AccessTyped, AccessState
  <2> QED BY <1>9, <2>2 DEF AccessOpenTimeout, payload, StreamTyped, SessionTyped, PayloadTyped,
                            QueuesTyped
<1> QED BY <1>1, <1>2, <1>3, <1>4, <1>5, <1>6, <1>7, <1>8, <1>9 DEF AccessTask

\* The gateway's outbound queue takes a message or, without a writer, drops it.
LEMMA PostTyped == ASSUME QueuesTyped, NEW STATE m, m \in Down, Post(m)
                   PROVE  g2a' \in Downs /\ Len(g2a') <= QueueCapacity
<1>1. Append(g2a, m) \in Downs /\ Len(Append(g2a, m)) = Len(g2a) + 1 /\ Len(g2a) \in Nat
  BY DownsFacts DEF QueuesTyped
<1>2. CASE session.writer
  <2>1. g2a' = Append(g2a, m) /\ Len(g2a) < QueueCapacity
    BY <1>2 DEF Post
  <2>2. Len(g2a) + 1 <= QueueCapacity
    BY <2>1, <1>1, CapacityAssumption
  <2> QED BY <2>1, <2>2, <1>1
<1>3. CASE ~session.writer
  BY <1>3 DEF Post, QueuesTyped
<1> QED BY <1>2, <1>3

\* The readers of the two sides.
LEMMA ReaderTyped == ASSUME Typed, AccessReader \/ GatewayReader PROVE Typed'
<1> USE DEF Typed
<1>c. Control("Close") \in Up /\ Control("Close") \in Down /\ Control("Error") \in Down
  BY Messages
<1>1. CASE AccessDispatch
  <2>1. /\ Head(g2a) \in Down /\ Tail(g2a) \in Downs /\ Len(Tail(g2a)) <= QueueCapacity
    BY <1>1, DownsFacts, CapacityAssumption DEF AccessDispatch, QueuesTyped
  <2>2. a2g' \in Ups /\ Len(a2g') <= QueueCapacity
    BY <1>1, <1>c, UpsFacts, CapacityAssumption DEF AccessDispatch, QueuesTyped
  <2>3. Head(g2a).type = "Data" => Head(g2a).n \in DownHeld
    BY <2>1, Messages, HeldFacts
  <2> DEFINE e == acc.entry /\ Head(g2a).type \notin {"Close", "TcpEof"}
             h == IF Head(g2a).type = "Data" /\ acc.entry THEN Head(g2a).n ELSE acc.held
             u == acc.unknown \/ (Head(g2a).type = "Data" /\ ~acc.entry /\ ~acc.unknown)
             o == IF acc.open # "pending" THEN acc.open
                  ELSE IF Head(g2a).type = "OpenOk" THEN "ok"
                  ELSE IF Head(g2a).type \in {"Error", "Close"} THEN "err" ELSE acc.open
  <2>5. acc' = [acc EXCEPT !.open = o, !.entry = e, !.held = h, !.unknown = u]
    BY <1>1 DEF AccessDispatch, AccessTyped, AccessState
  <2>6. /\ o \in {"pending", "ok", "err"} /\ e \in BOOLEAN /\ h \in DownHeld /\ u \in BOOLEAN
    BY <2>3 DEF AccessTyped, AccessState
  <2> HIDE DEF o, e, h, u
  <2>4. AccessTyped'
    BY <2>5, <2>6 DEF AccessTyped, AccessState
  <2> QED BY <1>1, <2>1, <2>2, <2>4 DEF AccessDispatch, payload, StreamTyped, SessionTyped,
                                        PayloadTyped, QueuesTyped
<1>2. CASE AccessDeliver
  <2>1. a2g' \in Ups /\ Len(a2g') <= QueueCapacity
    <3>1. Append(a2g, Control("Close")) \in Ups /\ Len(Append(a2g, Control("Close"))) = Len(a2g) + 1
      BY <1>c, UpsFacts DEF QueuesTyped
    <3>2. Len(a2g) < QueueCapacity => Len(a2g) + 1 <= QueueCapacity
      BY UpsFacts, CapacityAssumption DEF QueuesTyped
    <3> QED BY <1>2, <3>1, <3>2 DEF AccessDeliver, QueuesTyped
  <2>2. acc.chan \in DownNumbers /\ acc.held \in DownHeld \ {0}
    BY <1>2 DEF AccessDeliver, AccessTyped, AccessState
  <2>3. /\ Append(acc.chan, acc.held) \in DownNumbers
        /\ Len(acc.chan) < StreamCapacity => Len(Append(acc.chan, acc.held)) <= StreamCapacity
    <3>1. /\ Append(acc.chan, acc.held) \in DownNumbers
          /\ Len(Append(acc.chan, acc.held)) = Len(acc.chan) + 1 /\ Len(acc.chan) \in Nat
      BY <2>2, NumbersFacts
    <3> QED BY <3>1, CapacityAssumption
  <2>4. AccessTyped'
    BY <1>2, <2>3, HeldFacts DEF AccessDeliver, AccessTyped, AccessState
  <2> QED BY <1>2, <2>1, <2>4 DEF AccessDeliver, payload, StreamTyped, SessionTyped,
                                  PayloadTyped, QueuesTyped
<1>3. CASE GatewayDispatch
  <2>1. /\ Head(a2g) \in Up /\ Tail(a2g) \in Ups /\ Len(Tail(a2g)) <= QueueCapacity
    BY <1>3, UpsFacts, CapacityAssumption DEF GatewayDispatch, QueuesTyped
  <2>2. g2a' \in Downs /\ Len(g2a') <= QueueCapacity
    <3>1. Post(Control("Error")) \/ g2a' = g2a
      BY <1>3 DEF GatewayDispatch
    <3> QED BY <3>1, <1>c, PostTyped DEF QueuesTyped
  <2>3. Head(a2g).type = "Data" => Head(a2g).n \in UpHeld
    BY <2>1, Messages, HeldFacts
  <2>s. gw \in StreamState /\ Len(gw.chan) <= StreamCapacity /\ (gw.pc = "writing" => gw.chan # <<>>)
    BY DEF StreamTyped
  <2>4. StreamTyped'
    <3>1. CASE gw' = gw
      BY <3>1 DEF StreamTyped
    <3>2. CASE gw' = [gw EXCEPT !.pc = "connecting"]
      BY <2>s, <3>2 DEF StreamTyped, StreamState
    <3>3. CASE gw' = [gw EXCEPT !.entry = FALSE]
      BY <2>s, <3>3 DEF StreamTyped, StreamState
    <3>4. CASE gw' = Cancelled
      BY <2>s, <3>4 DEF Cancelled, StreamTyped, StreamState
    <3>5. CASE gw' = [gw EXCEPT !.held = IF gw.entry THEN Head(a2g).n ELSE 0] /\ Head(a2g).type = "Data"
      BY <2>s, <2>3, <3>5, HeldFacts DEF StreamTyped, StreamState
    <3> QED BY <1>3, <3>1, <3>2, <3>3, <3>4, <3>5 DEF GatewayDispatch
  <2> QED BY <1>3, <2>1, <2>2, <2>4 DEF GatewayDispatch, payload, AccessTyped, SessionTyped,
                                        PayloadTyped, QueuesTyped
<1>4. CASE GatewayDeliver
  <2>1. g2a' \in Downs /\ Len(g2a') <= QueueCapacity
    <3>1. Post(Control("Close")) \/ g2a' = g2a
      BY <1>4 DEF GatewayDeliver
    <3> QED BY <3>1, <1>c, PostTyped DEF QueuesTyped
  <2>2. gw.chan \in UpNumbers /\ gw.held \in UpHeld \ {0}
    BY <1>4 DEF GatewayDeliver, StreamTyped, StreamState
  <2>3. /\ Append(gw.chan, gw.held) \in UpNumbers /\ Append(gw.chan, gw.held) # <<>>
        /\ Len(gw.chan) < StreamCapacity => Len(Append(gw.chan, gw.held)) <= StreamCapacity
    <3>1. /\ Append(gw.chan, gw.held) \in UpNumbers
          /\ Len(Append(gw.chan, gw.held)) = Len(gw.chan) + 1 /\ Len(gw.chan) \in Nat
      BY <2>2, NumbersFacts
    <3>2. Append(gw.chan, gw.held) # <<>>
      BY <2>2 DEF UpNumbers
    <3> QED BY <3>1, <3>2, CapacityAssumption
  <2>4. StreamTyped'
    BY <1>4, <2>3, HeldFacts DEF GatewayDeliver, StreamTyped, StreamState
  <2> QED BY <1>4, <2>1, <2>4 DEF GatewayDeliver, payload, AccessTyped, SessionTyped,
                                  PayloadTyped, QueuesTyped
<1> QED BY <1>1, <1>2, <1>3, <1>4 DEF AccessReader, GatewayReader

\* The stream task, the target, and what breaks.
LEMMA TaskTyped ==
    ASSUME Typed, StreamTask \/ Connect \/ ConnectFails \/ FinishWrite \/ ReadTarget \/ TargetEof
                  \/ TargetFails
    PROVE  Typed'
<1> USE DEF Typed
<1>l. gw.chan \in UpNumbers /\ gw.out \in Downs /\ Len(gw.chan) <= StreamCapacity
  BY DEF StreamTyped, StreamState
<1>e. <<>> \in Downs /\ <<>> \in UpNumbers /\ Len(<<>>) <= StreamCapacity
  BY DownsFacts, NumbersFacts, CapacityAssumption
<1>1. CASE StreamSends
  <2>1. Head(gw.out) \in Down /\ Tail(gw.out) \in Downs
    BY <1>1, <1>l, DownsFacts DEF StreamSends
  <2>2. g2a' \in Downs /\ Len(g2a') <= QueueCapacity
    BY <1>1, <2>1, PostTyped DEF StreamSends
  <2>3. StreamTyped'
    BY <1>1, <2>1, <1>e DEF StreamSends, StreamTyped, StreamState
  <2> QED BY <1>1, <2>2, <2>3 DEF StreamSends, payload, AccessTyped, SessionTyped, PayloadTyped,
                                  QueuesTyped
<1>2. CASE ObserveCancel \/ BeginWrite \/ ShutdownTarget \/ StreamRevoked
  <2>1. StreamTyped'
    BY <1>2, <1>e DEF ObserveCancel, BeginWrite, ShutdownTarget, StreamRevoked, Selecting,
                      StreamTyped, StreamState
  <2> QED BY <1>2, <2>1 DEF ObserveCancel, BeginWrite, ShutdownTarget, StreamRevoked, payload,
                            AccessTyped, SessionTyped, PayloadTyped, QueuesTyped
<1>3. CASE StreamCleanup
  <2>1. <<Control("Error"), Control("Close")>> \in Downs /\ <<Control("Close")>> \in Downs
    BY DownsFacts
  <2>2. StreamTyped'
    BY <1>3, <2>1 DEF StreamCleanup, StreamTyped, StreamState
  <2> QED BY <1>3, <2>2 DEF StreamCleanup, payload, AccessTyped, SessionTyped, PayloadTyped,
                            QueuesTyped
<1>4. CASE Connect \/ ConnectFails \/ TargetFails
  <2>1. <<Control("OpenOk")>> \in Downs
    BY DownsFacts
  <2>2. StreamTyped'
    <3>1. CASE Connect
      BY <3>1, <2>1 DEF Connect, StreamTyped, StreamState
    <3>2. CASE ConnectFails
      BY <3>2 DEF ConnectFails, StreamTyped, StreamState
    <3>3. CASE TargetFails
      BY <3>3, <1>e DEF TargetFails, StreamTyped, StreamState
    <3> QED BY <1>4, <3>1, <3>2, <3>3
  <2> QED BY <1>4, <2>2 DEF Connect, ConnectFails, TargetFails, payload, AccessTyped,
                            SessionTyped, PayloadTyped, QueuesTyped
<1>5. CASE FinishWrite
  <2>1. /\ Head(gw.chan) \in UpHeld \ {0} /\ Tail(gw.chan) \in UpNumbers
        /\ Len(Tail(gw.chan)) <= StreamCapacity
    BY <1>5, <1>l, NumbersFacts, CapacityAssumption DEF FinishWrite, StreamTyped
  <2>2. StreamTyped'
    BY <1>5, <2>1 DEF FinishWrite, StreamTyped, StreamState
  <2>3. PayloadTyped'
    BY <1>5, <2>1, NumbersFacts DEF FinishWrite, PayloadTyped
  <2> QED BY <1>5, <2>2, <2>3 DEF FinishWrite, AccessTyped, SessionTyped, QueuesTyped
<1>6. CASE ReadTarget
  <2>1. down_sent + 1 \in DownHeld /\ <<Data(down_sent + 1)>> \in Downs
    BY <1>6, DownsFacts, HeldFacts DEF ReadTarget, PayloadTyped
  <2>2. StreamTyped'
    BY <1>6, <2>1 DEF ReadTarget, Selecting, StreamTyped, StreamState
  <2>3. PayloadTyped'
    BY <1>6, <2>1 DEF ReadTarget, PayloadTyped
  <2> QED BY <1>6, <2>2, <2>3 DEF ReadTarget, AccessTyped, SessionTyped, QueuesTyped
<1>7. CASE TargetEof
  <2>1. <<Control("TcpEof")>> \in Downs
    BY DownsFacts
  <2>2. StreamTyped'
    BY <1>7, <2>1 DEF TargetEof, Selecting, StreamTyped, StreamState
  <2> QED BY <1>7, <2>2 DEF TargetEof, payload, AccessTyped, SessionTyped, PayloadTyped, QueuesTyped
<1> QED BY <1>1, <1>2, <1>3, <1>4, <1>5, <1>6, <1>7 DEF StreamTask

LEMMA BreakTyped ==
    ASSUME Typed, AccessLosesSession \/ GatewayWriterEnds \/ GatewayLosesSession \/ LeaseRevoked
    PROVE  Typed'
<1> USE DEF Typed
<1>1. AccessTyped'
  BY HeldFacts DEF AccessLosesSession, GatewayWriterEnds, GatewayLosesSession, LeaseRevoked,
                   AccessTyped, AccessState
<1>2. StreamTyped'
  <2>1. CASE gw' = gw
    BY <2>1 DEF StreamTyped
  <2>2. CASE gw' = Cancelled
    BY <2>2 DEF Cancelled, StreamTyped, StreamState
  <2>3. CASE gw' = [Cancelled EXCEPT !.revoked = TRUE, !.held = 0]
    BY <2>3, HeldFacts DEF Cancelled, StreamTyped, StreamState
  <2> QED BY <2>1, <2>2, <2>3 DEF AccessLosesSession, GatewayWriterEnds, GatewayLosesSession,
                                  LeaseRevoked
<1>3. SessionTyped'
  BY DEF AccessLosesSession, GatewayWriterEnds, GatewayLosesSession, LeaseRevoked, SessionTyped
<1> QED BY <1>1, <1>2, <1>3 DEF AccessLosesSession, GatewayWriterEnds, GatewayLosesSession,
                                LeaseRevoked, payload, PayloadTyped, QueuesTyped

LEMMA NextTyped == Typed /\ [Next]_vars => Typed'
<1> SUFFICES ASSUME Typed, [Next]_vars PROVE Typed'
  OBVIOUS
<1>1. CASE UNCHANGED vars
  BY <1>1 DEF vars, Typed, AccessTyped, StreamTyped, QueuesTyped, SessionTyped, PayloadTyped
<1> QED BY <1>1, HandlerTyped, ReaderTyped, TaskTyped, BreakTyped DEF Next, Sockets, Breaks

\* The types and the capacities hold in every reachable state: no queue or channel
\* of a stream grows beyond its bound.
THEOREM TypeCorrect == Spec => []TypeOK
<1>1. Typed => TypeOK
  <2> SUFFICES ASSUME Typed PROVE TypeOK
    OBVIOUS
  <2>1. Ups \subseteq Seq(Message) /\ Downs \subseteq Seq(Message)
    <3>1. Up \subseteq Message /\ Down \subseteq Message
      BY CapacityAssumption DEF Up, Down, Message
    <3> QED BY <3>1 DEF Ups, Downs
  <2>2. /\ acc.pc \in {"waiting", "forwarding", "closing", "done"}
        /\ acc.open \in {"pending", "ok", "err"}
        /\ acc.out \in Ups /\ acc.chan \in DownNumbers /\ acc.held \in DownHeld
    BY DEF Typed, AccessTyped, AccessState
  <2>3. /\ gw.pc \in {"none", "connecting", "forwarding", "writing", "ended", "done"}
        /\ gw.out \in Downs /\ gw.chan \in UpNumbers /\ gw.held \in UpHeld
    BY DEF Typed, StreamTyped, StreamState
  <2>4. a2g \in Seq(Message) /\ g2a \in Seq(Message) /\ acc.out \in Seq(Message) /\ gw.out \in Seq(Message)
    BY <2>1, <2>2, <2>3 DEF Typed, QueuesTyped
  <2> QED BY <2>2, <2>3, <2>4 DEF Typed, TypeOK, AccessTyped, StreamTyped, QueuesTyped,
             SessionTyped, PayloadTyped, UpHeld, DownHeld, UpNumbers, DownNumbers
<1> QED BY <1>1, InitTyped, NextTyped, PTL DEF Spec

(****************************** Bytes in order ****************************)

\* The data frames of a queue are numbered base + 1 .. top, in this order.
IsData(m) == m.type = "Data"
Consecutive(q, base, top) ==
    /\ base <= top
    /\ \A i \in DOMAIN q : IsData(q[i]) => q[i].n \in (base + 1)..top
    /\ \A i, j \in DOMAIN q : i < j /\ IsData(q[i]) /\ IsData(q[j]) => q[i].n < q[j].n
    /\ \A k \in (base + 1)..top : \E i \in DOMAIN q : IsData(q[i]) /\ q[i].n = k

LEMMA ConsecutiveEmpty ==
    ASSUME NEW b \in Nat PROVE Consecutive(<<>>, b, b)
  BY DEF Consecutive

LEMMA ConsecutiveAppendData ==
    ASSUME NEW S, NEW q \in Seq(S), NEW m \in S, NEW b \in Nat, NEW t \in Nat,
           Consecutive(q, b, t), IsData(m), m.n = t + 1
    PROVE  Consecutive(Append(q, m), b, t + 1)
<1> DEFINE r == Append(q, m)
<1>1. /\ DOMAIN q = 1..Len(q) /\ DOMAIN r = 1..(Len(q) + 1) /\ Len(q) \in Nat
      /\ \A i \in 1..Len(q) : r[i] = q[i]
      /\ r[Len(q) + 1] = m
  OBVIOUS
<1> HIDE DEF r
<1>2. \A i \in DOMAIN r : IsData(r[i]) => r[i].n \in (b + 1)..(t + 1)
  <2> SUFFICES ASSUME NEW i \in DOMAIN r, IsData(r[i]) PROVE r[i].n \in (b + 1)..(t + 1)
    OBVIOUS
  <2>1. CASE i \in 1..Len(q)
    <3>1. r[i] = q[i] /\ q[i].n \in (b + 1)..t
      BY <2>1, <1>1 DEF Consecutive
    <3> QED BY <3>1
  <2>2. CASE i = Len(q) + 1
    BY <2>2, <1>1 DEF Consecutive
  <2> QED BY <1>1, <2>1, <2>2
<1>3. \A i, j \in DOMAIN r : i < j /\ IsData(r[i]) /\ IsData(r[j]) => r[i].n < r[j].n
  <2> SUFFICES ASSUME NEW i \in DOMAIN r, NEW j \in DOMAIN r, i < j, IsData(r[i]), IsData(r[j])
               PROVE  r[i].n < r[j].n
    OBVIOUS
  <2>1. i \in 1..Len(q) /\ r[i] = q[i] /\ q[i].n \in (b + 1)..t
    BY <1>1 DEF Consecutive
  <2>2. CASE j \in 1..Len(q)
    BY <2>1, <2>2, <1>1 DEF Consecutive
  <2>3. CASE j = Len(q) + 1
    BY <2>1, <2>3, <1>1
  <2> QED BY <1>1, <2>2, <2>3
<1>4. \A k \in (b + 1)..(t + 1) : \E i \in DOMAIN r : IsData(r[i]) /\ r[i].n = k
  <2> SUFFICES ASSUME NEW k \in (b + 1)..(t + 1)
               PROVE  \E i \in DOMAIN r : IsData(r[i]) /\ r[i].n = k
    OBVIOUS
  <2>1. CASE k = t + 1
    BY <2>1, <1>1
  <2>2. CASE k \in (b + 1)..t
    <3>1. PICK i \in DOMAIN q : IsData(q[i]) /\ q[i].n = k
      BY <2>2 DEF Consecutive
    <3>2. i \in DOMAIN r /\ r[i] = q[i]
      BY <1>1
    <3> QED BY <3>1, <3>2
  <2> QED BY <2>1, <2>2
<1>5. b <= t + 1
  BY DEF Consecutive
<1>6. Consecutive(r, b, t + 1)
  BY <1>2, <1>3, <1>4, <1>5 DEF Consecutive
<1> QED BY <1>6 DEF r

LEMMA ConsecutiveAppend ==
    ASSUME NEW S, NEW q \in Seq(S), NEW m \in S, NEW b \in Nat, NEW t \in Nat,
           Consecutive(q, b, t), ~IsData(m)
    PROVE  Consecutive(Append(q, m), b, t)
<1> DEFINE r == Append(q, m)
<1>1. /\ DOMAIN q = 1..Len(q) /\ DOMAIN r = 1..(Len(q) + 1) /\ Len(q) \in Nat
      /\ \A i \in 1..Len(q) : r[i] = q[i]
      /\ r[Len(q) + 1] = m
  OBVIOUS
<1> HIDE DEF r
<1>2. \A i \in DOMAIN r : IsData(r[i]) => i \in DOMAIN q /\ r[i] = q[i]
  BY <1>1
<1>3. \A i \in DOMAIN q : i \in DOMAIN r /\ r[i] = q[i]
  BY <1>1
<1> QED BY <1>2, <1>3 DEF Consecutive, r

LEMMA ConsecutiveTail ==
    ASSUME NEW S, NEW q \in Seq(S), q # <<>>, NEW b \in Nat, NEW t \in Nat,
           Consecutive(q, b, t), ~IsData(Head(q))
    PROVE  Consecutive(Tail(q), b, t)
<1> DEFINE r == Tail(q)
<1>1. /\ DOMAIN q = 1..Len(q) /\ DOMAIN r = 1..(Len(q) - 1) /\ Len(q) \in Nat /\ Len(q) > 0
      /\ \A i \in 1..(Len(q) - 1) : r[i] = q[i + 1]
      /\ q[1] = Head(q)
  OBVIOUS
<1> HIDE DEF r
<1>2. \A i \in DOMAIN r : i + 1 \in DOMAIN q /\ r[i] = q[i + 1]
  BY <1>1
<1>3. \A i \in DOMAIN q : IsData(q[i]) => i - 1 \in DOMAIN r /\ r[i - 1] = q[i]
  BY <1>1
<1>4. \A i, j \in DOMAIN r : i < j /\ IsData(r[i]) /\ IsData(r[j]) => r[i].n < r[j].n
  <2> SUFFICES ASSUME NEW i \in DOMAIN r, NEW j \in DOMAIN r, i < j, IsData(r[i]), IsData(r[j])
               PROVE  r[i].n < r[j].n
    OBVIOUS
  <2>1. i + 1 < j + 1 /\ i + 1 \in DOMAIN q /\ j + 1 \in DOMAIN q /\ r[i] = q[i + 1] /\ r[j] = q[j + 1]
    BY <1>1, <1>2
  <2> QED BY <2>1 DEF Consecutive
<1>5. \A i \in DOMAIN r : IsData(r[i]) => r[i].n \in (b + 1)..t
  BY <1>2 DEF Consecutive
<1>6. \A k \in (b + 1)..t : \E i \in DOMAIN r : IsData(r[i]) /\ r[i].n = k
  <2> SUFFICES ASSUME NEW k \in (b + 1)..t PROVE \E i \in DOMAIN r : IsData(r[i]) /\ r[i].n = k
    OBVIOUS
  <2>1. PICK i \in DOMAIN q : IsData(q[i]) /\ q[i].n = k
    BY DEF Consecutive
  <2> QED BY <2>1, <1>3
<1> QED BY <1>4, <1>5, <1>6 DEF Consecutive, r

LEMMA ConsecutiveTailData ==
    ASSUME NEW S, NEW q \in Seq(S), q # <<>>, NEW b \in Nat, NEW t \in Nat,
           Consecutive(q, b, t), IsData(Head(q))
    PROVE  Head(q).n = b + 1 /\ b + 1 <= t /\ Consecutive(Tail(q), b + 1, t)
<1> DEFINE r == Tail(q)
<1>1. /\ DOMAIN q = 1..Len(q) /\ DOMAIN r = 1..(Len(q) - 1) /\ Len(q) \in Nat /\ Len(q) > 0
      /\ \A i \in 1..(Len(q) - 1) : r[i] = q[i + 1]
      /\ q[1] = Head(q) /\ 1 \in DOMAIN q
  OBVIOUS
<1> HIDE DEF r
<1>2. \A i \in DOMAIN r : i + 1 \in DOMAIN q /\ r[i] = q[i + 1] /\ 1 < i + 1
  BY <1>1
<1>3. \A i \in DOMAIN q : i # 1 => i - 1 \in DOMAIN r /\ r[i - 1] = q[i] /\ 1 < i
  BY <1>1
<1>4. q[1].n \in (b + 1)..t
  BY <1>1 DEF Consecutive
<1>5. q[1].n = b + 1
  <2>1. PICK i \in DOMAIN q : IsData(q[i]) /\ q[i].n = b + 1
    <3>1. b + 1 \in (b + 1)..t
      BY <1>4
    <3> QED BY <3>1 DEF Consecutive
  <2>2. CASE i # 1
    <3>1. q[1].n < q[i].n
      BY <2>1, <2>2, <1>1, <1>3 DEF Consecutive
    <3> QED BY <3>1, <2>1, <1>4
  <2> QED BY <2>1, <2>2
<1>6. \A i \in DOMAIN r : IsData(r[i]) => r[i].n \in ((b + 1) + 1)..t
  <2> SUFFICES ASSUME NEW i \in DOMAIN r, IsData(r[i]) PROVE r[i].n \in ((b + 1) + 1)..t
    OBVIOUS
  <2>1. r[i] = q[i + 1] /\ i + 1 \in DOMAIN q /\ 1 < i + 1
    BY <1>2
  <2>2. q[1].n < q[i + 1].n /\ q[i + 1].n \in (b + 1)..t
    BY <2>1, <1>1 DEF Consecutive
  <2> QED BY <2>1, <2>2, <1>5
<1>7. \A i, j \in DOMAIN r : i < j /\ IsData(r[i]) /\ IsData(r[j]) => r[i].n < r[j].n
  <2> SUFFICES ASSUME NEW i \in DOMAIN r, NEW j \in DOMAIN r, i < j, IsData(r[i]), IsData(r[j])
               PROVE  r[i].n < r[j].n
    OBVIOUS
  <2>1. i + 1 < j + 1 /\ i + 1 \in DOMAIN q /\ j + 1 \in DOMAIN q /\ r[i] = q[i + 1] /\ r[j] = q[j + 1]
    BY <1>1, <1>2
  <2> QED BY <2>1 DEF Consecutive
<1>8. \A k \in ((b + 1) + 1)..t : \E i \in DOMAIN r : IsData(r[i]) /\ r[i].n = k
  <2> SUFFICES ASSUME NEW k \in ((b + 1) + 1)..t PROVE \E i \in DOMAIN r : IsData(r[i]) /\ r[i].n = k
    OBVIOUS
  <2>1. PICK i \in DOMAIN q : IsData(q[i]) /\ q[i].n = k
    BY DEF Consecutive
  <2>2. i # 1
    BY <2>1, <1>5
  <2> QED BY <2>1, <2>2, <1>3
<1>9. b + 1 <= t
  BY <1>4
<1>10. Consecutive(r, b + 1, t)
  BY <1>6, <1>7, <1>8, <1>9 DEF Consecutive
<1> QED BY <1>1, <1>5, <1>9, <1>10 DEF r

Over == {"ended", "done"}
None(q, t) == \A i \in DOMAIN q : q[i].type # t

\* A frame that a task has read and not yet queued is all it sends, and the latest.
Unsent == ~None(acc.out, "Data")
StreamUnsent == ~None(gw.out, "Data")
AccessOutOK ==
    \A i \in DOMAIN acc.out :
       /\ IsData(acc.out[i]) => Len(acc.out) = 1 /\ acc.out[i].n = up_sent
       /\ acc.out[i].type = "Open" => Len(acc.out) = 1
StreamOutOK ==
    \A i \in DOMAIN gw.out : IsData(gw.out[i]) => Len(gw.out) = 1 /\ gw.out[i].n = down_sent
OutOK == AccessOutOK /\ StreamOutOK

\* Before the gateway has connected, the access knows it and nothing was read;
\* there is one Open, ahead of everything else.
NotYet ==
    gw.pc \in {"none", "connecting"} =>
       /\ acc.open # "ok" /\ up_sent = 0 /\ down_sent = 0
       /\ gw.held = 0 /\ gw.out = <<>> /\ gw.chan = <<>> /\ ~gw.entry
       /\ None(g2a, "OpenOk")
ForwardingOpen == acc.pc = "forwarding" => acc.open = "ok"
OpenUnsent ==
    ~None(acc.out, "Open") => a2g = <<>> /\ g2a = <<>> /\ acc.held = 0 /\ gw.pc = "none"
OpenQueued ==
    \A i \in DOMAIN a2g :
       a2g[i].type = "Open" => i = 1 /\ gw.pc = "none" /\ None(acc.out, "Open")
OpeningOK == NotYet /\ ForwardingOpen /\ OpenUnsent /\ OpenQueued

\* The stream takes the data of the client, or has not got any yet.
Receiving == gw.pc \in {"none", "connecting"} \/ (gw.entry /\ gw.pc \in {"forwarding", "writing"})
Taken == Len(up_recv) + Len(gw.chan) + (IF gw.held # 0 THEN 1 ELSE 0)
UpQueued(t) ==
    /\ t \in Nat /\ t <= up_sent
    /\ Unsent => t = up_sent - 1
    /\ acc.pc # "done" /\ ~Unsent => t = up_sent
UpReceived ==
    /\ \A i \in DOMAIN up_recv : up_recv[i] = i
    /\ \A i \in DOMAIN gw.chan : gw.chan[i] = Len(up_recv) + i
    /\ Len(up_recv) + Len(gw.chan) <= up_sent
UpHeldNext ==
    gw.held # 0 /\ gw.pc \notin Over =>
       gw.held = Len(up_recv) + Len(gw.chan) + 1 /\ gw.held <= up_sent
UpComing == Receiving => \E t \in Nat : UpQueued(t) /\ Consecutive(a2g, Taken, t)
UploadOK == UpReceived /\ UpHeldNext /\ UpComing

\* The same at the access, for as long as its entry is there.
AccessTaken == Len(down_recv) + Len(acc.chan) + (IF acc.held # 0 THEN 1 ELSE 0)
DownQueued(t) ==
    /\ t \in Nat /\ t <= down_sent
    /\ StreamUnsent => t = down_sent - 1
    /\ gw.pc \notin Over /\ ~StreamUnsent => t = down_sent
DownReceived ==
    /\ \A i \in DOMAIN down_recv : down_recv[i] = i
    /\ \A i \in DOMAIN acc.chan : acc.chan[i] = Len(down_recv) + i
    /\ Len(down_recv) + Len(acc.chan) <= down_sent
DownHeldNext ==
    acc.held # 0 /\ acc.pc # "done" =>
       acc.held = Len(down_recv) + Len(acc.chan) + 1 /\ acc.held <= down_sent
DownComing ==
    acc.entry => /\ acc.pc # "done"
                 /\ \E t \in Nat : DownQueued(t) /\ Consecutive(g2a, AccessTaken, t)
DownloadOK == DownReceived /\ DownHeldNext /\ DownComing

Inductive == Typed /\ OutOK /\ OpeningOK /\ UploadOK /\ DownloadOK

\* The steps by who takes them.
Handler == AccessTask \/ ReadLocal \/ LocalEof \/ LocalFails \/ AccessOpenTimeout
Stream == StreamTask \/ Connect \/ ConnectFails \/ FinishWrite \/ ReadTarget \/ TargetEof
          \/ TargetFails
Break == AccessLosesSession \/ GatewayWriterEnds \/ GatewayLosesSession \/ LeaseRevoked

LEMMA Steps == Next => Handler \/ AccessReader \/ GatewayReader \/ Stream \/ Break
  BY DEF Next, Handler, Stream, Break, Sockets, Breaks

LEMMA Positions ==
    ASSUME NEW S, NEW q \in Seq(S)
    PROVE  /\ DOMAIN q = 1..Len(q) /\ Len(q) \in Nat
           /\ \A x \in S : /\ DOMAIN Append(q, x) = 1..(Len(q) + 1)
                           /\ \A i \in 1..Len(q) : Append(q, x)[i] = q[i]
                           /\ Append(q, x)[Len(q) + 1] = x
           /\ q # <<>> => /\ Len(q) > 0 /\ Head(q) = q[1]
                          /\ DOMAIN Tail(q) = 1..(Len(q) - 1)
                          /\ \A i \in 1..(Len(q) - 1) : Tail(q)[i] = q[i + 1]
  OBVIOUS

LEMMA HandlerFrame ==
    ASSUME Typed, AccessReader \/ GatewayReader \/ Stream \/ Break
    PROVE  acc'.out = acc.out /\ acc'.pc = acc.pc /\ up_sent' = up_sent /\ down_recv' = down_recv
<1>1. acc \in AccessState
  BY DEF Typed, AccessTyped
<1>2. CASE AccessReader
  BY <1>1, <1>2 DEF AccessReader, AccessDispatch, AccessDeliver, AccessState, payload
<1>3. CASE GatewayReader
  BY <1>3 DEF GatewayReader, GatewayDispatch, GatewayDeliver, payload
<1>4. CASE Stream
  BY <1>4 DEF Stream, StreamTask, StreamSends, ObserveCancel, BeginWrite, ShutdownTarget,
     StreamRevoked, StreamCleanup, Connect, ConnectFails, FinishWrite, ReadTarget, TargetEof,
     TargetFails, payload
<1>5. CASE Break
  BY <1>1, <1>5 DEF Break, AccessLosesSession, GatewayWriterEnds, GatewayLosesSession,
     LeaseRevoked, AccessState, payload
<1> QED BY <1>2, <1>3, <1>4, <1>5

LEMMA StreamFrame ==
    ASSUME Handler \/ AccessReader
    PROVE  gw' = gw /\ up_recv' = up_recv /\ down_sent' = down_sent
<1>1. CASE Handler
  BY <1>1 DEF Handler, AccessTask, AccessSends, AccessOpened, AccessOpenFailed, WriteLocal,
     ShutdownLocal, AccessReturns, ReadLocal, LocalEof, LocalFails, AccessOpenTimeout, payload
<1>2. CASE AccessReader
  BY <1>2 DEF AccessReader, AccessDispatch, AccessDeliver, payload
<1> QED BY <1>1, <1>2

\* What a step of the handler makes of what it sends.
LEMMA HandlerOut ==
    ASSUME Typed, Handler
    PROVE  \/ AccessSends /\ acc'.out = Tail(acc.out) /\ acc'.pc = acc.pc /\ up_sent' = up_sent
              /\ acc.out # <<>> /\ a2g' = Append(a2g, Head(acc.out))
           \/ ReadLocal /\ acc.out = <<>> /\ acc'.out = <<Data(up_sent + 1)>>
              /\ acc.pc = "forwarding" /\ acc'.pc = "forwarding" /\ up_sent' = up_sent + 1 /\ a2g' = a2g
           \/ /\ up_sent' = up_sent /\ a2g' = a2g
              /\ \/ acc'.out = acc.out /\ (acc'.pc = "done" \/ acc.pc # "done")
                 \/ acc'.out = <<>> /\ acc'.pc = "done"
                 \/ /\ acc.out = <<>> /\ acc.pc # "done"
                    /\ acc'.out # <<>>
                    /\ \A i \in DOMAIN acc'.out : acc'.out[i].type \in {"TcpEof", "Close"}
<1>1. acc \in AccessState
  BY DEF Typed, AccessTyped
<1>b. \A out \in {<<>>, <<Control("TcpEof")>>} :
         LET q == Append(out, Control("Close"))
         IN  q # <<>> /\ \A i \in DOMAIN q : q[i].type \in {"TcpEof", "Close"}
  <2> DEFINE e == Control("TcpEof")
             c == Control("Close")
             S == {e, c}
  <2>1. \A m \in S : m.type \in {"TcpEof", "Close"}
    BY DEF Control
  <2>2. e \in S /\ c \in S
    OBVIOUS
  <2> HIDE DEF e, c, S
  <2>3. <<>> \in Seq(S) /\ <<e>> \in Seq(S)
    BY <2>2, Queues
  <2>4. \A out \in Seq(S) : Append(out, c) \in Seq(S) /\ Append(out, c) # <<>>
    <3>1. \A out \in Seq(S) : Append(out, c) \in Seq(S) /\ Len(Append(out, c)) > 0
      BY <2>2, Queues
    <3> QED BY <3>1
  <2>5. \A q \in Seq(S) : \A i \in DOMAIN q : q[i] \in S
    OBVIOUS
  <2>6. \A out \in {<<>>, <<e>>} :
           LET q == Append(out, c)
           IN  q # <<>> /\ \A i \in DOMAIN q : q[i].type \in {"TcpEof", "Close"}
    BY <2>1, <2>3, <2>4, <2>5
  <2> QED BY <2>6 DEF e, c
<1>2. CASE AccessSends
  BY <1>1, <1>2 DEF AccessSends, AccessState, payload
<1>3. CASE ReadLocal
  BY <1>1, <1>3 DEF ReadLocal, Forwarding, AccessState
<1>4. CASE AccessOpened \/ AccessOpenFailed
  BY <1>1, <1>4 DEF AccessOpened, AccessOpenFailed, AccessState, payload
<1>5. CASE WriteLocal
  BY <1>1, <1>5 DEF WriteLocal, Forwarding, AccessState
<1>6. CASE ShutdownLocal
  <2>1. acc.out = <<>> /\ acc.pc = "forwarding" /\ up_sent' = up_sent /\ a2g' = a2g
    BY <1>6 DEF ShutdownLocal, Forwarding, payload
  <2>2. (acc'.out = acc.out /\ acc'.pc = acc.pc) \/ acc'.out = Append(acc.out, Control("Close"))
    BY <1>1, <1>6 DEF ShutdownLocal, AccessBreak, AccessState
  <2> QED BY <2>1, <2>2, <1>b
<1>7. CASE AccessReturns
  BY <1>1, <1>7 DEF AccessReturns, AccessState, payload
<1>8. CASE LocalEof
  <2>1. acc.out = <<>> /\ acc.pc = "forwarding" /\ up_sent' = up_sent /\ a2g' = a2g
    BY <1>8 DEF LocalEof, Forwarding, payload
  <2>2. acc'.out = <<Control("TcpEof")>> \/ acc'.out = Append(<<Control("TcpEof")>>, Control("Close"))
    BY <1>1, <1>8 DEF LocalEof, AccessBreak, AccessState
  <2>3. CASE acc'.out = <<Control("TcpEof")>>
    BY <2>1, <2>3 DEF Control
  <2> QED BY <2>1, <2>2, <2>3, <1>b
<1>9. CASE LocalFails
  <2>1. acc.out = <<>> /\ acc.pc = "forwarding" /\ up_sent' = up_sent /\ a2g' = a2g
    BY <1>9 DEF LocalFails, Forwarding, payload
  <2>2. acc'.out = Append(acc.out, Control("Close"))
    BY <1>1, <1>9 DEF LocalFails, AccessBreak, AccessState
  <2> QED BY <2>1, <2>2, <1>b
<1>10. CASE AccessOpenTimeout
  <2>1. /\ acc.out = <<>> /\ acc.pc # "done" /\ acc'.out = <<Control("Close")>>
        /\ up_sent' = up_sent /\ a2g' = a2g
    BY <1>1, <1>10 DEF AccessOpenTimeout, AccessState, payload
  <2>2. \A i \in DOMAIN <<Control("Close")>> : <<Control("Close")>>[i].type \in {"TcpEof", "Close"}
    BY DEF Control
  <2> QED BY <2>1, <2>2
<1> QED BY <1>2, <1>3, <1>4, <1>5, <1>6, <1>7, <1>8, <1>9, <1>10 DEF Handler, AccessTask

LEMMA AccessOutNext ==
    ASSUME Typed, AccessOutOK, Handler \/ AccessReader \/ GatewayReader \/ Stream \/ Break
    PROVE  AccessOutOK'
<1>1. CASE ~Handler
  BY <1>1, HandlerFrame DEF AccessOutOK
<1>2. CASE Handler
  <2>0. acc.out \in Ups
    BY DEF Typed, AccessTyped, AccessState
  <2>1. CASE acc'.out = Tail(acc.out) /\ up_sent' = up_sent /\ acc.out # <<>>
    <3>1. /\ DOMAIN acc.out = 1..Len(acc.out) /\ DOMAIN acc'.out = 1..(Len(acc.out) - 1)
          /\ \A i \in DOMAIN acc'.out : acc'.out[i] = acc.out[i + 1]
      BY <2>0, <2>1, Positions DEF Ups
    <3>2. Len(acc.out) \in Nat
      BY <2>0, UpsFacts
    <3>3. \A i \in DOMAIN acc'.out : i + 1 \in DOMAIN acc.out /\ Len(acc.out) # 1
      BY <3>1, <3>2
    <3> QED BY <2>1, <3>1, <3>3 DEF AccessOutOK
  <2>2. CASE acc'.out = <<Data(up_sent + 1)>> /\ up_sent' = up_sent + 1
    BY <2>2 DEF AccessOutOK, Data, IsData
  <2>3. CASE up_sent' = up_sent /\ acc'.out \in {acc.out, <<>>}
    BY <2>3 DEF AccessOutOK
  <2>4. CASE \A i \in DOMAIN acc'.out : acc'.out[i].type \in {"TcpEof", "Close"}
    BY <2>4 DEF AccessOutOK, IsData
  <2> QED BY <1>2, <2>1, <2>2, <2>3, <2>4, HandlerOut
<1> QED BY <1>1, <1>2

\* What a step of the stream task makes of what it sends.
LEMMA StreamOut ==
    ASSUME Typed, Stream
    PROVE  /\ a2g' = a2g
           /\ \/ StreamSends /\ gw.out # <<>> /\ down_sent' = down_sent /\ up_recv' = up_recv
                 /\ (\/ gw'.out = Tail(gw.out) /\ gw'.pc = gw.pc /\ gw'.chan = gw.chan
                     \/ gw'.out = <<>> /\ gw'.pc = "ended" /\ gw'.chan = <<>>)
              \/ ReadTarget /\ gw.out = <<>> /\ gw'.out = <<Data(down_sent + 1)>> /\ gw'.pc = gw.pc
                 /\ gw.pc = "forwarding" /\ down_sent' = down_sent + 1 /\ g2a' = g2a
              \/ /\ down_sent' = down_sent /\ g2a' = g2a
                 /\ \/ gw'.out = gw.out /\ gw.pc \notin Over /\ gw'.pc # "done"
                       /\ gw'.pc \notin {"none", "connecting"}
                    \/ gw'.out = <<>> /\ gw'.pc = "ended" /\ gw.pc \notin Over
                    \/ /\ gw.out = <<>> /\ gw'.out # <<>>
                       /\ ~Connect => gw.pc \in {"forwarding", "ended"}
                       /\ gw'.pc \notin {"none", "connecting"}
                       /\ gw'.pc \in Over \/ gw.pc \notin Over
                       /\ \A i \in DOMAIN gw'.out : gw'.out[i].type \in {"OpenOk", "TcpEof", "Error", "Close"}
                    \/ Connect
<1>1. gw \in StreamState
  BY DEF Typed, StreamTyped
<1>2. CASE StreamSends
  BY <1>1, <1>2 DEF StreamSends, StreamState, payload
<1>3. CASE ReadTarget
  BY <1>1, <1>3 DEF ReadTarget, Selecting, StreamState
<1>4. CASE ObserveCancel \/ BeginWrite \/ ShutdownTarget \/ StreamRevoked \/ ConnectFails \/ TargetFails
  BY <1>1, <1>4 DEF ObserveCancel, BeginWrite, ShutdownTarget, StreamRevoked, ConnectFails,
                    TargetFails, Selecting, StreamState, payload, Over
<1>5. CASE FinishWrite
  BY <1>1, <1>5 DEF FinishWrite, StreamState, Over
<1>6. CASE StreamCleanup
  <2>1. /\ gw.out = <<>> /\ gw.pc = "ended" /\ gw'.pc = "done" /\ a2g' = a2g
        /\ down_sent' = down_sent /\ g2a' = g2a
        /\ gw'.out \in {<<Control("Error"), Control("Close")>>, <<Control("Close")>>}
    BY <1>1, <1>6 DEF StreamCleanup, StreamState, payload
  <2>2. \A q \in {<<Control("Error"), Control("Close")>>, <<Control("Close")>>} :
           q # <<>> /\ \A i \in DOMAIN q : q[i].type \in {"Error", "Close"}
    BY DEF Control
  <2>3. gw'.out # <<>> /\ \A i \in DOMAIN gw'.out : gw'.out[i].type \in {"Error", "Close"}
    BY <2>1, <2>2
  <2> QED BY <2>1, <2>3 DEF Over
<1>7. CASE TargetEof
  <2>1. /\ gw.out = <<>> /\ gw.pc = "forwarding" /\ gw'.pc \in {"ended", "forwarding"} /\ a2g' = a2g
        /\ down_sent' = down_sent /\ g2a' = g2a /\ gw'.out = <<Control("TcpEof")>>
    BY <1>1, <1>7 DEF TargetEof, Selecting, StreamState, payload
  <2>2. \A i \in DOMAIN gw'.out : gw'.out[i].type = "TcpEof"
    BY <2>1 DEF Control
  <2> QED BY <2>1, <2>2 DEF Over
<1>8. CASE Connect
  BY <1>8 DEF Connect, payload
<1> QED BY <1>2, <1>3, <1>4, <1>5, <1>6, <1>7, <1>8 DEF Stream, StreamTask

LEMMA ConnectOut ==
    ASSUME Typed, Connect
    PROVE  /\ gw.pc = "connecting" /\ gw'.pc = "forwarding" /\ gw'.out = <<Control("OpenOk")>>
           /\ gw'.entry /\ gw'.chan = gw.chan /\ gw'.held = gw.held /\ a2g' = a2g /\ g2a' = g2a
           /\ up_recv' = up_recv /\ down_sent' = down_sent
  BY DEF Typed, StreamTyped, StreamState, Connect, payload

\* The readers and the breaks leave alone what the task is sending.
LEMMA StreamOutFrame ==
    ASSUME Typed, Handler \/ AccessReader \/ GatewayReader \/ Break
    PROVE  /\ gw'.out = gw.out /\ down_sent' = down_sent /\ up_recv' = up_recv
           /\ ~(GatewayDispatch /\ Head(a2g).type = "Open") => gw'.pc = gw.pc
<1>1. gw \in StreamState
  BY DEF Typed, StreamTyped
<1>2. CASE Handler \/ AccessReader
  BY <1>2, StreamFrame
<1>3. CASE GatewayDeliver \/ Break
  BY <1>1, <1>3 DEF GatewayDeliver, Break, AccessLosesSession, GatewayWriterEnds,
     GatewayLosesSession, LeaseRevoked, Cancelled, StreamState, payload
<1>4. CASE GatewayDispatch
  BY <1>1, <1>4 DEF GatewayDispatch, Cancelled, StreamState, payload
<1> QED BY <1>2, <1>3, <1>4 DEF GatewayReader

LEMMA StreamOutNext ==
    ASSUME Typed, StreamOutOK, Handler \/ AccessReader \/ GatewayReader \/ Stream \/ Break
    PROVE  StreamOutOK'
<1>1. CASE ~Stream
  BY <1>1, StreamOutFrame DEF StreamOutOK
<1>2. CASE Stream
  <2>0. gw.out \in Downs
    BY DEF Typed, StreamTyped, StreamState
  <2>1. CASE gw'.out = Tail(gw.out) /\ down_sent' = down_sent /\ gw.out # <<>>
    <3>1. /\ DOMAIN gw.out = 1..Len(gw.out) /\ DOMAIN gw'.out = 1..(Len(gw.out) - 1)
          /\ \A i \in DOMAIN gw'.out : gw'.out[i] = gw.out[i + 1]
      BY <2>0, <2>1, Positions DEF Downs
    <3>2. Len(gw.out) \in Nat
      BY <2>0, DownsFacts
    <3>3. \A i \in DOMAIN gw'.out : i + 1 \in DOMAIN gw.out /\ Len(gw.out) # 1
      BY <3>1, <3>2
    <3> QED BY <2>1, <3>1, <3>3 DEF StreamOutOK
  <2>2. CASE gw'.out = <<Data(down_sent + 1)>> /\ down_sent' = down_sent + 1
    BY <2>2 DEF StreamOutOK, Data, IsData
  <2>3. CASE down_sent' = down_sent /\ gw'.out \in {gw.out, <<>>}
    BY <2>3 DEF StreamOutOK
  <2>4. CASE \A i \in DOMAIN gw'.out : gw'.out[i].type \in {"OpenOk", "TcpEof", "Error", "Close"}
    BY <2>4 DEF StreamOutOK, IsData
  <2>5. CASE Connect
    BY <2>5, ConnectOut DEF StreamOutOK, IsData, Control
  <2> QED BY <1>2, <2>1, <2>2, <2>3, <2>4, <2>5, StreamOut
<1> QED BY <1>1, <1>2

\* The other fields that the steps of each actor change.
LEMMA HandlerFields ==
    ASSUME Typed, Handler
    PROVE  /\ g2a' = g2a /\ acc'.open \in {acc.open, "err"} /\ acc'.held = acc.held
           /\ acc'.entry => acc.entry
           /\ acc'.pc = "forwarding" => \/ acc'.open = "ok"
                                        \/ acc.pc = "forwarding" /\ acc'.open = acc.open
           /\ acc'.pc = "done" => ~acc'.entry \/ acc.pc = "done"
           /\ acc.pc = "done" => acc'.pc = "done"
           /\ \/ down_recv' = down_recv /\ acc'.chan = acc.chan
              \/ down_recv' = down_recv /\ acc'.chan = <<>> /\ acc'.pc = "done"
              \/ /\ acc.chan # <<>> /\ down_recv' = Append(down_recv, Head(acc.chan))
                 /\ acc'.chan = Tail(acc.chan) /\ acc'.pc = acc.pc /\ acc.pc # "done"
<1>1. acc \in AccessState
  BY DEF Typed, AccessTyped
<1>2. CASE AccessSends
  BY <1>1, <1>2 DEF AccessSends, AccessState, payload
<1>3. CASE AccessOpened
  BY <1>1, <1>3 DEF AccessOpened, AccessState, payload
<1>4. CASE WriteLocal
  BY <1>1, <1>4 DEF WriteLocal, Forwarding, AccessState
<1>5. CASE ShutdownLocal
  BY <1>1, <1>5 DEF ShutdownLocal, Forwarding, AccessBreak, AccessState, payload
<1>6. CASE AccessReturns
  BY <1>1, <1>6 DEF AccessReturns, AccessState, payload
<1>7. CASE ReadLocal
  BY <1>1, <1>7 DEF ReadLocal, Forwarding, AccessState
<1>8. CASE LocalEof
  BY <1>1, <1>8 DEF LocalEof, Forwarding, AccessBreak, AccessState, payload
<1>9. CASE LocalFails
  BY <1>1, <1>9 DEF LocalFails, Forwarding, AccessBreak, AccessState, payload
<1>10. CASE AccessOpenFailed \/ AccessOpenTimeout
  BY <1>1, <1>10 DEF AccessOpenFailed, AccessOpenTimeout, AccessState, payload
<1> QED BY <1>2, <1>3, <1>4, <1>5, <1>6, <1>7, <1>8, <1>9, <1>10 DEF Handler, AccessTask

LEMMA AccessDispatchFields ==
    ASSUME Typed, AccessDispatch
    PROVE  /\ g2a # <<>> /\ g2a' = Tail(g2a) /\ acc.held = 0
           /\ acc'.open \in {acc.open, "err"} \/ (Head(g2a).type = "OpenOk" /\ acc.open = "pending")
           /\ a2g' \in {a2g, Append(a2g, Control("Close"))}
           /\ acc'.open # acc.open => acc.open = "pending"
           /\ acc'.entry => acc.entry
           /\ acc'.chan = acc.chan
           /\ acc'.held = IF Head(g2a).type = "Data" /\ acc.entry THEN Head(g2a).n ELSE 0
<1>1. acc \in AccessState
  BY DEF Typed, AccessTyped
<1>2. g2a # <<>> /\ g2a' = Tail(g2a) /\ acc.held = 0
  BY DEF AccessDispatch
<1>3. a2g' \in {a2g, Append(a2g, Control("Close"))}
  BY DEF AccessDispatch
<1>4. /\ acc'.open = IF acc.open # "pending" THEN acc.open
                     ELSE IF Head(g2a).type = "OpenOk" THEN "ok"
                     ELSE IF Head(g2a).type \in {"Error", "Close"} THEN "err" ELSE acc.open
      /\ acc'.chan = acc.chan
      /\ acc'.held = IF Head(g2a).type = "Data" /\ acc.entry THEN Head(g2a).n ELSE acc.held
  BY <1>1 DEF AccessDispatch, AccessState
<1>5. acc'.entry = (acc.entry /\ Head(g2a).type \notin {"Close", "TcpEof"})
  BY <1>1 DEF AccessDispatch, AccessState
<1>6. acc'.open \in {acc.open, "err"} \/ (Head(g2a).type = "OpenOk" /\ acc.open = "pending")
  BY <1>4
<1>7. acc'.open # acc.open => acc.open = "pending"
  BY <1>4
<1>8. acc'.entry => acc.entry
  BY <1>5
<1>9. acc'.held = IF Head(g2a).type = "Data" /\ acc.entry THEN Head(g2a).n ELSE 0
  BY <1>2, <1>4
<1> QED BY <1>2, <1>3, <1>4, <1>6, <1>7, <1>8, <1>9

LEMMA AccessDeliverFields ==
    ASSUME Typed, AccessDeliver
    PROVE  /\ g2a' = g2a /\ acc'.open = acc.open /\ acc.held # 0 /\ acc'.held = 0
           /\ \/ acc.pc # "done" /\ acc'.chan = Append(acc.chan, acc.held) /\ acc'.entry = acc.entry
                 /\ a2g' = a2g
              \/ acc.pc = "done" /\ acc'.chan = acc.chan /\ ~acc'.entry
                 /\ a2g' = Append(a2g, Control("Close"))
  BY DEF Typed, AccessTyped, AccessState, AccessDeliver

LEMMA GatewayDispatchFields ==
    ASSUME Typed, GatewayDispatch
    PROVE  /\ a2g # <<>> /\ a2g' = Tail(a2g) /\ acc' = acc /\ gw.held = 0
           /\ g2a' \in {g2a, Append(g2a, Control("Error"))}
           /\ gw'.chan = gw.chan
           /\ \/ Head(a2g).type = "Open" /\ gw'.pc \in {gw.pc, "connecting"} /\ gw'.entry = gw.entry
                 /\ gw'.held = 0
              \/ Head(a2g).type \in {"TcpEof", "Close"} /\ gw'.pc = gw.pc /\ ~gw'.entry /\ gw'.held = 0
              \/ Head(a2g).type = "Data" /\ gw'.pc = gw.pc /\ gw'.entry = gw.entry
                 /\ gw'.held = IF gw.entry THEN Head(a2g).n ELSE 0
  BY DEF Typed, StreamTyped, StreamState, GatewayDispatch, Cancelled, Post

LEMMA GatewayDeliverFields ==
    ASSUME Typed, GatewayDeliver
    PROVE  /\ a2g' = a2g /\ acc' = acc /\ gw.held # 0 /\ gw'.held = 0 /\ gw'.pc = gw.pc
           /\ g2a' \in {g2a, Append(g2a, Control("Close"))}
           /\ \/ gw.pc \notin Over /\ gw'.chan = Append(gw.chan, gw.held) /\ gw'.entry = gw.entry
              \/ gw.pc \in Over /\ gw'.chan = gw.chan /\ ~gw'.entry
  BY DEF Typed, StreamTyped, StreamState, GatewayDeliver, Post, Over

LEMMA BreakFields ==
    ASSUME Typed, Break
    PROVE  /\ a2g' = a2g /\ g2a' = g2a
           /\ acc'.open \in {acc.open, "err"}
           /\ acc'.open # acc.open => acc.open = "pending"
           /\ acc'.held \in {0, acc.held} /\ acc'.chan = acc.chan
           /\ acc'.entry => acc.entry /\ acc'.held = acc.held
           /\ gw'.held \in {0, gw.held} /\ gw'.chan = gw.chan
           /\ gw'.entry => gw.entry /\ gw'.held = gw.held
<1>1. acc \in AccessState /\ gw \in StreamState
  BY DEF Typed, AccessTyped, StreamTyped
<1>2. CASE AccessLosesSession \/ GatewayWriterEnds
  BY <1>1, <1>2 DEF AccessLosesSession, GatewayWriterEnds, AccessState
<1>3. CASE GatewayLosesSession
  BY <1>1, <1>3 DEF GatewayLosesSession, Cancelled, StreamState
<1>4. CASE LeaseRevoked
  <2>1. gw'.held = 0 /\ ~gw'.entry /\ gw'.chan = gw.chan
    BY <1>1, <1>4 DEF LeaseRevoked, Cancelled, StreamState
  <2> QED BY <1>4, <2>1 DEF LeaseRevoked
<1> QED BY <1>2, <1>3, <1>4 DEF Break

LEMMA StreamFields ==
    ASSUME Typed, Stream
    PROVE  /\ acc' = acc /\ gw'.held = gw.held
           /\ ~Connect => (gw'.entry => gw.entry)
           /\ gw.pc \in Over => gw'.pc \in Over
           /\ gw.pc \in {"none", "connecting"} => StreamSends \/ Connect \/ gw'.pc = "ended"
           /\ \/ up_recv' = up_recv /\ gw'.chan = gw.chan
              \/ up_recv' = up_recv /\ gw'.chan = <<>> /\ gw'.pc \in Over
              \/ /\ gw.pc = "writing" /\ gw'.pc = "forwarding" /\ gw.chan # <<>>
                 /\ up_recv' = Append(up_recv, Head(gw.chan)) /\ gw'.chan = Tail(gw.chan)
<1>1. gw \in StreamState /\ (gw.pc = "writing" => gw.chan # <<>>)
  BY DEF Typed, StreamTyped
<1>2. CASE StreamSends
  BY <1>1, <1>2 DEF StreamSends, StreamState, payload, Over
<1>3. CASE ReadTarget
  BY <1>1, <1>3 DEF ReadTarget, Selecting, StreamState, Over
<1>4. CASE ObserveCancel \/ BeginWrite
  BY <1>1, <1>4 DEF ObserveCancel, BeginWrite, Selecting, StreamState, payload, Over
<1>5. CASE FinishWrite
  BY <1>1, <1>5 DEF FinishWrite, StreamState, Over
<1>6. CASE StreamCleanup
  BY <1>1, <1>6 DEF StreamCleanup, StreamState, payload, Over
<1>7. CASE TargetEof
  BY <1>1, <1>7 DEF TargetEof, Selecting, StreamState, payload, Over
<1>8. CASE Connect
  BY <1>1, <1>8 DEF Connect, StreamState, payload, Over
<1>9. CASE ShutdownTarget
  BY <1>1, <1>9 DEF ShutdownTarget, Selecting, StreamState, payload, Over
<1>10. CASE StreamRevoked \/ ConnectFails \/ TargetFails
  BY <1>1, <1>10 DEF StreamRevoked, ConnectFails, TargetFails, Selecting, StreamState, payload, Over
<1> QED BY <1>2, <1>3, <1>4, <1>5, <1>6, <1>7, <1>8, <1>9, <1>10 DEF Stream, StreamTask

LEMMA TailOfOne ==
    ASSUME NEW S, NEW q \in Seq(S), Len(q) = 1
    PROVE  \A t : None(Tail(q), t)
<1>1. q # <<>>
  OBVIOUS
<1>2. DOMAIN Tail(q) = 1..(Len(q) - 1)
  BY <1>1, Positions
<1>3. \A i \in 1..(Len(q) - 1) : FALSE
  OBVIOUS
<1> QED BY <1>2, <1>3 DEF None

\* None after Append and Tail.
LEMMA NoneFacts ==
    ASSUME NEW S, NEW q \in Seq(S), NEW t
    PROVE  /\ None(<<>>, t)
           /\ \A x \in S : None(q, t) /\ x.type # t => None(Append(q, x), t)
           /\ q # <<>> /\ None(q, t) => None(Tail(q), t) /\ Head(q).type # t
<1>1. \A x \in S : None(q, t) /\ x.type # t => None(Append(q, x), t)
  BY Positions DEF None
<1>2. q # <<>> /\ None(q, t) => None(Tail(q), t) /\ Head(q).type # t
  <2> SUFFICES ASSUME q # <<>>, None(q, t) PROVE None(Tail(q), t) /\ Head(q).type # t
    OBVIOUS
  <2>1. /\ DOMAIN q = 1..Len(q) /\ Len(q) \in Nat /\ Len(q) > 0 /\ Head(q) = q[1]
        /\ DOMAIN Tail(q) = 1..(Len(q) - 1)
        /\ \A i \in 1..(Len(q) - 1) : Tail(q)[i] = q[i + 1]
    BY Positions
  <2>2. \A i \in DOMAIN Tail(q) : i + 1 \in DOMAIN q /\ Tail(q)[i] = q[i + 1]
    BY <2>1
  <2>3. 1 \in DOMAIN q
    BY <2>1
  <2> QED BY <2>1, <2>2, <2>3 DEF None
<1> QED BY <1>1, <1>2 DEF None

LEMMA NotYetNext ==
    ASSUME Typed, OpeningOK, UploadOK, Handler \/ AccessReader \/ GatewayReader \/ Stream \/ Break
    PROVE  NotYet'
<1> SUFFICES ASSUME gw'.pc \in {"none", "connecting"} PROVE NotYet'
  BY DEF NotYet
<1>q. g2a \in Downs /\ a2g \in Ups
  BY DEF Typed, QueuesTyped
<1>c. Control("Error") \in Down /\ Control("Close") \in Down
  BY Messages
<1>n. /\ Control("Error").type # "OpenOk" /\ Control("Close").type # "OpenOk"
  BY DEF Control
<1>1. CASE Handler
  <2>1. gw' = gw /\ down_sent' = down_sent /\ g2a' = g2a /\ acc'.open \in {acc.open, "err"}
    BY <1>1, StreamFrame, HandlerFields
  <2>2. acc.pc # "forwarding"
    BY <2>1 DEF OpeningOK, NotYet, ForwardingOpen
  <2>3. up_sent' = up_sent
    BY <1>1, <2>2, HandlerOut
  <2> QED BY <2>1, <2>3 DEF OpeningOK, NotYet
<1>2. CASE AccessReader
  <2>1. gw' = gw /\ down_sent' = down_sent /\ up_sent' = up_sent
    BY <1>2, StreamFrame, HandlerFrame
  <2>2. CASE AccessDispatch
    <3>1. None(g2a, "OpenOk")
      BY <2>1 DEF OpeningOK, NotYet
    <3>2. None(g2a', "OpenOk") /\ acc'.open \in {acc.open, "err"}
      <4>1. g2a # <<>> /\ g2a' = Tail(g2a) /\ g2a \in Seq(Down)
        BY <2>2, <1>q, AccessDispatchFields DEF Downs
      <4>2. None(Tail(g2a), "OpenOk") /\ Head(g2a).type # "OpenOk"
        BY <3>1, <4>1, NoneFacts
      <4> QED BY <2>2, <4>1, <4>2, AccessDispatchFields
    <3> QED BY <2>1, <3>2 DEF OpeningOK, NotYet
  <2>3. CASE AccessDeliver
    BY <2>1, <2>3, AccessDeliverFields DEF OpeningOK, NotYet
  <2> QED BY <1>2, <2>2, <2>3 DEF AccessReader
<1>3. CASE GatewayDispatch
  <2>1. /\ gw'.out = gw.out /\ down_sent' = down_sent /\ up_sent' = up_sent
        /\ Head(a2g).type # "Open" => gw'.pc = gw.pc
    BY <1>3, StreamOutFrame, HandlerFrame DEF GatewayReader
  <2>2. gw.pc \in {"none", "connecting"}
    <3>1. CASE Head(a2g).type = "Open"
      <4>1. 1 \in DOMAIN a2g /\ a2g[1] = Head(a2g)
        <5>1. a2g # <<>>
          BY <1>3, GatewayDispatchFields
        <5> QED BY <5>1, <1>q, Positions DEF Ups
      <4> QED BY <3>1, <4>1 DEF OpeningOK, OpenQueued
    <3> QED BY <3>1, <2>1
  <2>3. /\ acc.open # "ok" /\ up_sent = 0 /\ down_sent = 0 /\ gw.out = <<>> /\ gw.chan = <<>> /\ ~gw.entry
        /\ None(g2a, "OpenOk")
    BY <2>2 DEF OpeningOK, NotYet
  <2>4. None(g2a', "OpenOk")
    <3>1. g2a \in Seq(Down)
      BY <1>q DEF Downs
    <3>2. None(Append(g2a, Control("Error")), "OpenOk")
      BY <3>1, <2>3, <1>c, <1>n, NoneFacts
    <3> QED BY <1>3, <2>3, <3>2, GatewayDispatchFields
  <2>5. acc'.open = acc.open /\ gw'.chan = gw.chan
    BY <1>3, GatewayDispatchFields
  <2>6. gw'.held = 0 /\ ~gw'.entry
    BY <1>3, <2>3, GatewayDispatchFields
  <2> QED BY <2>1, <2>3, <2>4, <2>5, <2>6 DEF NotYet
<1>4. CASE GatewayDeliver
  BY <1>4, GatewayDeliverFields DEF OpeningOK, NotYet
<1>5. CASE Stream
  <2>1. gw.pc \in {"none", "connecting"} /\ StreamSends
    BY <1>5, StreamOut, ConnectOut DEF Over
  <2> QED BY <2>1 DEF StreamSends, OpeningOK, NotYet
<1>6. CASE Break
  <2>1. gw'.pc = gw.pc /\ gw'.out = gw.out /\ down_sent' = down_sent /\ up_sent' = up_sent
    BY <1>6, StreamOutFrame, HandlerFrame DEF Break, GatewayDispatch, AccessLosesSession,
       GatewayWriterEnds, GatewayLosesSession, LeaseRevoked
  <2> QED BY <1>6, <2>1, BreakFields DEF OpeningOK, NotYet
<1> QED BY <1>1, <1>2, <1>3, <1>4, <1>5, <1>6 DEF GatewayReader

LEMMA ForwardingOpenNext ==
    ASSUME Typed, ForwardingOpen, Handler \/ AccessReader \/ GatewayReader \/ Stream \/ Break
    PROVE  ForwardingOpen'
<1>1. CASE Handler
  BY <1>1, HandlerFields DEF ForwardingOpen
<1>2. CASE AccessReader
  BY <1>2, HandlerFrame, AccessDispatchFields, AccessDeliverFields DEF ForwardingOpen, AccessReader
<1>3. CASE GatewayReader
  BY <1>3, GatewayDispatchFields, GatewayDeliverFields DEF ForwardingOpen, GatewayReader
<1>4. CASE Stream
  BY <1>4, StreamFields DEF ForwardingOpen
<1>5. CASE Break
  BY <1>5, HandlerFrame, BreakFields DEF ForwardingOpen
<1> QED BY <1>1, <1>2, <1>3, <1>4, <1>5

LEMMA OpenUnsentNext ==
    ASSUME Typed, OutOK, OpeningOK, Handler \/ AccessReader \/ GatewayReader \/ Stream \/ Break
    PROVE  OpenUnsent'
<1> SUFFICES ASSUME ~None(acc'.out, "Open")
             PROVE  a2g' = <<>> /\ g2a' = <<>> /\ acc'.held = 0 /\ gw'.pc = "none"
  BY DEF OpenUnsent
<1>q. g2a \in Downs /\ a2g \in Ups /\ acc.out \in Ups
  BY DEF Typed, QueuesTyped, AccessTyped, AccessState
<1>1. CASE Handler
  <2>1. acc'.out = acc.out /\ a2g' = a2g
    <3>1. ~ \A i \in DOMAIN acc'.out : acc'.out[i].type \in {"TcpEof", "Close"}
      BY DEF None
    <3>2. acc'.out # <<Data(up_sent + 1)>>
      BY DEF None, Data
    <3>3. acc'.out # <<>>
      BY DEF None
    <3>4. ~(acc'.out = Tail(acc.out) /\ acc.out # <<>>)
      <4> SUFFICES ASSUME acc'.out = Tail(acc.out), acc.out # <<>> PROVE FALSE
        OBVIOUS
      <4>1. ~None(acc.out, "Open")
        BY <1>q, NoneFacts DEF Ups
      <4>2. Len(acc.out) = 1
        BY <4>1 DEF None, OutOK, AccessOutOK
      <4> QED BY <4>2, <1>q, TailOfOne DEF Ups
    <3> QED BY <1>1, <3>1, <3>2, <3>3, <3>4, HandlerOut
  <2>2. g2a' = g2a /\ acc'.held = acc.held /\ gw' = gw
    BY <1>1, HandlerFields, StreamFrame
  <2> QED BY <2>1, <2>2 DEF OpeningOK, OpenUnsent
<1>2. CASE ~Handler
  <2>1. /\ a2g = <<>> /\ g2a = <<>> /\ acc.held = 0 /\ gw.pc = "none"
        /\ gw.held = 0 /\ gw.out = <<>>
    BY <1>2, HandlerFrame DEF OpeningOK, OpenUnsent, NotYet
  <2>2. ~AccessReader /\ ~GatewayReader
    BY <2>1, AccessDispatchFields, AccessDeliverFields, GatewayDispatchFields, GatewayDeliverFields
       DEF AccessReader, GatewayReader
  <2>3. CASE Stream
    BY <2>1, <2>3 DEF Stream, StreamTask, StreamSends, ObserveCancel, BeginWrite, ShutdownTarget,
       StreamRevoked, StreamCleanup, Connect, ConnectFails, FinishWrite, ReadTarget, TargetEof,
       TargetFails, Selecting
  <2>4. CASE Break
    <3>1. gw'.pc = gw.pc
      BY <2>4, StreamOutFrame DEF Break, GatewayDispatch, AccessLosesSession,
         GatewayWriterEnds, GatewayLosesSession, LeaseRevoked
    <3> QED BY <2>1, <2>4, <3>1, BreakFields
  <2> QED BY <1>2, <2>2, <2>3, <2>4
<1> QED BY <1>1, <1>2

LEMMA OpenQueuedNext ==
    ASSUME Typed, OutOK, OpeningOK, Handler \/ AccessReader \/ GatewayReader \/ Stream \/ Break
    PROVE  OpenQueued'
<1>q. g2a \in Downs /\ a2g \in Ups /\ acc.out \in Ups
  BY DEF Typed, QueuesTyped, AccessTyped, AccessState
<1>c. Control("Close") \in Up /\ Control("Close").type # "Open"
  BY Messages DEF Control
<1>a. \A x \in Up : /\ DOMAIN Append(a2g, x) = 1..(Len(a2g) + 1) /\ DOMAIN a2g = 1..Len(a2g)
                    /\ \A i \in 1..Len(a2g) : Append(a2g, x)[i] = a2g[i]
                    /\ Append(a2g, x)[Len(a2g) + 1] = x
  BY <1>q, Positions DEF Ups
<1>l. Len(a2g) \in Nat /\ (a2g = <<>> => Len(a2g) = 0)
  BY <1>q, UpsFacts
<1>n. \A i \in DOMAIN a2g : a2g[i].type = "Open" => i = 1 /\ gw.pc = "none" /\ None(acc.out, "Open")
  BY DEF OpeningOK, OpenQueued
\* Close added behind an unchanged queue.
<1>k. ASSUME a2g' \in {a2g, Append(a2g, Control("Close"))}, gw'.pc = gw.pc,
             None(acc.out, "Open") => None(acc'.out, "Open")
      PROVE  OpenQueued'
  <2>1. CASE a2g' = a2g
    BY <1>k, <2>1, <1>n DEF OpenQueued
  <2>2. CASE a2g' = Append(a2g, Control("Close"))
    <3>1. \A i \in DOMAIN a2g' : a2g'[i].type = "Open" => i \in DOMAIN a2g /\ a2g'[i] = a2g[i]
      BY <2>2, <1>a, <1>c, <1>l
    <3> QED BY <1>k, <3>1, <1>n DEF OpenQueued
  <2> QED BY <1>k, <2>1, <2>2
<1>1. CASE Handler
  <2>1. gw' = gw
    BY <1>1, StreamFrame
  <2>2. CASE acc'.out = Tail(acc.out) /\ acc.out # <<>> /\ a2g' = Append(a2g, Head(acc.out))
    <3>1. Head(acc.out) \in Up /\ Head(acc.out) = acc.out[1] /\ 1 \in DOMAIN acc.out
      BY <2>2, <1>q, UpsFacts, Positions DEF Ups
    <3>2. CASE Head(acc.out).type = "Open"
      <4>1. ~None(acc.out, "Open")
        BY <3>1, <3>2 DEF None
      <4>2. a2g = <<>> /\ gw.pc = "none"
        BY <4>1 DEF OpeningOK, OpenUnsent
      <4>3. Len(acc.out) = 1
        BY <3>1, <3>2 DEF OutOK, AccessOutOK
      <4>4. None(acc'.out, "Open")
        BY <4>3, <2>2, <1>q, TailOfOne DEF Ups
      <4>5. \A i \in DOMAIN a2g' : i = 1
        BY <4>2, <2>2, <3>1, <1>a, <1>l
      <4> QED BY <4>2, <4>4, <4>5, <2>1 DEF OpenQueued, None
    <3>3. CASE Head(acc.out).type # "Open"
      <4>1. \A i \in DOMAIN a2g' : a2g'[i].type = "Open" => i \in DOMAIN a2g /\ a2g'[i] = a2g[i]
        BY <2>2, <3>1, <3>3, <1>a, <1>l
      <4>2. None(acc.out, "Open") => None(acc'.out, "Open")
        BY <2>2, <1>q, NoneFacts DEF Ups
      <4> QED BY <4>1, <4>2, <2>1, <1>n DEF OpenQueued
    <3> QED BY <3>2, <3>3
  <2>3. CASE a2g' = a2g
    <3>1. acc'.out = acc.out \/ (acc'.out = Tail(acc.out) /\ acc.out # <<>>) \/ None(acc'.out, "Open")
      <4>1. acc'.out = <<Data(up_sent + 1)>> => None(acc'.out, "Open")
        BY DEF None, Data
      <4>2. acc'.out = <<>> => None(acc'.out, "Open")
        BY DEF None
      <4>3. (\A i \in DOMAIN acc'.out : acc'.out[i].type \in {"TcpEof", "Close"}) => None(acc'.out, "Open")
        BY DEF None
      <4> QED BY <1>1, <4>1, <4>2, <4>3, HandlerOut
    <3>2. None(acc.out, "Open") => None(acc'.out, "Open")
      BY <3>1, <1>q, NoneFacts DEF Ups
    <3> QED BY <2>1, <2>3, <3>2, <1>k
  <2> QED BY <1>1, <2>2, <2>3, HandlerOut
<1>2. CASE AccessReader
  BY <1>2, <1>k, StreamFrame, HandlerFrame, AccessDispatchFields, AccessDeliverFields DEF AccessReader
<1>3. CASE GatewayDispatch
  <2>1. a2g # <<>> /\ a2g' = Tail(a2g) /\ acc' = acc
    BY <1>3, GatewayDispatchFields
  <2>2. /\ DOMAIN a2g' = 1..(Len(a2g) - 1) /\ DOMAIN a2g = 1..Len(a2g)
        /\ \A i \in 1..(Len(a2g) - 1) : a2g'[i] = a2g[i + 1]
    BY <2>1, <1>q, Positions DEF Ups
  <2>3. \A i \in DOMAIN a2g' : i + 1 \in DOMAIN a2g /\ a2g'[i] = a2g[i + 1] /\ i + 1 # 1
    BY <2>2, <1>l
  <2> QED BY <2>3, <1>n DEF OpenQueued
<1>4. CASE GatewayDeliver
  BY <1>4, <1>k, GatewayDeliverFields
<1>5. CASE Stream
  <2>1. a2g' = a2g /\ acc' = acc
    BY <1>5, StreamOut, StreamFields
  <2>2. CASE gw'.pc = gw.pc
    BY <2>1, <2>2, <1>n DEF OpenQueued
  <2>3. CASE gw.pc = "none"
    <3>1. gw.out = <<>>
      BY <2>3 DEF OpeningOK, NotYet
    <3> QED BY <1>5, <2>3, <3>1 DEF Stream, StreamTask, StreamSends, ObserveCancel, BeginWrite,
       ShutdownTarget, StreamRevoked, StreamCleanup, Connect, ConnectFails, FinishWrite, ReadTarget,
       TargetEof, TargetFails, Selecting
  <2>4. CASE gw.pc # "none"
    BY <2>1, <2>4, <1>n DEF OpenQueued
  <2> QED BY <2>3, <2>4
<1>6. CASE Break
  <2>1. gw'.pc = gw.pc
    BY <1>6, StreamOutFrame DEF Break, GatewayDispatch, AccessLosesSession,
       GatewayWriterEnds, GatewayLosesSession, LeaseRevoked
  <2> QED BY <1>6, <2>1, <1>k, BreakFields, HandlerFrame
<1> QED BY <1>1, <1>2, <1>3, <1>4, <1>5, <1>6 DEF GatewayReader

LEMMA UploadTypes ==
    ASSUME Typed
    PROVE  /\ a2g \in Seq(Up) /\ up_recv \in UpNumbers /\ gw.chan \in UpNumbers
           /\ Len(up_recv) \in Nat /\ Len(gw.chan) \in Nat /\ Taken \in Nat
           /\ up_sent \in Nat /\ gw.held \in Nat
           /\ acc.out \in Seq(Up)
<1>1. a2g \in Seq(Up) /\ up_recv \in UpNumbers /\ up_sent \in Nat
  BY HeldFacts DEF Typed, QueuesTyped, PayloadTyped, Ups
<1>2. gw.chan \in UpNumbers /\ gw.held \in Nat
  BY HeldFacts DEF Typed, StreamTyped, StreamState
<1>3. acc.out \in Seq(Up)
  BY DEF Typed, AccessTyped, AccessState, Ups
<1>4. Len(up_recv) \in Nat /\ Len(gw.chan) \in Nat
  BY <1>1, <1>2, NumbersFacts
<1>5. Taken \in Nat
  <2> DEFINE a == Len(up_recv)
             b == Len(gw.chan)
             c == IF gw.held # 0 THEN 1 ELSE 0
  <2>1. Taken = a + b + c /\ c \in Nat /\ a \in Nat /\ b \in Nat
    BY <1>4 DEF Taken
  <2> HIDE DEF a, b, c
  <2> QED BY <2>1
<1> QED BY <1>1, <1>2, <1>3, <1>4, <1>5

\* Nothing more is taken, or nothing of the way of the data changes.
LEMMA UploadKept ==
    ASSUME Typed, UploadOK, up_recv' = up_recv, up_sent' = up_sent,
           gw'.chan = gw.chan \/ gw'.chan = <<>>,
           gw'.held # 0 /\ gw'.pc \notin Over =>
              gw.pc \notin Over /\ gw'.held = gw.held /\ gw'.chan = gw.chan,
           Receiving' => /\ Receiving /\ gw'.chan = gw.chan /\ gw'.held = gw.held /\ a2g' = a2g
                         /\ Unsent' => Unsent
                         /\ Unsent => Unsent' \/ acc'.pc = "done"
                         /\ acc'.pc # "done" => acc.pc # "done"
    PROVE  UploadOK'
<1>1. UpReceived'
  <2>1. CASE gw'.chan = gw.chan
    BY <2>1 DEF UploadOK, UpReceived
  <2>2. CASE gw'.chan = <<>>
    <3>1. Len(gw'.chan) = 0 /\ DOMAIN gw'.chan = {}
      BY <2>2
    <3>2. Len(up_recv) + 0 <= up_sent
      BY UploadTypes DEF UploadOK, UpReceived
    <3> QED BY <3>1, <3>2 DEF UploadOK, UpReceived
  <2> QED BY <2>1, <2>2
<1>2. UpHeldNext'
  BY DEF UploadOK, UpHeldNext
<1>3. UpComing'
  <2> SUFFICES ASSUME Receiving' PROVE \E t \in Nat : UpQueued(t)' /\ Consecutive(a2g', Taken', t)
    BY DEF UpComing
  <2>1. PICK t \in Nat : UpQueued(t) /\ Consecutive(a2g, Taken, t)
    BY DEF UploadOK, UpComing
  <2>2. Taken' = Taken
    BY DEF Taken
  <2>3. UpQueued(t)'
    BY <2>1 DEF UpQueued
  <2> QED BY <2>1, <2>2, <2>3
<1> QED BY <1>1, <1>2, <1>3 DEF UploadOK

\* The handler reads a frame, queues it, or ends what it sends.
LEMMA UploadHandler ==
    ASSUME Typed, Typed', OutOK, UploadOK, Handler
    PROVE  UploadOK'
<1>1. gw' = gw /\ up_recv' = up_recv
  BY StreamFrame
<1>2. up_sent' \in Nat /\ up_sent <= up_sent'
  BY UploadTypes, HandlerOut
<1>3. UpReceived' /\ UpHeldNext'
  <2>1. UpReceived'
    BY <1>1, <1>2, UploadTypes DEF UploadOK, UpReceived
  <2>2. UpHeldNext'
    BY <1>1, <1>2, UploadTypes DEF UploadOK, UpHeldNext
  <2> QED BY <2>1, <2>2
<1>4. UpComing'
  <2> SUFFICES ASSUME Receiving' PROVE \E t \in Nat : UpQueued(t)' /\ Consecutive(a2g', Taken', t)
    BY DEF UpComing
  <2>1. Receiving /\ Taken' = Taken /\ Taken \in Nat
    BY <1>1, UploadTypes DEF Receiving, Taken
  <2>2. PICK t \in Nat : UpQueued(t) /\ Consecutive(a2g, Taken, t)
    BY <2>1 DEF UploadOK, UpComing
  <2>3. CASE /\ acc'.out = Tail(acc.out) /\ acc'.pc = acc.pc /\ up_sent' = up_sent
             /\ acc.out # <<>> /\ a2g' = Append(a2g, Head(acc.out))
    <3>1. Head(acc.out) \in Up /\ Head(acc.out) = acc.out[1] /\ 1 \in DOMAIN acc.out
      BY <2>3, UploadTypes, Positions, Queues
    <3>2. CASE IsData(Head(acc.out))
      <4>1. Unsent /\ Len(acc.out) = 1 /\ Head(acc.out).n = up_sent
        BY <3>1, <3>2 DEF Unsent, None, IsData, OutOK, AccessOutOK
      <4>2. t + 1 = up_sent
        BY <4>1, <2>2, UploadTypes DEF UpQueued
      <4>3. Consecutive(a2g', Taken, t + 1)
        BY <2>1, <2>2, <2>3, <3>1, <3>2, <4>1, <4>2, UploadTypes, ConsecutiveAppendData
      <4>4. ~Unsent'
        BY <4>1, <2>3, UploadTypes, TailOfOne DEF Unsent
      <4>5. UpQueued(t + 1)'
        BY <4>2, <4>4, <2>3 DEF UpQueued
      <4> QED BY <4>2, <4>3, <4>5, <2>1
    <3>3. CASE ~IsData(Head(acc.out))
      <4>1. Consecutive(a2g', Taken, t)
        BY <2>1, <2>2, <2>3, <3>1, <3>3, UploadTypes, ConsecutiveAppend
      <4>2. ~Unsent
        <5> SUFFICES ASSUME NEW i \in DOMAIN acc.out, IsData(acc.out[i]) PROVE FALSE
          BY DEF Unsent, None, IsData
        <5>1. Len(acc.out) = 1 /\ DOMAIN acc.out = 1..Len(acc.out)
          BY UploadTypes, Positions DEF OutOK, AccessOutOK
        <5>2. i = 1
          BY <5>1
        <5> QED BY <5>2, <3>1, <3>3
      <4>3. ~Unsent'
        BY <4>2, <2>3, UploadTypes, NoneFacts DEF Unsent
      <4>4. UpQueued(t)'
        BY <2>2, <2>3, <4>2, <4>3 DEF UpQueued
      <4> QED BY <4>1, <4>4, <2>1
    <3> QED BY <3>2, <3>3
  <2>4. CASE /\ acc.out = <<>> /\ acc'.out = <<Data(up_sent + 1)>> /\ a2g' = a2g
             /\ acc.pc = "forwarding" /\ up_sent' = up_sent + 1
    <3>1. ~Unsent /\ Unsent'
      BY <2>4 DEF Unsent, None, Data
    <3>2. t = up_sent
      BY <2>2, <2>4, <3>1 DEF UpQueued
    <3>3. UpQueued(t)'
      BY <3>1, <3>2, <2>4, UploadTypes DEF UpQueued
    <3> QED BY <3>3, <2>1, <2>2, <2>4
  <2>5. CASE up_sent' = up_sent /\ a2g' = a2g /\ acc'.out = acc.out /\ (acc'.pc = "done" \/ acc.pc # "done")
    <3>1. UpQueued(t)'
      BY <2>2, <2>5 DEF UpQueued, Unsent
    <3> QED BY <3>1, <2>1, <2>2, <2>5
  <2>6. CASE up_sent' = up_sent /\ a2g' = a2g /\ acc'.out = <<>> /\ acc'.pc = "done"
    <3>1. ~Unsent'
      BY <2>6 DEF Unsent, None
    <3>2. UpQueued(t)'
      BY <2>2, <2>6, <3>1 DEF UpQueued
    <3> QED BY <3>2, <2>1, <2>2, <2>6
  <2>7. CASE /\ up_sent' = up_sent /\ a2g' = a2g /\ acc.out = <<>> /\ acc.pc # "done"
             /\ \A i \in DOMAIN acc'.out : acc'.out[i].type \in {"TcpEof", "Close"}
    <3>1. ~Unsent /\ ~Unsent'
      BY <2>7 DEF Unsent, None
    <3>2. UpQueued(t)'
      BY <2>2, <2>7, <3>1 DEF UpQueued
    <3> QED BY <3>2, <2>1, <2>2, <2>7
  <2> QED BY <2>3, <2>4, <2>5, <2>6, <2>7, HandlerOut
<1> QED BY <1>3, <1>4 DEF UploadOK

\* The reader of the access adds nothing but Close.
LEMMA UploadAccessReader ==
    ASSUME Typed, UploadOK, AccessReader
    PROVE  UploadOK'
<1>1. /\ gw' = gw /\ up_recv' = up_recv /\ acc'.out = acc.out /\ acc'.pc = acc.pc /\ up_sent' = up_sent
  BY StreamFrame, HandlerFrame
<1>2. UpReceived' /\ UpHeldNext'
  BY <1>1 DEF UploadOK, UpReceived, UpHeldNext
<1>3. UpComing'
  <2> SUFFICES ASSUME Receiving' PROVE \E t \in Nat : UpQueued(t)' /\ Consecutive(a2g', Taken', t)
    BY DEF UpComing
  <2>1. Receiving /\ Taken' = Taken /\ Taken \in Nat
    BY <1>1, UploadTypes DEF Receiving, Taken
  <2>2. PICK t \in Nat : UpQueued(t) /\ Consecutive(a2g, Taken, t)
    BY <2>1 DEF UploadOK, UpComing
  <2>3. UpQueued(t)'
    BY <1>1, <2>2 DEF UpQueued, Unsent
  <2>4. Consecutive(Append(a2g, Control("Close")), Taken, t)
    <3>1. Control("Close") \in Up /\ ~IsData(Control("Close"))
      BY Messages DEF IsData, Control
    <3> QED BY <3>1, <2>1, <2>2, UploadTypes, ConsecutiveAppend
  <2>5. a2g' \in {a2g, Append(a2g, Control("Close"))}
    BY AccessDispatchFields, AccessDeliverFields DEF AccessReader
  <2> QED BY <2>1, <2>2, <2>3, <2>4, <2>5
<1> QED BY <1>2, <1>3 DEF UploadOK

\* The reader of the gateway takes the next frame.
LEMMA UploadGatewayDispatch ==
    ASSUME Typed, OpeningOK, UploadOK, GatewayDispatch
    PROVE  UploadOK'
<1>1. /\ a2g # <<>> /\ a2g' = Tail(a2g) /\ acc' = acc /\ gw.held = 0 /\ gw'.chan = gw.chan
      /\ up_recv' = up_recv /\ up_sent' = up_sent
  BY GatewayDispatchFields, StreamOutFrame, HandlerFrame DEF GatewayReader
<1>2. a2g \in Seq(Up) /\ Head(a2g) \in Up /\ Head(a2g) = a2g[1] /\ 1 \in DOMAIN a2g
  BY <1>1, UploadTypes, Positions, Queues
<1>3. UpReceived'
  BY <1>1 DEF UploadOK, UpReceived
<1>4. Taken = Len(up_recv) + Len(gw.chan)
  BY <1>1, UploadTypes DEF Taken
\* A message that is not data.
<1>5. ASSUME ~IsData(Head(a2g)), gw'.held = 0, Receiving' => Receiving
      PROVE  UploadOK'
  <2>1. UpHeldNext'
    BY <1>5 DEF UpHeldNext
  <2>2. UpComing'
    <3> SUFFICES ASSUME Receiving' PROVE \E t \in Nat : UpQueued(t)' /\ Consecutive(a2g', Taken', t)
      BY DEF UpComing
    <3>1. PICK t \in Nat : UpQueued(t) /\ Consecutive(a2g, Taken, t)
      BY <1>5 DEF UploadOK, UpComing
    <3>2. UpQueued(t)'
      BY <3>1, <1>1 DEF UpQueued, Unsent
    <3>3. Taken' = Taken
      BY <1>1, <1>5 DEF Taken
    <3>4. Consecutive(a2g', Taken, t)
      BY <1>1, <1>5, <3>1, UploadTypes, ConsecutiveTail
    <3> QED BY <3>2, <3>3, <3>4
  <2> QED BY <1>3, <2>1, <2>2 DEF UploadOK
<1>6. CASE Head(a2g).type = "Open"
  <2>1. gw.pc = "none"
    BY <1>2, <1>6 DEF OpeningOK, OpenQueued
  <2>2. ~IsData(Head(a2g)) /\ gw'.held = 0
    BY <1>6, GatewayDispatchFields DEF IsData
  <2> QED BY <2>1, <2>2, <1>5 DEF Receiving
<1>7. CASE Head(a2g).type \in {"TcpEof", "Close"}
  <2>1. gw'.pc = gw.pc /\ ~gw'.entry /\ gw'.held = 0
    BY <1>7, GatewayDispatchFields
  <2>2. ~IsData(Head(a2g))
    BY <1>7 DEF IsData
  <2>3. Receiving' => Receiving
    BY <2>1 DEF Receiving
  <2> QED BY <2>1, <2>2, <2>3, <1>5
<1>8. CASE IsData(Head(a2g))
  <2>1. /\ gw'.pc = gw.pc /\ gw'.entry = gw.entry
        /\ gw'.held = IF gw.entry THEN Head(a2g).n ELSE 0
    BY <1>8, GatewayDispatchFields DEF IsData
  <2>2. CASE Receiving
    <3>1. PICK t \in Nat : UpQueued(t) /\ Consecutive(a2g, Taken, t)
      BY <2>2 DEF UploadOK, UpComing
    <3>2. Head(a2g).n = Taken + 1 /\ Taken + 1 <= t /\ Consecutive(a2g', Taken + 1, t)
      BY <1>1, <1>8, <3>1, UploadTypes, ConsecutiveTailData
    <3>3. t <= up_sent /\ up_sent \in Nat /\ Taken \in Nat
      BY <3>1, UploadTypes DEF UpQueued
    <3>4. gw.entry /\ gw.pc \in {"forwarding", "writing"}
      <4>1. up_sent # 0
        BY <3>2, <3>3
      <4> QED BY <4>1, <2>2 DEF Receiving, OpeningOK, NotYet
    <3>5. gw'.held = Taken + 1 /\ gw'.held # 0
      BY <2>1, <3>2, <3>3, <3>4
    <3>6. UpHeldNext'
      BY <3>5, <1>1, <1>4, <3>2, <3>3 DEF UpHeldNext
    <3>7. Taken' = Taken + 1
      BY <3>5, <1>1, <1>4, UploadTypes DEF Taken
    <3>8. UpQueued(t)'
      BY <3>1, <1>1 DEF UpQueued, Unsent
    <3>9. UpComing'
      BY <3>2, <3>7, <3>8 DEF UpComing
    <3> QED BY <1>3, <3>6, <3>9 DEF UploadOK
  <2>3. CASE ~Receiving
    <3>1. ~Receiving'
      BY <2>1, <2>3 DEF Receiving
    <3>2. gw'.held # 0 => gw'.pc \in Over
      <4> SUFFICES ASSUME gw'.held # 0, gw'.pc \notin Over PROVE FALSE
        OBVIOUS
      <4>1. gw.entry
        BY <2>1
      <4>2. gw.pc \in {"none", "connecting", "forwarding", "writing"}
        BY <2>1 DEF Over, Typed, StreamTyped, StreamState
      <4> QED BY <4>1, <4>2, <2>3 DEF Receiving
    <3> QED BY <1>3, <3>1, <3>2 DEF UploadOK, UpHeldNext, UpComing
  <2> QED BY <2>2, <2>3
<1> QED BY <1>6, <1>7, <1>8, GatewayDispatchFields DEF IsData

LEMMA UploadGatewayDeliver ==
    ASSUME Typed, UploadOK, GatewayDeliver
    PROVE  UploadOK'
<1>1. /\ a2g' = a2g /\ acc' = acc /\ gw.held # 0 /\ gw'.held = 0 /\ gw'.pc = gw.pc
      /\ up_recv' = up_recv /\ up_sent' = up_sent
  BY GatewayDeliverFields, StreamOutFrame, HandlerFrame DEF GatewayReader
<1>2. CASE gw.pc \notin Over /\ gw'.chan = Append(gw.chan, gw.held) /\ gw'.entry = gw.entry
  <2>1. gw.held = Len(up_recv) + Len(gw.chan) + 1 /\ gw.held <= up_sent
    BY <1>1, <1>2 DEF UploadOK, UpHeldNext
  <2>2. gw.chan \in Seq(1..MaxUp) /\ gw.held \in 1..MaxUp
    BY <1>1, CapacityAssumption DEF Typed, StreamTyped, StreamState, UpNumbers, UpHeld
  <2>3. /\ DOMAIN gw'.chan = 1..(Len(gw.chan) + 1) /\ Len(gw'.chan) = Len(gw.chan) + 1
        /\ \A i \in 1..Len(gw.chan) : gw'.chan[i] = gw.chan[i]
        /\ gw'.chan[Len(gw.chan) + 1] = gw.held
        /\ DOMAIN gw.chan = 1..Len(gw.chan)
    BY <1>2, <2>2, Positions, Queues
  <2>4. UpReceived'
    <3>1. \A i \in DOMAIN gw'.chan : gw'.chan[i] = Len(up_recv) + i
      <4> SUFFICES ASSUME NEW i \in DOMAIN gw'.chan PROVE gw'.chan[i] = Len(up_recv) + i
        OBVIOUS
      <4>1. CASE i \in 1..Len(gw.chan)
        BY <4>1, <2>3 DEF UploadOK, UpReceived
      <4>2. CASE i = Len(gw.chan) + 1
        BY <4>2, <2>1, <2>3, UploadTypes
      <4> QED BY <4>1, <4>2, <2>3, UploadTypes
    <3>2. Len(up_recv) + Len(gw'.chan) <= up_sent
      BY <2>1, <2>3, UploadTypes
    <3> QED BY <1>1, <3>1, <3>2 DEF UploadOK, UpReceived
  <2>5. Taken' = Taken
    BY <1>1, <2>3, UploadTypes DEF Taken
  <2>6. UpComing'
    <3> SUFFICES ASSUME Receiving' PROVE \E t \in Nat : UpQueued(t)' /\ Consecutive(a2g', Taken', t)
      BY DEF UpComing
    <3>1. PICK t \in Nat : UpQueued(t) /\ Consecutive(a2g, Taken, t)
      BY <1>1, <1>2 DEF UploadOK, UpComing, Receiving
    <3>2. UpQueued(t)'
      BY <3>1, <1>1 DEF UpQueued, Unsent
    <3> QED BY <3>1, <3>2, <2>5, <1>1
  <2> QED BY <1>1, <2>4, <2>6 DEF UploadOK, UpHeldNext
<1>3. CASE gw.pc \in Over /\ gw'.chan = gw.chan /\ ~gw'.entry
  <2>1. ~Receiving'
    BY <1>1, <1>3 DEF Receiving, Over
  <2> QED BY <1>1, <1>3, <2>1, UploadKept
<1> QED BY <1>2, <1>3, GatewayDeliverFields

\* The stream task writes what it took, or ends.
LEMMA UploadStream ==
    ASSUME Typed, OpeningOK, UploadOK, Stream
    PROVE  UploadOK'
<1>1. a2g' = a2g /\ acc' = acc /\ up_sent' = up_sent /\ gw'.held = gw.held
  BY StreamOut, StreamFields, HandlerFrame
<1>2. CASE Connect
  <2>1. /\ gw.pc = "connecting" /\ gw'.chan = gw.chan /\ up_recv' = up_recv
    BY <1>2, ConnectOut
  <2>2. Receiving /\ gw.pc \notin Over
    BY <2>1 DEF Receiving, Over
  <2> QED BY <1>1, <2>1, <2>2, UploadKept DEF Unsent
<1>3. CASE up_recv' = up_recv /\ gw'.chan = gw.chan /\ ~Connect
  <2>1. gw'.pc \notin Over => gw.pc \notin Over
    BY StreamFields
  <2>2. Receiving' => Receiving
    <3>1. CASE gw.pc \in {"none", "connecting"}
      BY <3>1 DEF Receiving
    <3>2. CASE gw.pc \in {"forwarding", "writing"}
      <4>1. gw'.pc \notin {"none", "connecting"}
        BY <3>2, <1>3, StreamOut DEF Over
      <4> QED BY <3>2, <4>1, <1>3, StreamFields DEF Receiving
    <3>3. CASE gw.pc \in Over
      BY <3>3, StreamFields DEF Receiving, Over
    <3> QED BY <3>1, <3>2, <3>3 DEF Typed, StreamTyped, StreamState, Over
  <2> QED BY <1>1, <1>3, <2>1, <2>2, UploadKept DEF Unsent
<1>4. CASE up_recv' = up_recv /\ gw'.chan = <<>> /\ gw'.pc \in Over
  <2>1. ~Receiving'
    BY <1>4 DEF Receiving, Over
  <2> QED BY <1>1, <1>4, <2>1, UploadKept
<1>5. CASE /\ gw.pc = "writing" /\ gw'.pc = "forwarding" /\ gw.chan # <<>>
           /\ up_recv' = Append(up_recv, Head(gw.chan)) /\ gw'.chan = Tail(gw.chan) /\ ~Connect
  <2>0. gw.chan \in Seq(1..MaxUp) /\ up_recv \in Seq(1..MaxUp)
    BY UploadTypes DEF UpNumbers
  <2>1. /\ DOMAIN gw.chan = 1..Len(gw.chan) /\ Len(gw.chan) \in Nat /\ Len(gw.chan) > 0
        /\ Head(gw.chan) = gw.chan[1] /\ Head(gw.chan) \in 1..MaxUp
        /\ DOMAIN gw'.chan = 1..(Len(gw.chan) - 1) /\ Len(gw'.chan) = Len(gw.chan) - 1
        /\ \A i \in 1..(Len(gw.chan) - 1) : gw'.chan[i] = gw.chan[i + 1]
    <3> DEFINE q == gw.chan
    <3>1. q \in Seq(1..MaxUp) /\ q # <<>> /\ gw'.chan = Tail(q)
      BY <1>5, <2>0
    <3> HIDE DEF q
    <3>2. /\ DOMAIN q = 1..Len(q) /\ Len(q) \in Nat /\ Len(q) > 0
          /\ Head(q) = q[1] /\ DOMAIN Tail(q) = 1..(Len(q) - 1)
          /\ \A i \in 1..(Len(q) - 1) : Tail(q)[i] = q[i + 1]
      BY <3>1, Positions
    <3>3. Head(q) \in 1..MaxUp /\ Len(Tail(q)) = Len(q) - 1
      BY <3>1, Queues
    <3> QED BY <3>1, <3>2, <3>3 DEF q
  <2>2. /\ DOMAIN up_recv = 1..Len(up_recv) /\ Len(up_recv) \in Nat
        /\ DOMAIN up_recv' = 1..(Len(up_recv) + 1) /\ Len(up_recv') = Len(up_recv) + 1
        /\ \A i \in 1..Len(up_recv) : up_recv'[i] = up_recv[i]
        /\ up_recv'[Len(up_recv) + 1] = Head(gw.chan)
    BY <1>5, <2>0, <2>1, Positions, Queues
  <2>3. Head(gw.chan) = Len(up_recv) + 1
    <3>1. 1 \in DOMAIN gw.chan
      BY <2>1
    <3> QED BY <2>1, <3>1 DEF UploadOK, UpReceived
  <2>4. \A i \in DOMAIN up_recv' : up_recv'[i] = i
    <3> SUFFICES ASSUME NEW i \in DOMAIN up_recv' PROVE up_recv'[i] = i
      OBVIOUS
    <3>1. CASE i \in 1..Len(up_recv)
      BY <3>1, <2>2 DEF UploadOK, UpReceived
    <3>2. CASE i = Len(up_recv) + 1
      BY <3>2, <2>2, <2>3
    <3> QED BY <3>1, <3>2, <2>2
  <2>5. \A i \in DOMAIN gw'.chan : gw'.chan[i] = Len(up_recv') + i
    <3> SUFFICES ASSUME NEW i \in DOMAIN gw'.chan PROVE gw'.chan[i] = Len(up_recv') + i
      OBVIOUS
    <3>1. i \in Nat /\ i + 1 \in DOMAIN gw.chan /\ gw'.chan[i] = gw.chan[i + 1]
      BY <2>1
    <3>2. gw.chan[i + 1] = Len(up_recv) + (i + 1)
      BY <3>1 DEF UploadOK, UpReceived
    <3> QED BY <3>1, <3>2, <2>2
  <2>6. Len(up_recv') + Len(gw'.chan) = Len(up_recv) + Len(gw.chan)
    <3> DEFINE a == Len(up_recv)
               b == Len(gw.chan)
    <3>1. a \in Nat /\ b \in Nat /\ Len(up_recv') = a + 1 /\ Len(gw'.chan) = b - 1
      BY <2>1, <2>2
    <3> HIDE DEF a, b
    <3>2. Len(up_recv') + Len(gw'.chan) = a + b
      BY <3>1
    <3> QED BY <3>2 DEF a, b
  <2>7. UpReceived'
    BY <2>4, <2>5, <2>6, <1>1 DEF UploadOK, UpReceived
  <2>8. UpHeldNext'
    BY <2>6, <1>1, <1>5 DEF UploadOK, UpHeldNext, Over
  <2>9. Taken' = Taken
    BY <2>6, <1>1 DEF Taken
  <2>10. UpComing'
    <3> SUFFICES ASSUME Receiving' PROVE \E t \in Nat : UpQueued(t)' /\ Consecutive(a2g', Taken', t)
      BY DEF UpComing
    <3>1. Receiving
      BY <1>5, StreamFields DEF Receiving
    <3>2. PICK t \in Nat : UpQueued(t) /\ Consecutive(a2g, Taken, t)
      BY <3>1 DEF UploadOK, UpComing
    <3>3. UpQueued(t)'
      BY <3>2, <1>1 DEF UpQueued, Unsent
    <3> QED BY <3>2, <3>3, <2>9, <1>1
  <2> QED BY <2>7, <2>8, <2>10 DEF UploadOK
<1> QED BY <1>2, <1>3, <1>4, <1>5, StreamFields

LEMMA UploadBreak ==
    ASSUME Typed, UploadOK, OpeningOK, Break
    PROVE  UploadOK'
<1>1. /\ gw'.pc = gw.pc /\ up_recv' = up_recv /\ up_sent' = up_sent /\ acc'.out = acc.out /\ acc'.pc = acc.pc
  BY StreamOutFrame, HandlerFrame DEF Break, GatewayDispatch, AccessLosesSession,
     GatewayWriterEnds, GatewayLosesSession, LeaseRevoked
<1>2. /\ a2g' = a2g /\ gw'.held \in {0, gw.held} /\ gw'.chan = gw.chan
      /\ gw'.entry => gw.entry /\ gw'.held = gw.held
  BY BreakFields
<1>3. Receiving' => Receiving /\ gw'.held = gw.held
  <2>1. CASE gw.pc \in {"none", "connecting"}
    <3>1. gw.held = 0
      BY <2>1 DEF OpeningOK, NotYet
    <3> QED BY <2>1, <3>1, <1>2 DEF Receiving
  <2>2. CASE gw.pc \notin {"none", "connecting"}
    BY <2>2, <1>1, <1>2 DEF Receiving
  <2> QED BY <2>1, <2>2
<1> QED BY <1>1, <1>2, <1>3, UploadKept DEF Unsent

LEMMA UploadNext ==
    ASSUME Typed, Typed', OutOK, OpeningOK, UploadOK,
           Handler \/ AccessReader \/ GatewayReader \/ Stream \/ Break
    PROVE  UploadOK'
  BY UploadHandler, UploadAccessReader, UploadGatewayDispatch, UploadGatewayDeliver, UploadStream,
     UploadBreak DEF GatewayReader

LEMMA DownloadTypes ==
    ASSUME Typed
    PROVE  /\ g2a \in Seq(Down) /\ down_recv \in DownNumbers /\ acc.chan \in DownNumbers
           /\ Len(down_recv) \in Nat /\ Len(acc.chan) \in Nat /\ AccessTaken \in Nat
           /\ down_sent \in Nat /\ acc.held \in Nat
           /\ gw.out \in Seq(Down)
<1>1. g2a \in Seq(Down) /\ down_recv \in DownNumbers /\ down_sent \in Nat
  BY HeldFacts DEF Typed, QueuesTyped, PayloadTyped, Downs
<1>2. acc.chan \in DownNumbers /\ acc.held \in Nat
  BY HeldFacts DEF Typed, AccessTyped, AccessState
<1>3. gw.out \in Seq(Down)
  BY DEF Typed, StreamTyped, StreamState, Downs
<1>4. Len(down_recv) \in Nat /\ Len(acc.chan) \in Nat
  BY <1>1, <1>2, NumbersFacts
<1>5. AccessTaken \in Nat
  <2> DEFINE a == Len(down_recv)
             b == Len(acc.chan)
             c == IF acc.held # 0 THEN 1 ELSE 0
  <2>1. AccessTaken = a + b + c /\ c \in Nat /\ a \in Nat /\ b \in Nat
    BY <1>4 DEF AccessTaken
  <2> HIDE DEF a, b, c
  <2> QED BY <2>1
<1> QED BY <1>1, <1>2, <1>3, <1>4, <1>5

\* Nothing more is taken, or nothing of the way of the data changes.
LEMMA DownloadKept ==
    ASSUME Typed, DownloadOK, down_recv' = down_recv, down_sent' = down_sent,
           acc'.chan = acc.chan \/ acc'.chan = <<>>,
           acc'.held # 0 /\ acc'.pc # "done" =>
              acc.pc # "done" /\ acc'.held = acc.held /\ acc'.chan = acc.chan,
           acc'.entry => /\ acc.entry /\ acc'.pc # "done" /\ acc'.chan = acc.chan
                         /\ acc'.held = acc.held /\ g2a' = g2a
                         /\ StreamUnsent' => StreamUnsent
                         /\ StreamUnsent => StreamUnsent' \/ gw'.pc \in Over
                         /\ gw'.pc \notin Over => gw.pc \notin Over
    PROVE  DownloadOK'
<1>1. DownReceived'
  <2>1. CASE acc'.chan = acc.chan
    BY <2>1 DEF DownloadOK, DownReceived
  <2>2. CASE acc'.chan = <<>>
    <3>1. Len(acc'.chan) = 0 /\ DOMAIN acc'.chan = {}
      BY <2>2
    <3>2. Len(down_recv) + 0 <= down_sent
      BY DownloadTypes DEF DownloadOK, DownReceived
    <3> QED BY <3>1, <3>2 DEF DownloadOK, DownReceived
  <2> QED BY <2>1, <2>2
<1>2. DownHeldNext'
  BY DEF DownloadOK, DownHeldNext
<1>3. DownComing'
  <2> SUFFICES ASSUME acc'.entry
               PROVE  \E t \in Nat : DownQueued(t)' /\ Consecutive(g2a', AccessTaken', t)
    BY DEF DownComing
  <2>1. PICK t \in Nat : DownQueued(t) /\ Consecutive(g2a, AccessTaken, t)
    BY DEF DownloadOK, DownComing
  <2>2. AccessTaken' = AccessTaken
    BY DEF AccessTaken
  <2>3. DownQueued(t)'
    BY <2>1 DEF DownQueued
  <2> QED BY <2>1, <2>2, <2>3
<1> QED BY <1>1, <1>2, <1>3 DEF DownloadOK

\* The handler writes what it took to the client, or gives up.
LEMMA DownloadHandler ==
    ASSUME Typed, DownloadOK, Handler
    PROVE  DownloadOK'
<1>1. gw' = gw /\ down_sent' = down_sent /\ g2a' = g2a /\ acc'.held = acc.held
  BY StreamFrame, HandlerFields
<1>2. /\ acc'.entry => acc.entry /\ acc'.pc # "done"
      /\ acc'.pc # "done" => acc.pc # "done"
  <2>1. acc'.entry => acc.entry
    BY HandlerFields
  <2>2. acc.entry => acc.pc # "done"
    BY DEF DownloadOK, DownComing
  <2> QED BY <2>1, <2>2, HandlerFields
<1>3. CASE down_recv' = down_recv /\ acc'.chan = acc.chan
  BY <1>1, <1>2, <1>3, DownloadKept DEF StreamUnsent
<1>4. CASE down_recv' = down_recv /\ acc'.chan = <<>> /\ acc'.pc = "done"
  BY <1>1, <1>2, <1>4, DownloadKept
<1>5. CASE /\ acc.chan # <<>> /\ down_recv' = Append(down_recv, Head(acc.chan))
           /\ acc'.chan = Tail(acc.chan) /\ acc'.pc = acc.pc /\ acc.pc # "done"
  <2>0. acc.chan \in Seq(1..MaxDown) /\ down_recv \in Seq(1..MaxDown)
    BY DownloadTypes DEF DownNumbers
  <2>1. /\ DOMAIN acc.chan = 1..Len(acc.chan) /\ Len(acc.chan) \in Nat /\ Len(acc.chan) > 0
        /\ Head(acc.chan) = acc.chan[1] /\ Head(acc.chan) \in 1..MaxDown
        /\ DOMAIN acc'.chan = 1..(Len(acc.chan) - 1) /\ Len(acc'.chan) = Len(acc.chan) - 1
        /\ \A i \in 1..(Len(acc.chan) - 1) : acc'.chan[i] = acc.chan[i + 1]
    <3> DEFINE q == acc.chan
    <3>1. q \in Seq(1..MaxDown) /\ q # <<>> /\ acc'.chan = Tail(q)
      BY <1>5, <2>0
    <3> HIDE DEF q
    <3>2. /\ DOMAIN q = 1..Len(q) /\ Len(q) \in Nat /\ Len(q) > 0
          /\ Head(q) = q[1] /\ DOMAIN Tail(q) = 1..(Len(q) - 1)
          /\ \A i \in 1..(Len(q) - 1) : Tail(q)[i] = q[i + 1]
      BY <3>1, Positions
    <3>3. Head(q) \in 1..MaxDown /\ Len(Tail(q)) = Len(q) - 1
      BY <3>1, Queues
    <3> QED BY <3>1, <3>2, <3>3 DEF q
  <2>2. /\ DOMAIN down_recv = 1..Len(down_recv) /\ Len(down_recv) \in Nat
        /\ DOMAIN down_recv' = 1..(Len(down_recv) + 1) /\ Len(down_recv') = Len(down_recv) + 1
        /\ \A i \in 1..Len(down_recv) : down_recv'[i] = down_recv[i]
        /\ down_recv'[Len(down_recv) + 1] = Head(acc.chan)
    BY <1>5, <2>0, <2>1, Positions, Queues
  <2>3. Head(acc.chan) = Len(down_recv) + 1
    <3>1. 1 \in DOMAIN acc.chan
      BY <2>1
    <3> QED BY <2>1, <3>1 DEF DownloadOK, DownReceived
  <2>4. \A i \in DOMAIN down_recv' : down_recv'[i] = i
    <3> SUFFICES ASSUME NEW i \in DOMAIN down_recv' PROVE down_recv'[i] = i
      OBVIOUS
    <3>1. CASE i \in 1..Len(down_recv)
      BY <3>1, <2>2 DEF DownloadOK, DownReceived
    <3>2. CASE i = Len(down_recv) + 1
      BY <3>2, <2>2, <2>3
    <3> QED BY <3>1, <3>2, <2>2
  <2>5. \A i \in DOMAIN acc'.chan : acc'.chan[i] = Len(down_recv') + i
    <3> SUFFICES ASSUME NEW i \in DOMAIN acc'.chan PROVE acc'.chan[i] = Len(down_recv') + i
      OBVIOUS
    <3>1. i \in Nat /\ i + 1 \in DOMAIN acc.chan /\ acc'.chan[i] = acc.chan[i + 1]
      BY <2>1
    <3>2. acc.chan[i + 1] = Len(down_recv) + (i + 1)
      BY <3>1 DEF DownloadOK, DownReceived
    <3> QED BY <3>1, <3>2, <2>2
  <2>6. Len(down_recv') + Len(acc'.chan) = Len(down_recv) + Len(acc.chan)
    <3> DEFINE a == Len(down_recv)
               b == Len(acc.chan)
    <3>1. a \in Nat /\ b \in Nat /\ Len(down_recv') = a + 1 /\ Len(acc'.chan) = b - 1
      BY <2>1, <2>2
    <3> HIDE DEF a, b
    <3>2. Len(down_recv') + Len(acc'.chan) = a + b
      BY <3>1
    <3> QED BY <3>2 DEF a, b
  <2>7. DownReceived'
    BY <2>4, <2>5, <2>6, <1>1 DEF DownloadOK, DownReceived
  <2>8. DownHeldNext'
    BY <2>6, <1>1, <1>5 DEF DownloadOK, DownHeldNext
  <2>9. AccessTaken' = AccessTaken
    BY <2>6, <1>1 DEF AccessTaken
  <2>10. DownComing'
    <3> SUFFICES ASSUME acc'.entry
                 PROVE  \E t \in Nat : DownQueued(t)' /\ Consecutive(g2a', AccessTaken', t)
      BY <1>2 DEF DownComing
    <3>1. PICK t \in Nat : DownQueued(t) /\ Consecutive(g2a, AccessTaken, t)
      BY <1>2 DEF DownloadOK, DownComing
    <3>2. DownQueued(t)'
      BY <3>1, <1>1 DEF DownQueued, StreamUnsent
    <3> QED BY <3>1, <3>2, <2>9, <1>1
  <2> QED BY <2>7, <2>8, <2>10 DEF DownloadOK
<1> QED BY <1>3, <1>4, <1>5, HandlerFields

\* The reader of the access takes the next frame.
LEMMA DownloadAccessDispatch ==
    ASSUME Typed, DownloadOK, AccessDispatch
    PROVE  DownloadOK'
<1>1. /\ g2a # <<>> /\ g2a' = Tail(g2a) /\ gw' = gw /\ acc.held = 0 /\ acc'.chan = acc.chan
      /\ down_recv' = down_recv /\ down_sent' = down_sent /\ acc'.pc = acc.pc
      /\ acc'.entry => acc.entry
      /\ acc'.held = IF IsData(Head(g2a)) /\ acc.entry THEN Head(g2a).n ELSE 0
  BY AccessDispatchFields, StreamFrame, HandlerFrame DEF AccessReader, IsData
<1>2. DownReceived'
  BY <1>1 DEF DownloadOK, DownReceived
<1>3. AccessTaken = Len(down_recv) + Len(acc.chan)
  BY <1>1, DownloadTypes DEF AccessTaken
<1>4. CASE ~acc.entry
  <2>1. acc'.held = 0 /\ ~acc'.entry
    BY <1>1, <1>4
  <2> QED BY <2>1, <1>2 DEF DownloadOK, DownHeldNext, DownComing
<1>5. CASE acc.entry
  <2>0. acc.pc # "done"
    BY <1>5 DEF DownloadOK, DownComing
  <2>1. PICK t \in Nat : DownQueued(t) /\ Consecutive(g2a, AccessTaken, t)
    BY <1>5 DEF DownloadOK, DownComing
  <2>2. DownQueued(t)'
    BY <2>1, <1>1 DEF DownQueued, StreamUnsent
  <2>3. CASE ~IsData(Head(g2a))
    <3>1. acc'.held = 0 /\ AccessTaken' = AccessTaken
      BY <1>1, <2>3 DEF AccessTaken
    <3>2. Consecutive(g2a', AccessTaken, t)
      BY <1>1, <2>1, <2>3, DownloadTypes, ConsecutiveTail
    <3>3. DownComing'
      BY <2>0, <2>2, <3>1, <3>2, <1>1 DEF DownComing
    <3> QED BY <1>2, <3>1, <3>3 DEF DownloadOK, DownHeldNext
  <2>4. CASE IsData(Head(g2a))
    <3>1. Head(g2a).n = AccessTaken + 1 /\ AccessTaken + 1 <= t /\ Consecutive(g2a', AccessTaken + 1, t)
      BY <1>1, <2>1, <2>4, DownloadTypes, ConsecutiveTailData
    <3>2. t <= down_sent /\ down_sent \in Nat /\ AccessTaken \in Nat
      BY <2>1, DownloadTypes DEF DownQueued
    <3>3. acc'.held = AccessTaken + 1 /\ acc'.held # 0
      BY <1>1, <1>5, <2>4, <3>1, <3>2
    <3>4. AccessTaken' = AccessTaken + 1
      BY <3>3, <1>1, <1>3, DownloadTypes DEF AccessTaken
    <3>5. DownHeldNext'
      BY <3>1, <3>2, <3>3, <1>1, <1>3 DEF DownHeldNext
    <3>6. DownComing'
      BY <2>0, <2>2, <3>1, <3>4, <1>1 DEF DownComing
    <3> QED BY <1>2, <3>5, <3>6 DEF DownloadOK
  <2> QED BY <2>3, <2>4
<1> QED BY <1>4, <1>5

LEMMA DownloadAccessDeliver ==
    ASSUME Typed, DownloadOK, AccessDeliver
    PROVE  DownloadOK'
<1>1. /\ g2a' = g2a /\ gw' = gw /\ acc.held # 0 /\ acc'.held = 0 /\ acc'.pc = acc.pc
      /\ down_recv' = down_recv /\ down_sent' = down_sent
  BY AccessDeliverFields, StreamFrame, HandlerFrame DEF AccessReader
<1>2. CASE acc.pc # "done" /\ acc'.chan = Append(acc.chan, acc.held) /\ acc'.entry = acc.entry
  <2>1. acc.held = Len(down_recv) + Len(acc.chan) + 1 /\ acc.held <= down_sent
    BY <1>1, <1>2 DEF DownloadOK, DownHeldNext
  <2>2. acc.chan \in Seq(1..MaxDown) /\ acc.held \in 1..MaxDown
    BY <1>1, CapacityAssumption DEF Typed, AccessTyped, AccessState, DownNumbers, DownHeld
  <2>3. /\ DOMAIN acc'.chan = 1..(Len(acc.chan) + 1) /\ Len(acc'.chan) = Len(acc.chan) + 1
        /\ \A i \in 1..Len(acc.chan) : acc'.chan[i] = acc.chan[i]
        /\ acc'.chan[Len(acc.chan) + 1] = acc.held
        /\ DOMAIN acc.chan = 1..Len(acc.chan)
    BY <1>2, <2>2, Positions, Queues
  <2>4. DownReceived'
    <3>1. \A i \in DOMAIN acc'.chan : acc'.chan[i] = Len(down_recv) + i
      <4> SUFFICES ASSUME NEW i \in DOMAIN acc'.chan PROVE acc'.chan[i] = Len(down_recv) + i
        OBVIOUS
      <4>1. CASE i \in 1..Len(acc.chan)
        BY <4>1, <2>3 DEF DownloadOK, DownReceived
      <4>2. CASE i = Len(acc.chan) + 1
        BY <4>2, <2>1, <2>3, DownloadTypes
      <4> QED BY <4>1, <4>2, <2>3, DownloadTypes
    <3>2. Len(down_recv) + Len(acc'.chan) <= down_sent
      BY <2>1, <2>3, DownloadTypes
    <3> QED BY <1>1, <3>1, <3>2 DEF DownloadOK, DownReceived
  <2>5. AccessTaken' = AccessTaken
    BY <1>1, <2>3, DownloadTypes DEF AccessTaken
  <2>6. DownComing'
    <3> SUFFICES ASSUME acc'.entry
                 PROVE  \E t \in Nat : DownQueued(t)' /\ Consecutive(g2a', AccessTaken', t)
      BY <1>1, <1>2 DEF DownComing
    <3>1. PICK t \in Nat : DownQueued(t) /\ Consecutive(g2a, AccessTaken, t)
      BY <1>2 DEF DownloadOK, DownComing
    <3>2. DownQueued(t)'
      BY <3>1, <1>1 DEF DownQueued, StreamUnsent
    <3> QED BY <3>1, <3>2, <2>5, <1>1
  <2> QED BY <1>1, <2>4, <2>6 DEF DownloadOK, DownHeldNext
<1>3. CASE acc.pc = "done" /\ acc'.chan = acc.chan /\ ~acc'.entry
  BY <1>1, <1>3, DownloadKept
<1> QED BY <1>2, <1>3, AccessDeliverFields

\* The reader of the gateway adds nothing but Error and Close.
LEMMA DownloadGatewayReader ==
    ASSUME Typed, OpeningOK, DownloadOK, GatewayReader
    PROVE  DownloadOK'
<1>1. /\ acc' = acc /\ down_recv' = down_recv /\ gw'.out = gw.out /\ down_sent' = down_sent
      /\ g2a' \in {g2a, Append(g2a, Control("Error")), Append(g2a, Control("Close"))}
  BY StreamOutFrame, HandlerFrame, GatewayDispatchFields, GatewayDeliverFields DEF GatewayReader
<1>2. gw'.pc \notin Over => gw.pc \notin Over
  <2>1. CASE ~(GatewayDispatch /\ Head(a2g).type = "Open")
    BY <2>1, StreamOutFrame
  <2>2. CASE GatewayDispatch /\ Head(a2g).type = "Open"
    <3>1. a2g # <<>> /\ a2g \in Seq(Up)
      BY <2>2, GatewayDispatchFields, UploadTypes
    <3>2. Head(a2g) = a2g[1] /\ 1 \in DOMAIN a2g
      BY <3>1, Positions
    <3>3. gw.pc = "none"
      BY <3>2, <2>2 DEF OpeningOK, OpenQueued
    <3> QED BY <3>3 DEF Over
  <2> QED BY <2>1, <2>2
<1>3. DownReceived' /\ DownHeldNext'
  BY <1>1 DEF DownloadOK, DownReceived, DownHeldNext
<1>4. DownComing'
  <2> SUFFICES ASSUME acc'.entry
               PROVE  \E t \in Nat : DownQueued(t)' /\ Consecutive(g2a', AccessTaken', t)
    BY <1>1 DEF DownComing, DownloadOK
  <2>1. PICK t \in Nat : DownQueued(t) /\ Consecutive(g2a, AccessTaken, t)
    BY <1>1 DEF DownloadOK, DownComing
  <2>2. DownQueued(t)'
    BY <1>1, <1>2, <2>1 DEF DownQueued, StreamUnsent
  <2>3. AccessTaken' = AccessTaken
    BY <1>1 DEF AccessTaken
  <2>4. \A m \in {Control("Error"), Control("Close")} : m \in Down /\ ~IsData(m)
    BY Messages DEF IsData, Control
  <2>5. Consecutive(g2a', AccessTaken, t)
    BY <1>1, <2>1, <2>4, DownloadTypes, ConsecutiveAppend
  <2> QED BY <2>2, <2>3, <2>5
<1> QED BY <1>3, <1>4 DEF DownloadOK

LEMMA StreamSendsFields ==
    ASSUME Typed, StreamSends
    PROVE  /\ gw.out # <<>>
           /\ \/ g2a' = Append(g2a, Head(gw.out)) /\ gw'.out = Tail(gw.out) /\ gw'.pc = gw.pc
              \/ g2a' = g2a /\ gw'.out = <<>> /\ gw'.pc = "ended"
              \/ /\ g2a' = g2a /\ gw'.out = Tail(gw.out) /\ gw'.pc = gw.pc
                 /\ ~IsData(Head(gw.out))
<1>1. gw \in StreamState
  BY DEF Typed, StreamTyped
<1>2. CASE session.writer
  BY <1>1, <1>2 DEF StreamSends, Post, StreamState
<1>3. CASE ~session.writer
  BY <1>1, <1>3 DEF StreamSends, Post, StreamState, IsData
<1> QED BY <1>2, <1>3

\* The stream task reads a frame, queues it, or ends what it sends.
LEMMA DownloadStream ==
    ASSUME Typed, OutOK, OpeningOK, DownloadOK, Stream
    PROVE  DownloadOK'
<1>1. acc' = acc /\ down_recv' = down_recv
  BY StreamFields, HandlerFrame
<1>2. down_sent' \in Nat /\ down_sent <= down_sent'
  BY DownloadTypes, StreamOut, ConnectOut
<1>3. DownReceived' /\ DownHeldNext'
  <2>1. DownReceived'
    BY <1>1, <1>2, DownloadTypes DEF DownloadOK, DownReceived
  <2>2. DownHeldNext'
    BY <1>1, <1>2, DownloadTypes DEF DownloadOK, DownHeldNext
  <2> QED BY <2>1, <2>2
<1>4. DownComing'
  <2> SUFFICES ASSUME acc.entry
               PROVE  \E t \in Nat : DownQueued(t)' /\ Consecutive(g2a', AccessTaken', t)
    BY <1>1 DEF DownComing, DownloadOK
  <2>1. AccessTaken' = AccessTaken /\ AccessTaken \in Nat
    BY <1>1, DownloadTypes DEF AccessTaken
  <2>2. PICK t \in Nat : DownQueued(t) /\ Consecutive(g2a, AccessTaken, t)
    BY DEF DownloadOK, DownComing
  <2>p. gw.pc \in Over => gw'.pc \in Over
    BY StreamFields
  <2>3. CASE StreamSends
    <3>0. gw.out # <<>> /\ down_sent' = down_sent
      BY <2>3, StreamSendsFields DEF StreamSends, payload
    <3>1. Head(gw.out) \in Down /\ Head(gw.out) = gw.out[1] /\ 1 \in DOMAIN gw.out
      BY <3>0, DownloadTypes, Positions, Queues
    <3>2. CASE IsData(Head(gw.out))
      <4>1. StreamUnsent /\ Len(gw.out) = 1 /\ Head(gw.out).n = down_sent
        BY <3>1, <3>2 DEF StreamUnsent, None, IsData, OutOK, StreamOutOK
      <4>2. t + 1 = down_sent
        BY <4>1, <2>2, DownloadTypes DEF DownQueued
      <4>3. CASE g2a' = Append(g2a, Head(gw.out)) /\ gw'.out = Tail(gw.out) /\ gw'.pc = gw.pc
        <5>1. Consecutive(g2a', AccessTaken, t + 1)
          BY <2>1, <2>2, <4>3, <3>1, <3>2, <4>1, <4>2, DownloadTypes, ConsecutiveAppendData
        <5>2. ~StreamUnsent'
          BY <4>1, <4>3, DownloadTypes, TailOfOne DEF StreamUnsent
        <5>3. DownQueued(t + 1)'
          BY <4>2, <5>2, <3>0 DEF DownQueued
        <5> QED BY <4>2, <5>1, <5>3, <2>1
      <4>4. CASE g2a' = g2a /\ gw'.out = <<>> /\ gw'.pc = "ended"
        <5>1. ~StreamUnsent' /\ gw'.pc \in Over
          BY <4>4 DEF StreamUnsent, None, Over
        <5>2. DownQueued(t)'
          BY <2>2, <5>1, <3>0 DEF DownQueued
        <5> QED BY <5>2, <4>4, <2>1, <2>2
      <4> QED BY <4>3, <4>4, <2>3, <3>2, StreamSendsFields
    <3>3. CASE ~IsData(Head(gw.out))
      <4>1. ~StreamUnsent
        <5> SUFFICES ASSUME NEW i \in DOMAIN gw.out, IsData(gw.out[i]) PROVE FALSE
          BY DEF StreamUnsent, None, IsData
        <5>1. Len(gw.out) = 1 /\ DOMAIN gw.out = 1..Len(gw.out)
          BY DownloadTypes, Positions DEF OutOK, StreamOutOK
        <5>2. i = 1
          BY <5>1
        <5> QED BY <5>2, <3>1, <3>3
      <4>2. ~StreamUnsent'
        <5>1. gw'.out = Tail(gw.out) \/ gw'.out = <<>>
          BY <2>3, StreamSendsFields
        <5>2. None(Tail(gw.out), "Data")
          BY <4>1, <3>0, DownloadTypes, NoneFacts DEF StreamUnsent
        <5>3. None(<<>>, "Data")
          BY DEF None
        <5> QED BY <5>1, <5>2, <5>3 DEF StreamUnsent
      <4>3. DownQueued(t)'
        BY <2>2, <2>p, <3>0, <4>1, <4>2 DEF DownQueued
      <4>4. Consecutive(Append(g2a, Head(gw.out)), AccessTaken, t)
        BY <2>1, <2>2, <3>1, <3>3, DownloadTypes, ConsecutiveAppend
      <4>5. g2a' \in {g2a, Append(g2a, Head(gw.out))}
        BY <2>3, StreamSendsFields
      <4> QED BY <4>3, <4>4, <4>5, <2>1, <2>2
    <3> QED BY <3>2, <3>3
  <2>4. CASE /\ gw.out = <<>> /\ gw'.out = <<Data(down_sent + 1)>> /\ g2a' = g2a
             /\ gw.pc = "forwarding" /\ down_sent' = down_sent + 1
    <3>1. ~StreamUnsent /\ StreamUnsent'
      BY <2>4 DEF StreamUnsent, None, Data
    <3>2. t = down_sent
      BY <2>2, <2>4, <3>1 DEF DownQueued, Over
    <3>3. DownQueued(t)'
      BY <3>1, <3>2, <2>4, DownloadTypes DEF DownQueued
    <3> QED BY <3>3, <2>1, <2>2, <2>4
  <2>5. CASE down_sent' = down_sent /\ g2a' = g2a /\ gw'.out = gw.out
    <3>1. DownQueued(t)'
      BY <2>2, <2>5, <2>p DEF DownQueued, StreamUnsent
    <3> QED BY <3>1, <2>1, <2>2, <2>5
  <2>6. CASE down_sent' = down_sent /\ g2a' = g2a /\ gw'.out = <<>> /\ gw'.pc = "ended"
    <3>1. ~StreamUnsent' /\ gw'.pc \in Over
      BY <2>6 DEF StreamUnsent, None, Over
    <3>2. DownQueued(t)'
      BY <2>2, <2>6, <3>1 DEF DownQueued
    <3> QED BY <3>2, <2>1, <2>2, <2>6
  <2>7. CASE /\ down_sent' = down_sent /\ g2a' = g2a /\ gw.out = <<>>
             /\ \A i \in DOMAIN gw'.out : gw'.out[i].type \in {"OpenOk", "TcpEof", "Error", "Close"}
    <3>1. ~StreamUnsent /\ ~StreamUnsent'
      BY <2>7 DEF StreamUnsent, None
    <3>2. DownQueued(t)'
      BY <2>2, <2>7, <2>p, <3>1 DEF DownQueued
    <3> QED BY <3>2, <2>1, <2>2, <2>7
  <2>8. CASE Connect
    <3>1. gw.out = <<>> /\ down_sent' = down_sent /\ g2a' = g2a /\ gw'.out = <<Control("OpenOk")>>
      BY <2>8, ConnectOut DEF OpeningOK, NotYet
    <3>2. ~StreamUnsent /\ ~StreamUnsent'
      BY <3>1 DEF StreamUnsent, None, Control
    <3>3. DownQueued(t)'
      BY <2>2, <3>1, <2>p, <3>2 DEF DownQueued
    <3> QED BY <3>1, <3>3, <2>1, <2>2
  <2> QED BY <2>3, <2>4, <2>5, <2>6, <2>7, <2>8, StreamOut
<1> QED BY <1>3, <1>4 DEF DownloadOK

LEMMA DownloadBreak ==
    ASSUME Typed, DownloadOK, Break
    PROVE  DownloadOK'
<1>1. /\ gw'.pc = gw.pc /\ gw'.out = gw.out /\ down_sent' = down_sent /\ down_recv' = down_recv
      /\ acc'.pc = acc.pc
  BY StreamOutFrame, HandlerFrame DEF Break, GatewayDispatch, AccessLosesSession,
     GatewayWriterEnds, GatewayLosesSession, LeaseRevoked
<1>2. /\ g2a' = g2a /\ acc'.held \in {0, acc.held} /\ acc'.chan = acc.chan
      /\ acc'.entry => acc.entry /\ acc'.held = acc.held
  BY BreakFields
<1>3. acc.entry => acc.pc # "done"
  BY DEF DownloadOK, DownComing
<1> QED BY <1>1, <1>2, <1>3, DownloadKept DEF StreamUnsent

LEMMA DownloadNext ==
    ASSUME Typed, OutOK, OpeningOK, DownloadOK,
           Handler \/ AccessReader \/ GatewayReader \/ Stream \/ Break
    PROVE  DownloadOK'
  BY DownloadHandler, DownloadAccessDispatch, DownloadAccessDeliver, DownloadGatewayReader,
     DownloadStream, DownloadBreak DEF AccessReader

LEMMA InitInductive == Init => Inductive
<1> SUFFICES ASSUME Init PROVE Inductive
  OBVIOUS
<1>1. Typed
  BY InitTyped
<1>2. OutOK
  BY DEF Init, OutOK, AccessOutOK, StreamOutOK, IsData, Control
<1>3. OpeningOK
  BY DEF Init, OpeningOK, NotYet, ForwardingOpen, OpenUnsent, OpenQueued, None
<1>4. UploadOK
  <2>1. UpReceived /\ UpHeldNext
    BY DEF Init, UpReceived, UpHeldNext
  <2>2. Taken = 0 /\ a2g = <<>> /\ up_sent = 0
    BY DEF Init, Taken
  <2>3. ~Unsent
    BY DEF Init, Unsent, None, Control
  <2>4. UpQueued(0) /\ Consecutive(a2g, Taken, 0)
    BY <2>2, <2>3, ConsecutiveEmpty DEF UpQueued
  <2> QED BY <2>1, <2>4 DEF UploadOK, UpComing
<1>5. DownloadOK
  <2>1. DownReceived /\ DownHeldNext
    BY DEF Init, DownReceived, DownHeldNext
  <2>2. AccessTaken = 0 /\ g2a = <<>> /\ down_sent = 0 /\ acc.pc # "done"
    BY DEF Init, AccessTaken
  <2>3. ~StreamUnsent
    BY DEF Init, StreamUnsent, None
  <2>4. DownQueued(0) /\ Consecutive(g2a, AccessTaken, 0)
    BY <2>2, <2>3, ConsecutiveEmpty DEF DownQueued
  <2> QED BY <2>1, <2>2, <2>4 DEF DownloadOK, DownComing
<1> QED BY <1>1, <1>2, <1>3, <1>4, <1>5 DEF Inductive

LEMMA NextInductive == Inductive /\ [Next]_vars => Inductive'
<1> SUFFICES ASSUME Inductive, [Next]_vars PROVE Inductive'
  OBVIOUS
<1>1. CASE UNCHANGED vars
  <2>1. Typed'
    BY <1>1, NextTyped DEF Inductive
  <2>2. OutOK' /\ OpeningOK'
    BY <1>1 DEF vars, Inductive, OutOK, AccessOutOK, StreamOutOK, OpeningOK, NotYet, ForwardingOpen,
                OpenUnsent, OpenQueued
  <2>3. UploadOK'
    BY <1>1, UploadKept DEF vars, Inductive, Receiving, Unsent
  <2>4. DownloadOK'
    BY <1>1, DownloadKept DEF vars, Inductive, StreamUnsent, DownloadOK, DownComing
  <2> QED BY <2>1, <2>2, <2>3, <2>4 DEF Inductive
<1>2. CASE Next
  <2>1. Handler \/ AccessReader \/ GatewayReader \/ Stream \/ Break
    BY <1>2, Steps
  <2>2. Typed /\ Typed'
    BY NextTyped DEF Inductive
  <2>3. OutOK'
    BY <2>1, <2>2, AccessOutNext, StreamOutNext DEF Inductive, OutOK
  <2>4. OpeningOK'
    BY <2>1, <2>2, NotYetNext, ForwardingOpenNext, OpenUnsentNext, OpenQueuedNext
       DEF Inductive, OpeningOK
  <2>5. UploadOK' /\ DownloadOK'
    BY <2>1, <2>2, UploadNext, DownloadNext DEF Inductive
  <2> QED BY <2>2, <2>3, <2>4, <2>5 DEF Inductive
<1> QED BY <1>1, <1>2

\* Whatever closes, fails, times out or is cancelled in between, for every number of
\* frames and every capacity: each side receives a prefix of what the other sent,
\* nothing lost in the middle, duplicated or reordered.
THEOREM BytesInOrderHolds == Spec => []BytesInOrder
<1>1. Inductive => BytesInOrder
  <2> SUFFICES ASSUME Inductive PROVE BytesInOrder
    OBVIOUS
  <2>1. Len(up_recv) <= up_sent
    BY UploadTypes DEF Inductive, UploadOK, UpReceived
  <2>2. Len(down_recv) <= down_sent
    BY DownloadTypes DEF Inductive, DownloadOK, DownReceived
  <2> QED BY <2>1, <2>2 DEF Inductive, UploadOK, UpReceived, DownloadOK, DownReceived, BytesInOrder,
                            InOrder
<1> QED BY <1>1, InitInductive, NextInductive, PTL DEF Spec

(******************* Each direction is an ordered channel ******************)

\* The numbers up to n as a sequence, and what reading one more frame makes of it.
LEMMA Counting ==
    ASSUME NEW n \in Nat
    PROVE  /\ Len(Numbers(n)) = n /\ \A i \in 1..n : Numbers(n)[i] = i
           /\ Numbers(n + 1) = Append(Numbers(n), n + 1)
<1>1. Numbers(n) \in Seq(Nat) /\ Numbers(n + 1) \in Seq(Nat)
  BY DEF Numbers
<1>2. Len(Numbers(n)) = n /\ Len(Numbers(n + 1)) = n + 1
  BY DEF Numbers
<1>3. \A i \in 1..n : Numbers(n)[i] = i
  BY DEF Numbers
<1>4. Numbers(n + 1) = Append(Numbers(n), n + 1)
  <2> DEFINE p == Append(Numbers(n), n + 1)
  <2>1. p \in Seq(Nat) /\ Len(p) = n + 1
    BY <1>1, <1>2
  <2>2. \A i \in 1..(n + 1) : p[i] = Numbers(n + 1)[i]
    BY <1>1, <1>2 DEF Numbers
  <2> HIDE DEF p
  <2>3. p = Numbers(n + 1)
    BY <1>1, <1>2, <2>1, <2>2
  <2> QED BY <2>3 DEF p
<1> QED BY <1>2, <1>3, <1>4

\* A step reads one more frame from the client, or writes to the target the frame after
\* those it got.
LEMMA UploadStep ==
    ASSUME Inductive, [Next]_vars
    PROVE  \/ up_sent' = up_sent + 1 /\ up_recv' = up_recv /\ up_sent < MaxUp
           \/ /\ up_sent' = up_sent /\ Len(up_recv) < up_sent
              /\ up_recv' = Append(up_recv, Len(up_recv) + 1)
           \/ up_sent' = up_sent /\ up_recv' = up_recv
<1>1. Typed
  BY DEF Inductive
<1>2. CASE Handler
  <2>1. up_recv' = up_recv
    BY <1>2, StreamFrame
  <2>2. up_sent' = up_sent \/ (ReadLocal /\ up_sent' = up_sent + 1)
    BY <1>1, <1>2, HandlerOut
  <2> QED BY <2>1, <2>2 DEF ReadLocal
<1>3. CASE AccessReader \/ GatewayReader \/ Break
  <2>1. up_sent' = up_sent
    BY <1>1, <1>3, HandlerFrame
  <2>2. up_recv' = up_recv
    BY <1>3, StreamFrame DEF GatewayReader, GatewayDispatch, GatewayDeliver, payload,
       Break, AccessLosesSession, GatewayWriterEnds, GatewayLosesSession, LeaseRevoked
  <2> QED BY <2>1, <2>2
<1>4. CASE Stream
  <2>1. up_sent' = up_sent
    BY <1>1, <1>4, HandlerFrame
  <2>2. CASE gw.chan # <<>> /\ up_recv' = Append(up_recv, Head(gw.chan))
    <3>1. gw.chan \in UpNumbers /\ up_recv \in UpNumbers /\ up_sent \in Nat
      BY <1>1 DEF Typed, StreamTyped, StreamState, PayloadTyped, UpHeld
    <3>2. Head(gw.chan) = gw.chan[1] /\ 1 \in DOMAIN gw.chan /\ Len(gw.chan) \in Nat \ {0}
          /\ Len(up_recv) \in Nat
      BY <2>2, <3>1 DEF UpNumbers
    <3>3. gw.chan[1] = Len(up_recv) + 1 /\ Len(up_recv) + Len(gw.chan) <= up_sent
      BY <3>2 DEF Inductive, UploadOK, UpReceived
    <3> QED BY <2>1, <2>2, <3>1, <3>2, <3>3
  <2> QED BY <1>1, <1>4, <2>1, <2>2, StreamFields
<1>5. CASE UNCHANGED vars
  BY <1>5 DEF vars
<1> QED BY <1>2, <1>3, <1>4, <1>5, Steps

\* The same from the target to the client.
LEMMA DownloadStep ==
    ASSUME Inductive, [Next]_vars
    PROVE  \/ down_sent' = down_sent + 1 /\ down_recv' = down_recv /\ down_sent < MaxDown
           \/ /\ down_sent' = down_sent /\ Len(down_recv) < down_sent
              /\ down_recv' = Append(down_recv, Len(down_recv) + 1)
           \/ down_sent' = down_sent /\ down_recv' = down_recv
<1>1. Typed
  BY DEF Inductive
<1>2. CASE Handler
  <2>1. down_sent' = down_sent
    BY <1>2, StreamFrame
  <2>2. CASE acc.chan # <<>> /\ down_recv' = Append(down_recv, Head(acc.chan))
    <3>1. acc.chan \in DownNumbers /\ down_recv \in DownNumbers /\ down_sent \in Nat
      BY <1>1 DEF Typed, AccessTyped, AccessState, PayloadTyped, DownHeld
    <3>2. Head(acc.chan) = acc.chan[1] /\ 1 \in DOMAIN acc.chan /\ Len(acc.chan) \in Nat \ {0}
          /\ Len(down_recv) \in Nat
      BY <2>2, <3>1 DEF DownNumbers
    <3>3. acc.chan[1] = Len(down_recv) + 1 /\ Len(down_recv) + Len(acc.chan) <= down_sent
      BY <3>2 DEF Inductive, DownloadOK, DownReceived
    <3> QED BY <2>1, <2>2, <3>1, <3>2, <3>3
  <2> QED BY <1>1, <1>2, <2>1, <2>2, HandlerFields
<1>3. CASE AccessReader \/ GatewayReader \/ Break
  <2>1. down_recv' = down_recv
    BY <1>1, <1>3, HandlerFrame
  <2>2. down_sent' = down_sent
    BY <1>3, StreamFrame DEF GatewayReader, GatewayDispatch, GatewayDeliver, payload,
       Break, AccessLosesSession, GatewayWriterEnds, GatewayLosesSession, LeaseRevoked
  <2> QED BY <2>1, <2>2
<1>4. CASE Stream
  <2>1. down_recv' = down_recv
    BY <1>1, <1>4, HandlerFrame
  <2>2. \/ down_sent' = down_sent
        \/ down_sent' = down_sent + 1 /\ down_sent < MaxDown
    BY <1>4 DEF Stream, StreamTask, StreamSends, ObserveCancel, BeginWrite, ShutdownTarget,
       StreamRevoked, StreamCleanup, Connect, ConnectFails, FinishWrite, ReadTarget, TargetEof,
       TargetFails, payload
  <2> QED BY <2>1, <2>2
<1>5. CASE UNCHANGED vars
  BY <1>5 DEF vars
<1> QED BY <1>2, <1>3, <1>4, <1>5, Steps

\* Both directions of a stream implement the ordered channel, for every number of frames
\* and every capacity: delivered bytes are never revised, and each delivery is of the
\* frame sent next, whatever closes, fails or is cancelled on the way.
THEOREM EndToEndHolds == Spec => EndToEnd
<1>1. Init => Upload!Init /\ Download!Init
  BY DEF Init, Upload!Init, Download!Init, Numbers
<1>2. Inductive /\ [Next]_vars => [Upload!Next]_Upload!chan
  <2> SUFFICES ASSUME Inductive, [Next]_vars PROVE [Upload!Next]_Upload!chan
    OBVIOUS
  <2>1. up_sent \in Nat /\ up_recv \in UpNumbers /\ MaxUp \in Nat
    BY CapacityAssumption DEF Inductive, Typed, PayloadTyped, UpHeld
  <2>2. CASE up_sent' = up_sent + 1 /\ up_recv' = up_recv /\ up_sent < MaxUp
    <3>1. Len(Numbers(up_sent)) < MaxUp /\ up_sent + 1 \in 1..MaxUp
      BY <2>1, <2>2, Counting
    <3>2. Numbers(up_sent') = Append(Numbers(up_sent), up_sent + 1)
      BY <2>1, <2>2, Counting
    <3>3. Upload!Send(up_sent + 1)
      BY <2>2, <3>1, <3>2 DEF Upload!Send
    <3> QED BY <3>1, <3>3 DEF Upload!Next
  <2>3. CASE /\ up_sent' = up_sent /\ Len(up_recv) < up_sent
             /\ up_recv' = Append(up_recv, Len(up_recv) + 1)
    <3>1. Len(up_recv) \in Nat /\ Len(up_recv) + 1 \in 1..up_sent
      BY <2>1, <2>3 DEF UpNumbers
    <3>2. Len(up_recv) < Len(Numbers(up_sent)) /\ Numbers(up_sent)[Len(up_recv) + 1] = Len(up_recv) + 1
      BY <2>1, <2>3, <3>1, Counting
    <3>3. Upload!Receive
      BY <2>3, <3>2 DEF Upload!Receive
    <3> QED BY <3>3 DEF Upload!Next
  <2>4. CASE up_sent' = up_sent /\ up_recv' = up_recv
    BY <2>4 DEF Upload!chan
  <2> QED BY <2>2, <2>3, <2>4, UploadStep
<1>3. Inductive /\ [Next]_vars => [Download!Next]_Download!chan
  <2> SUFFICES ASSUME Inductive, [Next]_vars PROVE [Download!Next]_Download!chan
    OBVIOUS
  <2>1. down_sent \in Nat /\ down_recv \in DownNumbers /\ MaxDown \in Nat
    BY CapacityAssumption DEF Inductive, Typed, PayloadTyped, DownHeld
  <2>2. CASE down_sent' = down_sent + 1 /\ down_recv' = down_recv /\ down_sent < MaxDown
    <3>1. Len(Numbers(down_sent)) < MaxDown /\ down_sent + 1 \in 1..MaxDown
      BY <2>1, <2>2, Counting
    <3>2. Numbers(down_sent') = Append(Numbers(down_sent), down_sent + 1)
      BY <2>1, <2>2, Counting
    <3>3. Download!Send(down_sent + 1)
      BY <2>2, <3>1, <3>2 DEF Download!Send
    <3> QED BY <3>1, <3>3 DEF Download!Next
  <2>3. CASE /\ down_sent' = down_sent /\ Len(down_recv) < down_sent
             /\ down_recv' = Append(down_recv, Len(down_recv) + 1)
    <3>1. Len(down_recv) \in Nat /\ Len(down_recv) + 1 \in 1..down_sent
      BY <2>1, <2>3 DEF DownNumbers
    <3>2. /\ Len(down_recv) < Len(Numbers(down_sent))
          /\ Numbers(down_sent)[Len(down_recv) + 1] = Len(down_recv) + 1
      BY <2>1, <2>3, <3>1, Counting
    <3>3. Download!Receive
      BY <2>3, <3>2 DEF Download!Receive
    <3> QED BY <3>3 DEF Download!Next
  <2>4. CASE down_sent' = down_sent /\ down_recv' = down_recv
    BY <2>4 DEF Download!chan
  <2> QED BY <2>2, <2>3, <2>4, DownloadStep
<1> QED BY <1>1, <1>2, <1>3, InitInductive, NextInductive, PTL
        DEF Spec, EndToEnd, Upload!Spec, Download!Spec

(*************************** Ends are complete ****************************)

\* In a queue, a message of kinds E is behind all data.
Absent(q, E) == \A i \in DOMAIN q : q[i].type \notin E
EndLast(q, E) == \A i, j \in DOMAIN q : i < j /\ q[i].type \in E => ~IsData(q[j])
Ends == {"Close", "TcpEof"}

\* The handler may still write; the stream task reads nothing more from the target.
Early == acc.pc \in {"waiting", "forwarding"}
Stopped == gw.target_read_closed \/ gw.pc \in Over

Stopping ==
    /\ Stopped => ~StreamUnsent
    /\ gw.pc = "writing" => gw.out = <<>>
    /\ ~Absent(gw.out, Ends) => Stopped

\* The end of the download is behind all of its data.
DownEndLast == EndLast(g2a, Ends) /\ (~Absent(g2a, Ends) => Stopped)
DownAll == acc.entry /\ gw.target_read_closed => Consecutive(g2a, AccessTaken, down_sent)
EntryGone ==
    Early /\ session.access /\ ~acc.entry =>
       Stopped /\ None(g2a, "Data") /\ (gw.target_read_closed => AccessTaken = down_sent)
DownClosed ==
    acc.remote_closed => Stopped /\ (gw.target_read_closed => Len(down_recv) = down_sent)
DownEndsOK == Stopping /\ DownEndLast /\ DownAll /\ EntryGone /\ DownClosed

\* The end of the upload is behind all of its data, and no Close comes before.
LocalClosed ==
    /\ acc.local_read_closed => ~Unsent
    /\ ~Absent(acc.out, {"TcpEof"}) => acc.local_read_closed
UpEndLast == EndLast(a2g, {"TcpEof"}) /\ (~Absent(a2g, {"TcpEof"}) => acc.local_read_closed)
NoClose == Early => Absent(acc.out, {"Close"}) /\ Absent(a2g, {"Close"})
StreamEntryGone ==
    Early /\ session.gateway /\ ~gw.entry /\ gw.pc \in {"forwarding", "writing"} =>
       acc.local_read_closed /\ gw.held = 0 /\ Len(up_recv) + Len(gw.chan) = up_sent
UpClosed ==
    gw.access_closed =>
       /\ gw.pc \in {"forwarding"} \cup Over
       /\ Early /\ session.gateway => acc.local_read_closed /\ Len(up_recv) = up_sent
UpEndsOK == LocalClosed /\ UpEndLast /\ NoClose /\ StreamEntryGone /\ UpClosed

EndsOK == DownEndsOK /\ UpEndsOK

\* What a step of the handler does to the ends of the stream.
LEMMA HandlerEnds ==
    ASSUME Typed, Handler
    PROVE  /\ session' = session /\ up_recv' = up_recv
           /\ Early' => Early /\ acc'.entry = acc.entry
           /\ acc.local_read_closed => acc'.local_read_closed
           /\ up_sent' # up_sent => ~acc.local_read_closed
           /\ acc.remote_closed => acc'.remote_closed /\ down_recv' = down_recv
           /\ acc'.remote_closed /\ ~acc.remote_closed =>
                 /\ acc.pc = "forwarding" /\ session.access /\ ~acc.entry
                 /\ acc.chan = <<>> /\ acc.held = 0 /\ down_recv' = down_recv
<1>1. acc \in AccessState
  BY DEF Typed, AccessTyped
<1>2. CASE AccessSends
  BY <1>1, <1>2 DEF AccessSends, AccessState, payload, Early
<1>3. CASE AccessOpened \/ AccessOpenFailed \/ AccessOpenTimeout
  BY <1>1, <1>3 DEF AccessOpened, AccessOpenFailed, AccessOpenTimeout, AccessState, payload, Early
<1>4. CASE WriteLocal
  BY <1>1, <1>4 DEF WriteLocal, Forwarding, AccessState, Early
<1>5. CASE ShutdownLocal
  BY <1>1, <1>5 DEF ShutdownLocal, Forwarding, AccessBreak, AccessState, payload, Early
<1>6. CASE AccessReturns
  BY <1>1, <1>6 DEF AccessReturns, AccessState, payload, Early
<1>7. CASE ReadLocal
  BY <1>1, <1>7 DEF ReadLocal, Forwarding, AccessState, Early
<1>8. CASE LocalEof
  BY <1>1, <1>8 DEF LocalEof, Forwarding, AccessBreak, AccessState, payload, Early
<1>9. CASE LocalFails
  BY <1>1, <1>9 DEF LocalFails, Forwarding, AccessBreak, AccessState, payload, Early
<1> QED BY <1>2, <1>3, <1>4, <1>5, <1>6, <1>7, <1>8, <1>9 DEF Handler, AccessTask

\* What the other steps do to the access's end of the stream.
LEMMA AccessEnds ==
    ASSUME Typed, AccessReader \/ GatewayReader \/ Stream \/ Break
    PROVE  /\ acc'.out = acc.out /\ acc'.pc = acc.pc
           /\ acc'.local_read_closed = acc.local_read_closed
           /\ acc'.remote_closed = acc.remote_closed
           /\ up_sent' = up_sent /\ down_recv' = down_recv
<1>1. acc \in AccessState
  BY DEF Typed, AccessTyped
<1>2. acc'.out = acc.out /\ acc'.pc = acc.pc /\ up_sent' = up_sent /\ down_recv' = down_recv
  BY HandlerFrame
<1>3. CASE AccessReader
  BY <1>1, <1>2, <1>3 DEF AccessReader, AccessDispatch, AccessDeliver, AccessState
<1>4. CASE GatewayReader
  BY <1>2, <1>4, GatewayDispatchFields, GatewayDeliverFields DEF GatewayReader
<1>5. CASE Stream
  BY <1>2, <1>5, StreamFields
<1>6. CASE Break
  BY <1>1, <1>2, <1>6 DEF Break, AccessLosesSession, GatewayWriterEnds, GatewayLosesSession,
     LeaseRevoked, AccessState
<1> QED BY <1>3, <1>4, <1>5, <1>6

\* What a step of the stream task does to the ends of the stream.
LEMMA StreamEnds ==
    ASSUME Typed, Stream
    PROVE  /\ session' = session /\ acc' = acc /\ a2g' = a2g
           /\ gw.target_read_closed => gw'.target_read_closed
           /\ gw.access_closed => gw'.access_closed
           /\ gw.pc \in Over => gw'.pc \in Over
           /\ gw'.target_read_closed /\ ~gw.target_read_closed =>
                 /\ gw.pc = "forwarding" /\ gw.out = <<>>
                 /\ g2a' = g2a /\ down_sent' = down_sent
           /\ down_sent' # down_sent => ~gw.target_read_closed /\ gw.pc = "forwarding"
           /\ gw'.access_closed /\ ~gw.access_closed =>
                 gw.pc = "forwarding" /\ gw.chan = <<>> /\ ~gw.entry /\ gw.held = 0
                 /\ gw'.pc \in {"forwarding", "ended"}
           /\ gw'.access_closed /\ gw'.pc \notin Over =>
                 gw'.pc = gw.pc \/ gw'.pc = "forwarding"
           /\ ~gw'.entry /\ gw'.pc \in {"forwarding", "writing"} =>
                 ~gw.entry /\ gw.pc \in {"forwarding", "writing"}
<1>1. gw \in StreamState
  BY DEF Typed, StreamTyped
<1>2. CASE StreamSends
  BY <1>1, <1>2 DEF StreamSends, StreamState, payload, Over
<1>3. CASE ReadTarget
  BY <1>1, <1>3 DEF ReadTarget, Selecting, StreamState, Over
<1>4. CASE ObserveCancel \/ BeginWrite
  BY <1>1, <1>4 DEF ObserveCancel, BeginWrite, Selecting, StreamState, payload, Over
<1>5. CASE FinishWrite
  BY <1>1, <1>5 DEF FinishWrite, StreamState, Over
<1>6. CASE StreamCleanup
  BY <1>1, <1>6 DEF StreamCleanup, StreamState, payload, Over
<1>7. CASE TargetEof
  BY <1>1, <1>7 DEF TargetEof, Selecting, StreamState, payload, Over
<1>8. CASE Connect
  BY <1>1, <1>8 DEF Connect, StreamState, payload, Over
<1>9. CASE ShutdownTarget
  BY <1>1, <1>9 DEF ShutdownTarget, Selecting, StreamState, payload, Over
<1>10. CASE StreamRevoked \/ ConnectFails \/ TargetFails
  BY <1>1, <1>10 DEF StreamRevoked, ConnectFails, TargetFails, Selecting, StreamState, payload, Over
<1> QED BY <1>2, <1>3, <1>4, <1>5, <1>6, <1>7, <1>8, <1>9, <1>10 DEF Stream, StreamTask

\* What the other steps do to the stream task's end.
LEMMA GatewayEnds ==
    ASSUME Typed, OpeningOK, Handler \/ AccessReader \/ GatewayReader \/ Break
    PROVE  /\ gw'.out = gw.out /\ down_sent' = down_sent /\ up_recv' = up_recv
           /\ (gw'.pc = gw.pc \/ (gw.pc = "none" /\ gw'.pc = "connecting"))
           /\ gw'.target_read_closed = gw.target_read_closed
           /\ gw'.access_closed = gw.access_closed
<1>1. gw \in StreamState
  BY DEF Typed, StreamTyped
<1>2. CASE Handler \/ AccessReader
  BY <1>2, StreamFrame
<1>3. CASE GatewayDeliver
  BY <1>1, <1>3 DEF GatewayDeliver, StreamState, payload
<1>4. CASE Break
  BY <1>1, <1>4 DEF Break, AccessLosesSession, GatewayWriterEnds, GatewayLosesSession,
     LeaseRevoked, Cancelled, StreamState, payload
<1>5. CASE GatewayDispatch
  <2>1. /\ gw'.out = gw.out /\ down_sent' = down_sent /\ up_recv' = up_recv
        /\ gw'.target_read_closed = gw.target_read_closed
        /\ gw'.access_closed = gw.access_closed
        /\ gw'.pc = gw.pc \/ (Head(a2g).type = "Open" /\ gw'.pc = "connecting")
    BY <1>1, <1>5 DEF GatewayDispatch, Cancelled, StreamState, payload
  <2>2. a2g # <<>> /\ a2g \in Seq(Up)
    BY <1>5, UploadTypes DEF GatewayDispatch
  <2>3. Head(a2g) = a2g[1] /\ 1 \in DOMAIN a2g
    BY <2>2, Positions
  <2>4. Head(a2g).type = "Open" => gw.pc = "none"
    BY <2>3 DEF OpeningOK, OpenQueued
  <2> QED BY <2>1, <2>4
<1> QED BY <1>2, <1>3, <1>4, <1>5 DEF GatewayReader

\* The operators above over an empty queue and the steps of a queue.
LEMMA EndFacts ==
    ASSUME NEW S, NEW q \in Seq(S), NEW E
    PROVE  /\ Absent(<<>>, E) /\ EndLast(<<>>, E)
           /\ Absent(q, E) => EndLast(q, E)
           /\ \A x \in S : /\ Absent(q, E) /\ x.type \notin E => Absent(Append(q, x), E)
                           /\ EndLast(q, E) /\ (~IsData(x) \/ Absent(q, E)) => EndLast(Append(q, x), E)
           /\ q # <<>> => /\ Absent(q, E) => Absent(Tail(q), E) /\ Head(q).type \notin E
                          /\ EndLast(q, E) => EndLast(Tail(q), E)
                          /\ EndLast(q, E) /\ Head(q).type \in E => None(Tail(q), "Data")
<1>1. Absent(<<>>, E) /\ EndLast(<<>>, E) /\ (Absent(q, E) => EndLast(q, E))
  BY DEF Absent, EndLast
<1>2. ASSUME NEW x \in S
      PROVE  /\ Absent(q, E) /\ x.type \notin E => Absent(Append(q, x), E)
             /\ EndLast(q, E) /\ (~IsData(x) \/ Absent(q, E)) => EndLast(Append(q, x), E)
  <2> DEFINE r == Append(q, x)
  <2>1. /\ DOMAIN q = 1..Len(q) /\ Len(q) \in Nat /\ DOMAIN r = 1..(Len(q) + 1)
        /\ \A i \in 1..Len(q) : r[i] = q[i]
        /\ r[Len(q) + 1] = x
    BY Positions
  <2> HIDE DEF r
  <2>2. \A i \in DOMAIN r : (i \in DOMAIN q /\ r[i] = q[i]) \/ (i = Len(q) + 1 /\ r[i] = x)
    BY <2>1
  <2>3. \A i, j \in DOMAIN r : i < j => i \in DOMAIN q /\ r[i] = q[i]
    BY <2>1
  <2>4. Absent(q, E) /\ x.type \notin E => Absent(r, E)
    BY <2>2 DEF Absent
  <2>5. EndLast(q, E) /\ (~IsData(x) \/ Absent(q, E)) => EndLast(r, E)
    BY <2>2, <2>3 DEF Absent, EndLast
  <2> QED BY <2>4, <2>5 DEF r
<1>3. ASSUME q # <<>>
      PROVE  /\ Absent(q, E) => Absent(Tail(q), E) /\ Head(q).type \notin E
             /\ EndLast(q, E) => EndLast(Tail(q), E)
             /\ EndLast(q, E) /\ Head(q).type \in E => None(Tail(q), "Data")
  <2> DEFINE r == Tail(q)
  <2>1. /\ DOMAIN q = 1..Len(q) /\ Len(q) \in Nat /\ Len(q) > 0 /\ Head(q) = q[1]
        /\ DOMAIN r = 1..(Len(q) - 1)
        /\ \A i \in 1..(Len(q) - 1) : r[i] = q[i + 1]
    BY <1>3, Positions
  <2> HIDE DEF r
  <2>2. 1 \in DOMAIN q /\ \A i \in DOMAIN r : i + 1 \in DOMAIN q /\ 1 < i + 1 /\ r[i] = q[i + 1]
    BY <2>1
  <2>3. \A i, j \in DOMAIN r : i < j => i + 1 < j + 1
    BY <2>1
  <2>4. Absent(q, E) => Absent(r, E) /\ Head(q).type \notin E
    BY <2>1, <2>2 DEF Absent
  <2>5. EndLast(q, E) => EndLast(r, E)
    <3> SUFFICES ASSUME EndLast(q, E), NEW i \in DOMAIN r, NEW j \in DOMAIN r, i < j, r[i].type \in E
                 PROVE  ~IsData(r[j])
      BY DEF EndLast
    <3>1. /\ i + 1 \in DOMAIN q /\ r[i] = q[i + 1] /\ j + 1 \in DOMAIN q /\ r[j] = q[j + 1]
          /\ i + 1 < j + 1
      BY <2>2, <2>3
    <3> QED BY <3>1 DEF EndLast
  <2>6. EndLast(q, E) /\ Head(q).type \in E => None(r, "Data")
    <3> SUFFICES ASSUME EndLast(q, E), Head(q).type \in E, NEW j \in DOMAIN r
                 PROVE  r[j].type # "Data"
      BY DEF None
    <3>1. j + 1 \in DOMAIN q /\ 1 < j + 1 /\ r[j] = q[j + 1]
      BY <2>2
    <3> QED BY <3>1, <2>1, <2>2 DEF EndLast, IsData
  <2> QED BY <2>4, <2>5, <2>6 DEF r
<1> QED BY <1>1, <1>2, <1>3

\* A queue without data is at its top.
LEMMA ConsecutiveNone ==
    ASSUME NEW q, NEW b \in Nat, NEW t \in Nat, Consecutive(q, b, t), None(q, "Data")
    PROVE  b = t
<1>1. \A k \in (b + 1)..t : FALSE
  BY DEF Consecutive, None, IsData
<1>2. b <= t
  BY DEF Consecutive
<1>3. b < t => b + 1 \in (b + 1)..t
  OBVIOUS
<1> QED BY <1>1, <1>2, <1>3

\* The stream task stays at the end of the download.
LEMMA StoppedStays ==
    ASSUME Typed, OpeningOK, Handler \/ AccessReader \/ GatewayReader \/ Stream \/ Break
    PROVE  Stopped => /\ Stopped' /\ down_sent' = down_sent
                      /\ gw'.target_read_closed => gw.target_read_closed
<1>1. CASE Stream
  <2>1. "forwarding" \notin Over
    BY DEF Over
  <2> QED BY <1>1, <2>1, StreamEnds DEF Stopped
<1>2. CASE Handler \/ AccessReader \/ GatewayReader \/ Break
  BY <1>2, GatewayEnds DEF Stopped, Over
<1> QED BY <1>1, <1>2

\* What a step does to the queue towards the access.
LEMMA DownQueueStep ==
    ASSUME Typed, OpeningOK, Stopping, Handler \/ AccessReader \/ GatewayReader \/ Stream \/ Break
    PROVE  \/ AccessDispatch
           \/ g2a' = g2a
           \/ \E m \in Down : /\ g2a' = Append(g2a, m)
                              /\ IsData(m) => ~Stopped
                              /\ m.type \in Ends => Stopped
<1>1. CASE Handler \/ AccessDeliver \/ Break
  BY <1>1, HandlerFields, AccessDeliverFields, BreakFields
<1>2. CASE GatewayDispatch
  BY <1>2, GatewayDispatchFields, Messages DEF Control, IsData, Ends
<1>3. CASE GatewayDeliver
  <2>1. g2a' = g2a \/ (gw.pc \in Over /\ g2a' = Append(g2a, Control("Close")))
    BY <1>3 DEF GatewayDeliver, Post, Over
  <2>2. Control("Close") \in Down /\ ~IsData(Control("Close"))
    BY Messages DEF Control, IsData
  <2> QED BY <2>1, <2>2 DEF Stopped
<1>4. CASE Stream /\ ~StreamSends
  BY <1>4, StreamOut, ConnectOut
<1>5. CASE StreamSends
  <2>1. gw.out \in Seq(Down) /\ gw.out # <<>>
    BY <1>5, DownloadTypes DEF StreamSends
  <2>2. Head(gw.out) \in Down /\ Head(gw.out) = gw.out[1] /\ 1 \in DOMAIN gw.out
    BY <2>1, Positions
  <2>3. IsData(Head(gw.out)) => ~Stopped
    BY <2>2 DEF Stopping, StreamUnsent, None, IsData
  <2>4. Head(gw.out).type \in Ends => Stopped
    BY <2>2 DEF Stopping, Absent
  <2> QED BY <1>5, <2>2, <2>3, <2>4, StreamSendsFields
<1> QED BY <1>1, <1>2, <1>3, <1>4, <1>5 DEF AccessReader, GatewayReader


\* The access's view of the session and of its entry only ends.
LEMMA AccessOnlyEnds ==
    ASSUME Typed, Handler \/ AccessReader \/ GatewayReader \/ Stream \/ Break
    PROVE  /\ acc'.entry => acc.entry
           /\ Early' => Early
           /\ session'.access => session.access
           /\ session'.gateway => session.gateway
<1>1. CASE Handler
  BY <1>1, HandlerFields, HandlerEnds
<1>2. CASE AccessReader
  <2>1. session' = session /\ acc'.pc = acc.pc
    <3>1. acc'.pc = acc.pc
      BY <1>2, HandlerFrame
    <3>2. session' = session
      BY <1>2 DEF AccessReader, AccessDispatch, AccessDeliver
    <3> QED BY <3>1, <3>2
  <2>2. acc'.entry => acc.entry
    BY <1>2, AccessDispatchFields, AccessDeliverFields DEF AccessReader
  <2> QED BY <1>2, <2>1, <2>2 DEF Early
<1>3. CASE GatewayReader \/ Stream
  <2>1. session' = session /\ acc' = acc
    BY <1>3, StreamEnds DEF GatewayReader, GatewayDispatch, GatewayDeliver
  <2> QED BY <2>1 DEF Early
<1>4. CASE Break
  <2>1. /\ session' \in [access : BOOLEAN, gateway : BOOLEAN, writer : BOOLEAN]
        /\ session'.access => session.access
        /\ session'.gateway => session.gateway
    BY <1>4 DEF Break, AccessLosesSession, GatewayWriterEnds, GatewayLosesSession, LeaseRevoked,
       Typed, SessionTyped
  <2>2. acc'.pc = acc.pc /\ (acc'.entry => acc.entry)
    BY <1>4, HandlerFrame, BreakFields
  <2> QED BY <2>1, <2>2 DEF Early
<1> QED BY <1>1, <1>2, <1>3, <1>4

\* What a step does to the number of frames that the access has taken.
LEMMA AccessTakenStep ==
    ASSUME Typed, DownloadOK, Handler \/ AccessReader \/ GatewayReader \/ Stream \/ Break,
           acc'.entry \/ (Early' /\ session'.access)
    PROVE  /\ AccessDispatch /\ acc.entry /\ IsData(Head(g2a)) => AccessTaken' = AccessTaken + 1
           /\ ~(AccessDispatch /\ acc.entry /\ IsData(Head(g2a))) => AccessTaken' = AccessTaken
<1>t. /\ down_recv \in DownNumbers /\ acc.chan \in DownNumbers /\ acc.held \in Nat
      /\ Len(down_recv) \in Nat /\ Len(acc.chan) \in Nat
  BY DownloadTypes
<1>n. acc.entry \/ acc'.entry => acc.pc # "done"
  BY AccessOnlyEnds DEF DownloadOK, DownComing
<1>1. CASE Handler /\ ~AccessDispatch
  <2>1. acc'.held = acc.held
    BY <1>1, HandlerFields
  <2>2. acc'.pc # "done"
    BY <1>1, <1>n, HandlerFields DEF Early
  <2>3. CASE down_recv' = down_recv /\ acc'.chan = acc.chan
    BY <1>1, <2>1, <2>3 DEF AccessTaken
  <2>4. CASE acc.chan # <<>> /\ down_recv' = Append(down_recv, Head(acc.chan)) /\ acc'.chan = Tail(acc.chan)
    <3>1. Len(down_recv') = Len(down_recv) + 1 /\ Len(acc'.chan) = Len(acc.chan) - 1
      BY <2>4, <1>t, NumbersFacts, CapacityAssumption
    <3> DEFINE a == Len(down_recv)
               b == Len(acc.chan)
    <3>2. a \in Nat /\ b \in Nat /\ Len(down_recv') = a + 1 /\ Len(acc'.chan) = b - 1
      BY <1>t, <3>1
    <3> HIDE DEF a, b
    <3>3. Len(down_recv') + Len(acc'.chan) = a + b
      BY <3>2
    <3>4. Len(down_recv') + Len(acc'.chan) = Len(down_recv) + Len(acc.chan)
      BY <3>3 DEF a, b
    <3> QED BY <1>1, <2>1, <3>4 DEF AccessTaken
  <2> QED BY <1>1, <2>2, <2>3, <2>4, HandlerFields
<1>2. CASE AccessDispatch
  <2>1. /\ acc.held = 0 /\ acc'.chan = acc.chan /\ down_recv' = down_recv
        /\ acc'.held = IF IsData(Head(g2a)) /\ acc.entry THEN Head(g2a).n ELSE 0
        /\ g2a # <<>>
    BY <1>2, AccessDispatchFields, HandlerFrame DEF AccessReader, IsData
  <2>2. IsData(Head(g2a)) => Head(g2a).n # 0
    BY <2>1, DownloadTypes, Messages, Queues, HeldFacts DEF IsData
  <2>3. CASE IsData(Head(g2a)) /\ acc.entry
    <3>1. acc'.held # 0
      BY <2>1, <2>2, <2>3
    <3>2. /\ AccessTaken = Len(down_recv) + Len(acc.chan)
          /\ AccessTaken' = Len(down_recv) + Len(acc.chan) + 1
      BY <1>t, <2>1, <3>1 DEF AccessTaken
    <3> QED BY <1>2, <2>3, <3>2
  <2>4. CASE ~(IsData(Head(g2a)) /\ acc.entry)
    BY <1>2, <1>t, <2>1, <2>4 DEF AccessTaken
  <2> QED BY <1>2, <2>3, <2>4
<1>3. CASE AccessDeliver
  <2>1. acc.pc # "done"
    BY <1>3, <1>n, HandlerFrame DEF AccessReader, Early
  <2>2. acc.held # 0 /\ acc'.held = 0 /\ acc'.chan = Append(acc.chan, acc.held) /\ down_recv' = down_recv
    BY <1>3, <2>1, AccessDeliverFields, HandlerFrame DEF AccessReader
  <2>3. Len(acc'.chan) = Len(acc.chan) + 1
    <3>1. acc.held \in DownHeld \ {0}
      BY <2>2 DEF Typed, AccessTyped, AccessState
    <3> QED BY <2>2, <3>1, <1>t, NumbersFacts
  <2>4. ~AccessDispatch
    BY <2>2 DEF AccessDispatch
  <2> QED BY <1>t, <2>2, <2>3, <2>4 DEF AccessTaken
<1>4. CASE (GatewayReader \/ Stream \/ Break) /\ ~AccessDispatch
  <2>1. acc'.chan = acc.chan /\ down_recv' = down_recv /\ acc'.held = acc.held
    <3>1. CASE GatewayReader \/ Stream
      BY <3>1, HandlerFrame, StreamFields, GatewayDispatchFields, GatewayDeliverFields
         DEF GatewayReader
    <3>2. CASE Break
      <4>1. AccessLosesSession => ~session'.access
        BY DEF AccessLosesSession, Typed, SessionTyped
      <4>2. AccessLosesSession \/ acc' = acc
        BY <3>2 DEF Break, GatewayWriterEnds, GatewayLosesSession, LeaseRevoked
      <4> QED BY <3>2, <4>1, <4>2, HandlerFrame, BreakFields
    <3> QED BY <1>4, <3>1, <3>2
  <2> QED BY <1>4, <2>1 DEF AccessTaken
<1> QED BY <1>1, <1>2, <1>3, <1>4 DEF AccessReader

\* The parts of the invariant about the end of the download, each over every step.
LEMMA StoppingNext ==
    ASSUME Typed, OpeningOK, OutOK, Stopping,
           Handler \/ AccessReader \/ GatewayReader \/ Stream \/ Break
    PROVE  Stopping'
<1>1. CASE Handler \/ AccessReader \/ GatewayReader \/ Break
  <2>1. gw'.out = gw.out /\ (gw'.pc = gw.pc \/ (gw.pc = "none" /\ gw'.pc = "connecting"))
        /\ gw'.target_read_closed = gw.target_read_closed
    BY <1>1, GatewayEnds
  <2> QED BY <2>1 DEF Stopping, Stopped, StreamUnsent, Over
<1>2. CASE Stream
  <2>t. gw \in StreamState /\ gw.out \in Seq(Down)
    BY DownloadTypes DEF Typed, StreamTyped
  <2>e. None(<<>>, "Data") /\ Absent(<<>>, Ends)
    BY DEF None, Absent
  <2>1. CASE StreamSends
    <3>1. /\ gw.out # <<>>
          /\ gw'.target_read_closed = gw.target_read_closed
          /\ \/ gw'.out = Tail(gw.out) /\ gw'.pc = gw.pc
             \/ gw'.out = <<>> /\ gw'.pc = "ended"
      BY <2>1, <2>t DEF StreamSends, StreamState
    <3>2. CASE gw'.out = Tail(gw.out) /\ gw'.pc = gw.pc
      <4>1. Stopped' = Stopped
        BY <3>1, <3>2 DEF Stopped
      <4>2. StreamUnsent' => StreamUnsent
        BY <3>1, <3>2, <2>t, NoneFacts DEF StreamUnsent
      <4>3. ~Absent(gw'.out, Ends) => ~Absent(gw.out, Ends)
        BY <3>1, <3>2, <2>t, EndFacts
      <4> QED BY <3>1, <3>2, <4>1, <4>2, <4>3 DEF Stopping
    <3>3. CASE gw'.out = <<>> /\ gw'.pc = "ended"
      BY <3>3, <2>e DEF Stopping, Stopped, StreamUnsent
    <3> QED BY <3>1, <3>2, <3>3
  <2>2. CASE ReadTarget
    <3>1. /\ gw.pc = "forwarding" /\ gw'.pc = "forwarding" /\ ~gw'.target_read_closed
          /\ gw'.out = <<Data(down_sent + 1)>>
      BY <2>2, <2>t DEF ReadTarget, Selecting, StreamState
    <3>2. Absent(gw'.out, Ends)
      BY <3>1 DEF Absent, Ends, Data
    <3> QED BY <3>1, <3>2 DEF Stopping, Stopped, Over
  <2>3. CASE TargetEof
    <3>1. gw'.target_read_closed /\ gw'.pc # "writing" /\ gw'.out = <<Control("TcpEof")>>
      BY <2>3, <2>t DEF TargetEof, Selecting, StreamState
    <3>2. None(gw'.out, "Data")
      BY <3>1 DEF None, Control
    <3> QED BY <3>1, <3>2 DEF Stopping, Stopped, StreamUnsent
  <2>4. CASE Connect
    <3>1. /\ gw.pc = "connecting" /\ gw'.pc = "forwarding" /\ gw'.out = <<Control("OpenOk")>>
      BY <2>4, ConnectOut
    <3>2. None(gw'.out, "Data") /\ Absent(gw'.out, Ends)
      BY <3>1 DEF None, Control, Absent, Ends
    <3> QED BY <3>1, <3>2 DEF Stopping, StreamUnsent
  <2>5. CASE StreamCleanup
    <3>1. gw'.pc = "done"
      BY <2>5, <2>t DEF StreamCleanup, StreamState
    <3>2. gw'.out \in {<<Control("Error"), Control("Close")>>, <<Control("Close")>>}
      BY <2>5, <2>t DEF StreamCleanup, StreamState
    <3>3. None(gw'.out, "Data")
      BY <3>2 DEF None, Control
    <3> QED BY <3>1, <3>3 DEF Stopping, Stopped, StreamUnsent, Over
  <2>6. CASE StreamRevoked \/ TargetFails \/ ObserveCancel \/ BeginWrite \/ ShutdownTarget
    <3>1. gw'.out = <<>>
      <4>1. CASE StreamRevoked
        BY <4>1, <2>t DEF StreamRevoked, StreamState
      <4>2. CASE TargetFails
        <5>1. gw.out = <<>>
          BY <4>2 DEF TargetFails, Selecting, Stopping
        <5> QED BY <4>2, <5>1, <2>t DEF TargetFails, StreamState
      <4>3. CASE ObserveCancel \/ BeginWrite
        BY <4>3, <2>t DEF ObserveCancel, BeginWrite, Selecting, StreamState
      <4>4. CASE ShutdownTarget
        BY <4>4, <2>t DEF ShutdownTarget, Selecting, StreamState
      <4> QED BY <2>6, <4>1, <4>2, <4>3, <4>4
    <3> QED BY <3>1, <2>e DEF Stopping, StreamUnsent
  <2>7. CASE FinishWrite
    <3>1. gw'.out = <<>> /\ gw'.pc = "forwarding"
      BY <2>7, <2>t DEF FinishWrite, StreamState, Stopping
    <3> QED BY <3>1, <2>e DEF Stopping, StreamUnsent
  <2>8. CASE ConnectFails
    <3>1. gw'.out = <<>> /\ gw'.pc = "ended"
      BY <2>8, <2>t DEF ConnectFails, StreamState, OpeningOK, NotYet
    <3> QED BY <3>1, <2>e DEF Stopping, StreamUnsent
  <2> QED BY <1>2, <2>1, <2>2, <2>3, <2>4, <2>5, <2>6, <2>7, <2>8 DEF Stream, StreamTask
<1> QED BY <1>1, <1>2

LEMMA DownEndLastNext ==
    ASSUME Typed, OpeningOK, Stopping, DownEndLast,
           Handler \/ AccessReader \/ GatewayReader \/ Stream \/ Break
    PROVE  DownEndLast'
<1>t. g2a \in Seq(Down)
  BY DownloadTypes
<1>s. Stopped => Stopped'
  BY StoppedStays
<1>1. CASE AccessDispatch
  <2>1. g2a # <<>> /\ g2a' = Tail(g2a)
    BY <1>1, AccessDispatchFields
  <2> QED BY <2>1, <1>t, <1>s, EndFacts DEF DownEndLast
<1>2. CASE g2a' = g2a
  BY <1>2, <1>s DEF DownEndLast
<1>3. ASSUME NEW m \in Down, g2a' = Append(g2a, m), IsData(m) => ~Stopped, m.type \in Ends => Stopped
      PROVE  DownEndLast'
  <2>1. EndLast(g2a', Ends)
    BY <1>3, <1>t, EndFacts DEF DownEndLast
  <2>2. ~Absent(g2a', Ends) => Stopped'
    BY <1>3, <1>t, <1>s, EndFacts DEF DownEndLast
  <2> QED BY <2>1, <2>2 DEF DownEndLast
<1> QED BY <1>1, <1>2, <1>3, DownQueueStep

LEMMA DownAllNext ==
    ASSUME Typed, OpeningOK, DownloadOK, Stopping, DownEndLast, DownAll,
           Handler \/ AccessReader \/ GatewayReader \/ Stream \/ Break
    PROVE  DownAll'
<1> SUFFICES ASSUME acc'.entry, gw'.target_read_closed
             PROVE  Consecutive(g2a', AccessTaken', down_sent')
  BY DEF DownAll
<1>t. g2a \in Seq(Down) /\ AccessTaken \in Nat /\ down_sent \in Nat
  BY DownloadTypes
<1>e. acc.entry
  BY AccessOnlyEnds
<1>a. /\ AccessDispatch /\ IsData(Head(g2a)) => AccessTaken' = AccessTaken + 1
      /\ ~(AccessDispatch /\ IsData(Head(g2a))) => AccessTaken' = AccessTaken
  BY <1>e, AccessTakenStep
<1>1. CASE gw.target_read_closed
  <2>1. Stopped /\ down_sent' = down_sent /\ Consecutive(g2a, AccessTaken, down_sent)
    BY <1>1, <1>e, StoppedStays DEF Stopped, DownAll
  <2>2. CASE AccessDispatch
    <3>1. g2a # <<>> /\ g2a' = Tail(g2a)
      BY <2>2, AccessDispatchFields
    <3>2. CASE IsData(Head(g2a))
      BY <2>1, <2>2, <3>1, <3>2, <1>a, <1>t, ConsecutiveTailData
    <3>3. CASE ~IsData(Head(g2a))
      BY <2>1, <3>1, <3>3, <1>a, <1>t, ConsecutiveTail
    <3> QED BY <3>2, <3>3
  <2>3. CASE ~AccessDispatch
    <3>1. AccessTaken' = AccessTaken
      BY <2>3, <1>a
    <3>2. CASE g2a' = g2a
      BY <2>1, <3>1, <3>2
    <3>3. ASSUME NEW m \in Down, g2a' = Append(g2a, m), IsData(m) => ~Stopped
          PROVE  Consecutive(g2a', AccessTaken', down_sent')
      BY <2>1, <3>1, <3>3, <1>t, ConsecutiveAppend
    <3> QED BY <2>3, <3>2, <3>3, DownQueueStep
  <2> QED BY <2>2, <2>3
<1>2. CASE ~gw.target_read_closed
  <2>1. /\ Stream /\ gw.pc = "forwarding" /\ gw.out = <<>>
        /\ g2a' = g2a /\ down_sent' = down_sent
    BY <1>2, GatewayEnds, StreamEnds
  <2>2. acc' = acc /\ down_recv' = down_recv
    BY <2>1, StreamEnds, HandlerFrame
  <2>3. AccessTaken' = AccessTaken
    BY <2>2 DEF AccessTaken
  <2>4. PICK t \in Nat : DownQueued(t) /\ Consecutive(g2a, AccessTaken, t)
    BY <1>e DEF DownloadOK, DownComing
  <2>5. t = down_sent
    BY <2>1, <2>4 DEF DownQueued, StreamUnsent, None, Over
  <2> QED BY <2>1, <2>3, <2>4, <2>5
<1> QED BY <1>1, <1>2

LEMMA EntryGoneNext ==
    ASSUME Typed, OpeningOK, DownloadOK, Stopping, DownEndLast, DownAll, EntryGone,
           Handler \/ AccessReader \/ GatewayReader \/ Stream \/ Break
    PROVE  EntryGone'
<1> SUFFICES ASSUME Early', session'.access, ~acc'.entry
             PROVE  /\ Stopped' /\ None(g2a', "Data")
                    /\ gw'.target_read_closed => AccessTaken' = down_sent'
  BY DEF EntryGone
<1>t. g2a \in Seq(Down) /\ AccessTaken \in Nat /\ down_sent \in Nat
  BY DownloadTypes
<1>e. Early /\ session.access
  BY AccessOnlyEnds
<1>s. Stopped => /\ Stopped' /\ down_sent' = down_sent
                 /\ gw'.target_read_closed => gw.target_read_closed
  BY StoppedStays
<1>a. ~(AccessDispatch /\ acc.entry /\ IsData(Head(g2a))) => AccessTaken' = AccessTaken
  BY AccessTakenStep
<1>1. CASE acc.entry
  <2>1. AccessDispatch /\ Head(g2a).type \in Ends /\ g2a # <<>> /\ g2a' = Tail(g2a)
    <3>1. ~Handler
      BY <1>1, HandlerEnds
    <3>2. ~AccessDeliver
      <4>1. AccessDeliver => acc.pc = "done"
        BY <1>1, AccessDeliverFields
      <4> QED BY <1>e, <4>1 DEF Early
    <3>3. GatewayReader \/ Stream => acc' = acc
      BY StreamFields, GatewayDispatchFields, GatewayDeliverFields DEF GatewayReader
    <3>4. ~Break
      <4>1. AccessLosesSession => ~session'.access
        BY DEF AccessLosesSession, Typed, SessionTyped
      <4>2. Break => AccessLosesSession \/ acc' = acc
        BY DEF Break, GatewayWriterEnds, GatewayLosesSession, LeaseRevoked
      <4> QED BY <1>1, <4>1, <4>2
    <3>5. AccessDispatch
      BY <1>1, <3>1, <3>2, <3>3, <3>4 DEF AccessReader
    <3>6. acc.entry /\ Head(g2a).type \notin {"Close", "TcpEof"} => acc'.entry
      BY <3>5 DEF AccessDispatch, Typed, AccessTyped, AccessState
    <3> QED BY <1>1, <3>5, <3>6, AccessDispatchFields DEF Ends
  <2>2. Stopped /\ None(g2a', "Data")
    <3>1. ~Absent(g2a, Ends)
      BY <2>1, <1>t, EndFacts
    <3> QED BY <2>1, <3>1, <1>t, EndFacts DEF DownEndLast
  <2>3. ASSUME gw'.target_read_closed PROVE AccessTaken' = down_sent'
    <3>1. gw.target_read_closed /\ down_sent' = down_sent
      BY <1>s, <2>2, <2>3
    <3>2. ~IsData(Head(g2a))
      BY <2>1 DEF Ends, IsData
    <3>3. Consecutive(g2a', AccessTaken, down_sent)
      BY <1>1, <2>1, <3>1, <3>2, <1>t, ConsecutiveTail DEF DownAll
    <3>4. AccessTaken = down_sent
      BY <2>2, <3>3, <1>t, ConsecutiveNone
    <3> QED BY <3>1, <3>2, <3>4, <1>a
  <2> QED BY <1>s, <2>2, <2>3
<1>2. CASE ~acc.entry
  <2>1. Stopped /\ None(g2a, "Data") /\ (gw.target_read_closed => AccessTaken = down_sent)
    BY <1>2, <1>e DEF EntryGone
  <2>2. AccessTaken' = AccessTaken
    BY <1>2, <1>a
  <2>3. None(g2a', "Data")
    <3>1. CASE AccessDispatch
      BY <2>1, <3>1, <1>t, AccessDispatchFields, NoneFacts
    <3>2. ASSUME NEW m \in Down, g2a' = Append(g2a, m), IsData(m) => ~Stopped
          PROVE  None(g2a', "Data")
      BY <2>1, <3>2, <1>t, NoneFacts DEF IsData
    <3> QED BY <2>1, <3>1, <3>2, DownQueueStep
  <2> QED BY <1>s, <2>1, <2>2, <2>3
<1> QED BY <1>1, <1>2

LEMMA DownClosedNext ==
    ASSUME Typed, OpeningOK, EntryGone, DownClosed,
           Handler \/ AccessReader \/ GatewayReader \/ Stream \/ Break
    PROVE  DownClosed'
<1> SUFFICES ASSUME acc'.remote_closed
             PROVE  Stopped' /\ (gw'.target_read_closed => Len(down_recv') = down_sent')
  BY DEF DownClosed
<1>s. Stopped => /\ Stopped' /\ down_sent' = down_sent
                 /\ gw'.target_read_closed => gw.target_read_closed
  BY StoppedStays
<1>1. CASE acc.remote_closed
  <2>1. down_recv' = down_recv
    BY <1>1, HandlerEnds, AccessEnds
  <2> QED BY <1>1, <1>s, <2>1 DEF DownClosed
<1>2. CASE ~acc.remote_closed
  <2>1. Handler
    BY <1>2, AccessEnds
  <2>2. /\ acc.pc = "forwarding" /\ session.access /\ ~acc.entry
        /\ acc.chan = <<>> /\ acc.held = 0 /\ down_recv' = down_recv
    BY <1>2, <2>1, HandlerEnds
  <2>3. Stopped /\ (gw.target_read_closed => AccessTaken = down_sent)
    BY <2>2 DEF EntryGone, Early
  <2>4. AccessTaken = Len(down_recv)
    BY <2>2, DownloadTypes DEF AccessTaken
  <2> QED BY <1>s, <2>2, <2>3, <2>4
<1> QED BY <1>1, <1>2

LEMMA DownEndsNext ==
    ASSUME Typed, OutOK, OpeningOK, DownloadOK, DownEndsOK,
           Handler \/ AccessReader \/ GatewayReader \/ Stream \/ Break
    PROVE  DownEndsOK'
  BY StoppingNext, DownEndLastNext, DownAllNext, EntryGoneNext, DownClosedNext DEF DownEndsOK

\* What a step does to the queue towards the gateway.
LEMMA UpQueueStep ==
    ASSUME Typed, Handler \/ AccessReader \/ GatewayReader \/ Stream \/ Break
    PROVE  \/ GatewayDispatch
           \/ a2g' = a2g
           \/ AccessSends /\ acc.out # <<>> /\ a2g' = Append(a2g, Head(acc.out))
           \/ AccessDispatch /\ ~acc.entry /\ IsData(Head(g2a)) /\ a2g' = Append(a2g, Control("Close"))
           \/ acc.pc = "done" /\ a2g' = Append(a2g, Control("Close"))
<1>1. CASE Handler
  BY <1>1, HandlerOut
<1>2. CASE AccessDispatch
  <2>1. \/ a2g' = a2g
        \/ ~acc.entry /\ Head(g2a).type = "Data" /\ a2g' = Append(a2g, Control("Close"))
    BY <1>2 DEF AccessDispatch
  <2> QED BY <1>2, <2>1 DEF IsData
<1>3. CASE AccessDeliver
  BY <1>3, AccessDeliverFields
<1>4. CASE GatewayDeliver \/ Stream \/ Break
  BY <1>4, GatewayDeliverFields, StreamOut, BreakFields
<1> QED BY <1>1, <1>2, <1>3, <1>4 DEF AccessReader, GatewayReader

\* The parts of the invariant about the end of the upload, each over every step.
LEMMA LocalClosedNext ==
    ASSUME Typed, LocalClosed, Handler \/ AccessReader \/ GatewayReader \/ Stream \/ Break
    PROVE  LocalClosed'
<1>t. acc \in AccessState /\ acc.out \in Seq(Up)
  BY UploadTypes DEF Typed, AccessTyped
<1>e. None(<<>>, "Data") /\ Absent(<<>>, {"TcpEof"})
  BY DEF None, Absent
<1>k. ASSUME acc'.out = acc.out, acc'.local_read_closed = acc.local_read_closed
      PROVE  LocalClosed'
  BY <1>k DEF LocalClosed, Unsent
<1>n. ASSUME acc'.out = <<>> PROVE LocalClosed'
  BY <1>n, <1>e DEF LocalClosed, Unsent
<1>c. ASSUME acc.out = <<>>, acc'.out = Append(acc.out, Control("Close")) PROVE LocalClosed'
  <2>1. acc'.out = <<Control("Close")>>
    BY <1>c, <1>t
  <2>2. None(acc'.out, "Data") /\ Absent(acc'.out, {"TcpEof"})
    BY <2>1 DEF None, Absent, Control
  <2> QED BY <2>2 DEF LocalClosed, Unsent
<1>1. CASE AccessReader \/ GatewayReader \/ Stream \/ Break
  BY <1>1, <1>k, AccessEnds
<1>2. CASE AccessSends
  <2>1. /\ acc.out # <<>> /\ acc'.out = Tail(acc.out)
        /\ acc'.local_read_closed = acc.local_read_closed
    BY <1>2, <1>t DEF AccessSends, AccessState
  <2>2. /\ None(acc.out, "Data") => None(acc'.out, "Data")
        /\ Absent(acc.out, {"TcpEof"}) => Absent(acc'.out, {"TcpEof"})
    BY <2>1, <1>t, NoneFacts, EndFacts
  <2> QED BY <2>1, <2>2 DEF LocalClosed, Unsent
<1>3. CASE AccessOpened \/ AccessOpenFailed \/ WriteLocal
  BY <1>3, <1>k, <1>t DEF AccessOpened, AccessOpenFailed, WriteLocal, AccessState
<1>4. CASE AccessOpenTimeout
  <2>1. acc'.out = <<Control("Close")>>
    BY <1>4, <1>t DEF AccessOpenTimeout, AccessState
  <2>2. None(acc'.out, "Data") /\ Absent(acc'.out, {"TcpEof"})
    BY <2>1 DEF None, Absent, Control
  <2> QED BY <2>2 DEF LocalClosed, Unsent
<1>5. CASE ShutdownLocal
  <2>1. acc.out = <<>>
    BY <1>5 DEF ShutdownLocal, Forwarding
  <2>2. \/ acc'.out = acc.out /\ acc'.local_read_closed = acc.local_read_closed
        \/ acc'.out = Append(acc.out, Control("Close"))
    BY <1>5, <1>t DEF ShutdownLocal, AccessBreak, AccessState
  <2> QED BY <2>1, <2>2, <1>k, <1>c
<1>6. CASE AccessReturns
  BY <1>6, <1>n, <1>t DEF AccessReturns, AccessState
<1>7. CASE ReadLocal
  <2>1. ~acc'.local_read_closed /\ acc'.out = <<Data(up_sent + 1)>>
    BY <1>7, <1>t DEF ReadLocal, AccessState
  <2>2. Absent(acc'.out, {"TcpEof"})
    BY <2>1 DEF Absent, Data
  <2> QED BY <2>1, <2>2 DEF LocalClosed
<1>8. CASE LocalEof
  <2>1. acc'.local_read_closed
    BY <1>8, <1>t DEF LocalEof, AccessBreak, AccessState
  <2>2. \/ acc'.out = <<Control("TcpEof")>>
        \/ acc'.out = Append(<<Control("TcpEof")>>, Control("Close"))
    BY <1>8, <1>t DEF LocalEof, AccessBreak, AccessState
  <2>3. None(<<Control("TcpEof")>>, "Data") /\ <<Control("TcpEof")>> \in Seq(Up)
    BY Messages, Queues DEF None, Control
  <2>4. None(acc'.out, "Data")
    <3>1. Control("Close") \in Up /\ Control("Close").type # "Data"
      BY Messages DEF Control
    <3>2. None(Append(<<Control("TcpEof")>>, Control("Close")), "Data")
      BY <2>3, <3>1, NoneFacts
    <3> QED BY <2>2, <2>3, <3>2
  <2> QED BY <2>1, <2>4 DEF LocalClosed, Unsent
<1>9. CASE LocalFails
  <2>1. acc.out = <<>> /\ acc'.out = Append(acc.out, Control("Close"))
    BY <1>9, <1>t DEF LocalFails, Forwarding, AccessBreak, AccessState
  <2> QED BY <2>1, <1>c
<1> QED BY <1>1, <1>2, <1>3, <1>4, <1>5, <1>6, <1>7, <1>8, <1>9 DEF Handler, AccessTask

LEMMA UpEndLastNext ==
    ASSUME Typed, LocalClosed, UpEndLast,
           Handler \/ AccessReader \/ GatewayReader \/ Stream \/ Break
    PROVE  UpEndLast'
<1>t. a2g \in Seq(Up) /\ acc.out \in Seq(Up)
  BY UploadTypes
<1>l. acc.local_read_closed => acc'.local_read_closed
  BY HandlerEnds, AccessEnds
<1>1. CASE GatewayDispatch
  <2>1. a2g # <<>> /\ a2g' = Tail(a2g)
    BY <1>1, GatewayDispatchFields
  <2> QED BY <2>1, <1>t, <1>l, EndFacts DEF UpEndLast
<1>2. CASE a2g' = a2g
  BY <1>2, <1>l DEF UpEndLast
<1>3. ASSUME NEW m \in Up, a2g' = Append(a2g, m), IsData(m) => ~acc.local_read_closed,
             m.type = "TcpEof" => acc.local_read_closed
      PROVE  UpEndLast'
  <2>1. EndLast(a2g', {"TcpEof"})
    BY <1>3, <1>t, EndFacts DEF UpEndLast
  <2>2. ~Absent(a2g', {"TcpEof"}) => acc'.local_read_closed
    BY <1>3, <1>t, <1>l, EndFacts DEF UpEndLast
  <2> QED BY <2>1, <2>2 DEF UpEndLast
<1>4. CASE acc.out # <<>> /\ a2g' = Append(a2g, Head(acc.out))
  <2>1. Head(acc.out) \in Up /\ Head(acc.out) = acc.out[1] /\ 1 \in DOMAIN acc.out
    BY <1>4, <1>t, Positions
  <2>2. IsData(Head(acc.out)) => ~acc.local_read_closed
    BY <2>1 DEF LocalClosed, Unsent, None, IsData
  <2>3. Head(acc.out).type = "TcpEof" => acc.local_read_closed
    BY <2>1 DEF LocalClosed, Absent
  <2> QED BY <1>3, <1>4, <2>1, <2>2, <2>3
<1>5. CASE a2g' = Append(a2g, Control("Close"))
  BY <1>3, <1>5, Messages DEF Control, IsData
<1> QED BY <1>1, <1>2, <1>4, <1>5, UpQueueStep

LEMMA NoCloseNext ==
    ASSUME Typed, EntryGone, NoClose,
           Handler \/ AccessReader \/ GatewayReader \/ Stream \/ Break
    PROVE  NoClose'
<1> SUFFICES ASSUME Early' PROVE Absent(acc'.out, {"Close"}) /\ Absent(a2g', {"Close"})
  BY DEF NoClose
<1>e. Early /\ Absent(acc.out, {"Close"}) /\ Absent(a2g, {"Close"})
  BY AccessOnlyEnds DEF NoClose
<1>t. a2g \in Seq(Up) /\ acc.out \in Seq(Up) /\ acc \in AccessState /\ g2a \in Seq(Down)
  BY UploadTypes, DownloadTypes DEF Typed, AccessTyped
<1>1. Absent(acc'.out, {"Close"})
  <2>1. CASE AccessReader \/ GatewayReader \/ Stream \/ Break
    BY <2>1, <1>e, AccessEnds
  <2>2. CASE AccessSends
    BY <2>2, <1>e, <1>t, EndFacts DEF AccessSends, AccessState
  <2>3. CASE AccessOpened \/ AccessOpenFailed \/ WriteLocal \/ AccessReturns \/ AccessOpenTimeout
             \/ LocalFails
    BY <2>3, <1>e, <1>t DEF AccessOpened, AccessOpenFailed, WriteLocal, AccessReturns,
       AccessOpenTimeout, LocalFails, AccessBreak, AccessState, Early
  <2>4. CASE ShutdownLocal
    BY <2>4, <1>e, <1>t DEF ShutdownLocal, AccessBreak, AccessState, Early
  <2>5. CASE ReadLocal
    <3>1. acc'.out = <<Data(up_sent + 1)>>
      BY <2>5, <1>t DEF ReadLocal, AccessState
    <3> QED BY <3>1 DEF Absent, Data
  <2>6. CASE LocalEof
    <3>1. acc'.out = <<Control("TcpEof")>>
      BY <2>6, <1>t DEF LocalEof, AccessBreak, AccessState, Early
    <3> QED BY <3>1 DEF Absent, Control
  <2> QED BY <2>1, <2>2, <2>3, <2>4, <2>5, <2>6 DEF Handler, AccessTask
<1>2. Absent(a2g', {"Close"})
  <2>1. CASE GatewayDispatch
    BY <2>1, <1>e, <1>t, GatewayDispatchFields, EndFacts
  <2>2. CASE acc.out # <<>> /\ a2g' = Append(a2g, Head(acc.out))
    BY <2>2, <1>e, <1>t, Queues, EndFacts
  <2>3. ~(AccessDispatch /\ ~acc.entry /\ IsData(Head(g2a)))
    <3> SUFFICES ASSUME AccessDispatch, ~acc.entry, IsData(Head(g2a)) PROVE FALSE
      OBVIOUS
    <3>1. session.access /\ g2a # <<>>
      BY DEF AccessDispatch
    <3>2. None(g2a, "Data")
      BY <1>e, <3>1 DEF EntryGone
    <3> QED BY <3>1, <3>2, <1>t, NoneFacts DEF IsData
  <2>4. acc.pc # "done"
    BY <1>e DEF Early
  <2> QED BY <1>e, <2>1, <2>2, <2>3, <2>4, UpQueueStep
<1> QED BY <1>1, <1>2

\* What a step of the stream task does to the frames of the client that it has.
LEMMA StreamFrames ==
    ASSUME Typed, Stream, gw'.pc \in {"forwarding", "writing"}
    PROVE  Len(up_recv') + Len(gw'.chan) = Len(up_recv) + Len(gw.chan)
<1>t. /\ up_recv \in UpNumbers /\ gw.chan \in UpNumbers
      /\ Len(up_recv) \in Nat /\ Len(gw.chan) \in Nat
  BY UploadTypes
<1>1. CASE up_recv' = up_recv /\ gw'.chan = gw.chan
  BY <1>1
<1>2. CASE gw.chan # <<>> /\ up_recv' = Append(up_recv, Head(gw.chan)) /\ gw'.chan = Tail(gw.chan)
  <2>1. Len(up_recv') = Len(up_recv) + 1 /\ Len(gw'.chan) = Len(gw.chan) - 1
    BY <1>2, <1>t, NumbersFacts
  <2> DEFINE a == Len(up_recv)
             b == Len(gw.chan)
  <2>2. a \in Nat /\ b \in Nat /\ Len(up_recv') = a + 1 /\ Len(gw'.chan) = b - 1
    BY <1>t, <2>1
  <2> HIDE DEF a, b
  <2>3. Len(up_recv') + Len(gw'.chan) = a + b
    BY <2>2
  <2> QED BY <2>3 DEF a, b
<1> QED BY <1>1, <1>2, StreamFields DEF Over

LEMMA StreamEntryGoneNext ==
    ASSUME Typed, OpeningOK, UploadOK, LocalClosed, UpEndLast, NoClose, StreamEntryGone,
           Handler \/ AccessReader \/ GatewayReader \/ Stream \/ Break
    PROVE  StreamEntryGone'
<1> SUFFICES ASSUME Early', session'.gateway, ~gw'.entry, gw'.pc \in {"forwarding", "writing"}
             PROVE  /\ acc'.local_read_closed /\ gw'.held = 0
                    /\ Len(up_recv') + Len(gw'.chan) = up_sent'
  BY DEF StreamEntryGone
<1>e. Early /\ session.gateway
  BY AccessOnlyEnds
<1>l. acc.local_read_closed => acc'.local_read_closed /\ up_sent' = up_sent
  BY HandlerEnds, AccessEnds
<1>t. /\ a2g \in Seq(Up) /\ Taken \in Nat /\ up_sent \in Nat
      /\ Len(up_recv) \in Nat /\ Len(gw.chan) \in Nat
  BY UploadTypes
<1>p. gw.pc \in {"forwarding", "writing"} \/ Connect
  <2>1. Stream => Connect \/ gw.pc \in {"forwarding", "writing"}
    BY StreamEnds
  <2>2. ~Stream => gw.pc \in {"forwarding", "writing"}
    BY GatewayEnds
  <2> QED BY <2>1, <2>2
<1>c. ~Connect
  BY ConnectOut
<1>1. CASE gw.entry
  <2>1. GatewayDispatch /\ Head(a2g).type \in {"TcpEof", "Close"} /\ gw'.held = 0
    <3>1. ~Stream
      BY <1>1, StreamEnds
    <3>2. ~Handler /\ ~AccessReader
      BY <1>1, StreamFrame
    <3>3. ~GatewayDeliver
      BY <1>1, <1>p, <1>c, GatewayDeliverFields DEF Over
    <3>4. ~Break
      <4>1. GatewayLosesSession \/ LeaseRevoked => ~session'.gateway
        BY DEF GatewayLosesSession, LeaseRevoked, Typed, SessionTyped
      <4>2. Break => GatewayLosesSession \/ LeaseRevoked \/ gw' = gw
        BY DEF Break, GatewayWriterEnds, AccessLosesSession
      <4> QED BY <1>1, <4>1, <4>2
    <3>5. GatewayDispatch
      BY <3>1, <3>2, <3>3, <3>4 DEF GatewayReader
    <3> QED BY <1>1, <3>5, GatewayDispatchFields
  <2>2. a2g # <<>> /\ gw.held = 0 /\ gw'.chan = gw.chan /\ up_recv' = up_recv
    BY <2>1, GatewayDispatchFields, GatewayEnds DEF GatewayReader
  <2>3. Head(a2g).type # "Close"
    BY <1>e, <1>t, <2>2, EndFacts DEF NoClose
  <2>4. Head(a2g).type \in {"TcpEof"}
    BY <2>1, <2>3
  <2>5. acc.local_read_closed /\ None(Tail(a2g), "Data")
    <3>1. ~Absent(a2g, {"TcpEof"})
      BY <2>2, <2>4, <1>t, EndFacts
    <3>2. EndLast(a2g, {"TcpEof"}) => None(Tail(a2g), "Data")
      BY <2>2, <2>4, <1>t, EndFacts
    <3> QED BY <3>1, <3>2 DEF UpEndLast
  <2>6. PICK t \in Nat : UpQueued(t) /\ Consecutive(a2g, Taken, t)
    BY <1>1, <1>p, <1>c DEF UploadOK, UpComing, Receiving
  <2>7. t = up_sent
    BY <1>e, <2>5, <2>6 DEF UpQueued, LocalClosed, Early
  <2>8. Consecutive(Tail(a2g), Taken, t)
    BY <2>2, <2>4, <2>6, <1>t, ConsecutiveTail DEF IsData
  <2>9. Taken = up_sent
    BY <2>5, <2>7, <2>8, <1>t, ConsecutiveNone
  <2>10. Taken = Len(up_recv) + Len(gw.chan)
    BY <2>2, <1>t DEF Taken
  <2> QED BY <1>l, <2>1, <2>2, <2>5, <2>9, <2>10
<1>2. CASE ~gw.entry
  <2>1. acc.local_read_closed /\ gw.held = 0 /\ Len(up_recv) + Len(gw.chan) = up_sent
    BY <1>2, <1>e, <1>p, <1>c DEF StreamEntryGone
  <2>2. CASE Stream
    BY <2>1, <2>2, <1>l, StreamFrames, StreamFields
  <2>3. CASE Handler \/ AccessReader \/ GatewayReader \/ Break
    <3>1. gw'.held = 0 /\ gw'.chan = gw.chan
      <4>1. CASE Handler \/ AccessReader
        BY <2>1, <4>1, StreamFrame
      <4>2. CASE GatewayReader
        BY <1>2, <2>1, <4>2, GatewayDispatchFields, GatewayDeliverFields DEF GatewayReader
      <4>3. CASE Break
        BY <2>1, <4>3, BreakFields
      <4> QED BY <2>3, <4>1, <4>2, <4>3
    <3>2. up_recv' = up_recv
      BY <2>3, GatewayEnds
    <3> QED BY <2>1, <3>1, <3>2, <1>l
  <2> QED BY <2>2, <2>3
<1> QED BY <1>1, <1>2

LEMMA UpClosedNext ==
    ASSUME Typed, OpeningOK, StreamEntryGone, UpClosed,
           Handler \/ AccessReader \/ GatewayReader \/ Stream \/ Break
    PROVE  UpClosed'
<1> SUFFICES ASSUME gw'.access_closed
             PROVE  /\ gw'.pc \in {"forwarding"} \cup Over
                    /\ Early' /\ session'.gateway =>
                          acc'.local_read_closed /\ Len(up_recv') = up_sent'
  BY DEF UpClosed
<1>l. acc.local_read_closed => acc'.local_read_closed /\ up_sent' = up_sent
  BY HandlerEnds, AccessEnds
<1>e. Early' /\ session'.gateway => Early /\ session.gateway
  BY AccessOnlyEnds
<1>1. CASE gw.access_closed
  <2>1. gw.pc \in {"forwarding"} \cup Over
        /\ (Early /\ session.gateway => acc.local_read_closed /\ Len(up_recv) = up_sent)
    BY <1>1 DEF UpClosed
  <2>2. CASE Stream
    <3>1. gw'.pc \in {"forwarding"} \cup Over
      BY <1>1, <2>1, <2>2, StreamEnds DEF Over
    <3>2. up_recv' = up_recv
      BY <2>1, <2>2, StreamFields DEF Over
    <3> QED BY <2>1, <3>1, <3>2, <1>l, <1>e
  <2>3. CASE Handler \/ AccessReader \/ GatewayReader \/ Break
    <3>1. up_recv' = up_recv /\ (gw'.pc = gw.pc \/ gw.pc = "none")
      BY <2>3, GatewayEnds
    <3> QED BY <2>1, <3>1, <1>l, <1>e DEF Over
  <2> QED BY <2>2, <2>3
<1>2. CASE ~gw.access_closed
  <2>1. Stream
    BY <1>2, GatewayEnds
  <2>2. /\ gw.pc = "forwarding" /\ gw.chan = <<>> /\ ~gw.entry /\ gw.held = 0
        /\ gw'.pc \in {"forwarding", "ended"}
    BY <1>2, <2>1, StreamEnds
  <2>3. up_recv' = up_recv
    BY <2>1, <2>2, StreamFields
  <2>4. Early /\ session.gateway => acc.local_read_closed /\ Len(up_recv) = up_sent
    BY <2>2, UploadTypes DEF StreamEntryGone
  <2> QED BY <2>2, <2>3, <2>4, <1>l, <1>e DEF Over
<1> QED BY <1>1, <1>2

LEMMA UpEndsNext ==
    ASSUME Typed, OpeningOK, UploadOK, EntryGone, UpEndsOK,
           Handler \/ AccessReader \/ GatewayReader \/ Stream \/ Break
    PROVE  UpEndsOK'
  BY LocalClosedNext, UpEndLastNext, NoCloseNext, StreamEntryGoneNext, UpClosedNext DEF UpEndsOK

LEMMA InitEnds == Init => EndsOK
<1> SUFFICES ASSUME Init PROVE EndsOK
  OBVIOUS
<1>1. DownEndsOK
  BY DEF Init, DownEndsOK, Stopping, Stopped, StreamUnsent, None, Absent, EndLast, Over,
     DownEndLast, DownAll, EntryGone, DownClosed
<1>2. UpEndsOK
  BY DEF Init, UpEndsOK, LocalClosed, UpEndLast, NoClose, StreamEntryGone, UpClosed, Absent,
     EndLast, Control
<1> QED BY <1>1, <1>2 DEF EndsOK

LEMMA NextEnds == Inductive /\ EndsOK /\ [Next]_vars => EndsOK'
<1> SUFFICES ASSUME Inductive, EndsOK, [Next]_vars PROVE EndsOK'
  OBVIOUS
<1>1. CASE UNCHANGED vars
  <2>1. DownEndsOK'
    BY <1>1 DEF vars, EndsOK, DownEndsOK, Stopping, Stopped, StreamUnsent, DownEndLast, DownAll,
       AccessTaken, EntryGone, Early, DownClosed
  <2>2. UpEndsOK'
    BY <1>1 DEF vars, EndsOK, UpEndsOK, LocalClosed, Unsent, UpEndLast, NoClose, StreamEntryGone,
       UpClosed, Early
  <2> QED BY <2>1, <2>2 DEF EndsOK
<1>2. CASE Next
  <2>1. Handler \/ AccessReader \/ GatewayReader \/ Stream \/ Break
    BY <1>2, Steps
  <2>2. DownEndsOK' /\ UpEndsOK'
    BY <2>1, DownEndsNext, UpEndsNext DEF Inductive, EndsOK, DownEndsOK
  <2> QED BY <2>2 DEF EndsOK
<1> QED BY <1>1, <1>2

\* For every number of frames and every capacity: neither the client nor the target
\* sees a regular end of the stream before it has all that the other side sent, unless
\* the stream failed or the session broke.
THEOREM EndsCompleteHolds == Spec => []EndsComplete
<1>1. Typed /\ EndsOK => EndsComplete
  <2> SUFFICES ASSUME Typed, EndsOK PROVE EndsComplete
    OBVIOUS
  <2>1. DownloadComplete
    BY DEF DownloadComplete, EndsOK, DownEndsOK, DownClosed
  <2>2. UploadComplete
    BY DEF UploadComplete, EndsOK, UpEndsOK, UpClosed, Early
  <2> QED BY <2>1, <2>2 DEF EndsComplete
<1>2. Init => Inductive /\ EndsOK
  BY InitInductive, InitEnds
<1>3. Inductive /\ EndsOK /\ [Next]_vars => Inductive' /\ EndsOK'
  BY NextInductive, NextEnds
<1>4. Inductive => Typed
  BY DEF Inductive
<1> QED BY <1>1, <1>2, <1>3, <1>4, PTL DEF Spec
================================================================================
