--------------------------- MODULE FrameOrder_proofs ---------------------------
(***************************************************************************)
(* The order of what a session carries. Nonces are unique and each         *)
(* direction of the cipher is an ordered channel, for every bound of the   *)
(* sequence and any number of threads (TunnelCipher). What is posted to    *)
(* the writer reaches the socket, and the other side, in the order in      *)
(* which it was posted, for any limits of a batch and capacities of the    *)
(* queue and the socket (WriterBatch).                                     *)
(***************************************************************************)
EXTENDS TunnelCipher, WriterBatch, SequenceTheorems, TLAPS

-------------------------------------------------------------------------------
(******************************** the cipher *******************************)
\* The frames of a direction are numbered by their position.
Numbered ==
    /\ \A d \in Directions : next_send_sequence[d] = Len(sealed[d])
    /\ \A d \in Directions : \A i \in 1 .. Len(sealed[d]) :
          sealed[d][i].direction = d /\ sealed[d][i].sequence = i - 1

\* The receive sequence counts the accepted frames, which were all sealed.
ReceivedCounted ==
    \A d \in Directions : /\ next_receive_sequence[d] = Len(opened[d])
                          /\ Len(opened[d]) <= Len(sealed[d])

\* A call of decrypt that passed its checks holds the frame that was sealed
\* with the sequence it expects.
Pending ==
    \A r \in Receivers : \A frame \in decrypting[r].frames :
        /\ frame.direction \in Directions
        /\ decrypting[r].expected < Len(sealed[frame.direction])
        /\ frame = sealed[frame.direction][decrypting[r].expected + 1]

\* The inductive invariant.
CipherInv == CipherTypeOK /\ Numbered /\ ReceivedCounted /\ Pending

\* Appending to a sequence keeps what is there and adds one element.
LEMMA AppendFacts ==
    ASSUME NEW S, NEW seq \in Seq(S), NEW e \in S
    PROVE  /\ Append(seq, e) \in Seq(S)
           /\ Len(Append(seq, e)) = Len(seq) + 1
           /\ Len(seq) \in Nat
           /\ \A i \in 1 .. Len(seq) : Append(seq, e)[i] = seq[i]
           /\ Append(seq, e)[Len(seq) + 1] = e
  OBVIOUS

\* The invariant holds initially.
LEMMA InitIInv == CipherInit => CipherInv
<1> SUFFICES ASSUME CipherInit PROVE CipherInv
  OBVIOUS
<1>1. CipherTypeOK
  BY SequenceAssumption DEF CipherInit, CipherTypeOK, Idle
<1>2. Numbered /\ ReceivedCounted
  BY DEF CipherInit, Numbered, ReceivedCounted
<1>3. Pending
  BY DEF CipherInit, Pending, Idle
<1> QED BY <1>1, <1>2, <1>3 DEF CipherInv

\* encrypt preserves the invariant.
LEMMA EncryptIInv ==
    ASSUME CipherInv, NEW d \in Directions, NEW plain \in Plains, Encrypt(d, plain)
    PROVE  CipherInv'
<1> DEFINE frame == [direction |-> d, sequence |-> next_send_sequence[d], plain |-> plain]
<1>1. /\ next_send_sequence[d] < MaxSequence
      /\ next_send_sequence' = [next_send_sequence EXCEPT ![d] = next_send_sequence[d] + 1]
      /\ sealed' = [sealed EXCEPT ![d] = Append(sealed[d], frame)]
      /\ next_receive_sequence' = next_receive_sequence /\ opened' = opened
      /\ decrypting' = decrypting
  BY DEF Encrypt, CheckedSuccessor
<1>2. frame \in Frame /\ frame.direction = d /\ frame.sequence = next_send_sequence[d]
  BY DEF CipherInv, CipherTypeOK, Frame
<1> HIDE DEF frame
<1>3. sealed[d] \in Seq(Frame)
  BY DEF CipherInv, CipherTypeOK
<1>4. /\ Append(sealed[d], frame) \in Seq(Frame)
      /\ Len(Append(sealed[d], frame)) = Len(sealed[d]) + 1
      /\ Len(sealed[d]) \in Nat
      /\ \A i \in 1 .. Len(sealed[d]) : Append(sealed[d], frame)[i] = sealed[d][i]
      /\ Append(sealed[d], frame)[Len(sealed[d]) + 1] = frame
  BY <1>2, <1>3, AppendFacts
<1>5. /\ sealed'[d] = Append(sealed[d], frame)
      /\ \A e \in Directions : e # d => sealed'[e] = sealed[e]
  BY <1>1 DEF CipherInv, CipherTypeOK
<1>6. CipherTypeOK'
  <2>1. next_send_sequence' \in [Directions -> 0 .. MaxSequence]
    BY <1>1, SequenceAssumption DEF CipherInv, CipherTypeOK
  <2>2. sealed' \in [Directions -> Seq(Frame)]
    BY <1>1, <1>4 DEF CipherInv, CipherTypeOK
  <2> QED BY <1>1, <2>1, <2>2 DEF CipherInv, CipherTypeOK
<1>7. Numbered'
  <2>1. ASSUME NEW e \in Directions PROVE next_send_sequence'[e] = Len(sealed'[e])
    BY <1>1, <1>4, <1>5 DEF CipherInv, Numbered, CipherTypeOK
  <2>2. ASSUME NEW e \in Directions, NEW i \in 1 .. Len(sealed'[e])
        PROVE  sealed'[e][i].direction = e /\ sealed'[e][i].sequence = i - 1
    <3>1. CASE e # d
      BY <3>1, <1>5 DEF CipherInv, Numbered
    <3>2. CASE e = d /\ i \in 1 .. Len(sealed[d])
      BY <3>2, <1>4, <1>5 DEF CipherInv, Numbered
    <3>3. CASE e = d /\ i = Len(sealed[d]) + 1
      BY <3>3, <1>2, <1>4, <1>5 DEF CipherInv, Numbered
    <3>4. e = d => i \in 1 .. Len(sealed[d]) + 1
      BY <1>4, <1>5
    <3> QED BY <1>4, <3>1, <3>2, <3>3, <3>4
  <2> QED BY <2>1, <2>2 DEF Numbered
<1>8. ReceivedCounted'
  <2>1. \A e \in Directions : Len(opened[e]) \in Nat /\ Len(sealed[e]) \in Nat
    BY DEF CipherInv, CipherTypeOK
  <2>2. \A e \in Directions : Len(sealed[e]) <= Len(sealed'[e])
    BY <1>4, <1>5, <2>1
  <2>3. \A e \in Directions : Len(sealed'[e]) \in Nat
    BY <1>4, <1>5, <2>1
  <2> QED BY <1>1, <2>1, <2>2, <2>3 DEF CipherInv, ReceivedCounted
<1>9. Pending'
  <2> SUFFICES ASSUME NEW r \in Receivers, NEW f \in decrypting[r].frames
               PROVE  /\ f.direction \in Directions
                      /\ decrypting[r].expected < Len(sealed'[f.direction])
                      /\ f = sealed'[f.direction][decrypting[r].expected + 1]
    BY <1>1 DEF Pending
  <2>1. /\ f.direction \in Directions /\ decrypting[r].expected \in Nat
        /\ decrypting[r].expected < Len(sealed[f.direction])
        /\ f = sealed[f.direction][decrypting[r].expected + 1]
    BY DEF CipherInv, Pending, CipherTypeOK
  <2>2. CASE f.direction # d
    BY <2>1, <2>2, <1>5
  <2>3. CASE f.direction = d
    <3>1. decrypting[r].expected + 1 \in 1 .. Len(sealed[d])
      BY <2>1, <2>3, <1>4
    <3> QED BY <2>1, <2>3, <3>1, <1>4, <1>5
  <2> QED BY <2>2, <2>3
<1> QED BY <1>6, <1>7, <1>8, <1>9 DEF CipherInv

\* The checks of decrypt preserve the invariant: an authentic frame with the
\* expected sequence is the frame at that position.
LEMMA BeginIInv ==
    ASSUME CipherInv, NEW r \in Receivers, NEW d \in Directions, NEW frame \in Frame,
           BeginDecrypt(r, d, frame)
    PROVE  CipherInv'
<1> DEFINE call == [expected |-> next_receive_sequence[d], frames |-> {frame}]
<1>1. /\ frame.sequence = next_receive_sequence[d] /\ Authentic(d, frame)
      /\ decrypting' = [decrypting EXCEPT ![r] = call]
      /\ next_receive_sequence' = next_receive_sequence /\ opened' = opened
      /\ next_send_sequence' = next_send_sequence /\ sealed' = sealed
  BY DEF BeginDecrypt
<1>2. PICK i \in 1 .. Len(sealed[d]) : sealed[d][i] = frame
  BY <1>1 DEF Authentic
<1>3. frame.direction = d /\ frame.sequence = i - 1
  BY <1>2 DEF CipherInv, Numbered
<1>4. next_receive_sequence[d] \in 0 .. MaxSequence /\ Len(sealed[d]) \in Nat
  BY DEF CipherInv, CipherTypeOK
<1>5. CipherTypeOK'
  <2>1. call \in [expected : 0 .. MaxSequence, frames : SUBSET Frame]
    BY <1>4
  <2> HIDE DEF call
  <2> QED BY <1>1, <2>1 DEF CipherInv, CipherTypeOK
<1>6. Numbered' /\ ReceivedCounted'
  BY <1>1 DEF CipherInv, Numbered, ReceivedCounted
<1>7. Pending'
  <2> SUFFICES ASSUME NEW q \in Receivers, NEW f \in decrypting'[q].frames
               PROVE  /\ f.direction \in Directions
                      /\ decrypting'[q].expected < Len(sealed[f.direction])
                      /\ f = sealed[f.direction][decrypting'[q].expected + 1]
    BY <1>1 DEF Pending
  <2>1. CASE q = r
    <3>1. f = frame /\ decrypting'[q].expected = i - 1
      BY <2>1, <1>1, <1>3 DEF CipherInv, CipherTypeOK
    <3> QED BY <3>1, <1>2, <1>3, <1>4
  <2>2. CASE q # r
    <3>1. decrypting'[q] = decrypting[q]
      BY <2>2, <1>1 DEF CipherInv, CipherTypeOK
    <3> QED BY <3>1 DEF CipherInv, Pending
  <2> QED BY <2>1, <2>2
<1> QED BY <1>5, <1>6, <1>7 DEF CipherInv

\* What a finished call of decrypt appends to the accepted frames.
LEMMA FinishEffect ==
    ASSUME CipherInv, NEW r \in Receivers, FinishDecrypt(r)
    PROVE  \E d \in Directions :
              /\ Len(opened[d]) < Len(sealed[d])
              /\ sealed[d][Len(opened[d]) + 1] \in Frame
              /\ opened' = [opened EXCEPT ![d] = Append(opened[d], sealed[d][Len(opened[d]) + 1])]
              /\ next_receive_sequence[d] < MaxSequence
              /\ next_receive_sequence' =
                    [next_receive_sequence EXCEPT ![d] = next_receive_sequence[d] + 1]
              /\ decrypting' = [decrypting EXCEPT ![r] = Idle]
              /\ next_send_sequence' = next_send_sequence /\ sealed' = sealed
<1>1. PICK frame \in decrypting[r].frames, next \in CheckedSuccessor(decrypting[r].expected) :
        /\ next_receive_sequence[frame.direction] = decrypting[r].expected
        /\ next_receive_sequence' = [next_receive_sequence EXCEPT ![frame.direction] = next]
        /\ opened' = [opened EXCEPT ![frame.direction] = Append(opened[frame.direction], frame)]
        /\ decrypting' = [decrypting EXCEPT ![r] = Idle]
        /\ next_send_sequence' = next_send_sequence /\ sealed' = sealed
  BY DEF FinishDecrypt
<1>2. frame.direction \in Directions /\ frame \in Frame
  BY DEF CipherInv, Pending, CipherTypeOK
<1>3. /\ decrypting[r].expected < Len(sealed[frame.direction])
      /\ frame = sealed[frame.direction][decrypting[r].expected + 1]
      /\ decrypting[r].expected = Len(opened[frame.direction])
  BY <1>1, <1>2 DEF CipherInv, Pending, ReceivedCounted
<1>4. next = decrypting[r].expected + 1 /\ decrypting[r].expected < MaxSequence
  BY <1>1 DEF CheckedSuccessor
<1> QED BY <1>1, <1>2, <1>3, <1>4

\* The end of decrypt preserves the invariant.
LEMMA FinishIInv ==
    ASSUME CipherInv, NEW r \in Receivers, FinishDecrypt(r)
    PROVE  CipherInv'
<1>1. PICK d \in Directions :
        /\ Len(opened[d]) < Len(sealed[d])
        /\ sealed[d][Len(opened[d]) + 1] \in Frame
        /\ opened' = [opened EXCEPT ![d] = Append(opened[d], sealed[d][Len(opened[d]) + 1])]
        /\ next_receive_sequence[d] < MaxSequence
        /\ next_receive_sequence' =
              [next_receive_sequence EXCEPT ![d] = next_receive_sequence[d] + 1]
        /\ decrypting' = [decrypting EXCEPT ![r] = Idle]
        /\ next_send_sequence' = next_send_sequence /\ sealed' = sealed
  BY FinishEffect
<1> DEFINE frame == sealed[d][Len(opened[d]) + 1]
<1>2. opened[d] \in Seq(Frame) /\ frame \in Frame
  BY <1>1 DEF CipherInv, CipherTypeOK
<1>3. opened' = [opened EXCEPT ![d] = Append(opened[d], frame)]
  BY <1>1
<1> HIDE DEF frame
<1>4. /\ Append(opened[d], frame) \in Seq(Frame)
      /\ Len(Append(opened[d], frame)) = Len(opened[d]) + 1
      /\ Len(opened[d]) \in Nat
  BY <1>2, AppendFacts
<1>5. CipherTypeOK'
  <2>1. next_receive_sequence' \in [Directions -> 0 .. MaxSequence]
    BY <1>1, SequenceAssumption DEF CipherInv, CipherTypeOK
  <2>2. opened' \in [Directions -> Seq(Frame)]
    BY <1>3, <1>4 DEF CipherInv, CipherTypeOK
  <2>3. decrypting' \in [Receivers -> [expected : 0 .. MaxSequence, frames : SUBSET Frame]]
    BY <1>1, SequenceAssumption DEF CipherInv, CipherTypeOK, Idle
  <2> QED BY <1>1, <2>1, <2>2, <2>3 DEF CipherInv, CipherTypeOK
<1>6. Numbered'
  BY <1>1 DEF CipherInv, Numbered
<1>7. ReceivedCounted'
  <2> SUFFICES ASSUME NEW e \in Directions
               PROVE  /\ next_receive_sequence'[e] = Len(opened'[e])
                      /\ Len(opened'[e]) <= Len(sealed[e])
    BY <1>1 DEF ReceivedCounted
  <2>1. CASE e = d
    <3>1. opened'[e] = Append(opened[d], frame) /\ Len(sealed[d]) \in Nat
      BY <2>1, <1>3 DEF CipherInv, CipherTypeOK
    <3>2. next_receive_sequence'[e] = next_receive_sequence[d] + 1
      BY <2>1, <1>1 DEF CipherInv, CipherTypeOK
    <3> QED BY <2>1, <3>1, <3>2, <1>1, <1>4 DEF CipherInv, ReceivedCounted
  <2>2. CASE e # d
    BY <2>2, <1>1, <1>3 DEF CipherInv, ReceivedCounted, CipherTypeOK
  <2> QED BY <2>1, <2>2
<1>8. Pending'
  <2>1. \A q \in Receivers : q # r => decrypting'[q] = decrypting[q]
    BY <1>1 DEF CipherInv, CipherTypeOK
  <2>2. decrypting'[r].frames = {}
    BY <1>1 DEF CipherInv, CipherTypeOK, Idle
  <2> QED BY <1>1, <2>1, <2>2 DEF CipherInv, Pending
<1> QED BY <1>5, <1>6, <1>7, <1>8 DEF CipherInv

\* A call that lost the compare_exchange preserves the invariant.
LEMMA FailIInv ==
    ASSUME CipherInv, NEW r \in Receivers, FailDecrypt(r)
    PROVE  CipherInv'
<1>1. /\ decrypting' = [decrypting EXCEPT ![r] = Idle]
      /\ next_receive_sequence' = next_receive_sequence /\ opened' = opened
      /\ next_send_sequence' = next_send_sequence /\ sealed' = sealed
  BY DEF FailDecrypt
<1>2. CipherTypeOK'
  BY <1>1, SequenceAssumption DEF CipherInv, CipherTypeOK, Idle
<1>3. Numbered' /\ ReceivedCounted'
  BY <1>1 DEF CipherInv, Numbered, ReceivedCounted
<1>4. Pending'
  <2>1. \A q \in Receivers : q # r => decrypting'[q] = decrypting[q]
    BY <1>1 DEF CipherInv, CipherTypeOK
  <2>2. decrypting'[r].frames = {}
    BY <1>1 DEF CipherInv, CipherTypeOK, Idle
  <2> QED BY <1>1, <2>1, <2>2 DEF CipherInv, Pending
<1> QED BY <1>2, <1>3, <1>4 DEF CipherInv

\* Every step preserves the invariant.
LEMMA NextIInv == CipherInv /\ [CipherNext]_cipher_vars => CipherInv'
<1> SUFFICES ASSUME CipherInv, [CipherNext]_cipher_vars PROVE CipherInv'
  OBVIOUS
<1>1. CASE CipherNext
  BY <1>1, EncryptIInv, BeginIInv, FinishIInv, FailIInv DEF CipherNext
<1>2. CASE UNCHANGED cipher_vars
  BY <1>2 DEF cipher_vars, CipherInv, CipherTypeOK, Numbered, ReceivedCounted, Pending
<1> QED BY <1>1, <1>2

-------------------------------------------------------------------------------
\* The inductive invariant holds in every reachable state.
THEOREM CipherInvariance == CipherSpec => []CipherInv
  BY InitIInv, NextIInv, PTL DEF CipherSpec

\* Frames, counters and calls keep their types; the counters stay within their width.
THEOREM TypeCorrect == CipherSpec => []CipherTypeOK
<1>1. CipherInv => CipherTypeOK
  BY DEF CipherInv
<1> QED BY <1>1, CipherInvariance, PTL

\* No two frames sealed with a key share a nonce.
THEOREM NonceUniqueHolds == CipherSpec => []NonceUnique
<1>1. CipherInv => NonceUnique
  <2> SUFFICES ASSUME CipherInv, NEW d \in Directions, NEW i \in 1 .. Len(sealed[d]),
                      NEW j \in 1 .. Len(sealed[d]), i # j
               PROVE  sealed[d][i].sequence # sealed[d][j].sequence
    BY DEF NonceUnique
  <2>1. sealed[d][i].sequence = i - 1 /\ sealed[d][j].sequence = j - 1
    BY DEF CipherInv, Numbered
  <2> QED BY <2>1
<1> QED BY <1>1, CipherInvariance, PTL

\* What a step of the cipher does to the frames of one direction: nothing, one
\* more is sealed, or the next sealed one is accepted.
LEMMA ChannelStep ==
    ASSUME CipherInv, [CipherNext]_cipher_vars, NEW d \in Directions
    PROVE  \/ sealed'[d] = sealed[d] /\ opened'[d] = opened[d]
           \/ /\ Len(sealed[d]) < MaxSequence /\ opened'[d] = opened[d]
              /\ \E f \in Frame : sealed'[d] = Append(sealed[d], f)
           \/ /\ Len(opened[d]) < Len(sealed[d]) /\ sealed'[d] = sealed[d]
              /\ opened'[d] = Append(opened[d], sealed[d][Len(opened[d]) + 1])
<1>1. ASSUME NEW e \in Directions, NEW plain \in Plains, Encrypt(e, plain)
      PROVE  /\ opened' = opened
             /\ sealed'[d] # sealed[d] =>
                  /\ Len(sealed[d]) < MaxSequence
                  /\ \E f \in Frame : sealed'[d] = Append(sealed[d], f)
  <2> DEFINE frame == [direction |-> e, sequence |-> next_send_sequence[e], plain |-> plain]
  <2>1. /\ next_send_sequence[e] < MaxSequence /\ opened' = opened
        /\ sealed' = [sealed EXCEPT ![e] = Append(sealed[e], frame)]
    BY <1>1 DEF Encrypt, CheckedSuccessor
  <2>2. frame \in Frame
    BY DEF CipherInv, CipherTypeOK, Frame
  <2> HIDE DEF frame
  <2>3. next_send_sequence[e] = Len(sealed[e])
    BY DEF CipherInv, Numbered
  <2> QED BY <2>1, <2>2, <2>3 DEF CipherInv, CipherTypeOK
<1>2. ASSUME NEW r \in Receivers, FinishDecrypt(r)
      PROVE  /\ sealed' = sealed
             /\ opened'[d] # opened[d] =>
                  /\ Len(opened[d]) < Len(sealed[d])
                  /\ opened'[d] = Append(opened[d], sealed[d][Len(opened[d]) + 1])
  BY <1>2, FinishEffect DEF CipherInv, CipherTypeOK
<1>3. CASE \/ \E r \in Receivers, e \in Directions, f \in Frame : BeginDecrypt(r, e, f)
           \/ \E r \in Receivers : FailDecrypt(r)
           \/ UNCHANGED cipher_vars
  BY <1>3 DEF BeginDecrypt, FailDecrypt, cipher_vars
<1> QED BY <1>1, <1>2, <1>3 DEF CipherNext

\* The direction from access to gateway implements the ordered channel.
THEOREM AccessToGatewayRefines == CipherSpec => AccessToGateway!Spec
<1>1. CipherInit => AccessToGateway!Init
  BY DEF CipherInit, AccessToGateway!Init, Directions
<1>2. CipherInv /\ [CipherNext]_cipher_vars => [AccessToGateway!Next]_AccessToGateway!chan
  <2> SUFFICES ASSUME CipherInv, [CipherNext]_cipher_vars
               PROVE  [AccessToGateway!Next]_AccessToGateway!chan
    OBVIOUS
  <2> DEFINE d == "access_to_gateway"
  <2>1. \/ sealed'[d] = sealed[d] /\ opened'[d] = opened[d]
        \/ /\ Len(sealed[d]) < MaxSequence /\ opened'[d] = opened[d]
           /\ \E f \in Frame : sealed'[d] = Append(sealed[d], f)
        \/ /\ Len(opened[d]) < Len(sealed[d]) /\ sealed'[d] = sealed[d]
           /\ opened'[d] = Append(opened[d], sealed[d][Len(opened[d]) + 1])
    BY ChannelStep DEF Directions
  <2> QED BY <2>1 DEF AccessToGateway!Next, AccessToGateway!Send, AccessToGateway!Receive,
                      AccessToGateway!chan
<1> QED BY <1>1, <1>2, CipherInvariance, PTL DEF CipherSpec, AccessToGateway!Spec

\* The direction from gateway to access implements the ordered channel.
THEOREM GatewayToAccessRefines == CipherSpec => GatewayToAccess!Spec
<1>1. CipherInit => GatewayToAccess!Init
  BY DEF CipherInit, GatewayToAccess!Init, Directions
<1>2. CipherInv /\ [CipherNext]_cipher_vars => [GatewayToAccess!Next]_GatewayToAccess!chan
  <2> SUFFICES ASSUME CipherInv, [CipherNext]_cipher_vars
               PROVE  [GatewayToAccess!Next]_GatewayToAccess!chan
    OBVIOUS
  <2> DEFINE d == "gateway_to_access"
  <2>1. \/ sealed'[d] = sealed[d] /\ opened'[d] = opened[d]
        \/ /\ Len(sealed[d]) < MaxSequence /\ opened'[d] = opened[d]
           /\ \E f \in Frame : sealed'[d] = Append(sealed[d], f)
        \/ /\ Len(opened[d]) < Len(sealed[d]) /\ sealed'[d] = sealed[d]
           /\ opened'[d] = Append(opened[d], sealed[d][Len(opened[d]) + 1])
    BY ChannelStep DEF Directions
  <2> QED BY <2>1 DEF GatewayToAccess!Next, GatewayToAccess!Send, GatewayToAccess!Receive,
                      GatewayToAccess!chan
<1> QED BY <1>1, <1>2, CipherInvariance, PTL DEF CipherSpec, GatewayToAccess!Spec

\* Both directions: whatever the network does with the frames and however calls of
\* decrypt overlap, decrypt returns a prefix of what was sealed.
THEOREM Ordered == CipherSpec => DirectionsOrdered
BY AccessToGatewayRefines, GatewayToAccessRefines, PTL DEF DirectionsOrdered

-------------------------------------------------------------------------------
(****************** the writer: parts of the invariant *********************)
\* Sequences of messages.
Batches == Seq(Message)

\* InPostedOrder for any sequence of messages, and any record of what was posted: message i
\* continues the one before it; all do; all do but a report at the end.
Continues(kinds, messages, i) ==
    LET units == messages[i].units IN
    /\ units # <<>>
    /\ \A k \in DOMAIN units : /\ units[k] = End(messages, i - 1) + k
                              /\ units[k] \in DOMAIN kinds /\ kinds[units[k]] = messages[i].kind
Carried(kinds, messages) == \A i \in DOMAIN messages : Continues(kinds, messages, i)
Reported(kinds, messages) ==
    \A i \in DOMAIN messages :
        Continues(kinds, messages, i) \/ (i = Len(messages) /\ messages[i] = Error)

\* Six parts in a row: received, on the wire, in the hand, in the batch, deferred, queued.
Line(a, b, c, d, e, f) == a \o b \o c \o d \o e \o f

\* p is a beginning of q.
Starts(p, q) == Len(p) <= Len(q) /\ \A i \in DOMAIN p : p[i] = q[i]

\* x is l with the payload of h.
MergeOf(x, l, h) == x.kind = l.kind /\ x.kind = h.kind /\ x.units = l.units \o h.units

\* The writer takes messages.
Running == phase \in {"waiting", "collecting", "writing"}

\* Every message carries something, and data no more than a frame may.
Within(message) ==
    Len(message.units) >= 1 /\ (IsData(message) => Len(message.units) <= MaxPayload)
Sized(messages) == \A i \in DOMAIN messages : Within(messages[i])
SizesOK == Sized(queue) /\ Sized(pending) /\ Sized(batch)

\* Before the last message grew by merging, the batch was within its limit, and what was
\* counted is its size.
BytesOK ==
    /\ phase = "collecting" => batch_bytes + 1 <= MaxBytes + Len(Last(batch).units)
    /\ BytesCounted

\* What each phase holds.
PhasesOK ==
    /\ phase = "waiting" => batch = <<>> /\ hand = <<>>
    /\ phase = "collecting" => /\ hand = <<>>
                               /\ pending = <<>>
                               /\ batch # <<>>
                               /\ IsData(Last(batch))
    /\ phase = "reporting" => hand # <<>> /\ hand[1].message = Error
    /\ ~linked => phase = "ended"

\* Frames carry successive sequences as long as the writer runs.
SequencesOK ==
    Running =>
       /\ access.state = "open"
       /\ sequence = access.expected + Len(wire) + Len(hand)
       /\ \A i \in DOMAIN wire : wire[i].sequence = access.expected + i - 1
       /\ hand # <<>> => hand[1].sequence = access.expected + Len(wire)

\* What the access received or may still receive from the socket.
Sent == IF access.state = "open" THEN access.received \o Messages(wire) ELSE access.received

\* What is in transit is in order as long as the writer runs; then, what was sent is.
OrderOK ==
    /\ Running => /\ Carried(posted, InTransit)
                  /\ End(InTransit, Len(InTransit)) = Len(posted)
    /\ phase = "reporting" => Carried(posted, Sent)
    /\ phase = "ended" => Reported(posted, Sent)

\* The inductive invariant of the writer.
WriterInv == Types /\ SizesOK /\ BytesOK /\ PhasesOK /\ SequencesOK /\ OrderOK

-------------------------------------------------------------------------------
(****************** the writer: sequences of messages **********************)
\* A message that carries something ends at its last number.
LEMMA Ends ==
    ASSUME NEW q \in Batches, NEW i \in DOMAIN q, q[i].units # <<>>
    PROVE  /\ i - 1 \in Nat /\ i # 0
           /\ q[i].units \in Seq(Nat) /\ Len(q[i].units) \in DOMAIN q[i].units
           /\ End(q, i) = q[i].units[Len(q[i].units)] /\ End(q, i) \in Nat
<1>1. q[i] \in Message /\ i \in Nat \ {0}
  BY DEF Batches
<1>2. q[i].units \in Seq(Nat)
  BY <1>1 DEF Message
<1> QED BY <1>1, <1>2 DEF End, Last

\* What holds of a sequence of messages holds of a beginning of it.
LEMMA Beginnings ==
    ASSUME NEW kinds, NEW p \in Batches, NEW q \in Batches, Len(p) <= Len(q),
           \A i \in DOMAIN p : p[i] = q[i]
    PROVE  /\ Carried(kinds, q) => Carried(kinds, p)
           /\ Reported(kinds, q) => Reported(kinds, p)
<1>1. \A i \in DOMAIN p : i \in DOMAIN q /\ i # 0 /\ i \in Nat
  BY DEF Batches
<1>2. \A i \in DOMAIN p : End(p, i - 1) = End(q, i - 1)
  BY <1>1 DEF End, Batches
<1>3. \A i \in DOMAIN p : Continues(kinds, p, i) <=> Continues(kinds, q, i)
  BY <1>1, <1>2 DEF Continues
<1>4. \A i \in DOMAIN p : i = Len(q) => i = Len(p)
  BY DEF Batches
<1>5. ASSUME Carried(kinds, q) PROVE Carried(kinds, p)
  BY <1>1, <1>3, <1>5 DEF Carried
<1>6. ASSUME Reported(kinds, q) PROVE Reported(kinds, p)
  <2>1. ASSUME NEW i \in DOMAIN p
        PROVE  Continues(kinds, p, i) \/ (i = Len(p) /\ p[i] = Error)
    <3>1. i \in DOMAIN q /\ p[i] = q[i]
      BY <1>1
    <3>2. Continues(kinds, q, i) \/ (i = Len(q) /\ q[i] = Error)
      BY <1>6, <3>1 DEF Reported
    <3> QED BY <1>3, <1>4, <3>1, <3>2
  <2> QED BY <2>1 DEF Reported
<1> QED BY <1>5, <1>6

\* The report, or a message that goes on numbering, may follow what is carried.
LEMMA Appended ==
    ASSUME NEW kinds, NEW q \in Batches, NEW m \in Message, Carried(kinds, q)
    PROVE  /\ Reported(kinds, Append(q, Error))
           /\ m.units # <<>>
              /\ (\A k \in DOMAIN m.units :
                     /\ m.units[k] = End(q, Len(q)) + k
                     /\ m.units[k] \in DOMAIN kinds /\ kinds[m.units[k]] = m.kind)
              => /\ Carried(kinds, Append(q, m))
                 /\ End(Append(q, m), Len(q) + 1) = Last(m.units)
<1>1. \A x : /\ Len(Append(q, x)) = Len(q) + 1 /\ DOMAIN Append(q, x) = 1..(Len(q) + 1)
             /\ \A i \in 1..Len(q) : Append(q, x)[i] = q[i]
             /\ Append(q, x)[Len(q) + 1] = x
  BY DEF Batches
<1>2. DOMAIN q = 1..Len(q) /\ Len(q) \in Nat
  BY DEF Batches
<1>3. \A x : \A i \in 0..Len(q) : End(Append(q, x), i) = End(q, i)
  BY <1>1, <1>2 DEF End
<1>4. \A x : \A i \in 1..Len(q) : Continues(kinds, Append(q, x), i)
  <2> TAKE x
  <2> TAKE i \in 1..Len(q)
  <2>1. Continues(kinds, q, i) /\ i - 1 \in 0..Len(q)
    BY <1>2 DEF Carried
  <2> QED BY <1>1, <1>3, <2>1 DEF Continues
<1>5. Reported(kinds, Append(q, Error))
  <2> DEFINE r == Append(q, Error)
  <2>1. /\ DOMAIN r = 1..(Len(q) + 1) /\ Len(r) = Len(q) + 1 /\ r[Len(q) + 1] = Error
        /\ \A i \in 1..Len(q) : Continues(kinds, r, i)
    BY <1>1, <1>4
  <2>2. \A i \in 1..(Len(q) + 1) : i \in 1..Len(q) \/ i = Len(q) + 1
    BY <1>2
  <2> HIDE DEF r
  <2>3. Reported(kinds, r)
    BY <2>1, <2>2 DEF Reported
  <2> QED BY <2>3 DEF r
<1>6. ASSUME m.units # <<>>,
             \A k \in DOMAIN m.units :
                     /\ m.units[k] = End(q, Len(q)) + k
                     /\ m.units[k] \in DOMAIN kinds /\ kinds[m.units[k]] = m.kind
      PROVE  /\ Carried(kinds, Append(q, m))
             /\ End(Append(q, m), Len(q) + 1) = Last(m.units)
  <2>1. Continues(kinds, Append(q, m), Len(q) + 1)
    <3>1. (Len(q) + 1) - 1 = Len(q)
      BY <1>2
    <3> QED BY <1>1, <1>2, <1>3, <1>6, <3>1 DEF Continues
  <2>2. Carried(kinds, Append(q, m))
    BY <1>1, <1>2, <1>4, <2>1 DEF Carried
  <2>3. End(Append(q, m), Len(q) + 1) = Last(m.units)
    BY <1>1, <1>2 DEF End
  <2> QED BY <2>2, <2>3
<1> QED BY <1>5, <1>6

\* Posting more leaves what is carried in order.
LEMMA Grown ==
    ASSUME NEW S, NEW kinds \in Seq(S), NEW more \in Seq(S), NEW q \in Batches
    PROVE  /\ Carried(kinds, q) => Carried(kinds \o more, q)
           /\ Reported(kinds, q) => Reported(kinds \o more, q)
<1>1. \A n \in DOMAIN kinds : n \in DOMAIN (kinds \o more) /\ (kinds \o more)[n] = kinds[n]
  OBVIOUS
<1>2. \A i \in DOMAIN q : Continues(kinds, q, i) => Continues(kinds \o more, q, i)
  BY <1>1 DEF Continues
<1> QED BY <1>2 DEF Carried, Reported

\* Replacing two neighbours by their merge, and shifting what is behind them, keeps the
\* numbering and its end.
LEMMA MergeKeeps ==
    ASSUME NEW kinds, NEW q \in Batches, NEW r \in Batches, NEW p \in Nat,
           p + 2 <= Len(q), Len(r) = Len(q) - 1,
           \A i \in 1..p : r[i] = q[i],
           \A i \in (p + 2)..Len(r) : r[i] = q[i + 1],
           r[p + 1].kind = q[p + 1].kind, r[p + 1].kind = q[p + 2].kind,
           r[p + 1].units = q[p + 1].units \o q[p + 2].units,
           Carried(kinds, q)
    PROVE  Carried(kinds, r) /\ End(r, Len(r)) = End(q, Len(q))
<1> DEFINE n == Len(q)
           x == q[p + 1].units
           y == q[p + 2].units
           z == r[p + 1].units
           b == End(q, p)
<1>1. /\ n \in Nat /\ Len(r) = n - 1 /\ p + 2 <= n
      /\ DOMAIN q = 1..n /\ DOMAIN r = 1..(n - 1)
  BY DEF Batches
<1>2. p + 1 \in 1..n /\ p + 2 \in 1..n
  BY <1>1
<1>3. x \in Seq(Nat) /\ y \in Seq(Nat)
  <2>1. q[p + 1] \in Message /\ q[p + 2] \in Message
    BY <1>1, <1>2 DEF Batches
  <2> QED BY <2>1 DEF Message
<1>4. Continues(kinds, q, p + 1) /\ Continues(kinds, q, p + 2)
  BY <1>1, <1>2 DEF Carried
<1>5. x # <<>> /\ y # <<>>
  BY <1>4 DEF Continues
<1>6. /\ Len(x) \in Nat \ {0} /\ Len(y) \in Nat \ {0}
      /\ DOMAIN x = 1..Len(x) /\ DOMAIN y = 1..Len(y)
  <2> HIDE DEF x, y
  <2> QED BY <1>3, <1>5
<1>7. \A k \in 1..Len(x) : x[k] = b + k /\ x[k] \in DOMAIN kinds /\ kinds[x[k]] = q[p + 1].kind
  <2>1. (p + 1) - 1 = p
    OBVIOUS
  <2> QED BY <1>4, <1>6, <2>1 DEF Continues
<1>8. End(q, p + 1) = x[Len(x)] /\ End(q, p + 2) = y[Len(y)]
  BY <1>1, <1>2, <1>5, Ends
<1>9. \A k \in 1..Len(y) :
         y[k] = End(q, p + 1) + k /\ y[k] \in DOMAIN kinds /\ kinds[y[k]] = q[p + 2].kind
  <2>1. (p + 2) - 1 = p + 1
    OBVIOUS
  <2> QED BY <1>4, <1>6, <2>1 DEF Continues
<1>10. End(q, p + 1) = b + Len(x)
  BY <1>6, <1>7, <1>8
<1>11. b \in Nat
  <2>1. CASE p = 0
    BY <2>1 DEF End
  <2>2. CASE p # 0
    <3>1. p \in 1..n
      BY <1>1, <2>2
    <3>2. Continues(kinds, q, p)
      BY <1>1, <3>1 DEF Carried
    <3> QED BY <1>1, <3>1, <3>2, Ends DEF Continues
  <2> QED BY <2>1, <2>2
<1>12. /\ z = x \o y /\ Len(z) = Len(x) + Len(y) /\ DOMAIN z = 1..(Len(x) + Len(y))
       /\ \A k \in 1..(Len(x) + Len(y)) : z[k] = IF k <= Len(x) THEN x[k] ELSE y[k - Len(x)]
  <2>1. z = x \o y
    OBVIOUS
  <2>2. z \in Seq(Nat)
    BY <1>3, <2>1, ConcatProperties
  <2>3. /\ Len(z) = Len(x) + Len(y)
        /\ \A k \in 1..(Len(x) + Len(y)) : z[k] = IF k <= Len(x) THEN x[k] ELSE y[k - Len(x)]
    <3> HIDE DEF x, y, z
    <3> QED BY <1>3, <2>1, ConcatProperties
  <2>4. DOMAIN z = 1..Len(z)
    BY <2>2
  <2> QED BY <2>1, <2>3, <2>4
<1>13. r[p + 1].kind = q[p + 1].kind /\ r[p + 1].kind = q[p + 2].kind
  OBVIOUS
<1>14. \A i \in 0..p : End(r, i) = End(q, i)
  <2>1. \A i \in 1..p : r[i] = q[i]
    OBVIOUS
  <2>2. \A i \in 0..p : i = 0 \/ i \in 1..p
    OBVIOUS
  <2> QED BY <2>1, <2>2 DEF End
<1>15. \A k \in DOMAIN z :
          /\ z[k] = b + k
          /\ z[k] \in DOMAIN kinds /\ kinds[z[k]] = r[p + 1].kind
  <2> HIDE DEF b, x, y, z
  <2> TAKE k \in DOMAIN z
  <2>1. CASE k \in 1..Len(x)
    BY <1>6, <1>7, <1>12, <1>13, <2>1
  <2>2. CASE k \in (Len(x) + 1)..(Len(x) + Len(y))
    <3> DEFINE j == k - Len(x)
    <3>1. j \in 1..Len(y) /\ b + k = (b + Len(x)) + j /\ z[k] = y[j]
      BY <1>6, <1>11, <1>12, <2>2
    <3> HIDE DEF j
    <3> QED BY <1>9, <1>10, <1>13, <3>1
  <2> QED BY <1>6, <1>12, <2>1, <2>2
<1>16. Continues(kinds, r, p + 1)
  <2>1. (p + 1) - 1 = p /\ p \in 0..p
    OBVIOUS
  <2>2. z # <<>> /\ End(r, (p + 1) - 1) = b
    BY <1>6, <1>12, <1>14, <2>1
  <2> HIDE DEF b
  <2> QED BY <1>15, <2>2 DEF Continues
<1>17. End(r, p + 1) = End(q, p + 2)
  <2>1. z[Len(z)] = y[Len(y)]
    <3> HIDE DEF x, y, z
    <3> QED BY <1>6, <1>12
  <2> QED BY <1>8, <2>1 DEF End, Last
<1>18. \A i \in (p + 2)..(n - 1) : r[i] = q[i + 1]
  BY <1>1
<1>19. \A i \in (p + 1)..(n - 1) : End(r, i) = End(q, i + 1)
  <2> TAKE i \in (p + 1)..(n - 1)
  <2>1. CASE i = p + 1
    BY <1>17, <2>1
  <2>2. CASE i \in (p + 2)..(n - 1)
    <3>1. i # 0 /\ i + 1 # 0
      BY <1>1, <2>2
    <3> QED BY <1>18, <2>2, <3>1 DEF End
  <2>3. i = p + 1 \/ i \in (p + 2)..(n - 1)
    BY <1>1
  <2> QED BY <2>1, <2>2, <2>3
<1>20. ASSUME NEW i \in 1..(n - 1) PROVE Continues(kinds, r, i)
  <2> HIDE DEF n
  <2>1. CASE i \in 1..p
    <3>1. i \in 1..n /\ i - 1 \in 0..p
      BY <1>1, <2>1
    <3>2. Continues(kinds, q, i) /\ r[i] = q[i] /\ End(r, i - 1) = End(q, i - 1)
      BY <1>1, <1>14, <2>1, <3>1 DEF Carried
    <3> QED BY <3>2 DEF Continues
  <2>2. CASE i = p + 1
    BY <1>16, <2>2
  <2>3. CASE i \in (p + 2)..(n - 1)
    <3>1. i + 1 \in 1..n /\ i - 1 \in (p + 1)..(n - 1) /\ (i - 1) + 1 = (i + 1) - 1
      BY <1>1, <2>3
    <3>2. Continues(kinds, q, i + 1)
      BY <1>1, <3>1 DEF Carried
    <3>3. End(r, i - 1) = End(q, (i + 1) - 1) /\ r[i] = q[i + 1]
      BY <1>18, <1>19, <2>3, <3>1
    <3> QED BY <3>2, <3>3 DEF Continues
  <2> QED BY <1>1, <2>1, <2>2, <2>3
<1>21. End(r, Len(r)) = End(q, n)
  <2> HIDE DEF n
  <2>1. n - 1 \in (p + 1)..(n - 1) /\ (n - 1) + 1 = n
    BY <1>1
  <2> QED BY <1>1, <1>19, <2>1
<1> QED BY <1>1, <1>20, <1>21 DEF Carried

\* Concatenation, and sequences cut at either end.
LEMMA Parts ==
    ASSUME NEW q \in Batches
    PROVE  /\ q \o <<>> = q /\ <<>> \o q = q
           /\ \A r \in Batches : q \o r \in Batches /\ Len(q \o r) = Len(q) + Len(r)
           /\ \A r \in Batches, t \in Batches : (q \o r) \o t = q \o (r \o t)
           /\ \A m \in Message : Append(q, m) = q \o <<m>> /\ <<m>> \in Batches
           /\ q # <<>> => /\ Head(q) \in Message /\ Tail(q) \in Batches
                           /\ <<Head(q)>> \in Batches /\ q = <<Head(q)>> \o Tail(q)
           /\ q # <<>> => /\ Last(q) \in Message /\ Front(q) \in Batches
                           /\ q = Append(Front(q), Last(q))
                           /\ Len(Front(q)) = Len(q) - 1
<1>1. /\ q \o <<>> = q /\ <<>> \o q = q
      /\ \A r \in Batches : q \o r \in Batches /\ Len(q \o r) = Len(q) + Len(r)
  BY ConcatEmptySeq, ConcatProperties DEF Batches
<1>2. \A r \in Batches, t \in Batches : (q \o r) \o t = q \o (r \o t)
  BY ConcatAssociative DEF Batches
<1>3. \A m \in Message : Append(q, m) = q \o <<m>> /\ <<m>> \in Batches
  BY AppendIsConcat DEF Batches
<1>4. ASSUME q # <<>>
      PROVE  /\ Head(q) \in Message /\ Tail(q) \in Batches
             /\ <<Head(q)>> \in Batches /\ q = <<Head(q)>> \o Tail(q)
  <2>1. /\ Head(q) \in Message /\ Tail(q) \in Batches /\ Len(Tail(q)) = Len(q) - 1
        /\ <<Head(q)>> \in Batches
        /\ \A i \in 1..Len(Tail(q)) : Tail(q)[i] = q[i + 1]
    BY <1>4, HeadTailProperties DEF Batches
  <2> DEFINE r == <<Head(q)>> \o Tail(q)
  <2>2. /\ Len(r) = Len(q) /\ r \in Batches
        /\ \A i \in 1..Len(q) : r[i] = IF i <= 1 THEN <<Head(q)>>[i] ELSE Tail(q)[i - 1]
    <3>1. Len(<<Head(q)>>) = 1 /\ Len(q) \in Nat
      BY DEF Batches
    <3>2. 1 + (Len(q) - 1) = Len(q)
      BY <3>1
    <3> QED BY <2>1, <3>1, <3>2, ConcatProperties DEF Batches
  <2>3. \A i \in 1..Len(q) : r[i] = q[i]
    <3> TAKE i \in 1..Len(q)
    <3> HIDE DEF r
    <3>1. CASE i <= 1
      <4>1. i = 1
        BY <3>1
      <4> QED BY <2>2, <4>1, <1>4 DEF Batches
    <3>2. CASE ~(i <= 1)
      <4>1. i - 1 \in 1..Len(Tail(q)) /\ (i - 1) + 1 = i
        BY <2>1, <3>2 DEF Batches
      <4> QED BY <2>1, <2>2, <3>2, <4>1
    <3> QED BY <3>1, <3>2
  <2>4. q = r
    <3> HIDE DEF r
    <3> QED BY <2>2, <2>3, SeqEqual DEF Batches
  <2> QED BY <2>1, <2>4
<1>5. ASSUME q # <<>>
      PROVE  /\ Last(q) \in Message /\ Front(q) \in Batches
             /\ q = Append(Front(q), Last(q)) /\ Len(Front(q)) = Len(q) - 1
  <2>1. /\ Len(q) \in Nat \ {0} /\ Last(q) = q[Len(q)]
        /\ Front(q) = SubSeq(q, 1, Len(q) - 1)
        /\ Last(q) \in Message
    BY <1>5 DEF Last, Front, Batches
  <2>2. /\ Front(q) \in Batches /\ Len(Front(q)) = Len(q) - 1
        /\ \A i \in 1..(Len(q) - 1) : Front(q)[i] = q[i]
    <3>1. \A i \in 1..(Len(q) - 1) : q[i] \in Message
      BY <2>1 DEF Batches
    <3>2. /\ 1 \in Int /\ Len(q) - 1 \in Int /\ (Len(q) - 1) - 1 + 1 = Len(q) - 1
          /\ \A i \in 1..(Len(q) - 1) : 1 + i - 1 = i
      BY <2>1
    <3>3. /\ SubSeq(q, 1, Len(q) - 1) \in Seq(Message)
          /\ Len(SubSeq(q, 1, Len(q) - 1)) =
                IF 1 <= Len(q) - 1 THEN Len(q) - 1 - 1 + 1 ELSE 0
          /\ \A i \in 1..(Len(q) - 1) : SubSeq(q, 1, Len(q) - 1)[i] = q[1 + i - 1]
      BY <3>1, <3>2, SubSeqProperties
    <3>4. Len(SubSeq(q, 1, Len(q) - 1)) = Len(q) - 1
      <4> DEFINE n == Len(q)
                 l == Len(SubSeq(q, 1, Len(q) - 1))
      <4>1. n \in Nat \ {0} /\ l = IF 1 <= n - 1 THEN n - 1 - 1 + 1 ELSE 0
        BY <2>1, <3>3
      <4> HIDE DEF n, l
      <4>2. l = n - 1
        BY <4>1
      <4> QED BY <4>2 DEF n, l
    <3> QED BY <2>1, <3>2, <3>3, <3>4 DEF Batches
  <2> DEFINE r == Append(Front(q), Last(q))
  <2>3. r \in Batches /\ Len(r) = Len(q) /\ \A i \in 1..Len(q) : r[i] = q[i]
    BY <2>1, <2>2 DEF Batches
  <2>4. q = r
    <3> HIDE DEF r
    <3> QED BY <2>3, SeqEqual DEF Batches
  <2> QED BY <2>1, <2>2, <2>4
<1> QED BY <1>1, <1>2, <1>3, <1>4, <1>5

\* Concatenations of messages, without quantified parts.
LEMMA Joins ==
    /\ \A q \in Batches, r \in Batches : q \o r \in Batches
    /\ \A q \in Batches : q \o <<>> = q
  BY Parts

\* The same for three sequences.
LEMMA Assoc ==
    \A p1 \in Batches, p2 \in Batches, p3 \in Batches : (p1 \o p2) \o p3 = p1 \o (p2 \o p3)
  BY Parts

\* Appending is concatenating.
LEMMA Appends ==
    \A q \in Batches, m \in Message :
        Append(q, m) = q \o <<m>> /\ <<m>> \in Batches /\ Append(q, m) \in Batches
  BY Parts, AppendProperties DEF Batches

\* Appending to a part appends to the whole.
LEMMA Added ==
    \A p \in Batches, q \in Batches, m \in Message : p \o Append(q, m) = Append(p \o q, m)
<1> SUFFICES ASSUME NEW p \in Batches, NEW q \in Batches, NEW m \in Message
             PROVE  p \o Append(q, m) = Append(p \o q, m)
  OBVIOUS
<1> DEFINE s == <<m>>
<1>1. s \in Batches /\ Append(q, m) = q \o s /\ Append(p \o q, m) = (p \o q) \o s
  BY Appends, Joins
<1> HIDE DEF s
<1>2. (p \o q) \o s = p \o (q \o s)
  BY <1>1, Assoc
<1> QED BY <1>1, <1>2

\* Six parts in a row are messages.
LEMMA LineTyped ==
    \A a, b, c, d, e, f \in Batches : Line(a, b, c, d, e, f) \in Batches
  BY Joins DEF Line

\* A first message moves over an empty part.
LEMMA Regroup ==
    \A p \in Batches, h \in Batches, t \in Batches :
       /\ (p \o <<>>) \o (h \o t) = (p \o h) \o t
       /\ ((p \o h) \o <<>>) \o t = (p \o h) \o t
<1> SUFFICES ASSUME NEW p \in Batches, NEW h \in Batches, NEW t \in Batches
             PROVE  /\ (p \o <<>>) \o (h \o t) = (p \o h) \o t
                    /\ ((p \o h) \o <<>>) \o t = (p \o h) \o t
  OBVIOUS
<1>1. p \o <<>> = p /\ p \o h \in Batches
  BY Joins
<1>2. (p \o h) \o <<>> = p \o h
  BY <1>1, Joins
<1>3. (p \o h) \o t = p \o (h \o t)
  BY Assoc
<1> QED BY <1>1, <1>2, <1>3

\* What holds one message at most and is not empty is that message.
LEMMA Single ==
    \A q \in Batches : q # <<>> /\ Len(q) <= 1 => q = <<q[1]>> /\ q[1] \in Message
<1> SUFFICES ASSUME NEW q \in Batches, q # <<>>, Len(q) <= 1
             PROVE  q = <<q[1]>> /\ q[1] \in Message
  OBVIOUS
<1>1. Len(q) = 1
  <2> DEFINE n == Len(q)
  <2>1. n \in Nat \ {0} /\ n <= 1
    BY DEF Batches
  <2> HIDE DEF n
  <2>2. n = 1
    BY <2>1
  <2> QED BY <2>2 DEF n
<1>2. q[1] \in Message
  BY <1>1 DEF Batches
<1>3. <<q[1]>> \in Batches /\ Len(<<q[1]>>) = 1 /\ <<q[1]>>[1] = q[1]
  BY <1>2 DEF Batches
<1>4. \A i \in 1..Len(q) : q[i] = <<q[1]>>[i]
  BY <1>1
<1>5. q = <<q[1]>>
  BY <1>1, <1>3, <1>4, SeqEqual DEF Batches
<1> QED BY <1>2, <1>5

\* The messages of the frames of a sequence.
LEMMA FrameFacts ==
    ASSUME NEW w \in Seq(WireFrame)
    PROVE  /\ Messages(w) \in Batches /\ Len(Messages(w)) = Len(w)
           /\ Messages(<<>>) = <<>>
           /\ \A frame \in WireFrame :
                 /\ frame.message \in Message
                 /\ Messages(<<frame>>) = <<frame.message>>
           /\ \A h \in Seq(WireFrame) :
                 Messages(w \o h) = Messages(w) \o Messages(h)
           /\ w # <<>> => /\ Messages(w) # <<>> /\ Head(Messages(w)) = Head(w).message
                           /\ Tail(Messages(w)) = Messages(Tail(w))
<1>1. \A v \in Seq(WireFrame) :
         /\ Messages(v) \in Batches /\ Len(Messages(v)) = Len(v)
         /\ \A i \in 1..Len(v) : Messages(v)[i] = v[i].message
  <2> TAKE v \in Seq(WireFrame)
  <2>1. DOMAIN v = 1..Len(v) /\ Len(v) \in Nat /\ \A i \in 1..Len(v) : v[i] \in WireFrame
    OBVIOUS
  <2>2. Messages(v) \in [1..Len(v) -> Message]
    BY <2>1 DEF Messages, WireFrame
  <2>3. Messages(v) \in Batches /\ Len(Messages(v)) = Len(v)
    BY <2>1, <2>2 DEF Batches
  <2> QED BY <2>1, <2>3 DEF Messages
<1>2. Messages(<<>>) = <<>>
  BY DEF Messages
<1>3. \A frame \in WireFrame :
         /\ frame.message \in Message
         /\ Messages(<<frame>>) = <<frame.message>>
  BY DEF Messages, WireFrame
<1>4. ASSUME NEW h \in Seq(WireFrame)
      PROVE  Messages(w \o h) = Messages(w) \o Messages(h)
  <2>1. /\ w \o h \in Seq(WireFrame) /\ Len(w \o h) = Len(w) + Len(h)
        /\ \A i \in 1..(Len(w) + Len(h)) : (w \o h)[i] = IF i <= Len(w) THEN w[i] ELSE h[i - Len(w)]
    BY ConcatProperties
  <2> DEFINE p == Messages(w \o h)
             q == Messages(w) \o Messages(h)
  <2>2. p \in Batches /\ q \in Batches /\ Len(p) = Len(w) + Len(h) /\ Len(q) = Len(w) + Len(h)
    <3>1. /\ Messages(w) \in Batches /\ Messages(h) \in Batches /\ p \in Batches
          /\ Len(Messages(w)) = Len(w) /\ Len(Messages(h)) = Len(h)
          /\ Len(p) = Len(w \o h)
      BY <1>1, <2>1
    <3>2. q \in Batches /\ Len(q) = Len(Messages(w)) + Len(Messages(h))
      BY <3>1, Parts
    <3> QED BY <2>1, <3>1, <3>2
  <2>3. \A i \in 1..(Len(w) + Len(h)) :
           q[i] = IF i <= Len(w) THEN Messages(w)[i] ELSE Messages(h)[i - Len(w)]
    BY <1>1, ConcatProperties DEF Batches
  <2>4. \A i \in 1..(Len(w) + Len(h)) : p[i] = q[i]
    <3> TAKE i \in 1..(Len(w) + Len(h))
    <3>1. p[i] = (w \o h)[i].message
      BY <1>1, <2>1
    <3>2. Len(w) \in Nat /\ Len(h) \in Nat
      OBVIOUS
    <3>3. CASE i <= Len(w)
      <4>1. i \in 1..Len(w)
        BY <3>2, <3>3
      <4> QED BY <1>1, <2>1, <2>3, <3>1, <3>3, <4>1
    <3>4. CASE ~(i <= Len(w))
      <4>1. i - Len(w) \in 1..Len(h)
        BY <3>2, <3>4
      <4> QED BY <1>1, <2>1, <2>3, <3>1, <3>4, <4>1
    <3> QED BY <3>3, <3>4
  <2> HIDE DEF p, q
  <2>5. p = q
    BY <2>2, <2>4, SeqEqual DEF Batches
  <2> QED BY <2>5 DEF p, q
<1>5. ASSUME w # <<>>
      PROVE  /\ Messages(w) # <<>> /\ Head(Messages(w)) = Head(w).message
             /\ Tail(Messages(w)) = Messages(Tail(w))
  <2>1. Head(w) \in WireFrame /\ Tail(w) \in Seq(WireFrame) /\ w = <<Head(w)>> \o Tail(w)
    BY <1>5
  <2>2. Messages(w) # <<>> /\ Head(Messages(w)) = Head(w).message
    BY <1>1, <1>5 DEF Batches
  <2>3. /\ Tail(Messages(w)) \in Batches /\ Len(Tail(Messages(w))) = Len(w) - 1
        /\ \A i \in 1..(Len(w) - 1) : Tail(Messages(w))[i] = Messages(w)[i + 1]
    BY <1>1, <2>2, HeadTailProperties DEF Batches
  <2>4. /\ Len(Tail(w)) = Len(w) - 1
        /\ \A i \in 1..(Len(w) - 1) : Tail(w)[i] = w[i + 1] /\ i + 1 \in 1..Len(w)
    BY <1>5, HeadTailProperties
  <2>5. /\ Messages(Tail(w)) \in Batches /\ Len(Messages(Tail(w))) = Len(w) - 1
        /\ \A i \in 1..(Len(w) - 1) : Messages(Tail(w))[i] = Messages(w)[i + 1]
    BY <1>1, <2>1, <2>4
  <2>6. Tail(Messages(w)) = Messages(Tail(w))
    BY <2>3, <2>5, SeqEqual DEF Batches
  <2> QED BY <2>2, <2>6
<1> QED BY <1>1, <1>2, <1>3, <1>4, <1>5

\* Beginnings: of a concatenation, of a beginning, of six parts in a row.
LEMMA StartsFacts ==
    /\ \A p \in Batches, q \in Batches : Starts(p, p \o q)
    /\ \A p \in Batches, q \in Batches, r \in Batches :
          Starts(p, q) /\ Starts(q, r) => Starts(p, r)
    /\ \A a, b, c, d, e, f \in Batches :
          Starts(a \o b, Line(a, b, c, d, e, f)) /\ Starts(a, Line(a, b, c, d, e, f))
<1>1. ASSUME NEW p \in Batches, NEW q \in Batches PROVE Starts(p, p \o q)
  <2>1. /\ Len(p) \in Nat /\ Len(q) \in Nat /\ DOMAIN p = 1..Len(p) /\ Len(p \o q) = Len(p) + Len(q)
        /\ \A i \in 1..(Len(p) + Len(q)) : (p \o q)[i] = IF i <= Len(p) THEN p[i] ELSE q[i - Len(p)]
    BY ConcatProperties DEF Batches
  <2> QED BY <2>1 DEF Starts
<1>2. ASSUME NEW p \in Batches, NEW q \in Batches, NEW r \in Batches, Starts(p, q), Starts(q, r)
      PROVE  Starts(p, r)
  <2>1. /\ DOMAIN p = 1..Len(p) /\ DOMAIN q = 1..Len(q)
        /\ Len(p) \in Nat /\ Len(q) \in Nat /\ Len(r) \in Nat
    BY DEF Batches
  <2> QED BY <1>2, <2>1 DEF Starts
<1>3. ASSUME NEW a \in Batches, NEW b \in Batches, NEW c \in Batches, NEW d \in Batches,
             NEW e \in Batches, NEW f \in Batches
      PROVE  Starts(a \o b, Line(a, b, c, d, e, f)) /\ Starts(a, Line(a, b, c, d, e, f))
  <2>1. a \o b \in Batches /\ a \o b \o c \in Batches /\ a \o b \o c \o d \in Batches
    BY Parts
  <2>2. a \o b \o c \o d \o e \in Batches /\ a \o b \o c \o d \o e \o f \in Batches
    BY <2>1, Parts
  <2>3. Starts(a, a \o b) /\ Starts(a \o b, a \o b \o c) /\ Starts(a \o b \o c, a \o b \o c \o d)
    BY <1>1, <2>1
  <2>4. /\ Starts(a \o b \o c \o d, a \o b \o c \o d \o e)
        /\ Starts(a \o b \o c \o d \o e, a \o b \o c \o d \o e \o f)
    BY <1>1, <2>1, <2>2
  <2>5. Starts(a \o b \o c, a \o b \o c \o d \o e \o f)
    <3>1. Starts(a \o b \o c \o d, a \o b \o c \o d \o e \o f)
      BY <1>2, <2>1, <2>2, <2>4
    <3> QED BY <1>2, <2>1, <2>2, <2>3, <3>1
  <2>6. Starts(a \o b, a \o b \o c \o d \o e \o f)
    BY <1>2, <2>1, <2>2, <2>3, <2>5
  <2>7. Starts(a, a \o b \o c \o d \o e \o f)
    BY <1>2, <2>1, <2>2, <2>3, <2>6
  <2> QED BY <2>6, <2>7 DEF Line
<1> QED BY <1>1, <1>2, <1>3

\* A beginning carries on as the whole does.
LEMMA StartsKeep ==
    \A kinds : \A p \in Batches, q \in Batches :
       Starts(p, q) => /\ Carried(kinds, q) => Carried(kinds, p)
                       /\ Reported(kinds, q) => Reported(kinds, p)
  BY Beginnings DEF Starts

\* The merge of two neighbours between two parts.
LEMMA MergedParts ==
    ASSUME NEW kinds, NEW g \in Batches, NEW t \in Batches,
           NEW l \in Message, NEW h \in Message, NEW x \in Message,
           MergeOf(x, l, h)
    PROVE  LET q == ((g \o <<l>>) \o <<h>>) \o t
               r == (g \o <<x>>) \o t
           IN  Carried(kinds, q) => /\ Carried(kinds, r)
                                    /\ End(r, Len(r)) = End(q, Len(q))
<1> DEFINE q == ((g \o <<l>>) \o <<h>>) \o t
           r == (g \o <<x>>) \o t
<1> SUFFICES ASSUME Carried(kinds, q)
             PROVE  Carried(kinds, r) /\ End(r, Len(r)) = End(q, Len(q))
  OBVIOUS
<1>1. <<l>> \in Batches /\ <<h>> \in Batches /\ <<x>> \in Batches
  BY Appends
<1>2. g \in Batches /\ t \in Batches
  OBVIOUS
<1>3. q = ((g \o <<l>>) \o <<h>>) \o t
  OBVIOUS
<1>4. r = (g \o <<x>>) \o t
  OBVIOUS
<1> HIDE DEF q, r
<1> DEFINE p == Len(g)
<1>5. p \in Nat /\ Len(t) \in Nat
  BY <1>1, <1>2 DEF Batches
<1>6. /\ g \o <<l>> \in Batches /\ (g \o <<l>>) \o <<h>> \in Batches /\ g \o <<x>> \in Batches
      /\ q \in Batches /\ r \in Batches
  BY <1>1, <1>2, <1>3, <1>4, Parts
<1>7. /\ Len(g \o <<l>>) = p + 1 /\ (g \o <<l>>)[p + 1] = l
      /\ \A i \in 1..p : (g \o <<l>>)[i] = g[i]
      /\ Len(g \o <<x>>) = p + 1 /\ (g \o <<x>>)[p + 1] = x
      /\ \A i \in 1..p : (g \o <<x>>)[i] = g[i]
  <2>1. Append(g, l) = g \o <<l>> /\ Append(g, x) = g \o <<x>>
    BY <1>1, <1>2, Appends
  <2>2. \A m \in Message : /\ Len(Append(g, m)) = p + 1 /\ Append(g, m)[p + 1] = m
                           /\ \A i \in 1..p : Append(g, m)[i] = g[i]
    BY <1>2, AppendProperties DEF Batches
  <2> QED BY <1>1, <2>1, <2>2
<1>8. /\ Len((g \o <<l>>) \o <<h>>) = p + 2 /\ ((g \o <<l>>) \o <<h>>)[p + 2] = h
      /\ ((g \o <<l>>) \o <<h>>)[p + 1] = l /\ \A i \in 1..p : ((g \o <<l>>) \o <<h>>)[i] = g[i]
  <2> DEFINE v == g \o <<l>>
  <2>1. Append(v, h) = v \o <<h>>
    BY <1>6, Appends
  <2>2. v \in Batches /\ Len(v) = p + 1 /\ v[p + 1] = l /\ \A i \in 1..p : v[i] = g[i]
    BY <1>6, <1>7
  <2> HIDE DEF v, p
  <2>3. /\ Len(Append(v, h)) = (p + 1) + 1 /\ Append(v, h)[(p + 1) + 1] = h
        /\ \A i \in 1..(p + 1) : Append(v, h)[i] = v[i]
    BY <1>1, <2>2, AppendProperties DEF Batches
  <2>4. (p + 1) + 1 = p + 2 /\ p + 1 \in 1..(p + 1) /\ \A i \in 1..p : i \in 1..(p + 1)
    BY <1>5
  <2>5. /\ Len(v \o <<h>>) = p + 2 /\ (v \o <<h>>)[p + 2] = h
        /\ (v \o <<h>>)[p + 1] = l /\ \A i \in 1..p : (v \o <<h>>)[i] = g[i]
    BY <2>1, <2>2, <2>3, <2>4
  <2> QED BY <2>5 DEF v
<1>9. /\ Len(q) = (p + 2) + Len(t)
      /\ \A i \in 1..((p + 2) + Len(t)) :
            q[i] = IF i <= p + 2 THEN ((g \o <<l>>) \o <<h>>)[i] ELSE t[i - (p + 2)]
  BY <1>1, <1>3, <1>6, <1>8, ConcatProperties DEF Batches
<1>10. /\ Len(r) = (p + 1) + Len(t)
       /\ \A i \in 1..((p + 1) + Len(t)) :
             r[i] = IF i <= p + 1 THEN (g \o <<x>>)[i] ELSE t[i - (p + 1)]
  BY <1>1, <1>4, <1>6, <1>7, ConcatProperties DEF Batches
<1> HIDE DEF p
<1>11. p + 2 <= Len(q) /\ Len(r) = Len(q) - 1
  BY <1>5, <1>9, <1>10
<1>12. \A i \in 1..p : r[i] = q[i]
  <2> TAKE i \in 1..p
  <2>1. i \in 1..((p + 2) + Len(t)) /\ i \in 1..((p + 1) + Len(t)) /\ i <= p + 2 /\ i <= p + 1
    BY <1>5
  <2> QED BY <1>7, <1>8, <1>9, <1>10, <2>1
<1>13. \A i \in (p + 2)..Len(r) : r[i] = q[i + 1]
  <2> TAKE i \in (p + 2)..Len(r)
  <2>1. /\ i + 1 \in 1..((p + 2) + Len(t)) /\ i \in 1..((p + 1) + Len(t))
        /\ ~(i + 1 <= p + 2) /\ ~(i <= p + 1) /\ (i + 1) - (p + 2) = i - (p + 1)
    BY <1>5, <1>10
  <2> QED BY <1>9, <1>10, <2>1
<1>14. r[p + 1] = x /\ q[p + 1] = l /\ q[p + 2] = h
  <2>1. /\ p + 1 \in 1..((p + 2) + Len(t)) /\ p + 2 \in 1..((p + 2) + Len(t))
        /\ p + 1 \in 1..((p + 1) + Len(t)) /\ p + 1 <= p + 2 /\ p + 2 <= p + 2 /\ p + 1 <= p + 1
    BY <1>5
  <2> QED BY <1>7, <1>8, <1>9, <1>10, <2>1
<1>15. /\ r[p + 1].kind = q[p + 1].kind /\ r[p + 1].kind = q[p + 2].kind
       /\ r[p + 1].units = q[p + 1].units \o q[p + 2].units
  BY <1>14 DEF MergeOf
<1> HIDE DEF p
<1>16. Carried(kinds, q)
  BY DEF q
<1>17. Carried(kinds, r) /\ End(r, Len(r)) = End(q, Len(q))
  BY <1>5, <1>6, <1>11, <1>12, <1>13, <1>15, <1>16, MergeKeeps, ZenonT(60)
<1> QED BY <1>17 DEF q, r

\* The merge of the last message of the batch with the first of the queue.
LEMMA MergedLine ==
    ASSUME NEW kinds, NEW a \in Batches, NEW b \in Batches, NEW u \in Batches, NEW t \in Batches,
           NEW l \in Message, NEW h \in Message, NEW x \in Message,
           MergeOf(x, l, h)
    PROVE  LET q == Line(a, b, <<>>, Append(u, l), <<>>, <<h>> \o t)
               r == Line(a, b, <<>>, Append(u, x), <<>>, t)
           IN  Carried(kinds, q) => /\ Carried(kinds, r)
                                    /\ End(r, Len(r)) = End(q, Len(q))
<1> DEFINE k == <<l>>
           v == <<h>>
           z == <<x>>
           g == a \o b
           m == g \o u
<1>1. /\ k \in Batches /\ v \in Batches /\ z \in Batches
      /\ Append(u, l) = u \o k /\ Append(u, x) = u \o z
  BY Appends
<1>2. g \in Batches /\ g \o <<>> = g
  BY Joins
<1> HIDE DEF g, k, v, z
<1>3. /\ m \in Batches /\ g \o (u \o k) = m \o k /\ g \o (u \o z) = m \o z
  BY <1>1, <1>2, Assoc, Joins
<1> HIDE DEF m
<1> DEFINE n == m \o k
           o == m \o z
<1>4. n \in Batches /\ n \o <<>> = n /\ o \o <<>> = o
  BY <1>1, <1>3, Joins
<1> HIDE DEF n
<1>5. n \o (v \o t) = (n \o v) \o t
  BY <1>1, <1>4, Assoc
<1>6. Line(a, b, <<>>, u \o k, <<>>, v \o t) = (n \o v) \o t
  <2>1. Line(a, b, <<>>, u \o k, <<>>, v \o t) = (((g \o <<>>) \o (u \o k)) \o <<>>) \o (v \o t)
    BY DEF Line, g
  <2>2. (g \o <<>>) \o (u \o k) = n
    BY <1>2, <1>3 DEF n
  <2> QED BY <1>4, <1>5, <2>1, <2>2
<1>7. Line(a, b, <<>>, u \o z, <<>>, t) = o \o t
  <2>1. Line(a, b, <<>>, u \o z, <<>>, t) = (((g \o <<>>) \o (u \o z)) \o <<>>) \o t
    BY DEF Line, g
  <2>2. (g \o <<>>) \o (u \o z) = o
    BY <1>2, <1>3
  <2> QED BY <1>4, <2>1, <2>2
<1>8. Line(a, b, <<>>, Append(u, l), <<>>, v \o t) = (n \o v) \o t
  BY <1>1, <1>6
<1>9. Line(a, b, <<>>, Append(u, x), <<>>, t) = o \o t
  BY <1>1, <1>7
<1>10. /\ Line(a, b, <<>>, Append(u, l), <<>>, <<h>> \o t) = ((m \o <<l>>) \o <<h>>) \o t
       /\ Line(a, b, <<>>, Append(u, x), <<>>, t) = (m \o <<x>>) \o t
  BY <1>8, <1>9 DEF k, v, z, n
<1> DEFINE q == ((m \o <<l>>) \o <<h>>) \o t
           r == (m \o <<x>>) \o t
<1>11. Carried(kinds, q) => Carried(kinds, r) /\ End(r, Len(r)) = End(q, Len(q))
  BY <1>3, MergedParts
<1> QED BY <1>10, <1>11

\* Sizes of what is appended, taken from the front and split at the end.
LEMMA SizedFacts ==
    /\ Sized(<<>>)
    /\ \A m : Within(m) => Sized(<<m>>)
    /\ \A q \in Batches, m \in Message : Sized(q) /\ Within(m) => Sized(Append(q, m))
    /\ \A q \in Batches :
          Sized(q) /\ q # <<>> => /\ Within(Head(q)) /\ Sized(Tail(q))
                                 /\ Within(Last(q)) /\ Sized(Front(q))
<1>1. Sized(<<>>) /\ \A m : Within(m) => Sized(<<m>>)
  BY DEF Sized
<1>2. ASSUME NEW q \in Batches, NEW m \in Message, Sized(q), Within(m)
      PROVE  Sized(Append(q, m))
  <2>1. /\ Append(q, m) \in Batches /\ Len(Append(q, m)) = Len(q) + 1
        /\ Append(q, m)[Len(q) + 1] = m
        /\ \A i \in 1..Len(q) : Append(q, m)[i] = q[i]
    BY AppendProperties DEF Batches
  <2>2. DOMAIN q = 1..Len(q) /\ DOMAIN Append(q, m) = 1..(Len(q) + 1) /\ Len(q) \in Nat
    BY <2>1 DEF Batches
  <2> QED BY <1>2, <2>1, <2>2 DEF Sized
<1>3. ASSUME NEW q \in Batches, Sized(q), q # <<>>
      PROVE  Within(Head(q)) /\ Sized(Tail(q)) /\ Within(Last(q)) /\ Sized(Front(q))
  <2>1. Len(q) \in Nat \ {0} /\ DOMAIN q = 1..Len(q) /\ Head(q) = q[1] /\ Last(q) = q[Len(q)]
    BY <1>3 DEF Batches, Last
  <2>2. /\ Tail(q) \in Batches /\ Len(Tail(q)) = Len(q) - 1
        /\ \A i \in 1..(Len(q) - 1) : Tail(q)[i] = q[i + 1]
    BY <1>3, HeadTailProperties DEF Batches
  <2>3. DOMAIN Tail(q) = 1..(Len(q) - 1)
    BY <2>1, <2>2 DEF Batches
  <2>4. Sized(Tail(q))
    BY <1>3, <2>1, <2>2, <2>3 DEF Sized
  <2>5. /\ Front(q) \in Batches /\ q = Append(Front(q), Last(q))
        /\ Len(Front(q)) = Len(q) - 1
        /\ Last(q) \in Message
    BY <1>3, Parts
  <2>6. \A i \in 1..Len(Front(q)) : q[i] = Front(q)[i]
    BY <2>5, AppendProperties DEF Batches
  <2>7. DOMAIN Front(q) = 1..(Len(q) - 1)
    BY <2>1, <2>5 DEF Batches
  <2>8. Sized(Front(q))
    BY <1>3, <2>1, <2>5, <2>6, <2>7 DEF Sized
  <2> QED BY <1>3, <2>1, <2>4, <2>8 DEF Sized
<1> QED BY <1>1, <1>2, <1>3

-------------------------------------------------------------------------------
(************************ the writer: its steps ****************************)
\* The types of the parts.
LEMMA StateSequences ==
    ASSUME Types
    PROVE  /\ access.received \in Batches /\ Messages(wire) \in Batches
           /\ Messages(hand) \in Batches /\ batch \in Batches /\ pending \in Batches
           /\ queue \in Batches /\ wire \in Seq(WireFrame) /\ hand \in Seq(WireFrame)
           /\ posted \in Seq(Streams \cup {Control})
           /\ Len(Messages(wire)) = Len(wire)
<1>1. wire \in Seq(WireFrame) /\ hand \in Seq(WireFrame)
  BY DEF Types
<1> QED BY <1>1, FrameFacts DEF Types, Batches

\* What is in transit, before and after a step, as six parts in a row.
LEMMA LineNow ==
    /\ InTransit = Line(access.received, Messages(wire), Messages(hand),
                             batch, pending, queue)
    /\ InTransit' = Line(access'.received, Messages(wire'), Messages(hand'),
                              batch', pending', queue')
  BY DEF InTransit, Line, Messages

\* While the writer runs what is in transit begins with what was received and with Sent.
LEMMA SentFirst ==
    ASSUME Types
    PROVE  /\ InTransit \in Batches /\ Sent \in Batches
           /\ Starts(access.received, InTransit) /\ Starts(access.received, Sent)
           /\ Starts(Sent, InTransit)
<1> DEFINE a == access.received
           b == Messages(wire)
<1>1. /\ a \in Batches /\ b \in Batches /\ Messages(hand) \in Batches
      /\ batch \in Batches /\ pending \in Batches /\ queue \in Batches
  BY StateSequences
<1> HIDE DEF a, b
<1>2. InTransit = Line(a, b, Messages(hand), batch, pending, queue)
  BY LineNow DEF a, b
<1>3. /\ InTransit \in Batches
      /\ Starts(a \o b, InTransit)
      /\ Starts(a, InTransit)
  BY <1>1, <1>2, LineTyped, StartsFacts
<1>4. a \o b \in Batches /\ Starts(a, a \o b) /\ a \o <<>> = a /\ Starts(a, a \o <<>>)
  <2>1. <<>> \in Batches
    BY DEF Batches
  <2> QED BY <1>1, <2>1, Joins, StartsFacts
<1>5. Sent = a \o b \/ Sent = a
  BY DEF Sent, a, b
<1> QED BY <1>1, <1>3, <1>4, <1>5 DEF a

\* What was received is a beginning of what was posted, the report aside.
LEMMA ReceivedInOrder ==
    ASSUME Types, OrderOK
    PROVE  Reported(posted, access.received)
<1>1. /\ InTransit \in Batches /\ Sent \in Batches /\ access.received \in Batches
      /\ Starts(access.received, InTransit) /\ Starts(access.received, Sent)
  BY SentFirst, StateSequences
<1>2. Carried(posted, access.received) => Reported(posted, access.received)
  BY DEF Carried, Reported
<1>3. CASE Running
  <2>1. Carried(posted, InTransit)
    BY <1>3 DEF OrderOK
  <2> QED BY <1>1, <1>2, <2>1, StartsKeep, Zenon
<1>4. CASE phase = "reporting"
  <2>1. Carried(posted, Sent)
    BY <1>4 DEF OrderOK
  <2> QED BY <1>1, <1>2, <2>1, StartsKeep, Zenon
<1>5. CASE phase = "ended"
  <2>1. Reported(posted, Sent)
    BY <1>5 DEF OrderOK
  <2> QED BY <1>1, <2>1, StartsKeep, Zenon
<1> QED BY <1>3, <1>4, <1>5 DEF Types, Running

\* The order of what is in transit and of what was sent gives the invariant.
LEMMA OrderHolds == ASSUME Types, OrderOK PROVE InPostedOrder
<1>1. NothingLost
  BY DEF NothingLost, OrderOK, Running, Carried, Continues, Fits
<1>2. ReceivedAsPosted
  BY ReceivedInOrder DEF ReceivedAsPosted, Reported, Continues, Fits
<1> QED BY <1>1, <1>2 DEF InPostedOrder

\* The invariant holds initially.
LEMMA WriterInit == ASSUME Init PROVE WriterInv
<1>1. Types
  <2>1. /\ <<>> \in Seq(Message)
        /\ <<>> \in Seq(WireFrame)
        /\ <<>> \in Seq(Streams \cup {Control})
    OBVIOUS
  <2>2. BatchBounded
    BY WriterAssumption DEF Init, BatchBounded
  <2>3. access \in [expected : Nat, received : Seq(Message), state : {"open", "told", "refused"}]
    BY <2>1 DEF Init
  <2>4. /\ Len(<<>>) = 0 /\ 0 <= QueueCapacity /\ 0 <= WireCapacity /\ 0 <= MaxPosted
        /\ Len(<<>>) <= 1 /\ 0 \in Nat
    BY WriterAssumption
  <2> QED BY <2>1, <2>2, <2>3, <2>4, Zenon DEF Init, Types
<1>2. Messages(<<>>) = <<>>
  BY DEF Messages
<1>3. InTransit = <<>>
  BY <1>2 DEF Init, InTransit
<1>4. /\ Running
      /\ Carried(posted, InTransit)
      /\ End(InTransit, Len(InTransit)) = Len(posted)
  BY <1>3 DEF Init, Running, Carried, End
<1>5. OrderOK
  BY <1>4 DEF OrderOK, Running, Init
<1>6. SizesOK /\ BytesOK /\ PhasesOK /\ SequencesOK
  BY DEF Init, SizesOK, Sized, BytesOK, BytesCounted, Gathered, PhasesOK, SequencesOK
<1> QED BY <1>1, <1>5, <1>6 DEF WriterInv

\* Posting preserves the invariant.
LEMMA PostStep ==
    ASSUME WriterInv,
           NEW kind \in Streams \cup {Control}, NEW n \in Nat \ {0},
           kind # Control => n <= MaxPayload,
           Post(kind, n)
    PROVE  WriterInv'
<1> DEFINE more == [i \in 1..n |-> kind]
           units == [i \in 1..n |-> Len(posted) + i]
           m == [kind |-> kind, units |-> units]
           k == Len(posted)
<1>1. /\ more \in Seq(Streams \cup {Control}) /\ Len(more) = n
      /\ posted \in Seq(Streams \cup {Control}) /\ k \in Nat
      /\ queue \in Batches
  BY DEF WriterInv, Types, Batches
<1>2. units \in Seq(Nat) /\ Len(units) = n
  <2>1. units \in [1..n -> Nat]
    BY <1>1
  <2> QED BY <2>1
<1>3. m \in Message /\ Within(m)
  BY <1>2 DEF Message, Within, IsData
<1>4. posted' = posted \o more /\ queue' = Append(queue, m)
  BY DEF Post
<1>5. /\ posted' \in Seq(Streams \cup {Control}) /\ Len(posted') = k + n
      /\ \A i \in 1..(k + n) : posted'[i] = IF i <= k THEN posted[i] ELSE more[i - k]
      /\ DOMAIN posted' = 1..(k + n)
  <2> HIDE DEF more
  <2>1. /\ posted' \in Seq(Streams \cup {Control}) /\ Len(posted') = k + n
        /\ \A i \in 1..(k + n) : posted'[i] = IF i <= k THEN posted[i] ELSE more[i - k]
    BY <1>1, <1>4, ConcatProperties
  <2> QED BY <2>1
<1> HIDE DEF m
<1>6. queue' \in Batches /\ Len(queue') = Len(queue) + 1 /\ queue' = queue \o <<m>>
  BY <1>1, <1>3, <1>4, AppendProperties, Appends DEF Batches
<1>7. Types'
  <2>1. Len(posted') <= MaxPosted /\ Len(queue') <= QueueCapacity
    BY WriterAssumption, <1>1, <1>5, <1>6 DEF Post, WriterInv, Types, Batches
  <2> QED BY <1>5, <1>6, <2>1 DEF Post, WriterInv, Types, writer,
             BatchBounded, Batches
<1>8. SizesOK'
  <2>1. Sized(queue')
    BY <1>1, <1>3, <1>4, SizedFacts DEF WriterInv, SizesOK
  <2>2. Sized(pending) /\ Sized(batch) /\ pending' = pending /\ batch' = batch
    BY DEF WriterInv, SizesOK, Post, writer
  <2> QED BY <2>1, <2>2 DEF SizesOK, Sized, Within, IsData
<1>9. BytesOK' /\ PhasesOK' /\ SequencesOK'
  BY DEF WriterInv, BytesOK, BytesCounted, Gathered, PhasesOK, SequencesOK, Post, writer, Running
<1>10. Sent' = Sent /\ phase' = phase
  BY DEF Sent, Post, writer, Messages
<1>11. ASSUME Running
       PROVE  /\ Carried(posted', InTransit')
              /\ End(InTransit', Len(InTransit')) = Len(posted')
  <2> DEFINE q == InTransit
  <2>1. q \in Batches /\ InTransit' = Append(q, m)
    <3>1. /\ access' = access /\ wire' = wire /\ hand' = hand /\ batch' = batch
          /\ pending' = pending
      BY DEF Post, writer
    <3>2. /\ access.received \in Batches /\ Messages(wire) \in Batches
          /\ Messages(hand) \in Batches /\ batch \in Batches /\ pending \in Batches
      BY StateSequences DEF WriterInv
    <3> DEFINE a == access.received
               b == Messages(wire)
               c == Messages(hand)
    <3>3. InTransit' = Line(a, b, c, batch, pending, Append(queue, m))
      BY <1>4, <3>1, LineNow
    <3>4. InTransit = Line(a, b, c, batch, pending, queue)
      BY LineNow
    <3>5. a \in Batches /\ b \in Batches /\ c \in Batches
      BY <3>2
    <3> HIDE DEF a, b, c
    <3> DEFINE p == a \o b \o c \o batch \o pending
    <3>6. p \in Batches /\ p \o queue \in Batches
      BY <1>1, <3>2, <3>5, Joins
    <3>7. InTransit' = p \o Append(queue, m) /\ InTransit = p \o queue
      BY <3>3, <3>4 DEF Line
    <3> HIDE DEF p
    <3> QED BY <1>1, <1>3, <3>6, <3>7, Added
  <2>2. Carried(posted, q) /\ End(q, Len(q)) = k
    BY <1>11 DEF WriterInv, OrderOK
  <2> HIDE DEF q, more
  <2>3. Carried(posted', q)
    BY <1>1, <1>4, <2>1, <2>2, Grown
  <2>4. m.units = units /\ m.kind = kind /\ m.units # <<>>
    BY <1>2 DEF m
  <2>5. \A i \in DOMAIN m.units :
           /\ m.units[i] = End(q, Len(q)) + i
           /\ m.units[i] \in DOMAIN posted' /\ posted'[m.units[i]] = m.kind
    <3> TAKE i \in DOMAIN m.units
    <3>1. i \in 1..n /\ m.units[i] = k + i
      BY <2>4
    <3>2. k + i \in 1..(k + n) /\ ~(k + i <= k) /\ (k + i) - k = i
      BY <1>1, <3>1
    <3>3. more[i] = kind
      BY <3>1 DEF more
    <3>4. posted'[k + i] = kind
      BY <1>5, <3>2, <3>3
    <3> QED BY <1>5, <2>2, <2>4, <3>1, <3>2, <3>4
  <2>6. /\ Carried(posted', Append(q, m))
        /\ End(Append(q, m), Len(q) + 1) = Last(m.units)
    <3>1. m \in Message /\ q \in Batches /\ Carried(posted', q) /\ m.units # <<>>
      BY <1>3, <2>1, <2>3, <2>4
    <3> QED BY <2>5, <3>1, Appended, Zenon
  <2>7. Last(m.units) = k + n
    <3>1. Last(units) = units[n]
      BY <1>2 DEF Last
    <3> QED BY <2>4, <3>1
  <2>8. Len(Append(q, m)) = Len(q) + 1
    BY <1>3, <2>1, AppendProperties DEF Batches
  <2> QED BY <1>5, <2>1, <2>6, <2>7, <2>8
<1>12. OrderOK'
  <2>1. Running' <=> Running
    BY <1>10 DEF Running
  <2>2. Carried(posted, Sent) => Carried(posted', Sent)
    <3>1. Sent \in Batches
      BY SentFirst DEF WriterInv
    <3> HIDE DEF more
    <3> QED BY <1>1, <1>4, <3>1, Grown
  <2>3. Reported(posted, Sent) => Reported(posted', Sent)
    <3>1. Sent \in Batches
      BY SentFirst DEF WriterInv
    <3> HIDE DEF more
    <3> QED BY <1>1, <1>4, <3>1, Grown
  <2> QED BY <1>10, <1>11, <2>1, <2>2, <2>3 DEF WriterInv, OrderOK, Carried, Reported, Continues,
             End
<1> QED BY <1>7, <1>8, <1>9, <1>12 DEF WriterInv

\* A running writer that moves messages keeps their order.
LEMMA OrderKept ==
    ASSUME OrderOK, Running, Running', InTransit' = InTransit, posted' = posted
    PROVE  OrderOK'
<1>1. /\ Carried(posted', InTransit')
      /\ End(InTransit', Len(InTransit')) = Len(posted')
  BY DEF OrderOK
<1>2. ~(phase' = "reporting") /\ ~(phase' = "ended")
  BY DEF Running
<1> QED BY <1>1, <1>2 DEF OrderOK, Carried, Continues, End

\* A message in a row of messages in order starts behind the one before it.
LEMMA Following ==
    ASSUME NEW kinds, NEW p \in Batches, NEW m \in Message, NEW t \in Batches,
           Carried(kinds, (p \o <<m>>) \o t)
    PROVE  /\ Last(m.units) = Head(m.units) + Len(m.units) - 1
           /\ p # <<>> => Last(m.units) = Last(Last(p).units) + Len(m.units)
<1> DEFINE r == (p \o <<m>>) \o t
           n == Len(p)
<1>1. /\ n \in Nat /\ DOMAIN p = 1..n /\ DOMAIN r = 1..Len(r) /\ n + 1 \in DOMAIN r
      /\ r \in Batches /\ r[n + 1] = m /\ \A i \in 1..n : i \in DOMAIN r /\ r[i] = p[i]
  <2> DEFINE h == <<m>>
             q == p \o h
  <2>1. h \in Batches /\ Len(h) = 1 /\ h[1] = m /\ q \in Batches /\ r \in Batches
    BY Appends, Joins
  <2>2. n \in Nat /\ Len(t) \in Nat /\ Len(q) = n + 1 /\ Len(r) = n + 1 + Len(t)
    BY <2>1, ConcatProperties DEF Batches
  <2>8. r = q \o t
    OBVIOUS
  <2> HIDE DEF h
  <2>3. \A i \in 1..(n + Len(h)) : q[i] = IF i <= n THEN p[i] ELSE h[i - n]
    BY <2>1, ConcatProperties DEF Batches
  <2> HIDE DEF q, r
  <2>4. \A i \in 1..(Len(q) + Len(t)) : r[i] = IF i <= Len(q) THEN q[i] ELSE t[i - Len(q)]
    BY <2>1, <2>8, ConcatProperties DEF Batches
  <2>5. DOMAIN r = 1..Len(r) /\ DOMAIN p = 1..n
    BY <2>1 DEF Batches
  <2> HIDE DEF n
  <2>6. q[n + 1] = m /\ \A i \in 1..n : q[i] = p[i]
    BY <2>1, <2>2, <2>3
  <2>7. \A i \in 1..(n + 1) : i \in 1..Len(r) /\ r[i] = q[i]
    BY <2>2, <2>4
  <2> QED BY <2>1, <2>2, <2>5, <2>6, <2>7
<1> HIDE DEF r
<1>2. ASSUME NEW i \in DOMAIN r
      PROVE  r[i].units \in Seq(Nat) /\ r[i].units # <<>> /\ End(r, i) = Last(r[i].units)
             /\ End(r, i) \in Nat /\ End(r, i - 1) \in Nat
             /\ \A k \in DOMAIN r[i].units : r[i].units[k] = End(r, i - 1) + k
  <2>1. \A j \in DOMAIN r : r[j].units # <<>>
    BY DEF Carried, Continues, r
  <2>2. /\ r[i].units \in Seq(Nat) /\ End(r, i) = Last(r[i].units) /\ End(r, i) \in Nat
    BY <1>1, <2>1, Ends DEF Last
  <2>3. End(r, i - 1) \in Nat
    <3>1. i \in Nat \ {0}
      BY <1>1
    <3>2. CASE i = 1
      BY <3>2 DEF End
    <3>3. CASE i # 1
      <4>1. i - 1 \in DOMAIN r
        BY <1>1, <3>1, <3>3
      <4> QED BY <1>1, <2>1, <4>1, Ends
    <3> QED BY <3>2, <3>3
  <2> QED BY <2>1, <2>2, <2>3 DEF Carried, Continues, r
<1>3. /\ m.units \in Seq(Nat) /\ m.units # <<>> /\ End(r, n) \in Nat
      /\ \A k \in DOMAIN m.units : m.units[k] = End(r, n) + k
  <2>1. (n + 1) - 1 = n
    BY <1>1
  <2> QED BY <1>1, <1>2, <2>1
<1>4. /\ Head(m.units) = End(r, n) + 1 /\ Last(m.units) = End(r, n) + Len(m.units)
      /\ Len(m.units) \in Nat
  <2>1. /\ Len(m.units) \in Nat \ {0} /\ DOMAIN m.units = 1..Len(m.units)
        /\ Head(m.units) = m.units[1]
    BY <1>3
  <2> QED BY <1>3, <2>1 DEF Last
<1>5. Last(m.units) = Head(m.units) + Len(m.units) - 1
  BY <1>3, <1>4
<1>6. ASSUME p # <<>> PROVE End(r, n) = Last(Last(p).units)
  <2>1. n \in 1..n
    BY <1>1, <1>6
  <2>2. n \in DOMAIN r /\ r[n] = Last(p)
    BY <1>1, <2>1 DEF Last
  <2> QED BY <1>2, <2>2
<1> QED BY <1>4, <1>5, <1>6

\* The first message of a batch carries numbers that follow one another.
LEMMA TakenNumbers ==
    ASSUME Types, OrderOK, Running, NEW m \in Message, batch' = <<m>>,
           pending' = <<>>, queue' \in Batches, hand' = hand,
           wire' = wire, access' = access, InTransit' = InTransit
    PROVE  Last(m.units) = Head(m.units) + Len(m.units) - 1
<1> DEFINE p == access.received \o Messages(wire) \o Messages(hand)
<1>1. p \in Batches
  BY StateSequences, Joins
<1>2. InTransit' = ((p \o <<m>>) \o <<>>) \o queue'
  <2>1. Messages(hand') = Messages(hand) /\ Messages(wire') = Messages(wire)
    BY DEF Messages
  <2> QED BY <2>1, LineNow DEF Line
<1> HIDE DEF p
<1>3. InTransit' = (p \o <<m>>) \o queue'
  BY <1>1, <1>2, Appends, Joins
<1>4. Carried(posted, (p \o <<m>>) \o queue')
  BY <1>3 DEF OrderOK
<1> QED BY <1>1, <1>4, Following

\* The next message of the queue continues the last of the batch.
LEMMA NextNumbers ==
    ASSUME WriterInv, phase = "collecting", queue # <<>>
    PROVE  Last(Head(queue).units) = Last(Last(batch).units) + Len(Head(queue).units)
<1> DEFINE c == access.received \o Messages(wire) \o Messages(hand)
           m == Head(queue)
           t == Tail(queue)
<1>1. /\ batch \in Batches /\ batch # <<>> /\ pending = <<>> /\ Running
      /\ m \in Message /\ t \in Batches /\ <<m>> \in Batches /\ queue = <<m>> \o t
  BY Parts DEF WriterInv, Types, PhasesOK, Batches, Running
<1>2. c \in Batches /\ c \o batch \in Batches
  BY <1>1, StateSequences, Joins DEF WriterInv
<1>3. InTransit = ((c \o batch) \o <<>>) \o (<<m>> \o t)
  BY <1>1, LineNow DEF Line
<1> HIDE DEF c, m, t
<1> DEFINE p == c \o batch
<1>4. Carried(posted, (p \o <<m>>) \o t)
  <2>1. InTransit = (p \o <<m>>) \o t
    <3> HIDE DEF p
    <3>1. p \in Batches
      BY <1>2 DEF p
    <3>2. InTransit = (p \o <<>>) \o (<<m>> \o t)
      BY <1>3 DEF p
    <3> QED BY <1>1, <3>1, <3>2, Regroup
  <2> QED BY <1>1, <2>1 DEF WriterInv, OrderOK
<1>5. p # <<>> /\ Last(p) = Last(batch)
  <2> DEFINE i == Len(c)
             n == Len(batch)
  <2>1. /\ i \in Nat /\ n \in Nat \ {0} /\ Len(p) = i + n
        /\ \A k \in 1..(i + n) : p[k] = IF k <= i THEN c[k] ELSE batch[k - i]
    BY <1>1, <1>2, ConcatProperties DEF Batches
  <2> HIDE DEF i, n, p
  <2>2. p[i + n] = batch[n] /\ Len(p) # 0
    BY <2>1
  <2> QED BY <2>1, <2>2 DEF Last, n
<1> HIDE DEF p
<1>6. p \in Batches
  BY <1>2 DEF p
<1> QED BY <1>1, <1>4, <1>5, <1>6, Following DEF m

\* The ends of a batch are numbers.
LEMMA GatheredNumbers ==
    ASSUME WriterInv, phase = "collecting"
    PROVE  Last(Last(batch).units) \in Nat /\ Head(Head(batch).units) \in Nat
<1>1. batch \in Batches /\ batch # <<>> /\ Sized(batch)
  BY DEF WriterInv, Types, PhasesOK, SizesOK, Batches
<1>2. /\ Head(batch) \in Message /\ Within(Head(batch))
      /\ Last(batch) \in Message /\ Within(Last(batch))
  BY <1>1, Parts, SizedFacts
<1>3. ASSUME NEW m \in Message, Within(m)
      PROVE  Last(m.units) \in Nat /\ Head(m.units) \in Nat
  <2> DEFINE u == m.units
  <2>1. u \in Seq(Nat) /\ Len(u) \in Nat /\ Len(u) >= 1
    BY <1>3 DEF Message, Within
  <2> HIDE DEF u
  <2>2. Len(u) \in 1..Len(u) /\ 1 \in 1..Len(u)
    BY <2>1
  <2>3. u[Len(u)] \in Nat /\ u[1] \in Nat /\ Head(u) = u[1]
    BY <2>1, <2>2
  <2> QED BY <2>3 DEF Last, u
<1> QED BY <1>2, <1>3

\* The ends of two payloads that are joined.
LEMMA UnitsJoined ==
    \A u, v \in Seq(Nat) : Len(u) >= 1 /\ Len(v) >= 1 =>
        Last(u \o v) = Last(v) /\ Head(u \o v) = Head(u)
<1> SUFFICES ASSUME NEW u \in Seq(Nat), NEW v \in Seq(Nat), Len(u) >= 1, Len(v) >= 1
             PROVE  Last(u \o v) = Last(v) /\ Head(u \o v) = Head(u)
  OBVIOUS
<1> DEFINE w == u \o v
           i == Len(u)
           n == Len(v)
<1>1. /\ i \in Nat /\ n \in Nat /\ i >= 1 /\ n >= 1 /\ w \in Seq(Nat) /\ Len(w) = i + n
      /\ \A k \in 1..(i + n) : w[k] = IF k <= i THEN u[k] ELSE v[k - i]
  BY ConcatProperties
<1> HIDE DEF w, i, n
<1>2. w[i + n] = v[n] /\ w[1] = u[1] /\ Len(w) >= 1
  BY <1>1
<1>3. Head(w) = w[1] /\ Head(u) = u[1]
  BY <1>1, <1>2 DEF i
<1> QED BY <1>1, <1>2, <1>3 DEF Last, w, n

\* The first message of a batch stays, or keeps its first number when it is the one that
\* grows.
LEMMA HeadReplaced ==
    \A u \in Batches, l \in Message, x \in Message :
        /\ u # <<>> => Head(Append(u, l)) = Head(u)
        /\ Head(l.units) = Head(x.units) =>
              Head(Head(Append(u, x)).units) = Head(Head(Append(u, l)).units)
<1>1. ASSUME NEW u \in Batches, NEW l \in Message
      PROVE  Head(Append(u, l)) = IF u = <<>> THEN l ELSE Head(u)
  BY DEF Batches
<1> QED BY <1>1

\* Opening a batch preserves the invariant.
LEMMA TakeFirstStep == ASSUME WriterInv, TakeFirst PROVE WriterInv'
<1> DEFINE m == batch'[1]
<1>1. /\ batch = <<>> /\ hand = <<>> /\ Running /\ Running'
      /\ posted' = posted /\ hand' = hand /\ sequence' = sequence /\ cancelled' = cancelled
      /\ wire' = wire /\ access' = access /\ linked' = linked
  BY DEF TakeFirst, WriterInv, PhasesOK, Running
<1>2. pending \in Batches /\ queue \in Batches /\ Len(pending) <= 1
  BY DEF WriterInv, Types, Batches
<1>3. /\ m \in Message /\ Within(m) /\ batch' = <<m>>
      /\ pending' \in Batches /\ Len(pending') <= 1 /\ Sized(pending')
      /\ queue' \in Batches /\ Len(queue') <= Len(queue) /\ Sized(queue')
      /\ pending' = <<>>
      /\ InTransit' = InTransit
  <2> DEFINE a == access.received
             b == Messages(wire)
             c == Messages(hand)
  <2>0. /\ a \in Batches /\ b \in Batches /\ c \in Batches
        /\ InTransit = Line(a, b, c, <<>>, pending, queue)
        /\ InTransit' = Line(a, b, c, batch', pending', queue')
    BY <1>1, StateSequences, LineNow DEF WriterInv
  <2> HIDE DEF a, b, c
  <2>1. CASE /\ pending # <<>> /\ batch' = pending /\ pending' = <<>> /\ queue' = queue
    <3>1. pending = <<m>> /\ m \in Message
      <4>1. pending = <<pending[1]>> /\ pending[1] \in Message
        BY <1>2, <2>1, Single
      <4>2. m = pending[1]
        BY <2>1
      <4> HIDE DEF m
      <4> QED BY <4>1, <4>2
    <3>2. Within(m) /\ Sized(queue') /\ Sized(pending')
      <4>1. Sized(pending) /\ Sized(queue) /\ Sized(<<>>)
        BY SizedFacts DEF WriterInv, SizesOK
      <4>2. 1 \in DOMAIN pending /\ pending[1] = m
        <5> HIDE DEF m
        <5> QED BY <3>1
      <4>3. Within(m)
        <5> HIDE DEF m
        <5> QED BY <4>1, <4>2 DEF Sized
      <4> QED BY <2>1, <4>1, <4>3
    <3>3. Line(a, b, c, <<>>, pending, queue) = Line(a, b, c, pending, <<>>, queue)
      <4> DEFINE p == a \o b \o c
      <4>1. p \in Batches /\ p \o <<>> = p /\ p \o pending \in Batches
        BY <1>2, <2>0, Joins
      <4>2. (p \o pending) \o <<>> = p \o pending
        BY <4>1, Joins
      <4> QED BY <4>1, <4>2 DEF Line
    <3> QED BY <1>2, <2>0, <2>1, <3>1, <3>2, <3>3 DEF Batches
  <2>2. CASE /\ pending = <<>> /\ queue # <<>>
             /\ batch' = <<Head(queue)>> /\ queue' = Tail(queue) /\ pending' = pending
    <3>1. m = Head(queue) /\ m \in Message /\ batch' = <<m>> /\ Tail(queue) \in Batches
      BY <1>2, <2>2, Parts
    <3>2. Within(m) /\ Sized(queue') /\ Sized(pending')
      BY <1>2, <2>2, <3>1, SizedFacts DEF WriterInv, SizesOK
    <3>3. Line(a, b, c, <<>>, <<>>, queue) = Line(a, b, c, batch', <<>>, Tail(queue))
      <4> DEFINE p == a \o b \o c
                 s == batch'
                 t == Tail(queue)
      <4>1. p \in Batches /\ p \o <<>> = p
        BY <1>2, <2>0, Joins
      <4>2. queue = s \o t /\ s \in Batches /\ t \in Batches
        BY <1>2, <2>2, Parts
      <4> HIDE DEF s, t
      <4>3. p \o s \in Batches /\ (p \o s) \o <<>> = p \o s
        BY <4>1, <4>2, Joins
      <4>4. p \o (s \o t) = (p \o s) \o t
        <5> HIDE DEF p
        <5> QED BY <4>1, <4>2, Assoc
      <4> QED BY <4>1, <4>2, <4>3, <4>4 DEF Line, s, t
    <3>4. Len(queue') <= Len(queue)
      BY <1>2, <2>2, HeadTailProperties DEF Batches
    <3> QED BY <1>2, <2>0, <2>2, <3>1, <3>2, <3>3, <3>4
  <2> QED BY <2>1, <2>2 DEF TakeFirst
<1>4. /\ phase' = (IF IsData(m) THEN "collecting" ELSE "writing") /\ batch_bytes' = Size(m)
  BY DEF TakeFirst
<1>5. Len(m.units) \in Nat \ {0} /\ (IsData(m) => Len(m.units) <= MaxPayload)
  BY <1>3 DEF Within, Message
<1>6. batch_bytes' \in Nat /\ batch_bytes' + 1 <= MaxBytes + Len(m.units)
  BY WriterAssumption, <1>4, <1>5 DEF Size
<1>7. batch_bytes' < MaxBytes + MaxPayload
  BY WriterAssumption, <1>4, <1>5, <1>6 DEF Size
<1> HIDE DEF m
<1>8. BatchBounded'
  <2>1. Len(batch') = 1 /\ DOMAIN batch' = {1} /\ batch'[1] = m
    BY <1>3
  <2> QED BY WriterAssumption, <1>5, <1>7, <2>1 DEF BatchBounded, IsData
<1>9. Types'
  <2>1. batch' \in Seq(Message)
    BY <1>3
  <2>2. Len(queue') <= QueueCapacity
    BY WriterAssumption, <1>2, <1>3 DEF WriterInv, Types, Batches
  <2> QED BY <1>1, <1>3, <1>4, <1>6, <1>8, <2>1, <2>2 DEF WriterInv, Types, Batches
<1>10. SizesOK'
  <2>1. Sized(batch')
    BY <1>3, SizedFacts
  <2> QED BY <1>3, <2>1 DEF SizesOK, Sized, Within, IsData
<1>11. Last(batch') = m /\ batch' # <<>>
  BY <1>3 DEF Last
<1>12. BytesOK'
  <2>1. BytesCounted'
    <3>1. Last(m.units) = Head(m.units) + Len(m.units) - 1
      <4>1. Types /\ OrderOK
        BY DEF WriterInv
      <4> QED BY <1>1, <1>3, <4>1, TakenNumbers
    <3>2. Len(batch') = 1 /\ Head(batch') = m
      BY <1>3
    <3> DEFINE i == Len(m.units)
               s == Head(m.units)
    <3>3. s \in Nat /\ i \in Nat
      BY <1>3, <1>5 DEF Message
    <3>4. Gathered' = (s + i - 1) - s + 1
      BY <1>11, <3>1, <3>2 DEF Gathered
    <3>5. phase' = "collecting" => batch_bytes' = HeaderLen + i
      BY <1>4 DEF Size
    <3> HIDE DEF i, s
    <3>6. HeaderLen * Len(batch') = HeaderLen /\ HeaderLen \in Nat
      BY WriterAssumption, <3>2
    <3> QED BY <3>3, <3>4, <3>5, <3>6 DEF BytesCounted
  <2> QED BY <1>6, <1>11, <2>1 DEF BytesOK
<1>13. PhasesOK'
  BY <1>1, <1>3, <1>4, <1>11 DEF WriterInv, PhasesOK, IsData, TakeFirst
<1>14. SequencesOK'
  BY <1>1 DEF WriterInv, SequencesOK
<1>15. OrderOK'
  BY <1>1, <1>3, OrderKept DEF WriterInv
<1> QED BY <1>9, <1>10, <1>12, <1>13, <1>14, <1>15 DEF WriterInv

\* Merging with the last message of the batch preserves the invariant.
LEMMA MergeStep ==
    ASSUME WriterInv, Collect,
           Mergeable(Last(batch), Head(queue)),
           batch' = Append(Front(batch), Merged(Head(queue))),
           batch_bytes' = batch_bytes + Counted(Head(queue)),
           queue' = Tail(queue), pending' = pending, phase' = phase
    PROVE  WriterInv'
<1> DEFINE l == Last(batch)
           h == Head(queue)
           x == Merged(h)
           u == Front(batch)
           t == Tail(queue)
<1>1. /\ phase = "collecting" /\ phase' = "collecting" /\ queue # <<>>
      /\ pending = <<>> /\ hand = <<>> /\ batch # <<>> /\ IsData(l)
      /\ posted' = posted /\ hand' = hand /\ sequence' = sequence /\ cancelled' = cancelled
      /\ wire' = wire /\ access' = access /\ linked' = linked /\ pending' = pending
  BY DEF Collect, WriterInv, PhasesOK
<1>2. queue \in Batches /\ batch \in Batches
  BY DEF WriterInv, Types, Batches
<1>3. /\ h \in Message /\ t \in Batches /\ queue = <<h>> \o t
      /\ l \in Message /\ u \in Batches /\ batch = Append(u, l)
      /\ Len(u) = Len(batch) - 1 /\ Len(t) = Len(queue) - 1
  <2>1. Len(t) = Len(queue) - 1
    BY <1>1, <1>2, HeadTailProperties DEF Batches
  <2> QED BY <1>1, <1>2, <2>1, Parts
<1>4. Within(h) /\ Within(l) /\ Sized(u) /\ Sized(t)
  BY <1>1, <1>2, SizedFacts DEF WriterInv, SizesOK
<1>5. /\ l.kind = h.kind /\ IsData(h) /\ Len(l.units) + Len(h.units) <= MaxPayload
  BY DEF Mergeable
<1>6. /\ batch' = Append(u, x) /\ batch_bytes' = batch_bytes + Len(h.units) /\ queue' = t
  BY DEF Counted
<1> HIDE DEF h, u, t
<1>7. x = [l EXCEPT !.units = @ \o h.units]
  BY DEF Merged
<1> HIDE DEF l, x
<1>8. l.units \in Seq(Nat) /\ h.units \in Seq(Nat) /\ l.units \o h.units \in Seq(Nat)
      /\ Len(l.units \o h.units) = Len(l.units) + Len(h.units)
  <2>1. l.units \in Seq(Nat) /\ h.units \in Seq(Nat)
    BY <1>3 DEF Message
  <2> QED BY <2>1, ConcatProperties
<1>9. x \in Message /\ x.kind = l.kind /\ x.units = l.units \o h.units
  BY <1>3, <1>7, <1>8 DEF Message
<1>10. /\ Len(x.units) = Len(l.units) + Len(h.units) /\ IsData(x) /\ Within(x)
       /\ Len(h.units) \in Nat \ {0} /\ Len(l.units) \in Nat
  <2> DEFINE i == Len(l.units)
             n == Len(h.units)
  <2>1. i \in Nat /\ n \in Nat /\ i >= 1 /\ n >= 1
    BY <1>4, <1>8 DEF Within
  <2>2. IsData(x)
    BY <1>1, <1>9 DEF IsData
  <2>3. Len(x.units) = i + n /\ i + n <= MaxPayload
    BY <1>5, <1>8, <1>9
  <2> HIDE DEF i, n
  <2>4. Within(x)
    BY <2>1, <2>3 DEF Within
  <2> QED BY <2>1, <2>2, <2>3, <2>4 DEF i, n
<1>11. batch' \in Batches /\ Sized(batch') /\ Len(batch') = Len(batch)
  <2>1. batch' \in Batches /\ Sized(batch')
    BY <1>3, <1>4, <1>6, <1>9, <1>10, SizedFacts, Appends
  <2>2. Len(batch') = Len(u) + 1
    BY <1>3, <1>6, <1>9, AppendProperties DEF Batches
  <2>3. Len(batch) \in Nat
    BY <1>2 DEF Batches
  <2> QED BY <1>3, <2>1, <2>2, <2>3
<1>12. Last(batch') = x /\ batch' # <<>>
  <2>1. batch'[Len(u) + 1] = x /\ Len(batch') = Len(u) + 1 /\ Len(u) \in Nat
    BY <1>3, <1>6, <1>9, AppendProperties DEF Batches
  <2> QED BY <2>1 DEF Last
<1>13. batch_bytes + 1 <= MaxBytes + Len(l.units) /\ batch_bytes \in Nat
  BY <1>1 DEF WriterInv, BytesOK, BytesCounted, Gathered, Types, l
<1>14. /\ batch_bytes' \in Nat /\ batch_bytes' + 1 <= MaxBytes + Len(x.units)
       /\ batch_bytes' < MaxBytes + MaxPayload
  <2> DEFINE i == Len(l.units)
             n == Len(h.units)
  <2>1. /\ i \in Nat /\ n \in Nat \ {0} /\ MaxBytes \in Nat /\ MaxPayload \in Nat
        /\ Len(x.units) = i + n /\ i + n <= MaxPayload
        /\ batch_bytes' = batch_bytes + n /\ batch_bytes + 1 <= MaxBytes + i /\ batch_bytes \in Nat
    BY WriterAssumption, <1>5, <1>6, <1>10, <1>13
  <2> HIDE DEF i, n
  <2> QED BY <2>1
<1>15. Types'
  <2>1. BatchBounded'
    <3>1. \A i \in DOMAIN batch' : IsData(batch'[i]) => Len(batch'[i].units) <= MaxPayload
      BY <1>11 DEF Sized, Within
    <3>2. Len(batch') <= MaxMessages
      BY <1>11 DEF WriterInv, Types, BatchBounded
    <3> QED BY <1>14, <3>1, <3>2 DEF BatchBounded, IsData
  <2>2. Len(queue') <= QueueCapacity
    <3>1. Len(queue) \in Nat /\ Len(queue) <= QueueCapacity /\ QueueCapacity \in Nat
      BY WriterAssumption, <1>2 DEF WriterInv, Types, Batches
    <3> QED BY <1>3, <1>6, <3>1
  <2> QED BY <1>1, <1>3, <1>6, <1>11, <1>14, <2>1, <2>2 DEF WriterInv, Types, Batches
<1>16. SizesOK'
  BY <1>1, <1>4, <1>6, <1>11 DEF WriterInv, SizesOK, Sized, Within, IsData
<1>17. /\ Last(l.units) \in Nat /\ Head(Head(batch).units) \in Nat
       /\ Last(x.units) = Last(l.units) + Len(h.units)
       /\ Head(Head(batch').units) = Head(Head(batch).units)
  <2>1. Last(h.units) = Last(l.units) + Len(h.units)
    BY <1>1, NextNumbers DEF h, l
  <2>2. Last(x.units) = Last(h.units) /\ Head(x.units) = Head(l.units)
    BY <1>4, <1>8, <1>9, UnitsJoined DEF Within
  <2>3. Last(l.units) \in Nat /\ Head(Head(batch).units) \in Nat
    BY <1>1, GatheredNumbers DEF l
  <2>4. Head(Head(batch').units) = Head(Head(batch).units)
    <3>1. Head(Head(Append(u, x)).units) = Head(Head(Append(u, l)).units)
      BY <1>3, <1>9, <2>2, HeadReplaced, Zenon
    <3> QED BY <1>3, <1>6, <3>1
  <2> QED BY <2>1, <2>2, <2>3, <2>4
<1>18. BytesOK' /\ PhasesOK' /\ SequencesOK'
  <2>1. BytesOK'
    <3>1. BytesCounted'
      <4> DEFINE e == Last(l.units)
                 s == Head(Head(batch).units)
                 i == Len(h.units)
                 n == HeaderLen * Len(batch)
      <4>1. Last(x.units) = e + i /\ Head(Head(batch').units) = s
        BY <1>17
      <4>2. batch_bytes = n + (e - s + 1)
        BY <1>1 DEF WriterInv, BytesOK, BytesCounted, Gathered, l
      <4>3. e \in Nat /\ s \in Nat /\ i \in Nat /\ n \in Nat
        BY WriterAssumption, <1>2, <1>10, <1>17 DEF Batches
      <4>4. HeaderLen * Len(batch') = n /\ batch_bytes' = batch_bytes + i
        BY <1>6, <1>11
      <4>5. Gathered' = (e + i) - s + 1
        BY <1>12, <4>1 DEF Gathered
      <4> HIDE DEF e, s, i, n
      <4>6. batch_bytes' = n + Gathered'
        BY <4>2, <4>3, <4>4, <4>5
      <4> QED BY <4>4, <4>6 DEF BytesCounted
    <3> QED BY <1>12, <1>14, <3>1 DEF BytesOK
  <2>2. PhasesOK'
    BY <1>1, <1>10, <1>12 DEF WriterInv, PhasesOK, IsData
  <2>3. SequencesOK'
    BY <1>1 DEF WriterInv, SequencesOK, Running
  <2> QED BY <2>1, <2>2, <2>3
<1>19. /\ Carried(posted', InTransit')
       /\ End(InTransit', Len(InTransit')) = Len(posted')
  <2> DEFINE a == access.received
             b == Messages(wire)
             q == Line(a, b, <<>>, Append(u, l), <<>>, <<h>> \o t)
             r == Line(a, b, <<>>, Append(u, x), <<>>, t)
  <2>1. a \in Batches /\ b \in Batches /\ Messages(hand) = <<>>
    BY <1>1, StateSequences, FrameFacts DEF WriterInv, Messages
  <2>2. InTransit = q /\ InTransit' = r
    BY <1>1, <1>3, <1>6, <2>1, LineNow
  <2>3. Carried(posted, q) /\ End(q, Len(q)) = Len(posted)
    BY <1>1, <2>2 DEF WriterInv, OrderOK, Running
  <2>4. MergeOf(x, l, h)
    BY <1>5, <1>9 DEF MergeOf
  <2>5. Carried(posted, q) => Carried(posted, r) /\ End(r, Len(r)) = End(q, Len(q))
    <3> HIDE DEF a, b
    <3> QED BY <1>3, <1>9, <2>1, <2>4, MergedLine
  <2> QED BY <1>1, <2>2, <2>3, <2>5
<1>20. OrderOK'
  BY <1>1, <1>19 DEF OrderOK, Carried, Continues, End
<1> QED BY <1>15, <1>16, <1>18, <1>20 DEF WriterInv

\* The first message of the queue and what is behind it.
LEMMA TakenFacts ==
    ASSUME WriterInv, queue # <<>>
    PROVE  /\ Head(queue) \in Message
           /\ Tail(queue) \in Batches
           /\ <<Head(queue)>> \in Batches
           /\ queue = <<Head(queue)>> \o Tail(queue)
           /\ Within(Head(queue)) /\ Sized(Tail(queue)) /\ Len(Tail(queue)) <= QueueCapacity
<1>1. queue \in Batches /\ Sized(queue) /\ Len(queue) <= QueueCapacity
  BY DEF WriterInv, Types, Batches, SizesOK
<1>2. Len(Tail(queue)) = Len(queue) - 1
  BY <1>1, HeadTailProperties DEF Batches
<1> DEFINE n == Len(queue)
           i == Len(Tail(queue))
<1>3. n \in Nat /\ i = n - 1 /\ n <= QueueCapacity /\ QueueCapacity \in Nat
  BY WriterAssumption, <1>1, <1>2 DEF Batches
<1> HIDE DEF n, i
<1>4. i <= QueueCapacity
  BY <1>3
<1> QED BY <1>1, <1>4, Parts, SizedFacts DEF i

\* Deferring a message preserves the invariant: nothing was deferred before.
LEMMA DeferStep ==
    ASSUME WriterInv, Collect, Defer(Head(queue)),
           phase' = "writing",
           batch' = batch, batch_bytes' = batch_bytes
    PROVE  WriterInv'
<1> DEFINE m == Head(queue)
           t == Tail(queue)
<1>1. /\ phase = "collecting" /\ queue # <<>> /\ Running /\ Running'
      /\ pending = <<>> /\ hand = <<>> /\ pending' = <<m>> /\ queue' = t
      /\ posted' = posted /\ hand' = hand /\ sequence' = sequence /\ cancelled' = cancelled
      /\ wire' = wire /\ access' = access /\ linked' = linked
  BY DEF Collect, Defer, WriterInv, PhasesOK, Running
<1>2. /\ m \in Message /\ t \in Batches /\ <<m>> \in Batches /\ queue = <<m>> \o t
      /\ Within(m) /\ Sized(t) /\ Len(t) <= QueueCapacity
  BY <1>1, TakenFacts
<1> HIDE DEF m, t
<1>3. Types'
  BY <1>1, <1>2 DEF WriterInv, Types, BatchBounded, IsData, Batches
<1>4. SizesOK'
  <2>1. Sized(<<m>>)
    BY <1>2, SizedFacts
  <2> QED BY <1>1, <1>2, <2>1 DEF WriterInv, SizesOK, Sized, Within, IsData
<1>5. BytesOK' /\ PhasesOK' /\ SequencesOK'
  BY <1>1 DEF WriterInv, BytesOK, BytesCounted, Gathered, PhasesOK, SequencesOK, Running
<1>6. InTransit' = InTransit
  <2> DEFINE p == access.received \o Messages(wire) \o Messages(hand) \o batch
  <2>1. p \in Batches
    BY StateSequences, Joins DEF WriterInv
  <2>2. InTransit = (p \o <<>>) \o (<<m>> \o t) /\ InTransit' = (p \o <<m>>) \o t
    BY <1>1, <1>2, LineNow DEF Line
  <2> HIDE DEF p
  <2> QED BY <1>2, <2>1, <2>2, Regroup
<1> QED BY <1>1, <1>3, <1>4, <1>5, <1>6, OrderKept DEF WriterInv

\* Appending to the batch preserves the invariant.
LEMMA AppendStep ==
    ASSUME WriterInv, Collect,
           batch_bytes + Size(Head(queue)) <= MaxBytes,
           batch' = Append(batch, Head(queue)),
           batch_bytes' = batch_bytes + Size(Head(queue)),
           phase' = (IF IsData(Head(queue)) THEN phase ELSE "writing"),
           queue' = Tail(queue), pending' = pending
    PROVE  WriterInv'
<1> DEFINE m == Head(queue)
           t == Tail(queue)
<1>1. /\ phase = "collecting" /\ queue # <<>> /\ Running /\ Running' /\ Len(batch) < MaxMessages
      /\ pending = <<>> /\ hand = <<>> /\ pending' = pending /\ queue' = t
      /\ batch_bytes + Size(m) <= MaxBytes /\ batch_bytes' = batch_bytes + Size(m)
      /\ batch' = Append(batch, m)
      /\ posted' = posted /\ hand' = hand /\ sequence' = sequence /\ cancelled' = cancelled
      /\ wire' = wire /\ access' = access /\ linked' = linked
  BY DEF Collect, WriterInv, PhasesOK, Running
<1>2. /\ m \in Message /\ t \in Batches /\ <<m>> \in Batches /\ queue = <<m>> \o t
      /\ Within(m) /\ Sized(t) /\ Len(t) <= QueueCapacity
  BY <1>1, TakenFacts
<1>3. phase' = IF IsData(m) THEN "collecting" ELSE "writing"
  BY <1>1
<1> HIDE DEF m, t
<1>4. /\ batch \in Batches /\ batch' \in Batches /\ Sized(batch') /\ Len(batch') = Len(batch) + 1
      /\ Last(batch') = m /\ batch' # <<>>
  <2>1. batch \in Batches /\ Sized(batch)
    BY DEF WriterInv, Types, Batches, SizesOK
  <2>2. batch' \in Batches /\ Sized(batch')
    BY <1>1, <1>2, <2>1, SizedFacts, Appends
  <2>3. Len(batch') = Len(batch) + 1 /\ batch'[Len(batch) + 1] = m /\ Len(batch) \in Nat
    BY <1>1, <1>2, <2>1, AppendProperties DEF Batches
  <2> QED BY <2>1, <2>2, <2>3 DEF Last
<1>5. batch_bytes \in Nat /\ Len(m.units) \in Nat /\ Len(m.units) >= 1
  BY <1>2 DEF WriterInv, Types, Message, Within
<1>6. Size(m) \in Nat
  BY WriterAssumption, <1>5 DEF Size
<1>7. /\ batch_bytes' \in Nat /\ batch_bytes' + 1 <= MaxBytes + Len(m.units)
      /\ batch_bytes' < MaxBytes + MaxPayload
  <2> DEFINE n == Len(m.units)
  <2>1. /\ n \in Nat
        /\ n >= 1
        /\ MaxBytes \in Nat
        /\ MaxPayload \in Nat \ {0}
        /\ batch_bytes' <= MaxBytes
    BY WriterAssumption, <1>1, <1>5
  <2>2. batch_bytes' \in Nat
    BY <1>1, <1>5, <1>6
  <2> HIDE DEF n
  <2>3. batch_bytes' + 1 <= MaxBytes + n /\ batch_bytes' < MaxBytes + MaxPayload
    BY <2>1, <2>2
  <2> QED BY <2>2, <2>3 DEF n
<1>8. Types'
  <2>1. Len(batch') <= MaxMessages
    <3>1. Len(batch) \in Nat /\ MaxMessages \in Nat
      BY WriterAssumption, <1>4 DEF Batches
    <3> QED BY <1>1, <1>4, <3>1
  <2>2. \A i \in DOMAIN batch' : IsData(batch'[i]) => Len(batch'[i].units) <= MaxPayload
    BY <1>4 DEF Sized, Within
  <2>3. BatchBounded'
    BY <1>7, <2>1, <2>2 DEF BatchBounded, IsData
  <2> QED BY <1>1, <1>2, <1>3, <1>4, <1>7, <2>3 DEF WriterInv, Types, Batches
<1>9. SizesOK'
  BY <1>1, <1>2, <1>4 DEF WriterInv, SizesOK, Sized, Within, IsData
<1>10. BytesOK' /\ PhasesOK' /\ SequencesOK'
  <2>1. BytesOK'
    <3>1. BytesCounted'
      <4> SUFFICES ASSUME IsData(m) PROVE batch_bytes' = HeaderLen * Len(batch') + Gathered'
        BY <1>3 DEF BytesCounted
      <4> DEFINE e == Last(Last(batch).units)
                 s == Head(Head(batch).units)
                 i == Len(m.units)
      <4>1. Last(m.units) = e + i /\ e \in Nat /\ s \in Nat
        <5>1. Last(Head(queue).units) = Last(Last(batch).units) + Len(Head(queue).units)
          BY <1>1, NextNumbers
        <5>2. e \in Nat /\ s \in Nat
          BY <1>1, GatheredNumbers
        <5> QED BY <5>1, <5>2 DEF m
      <4>2. Head(batch') = Head(batch)
        <5>1. batch # <<>>
          BY <1>1 DEF WriterInv, PhasesOK
        <5> QED BY <1>1, <1>2, <1>4, <5>1, HeadReplaced
      <4>3. batch_bytes = HeaderLen * Len(batch) + (e - s + 1)
        BY <1>1 DEF WriterInv, BytesOK, BytesCounted, Gathered
      <4>4. HeaderLen * (Len(batch) + 1) = HeaderLen * Len(batch) + HeaderLen
            /\ HeaderLen * Len(batch) \in Nat
        BY WriterAssumption, <1>4 DEF Batches
      <4>5. batch_bytes' = batch_bytes + (HeaderLen + i)
        BY <1>1 DEF Size
      <4>6. i \in Nat /\ HeaderLen \in Nat
        BY WriterAssumption, <1>5
      <4>7. Gathered' = (e + i) - s + 1
        BY <1>4, <4>1, <4>2 DEF Gathered
      <4> HIDE DEF e, s, i
      <4> QED BY <1>4, <4>1, <4>3, <4>4, <4>5, <4>6, <4>7
    <3> QED BY <1>4, <1>7, <3>1 DEF BytesOK
  <2>2. PhasesOK'
    BY <1>1, <1>3, <1>4 DEF WriterInv, PhasesOK, IsData
  <2>3. SequencesOK'
    BY <1>1 DEF WriterInv, SequencesOK
  <2> QED BY <2>1, <2>2, <2>3
<1>11. InTransit' = InTransit
  <2> DEFINE c == access.received \o Messages(wire) \o Messages(hand)
             p == c \o batch
             h == <<m>>
  <2>1. c \in Batches /\ p \in Batches /\ h \in Batches
    BY <1>2, StateSequences, Joins DEF WriterInv
  <2>2. /\ InTransit = (p \o <<>>) \o (h \o t)
        /\ InTransit' = ((c \o Append(batch, m)) \o <<>>) \o t
    BY <1>1, <1>2, LineNow DEF Line
  <2>3. c \o Append(batch, m) = p \o h
    <3> HIDE DEF c
    <3>1. c \o Append(batch, m) = Append(c \o batch, m)
      BY <1>2, <1>4, <2>1, Added
    <3>2. Append(p, m) = p \o h
      BY <1>2, <2>1, Appends
    <3> QED BY <3>1, <3>2
  <2> HIDE DEF p, h
  <2>4. (p \o <<>>) \o (h \o t) = (p \o h) \o t /\ ((p \o h) \o <<>>) \o t = (p \o h) \o t
    BY <1>2, <2>1, Regroup
  <2> QED BY <2>2, <2>3, <2>4
<1> QED BY <1>1, <1>8, <1>9, <1>10, <1>11, OrderKept DEF WriterInv

\* So does each outcome of push_ws_message.
LEMMA CollectStep == ASSUME WriterInv, Collect PROVE WriterInv'
<1> DEFINE next == Head(queue)
<1>1. CASE /\ Mergeable(Last(batch), next)
           /\ batch' = Append(Front(batch), Merged(next))
           /\ batch_bytes' = batch_bytes + Counted(next)
           /\ queue' = Tail(queue) /\ UNCHANGED <<pending, phase>>
  BY <1>1, MergeStep
<1>2. CASE Defer(next) /\ phase' = "writing" /\ UNCHANGED <<batch, batch_bytes>>
  BY <1>2, DeferStep
<1>3. CASE /\ batch_bytes + Size(next) <= MaxBytes
           /\ batch' = Append(batch, next) /\ batch_bytes' = batch_bytes + Size(next)
           /\ phase' = (IF IsData(next) THEN phase ELSE "writing")
           /\ queue' = Tail(queue) /\ UNCHANGED pending
  BY <1>3, AppendStep
<1> QED BY <1>1, <1>2, <1>3 DEF Collect, Push

\* So do the steps that move no message.
LEMMA StillStep ==
    ASSUME WriterInv,
           Cancel \/ Collected \/ Flush \/ UNCHANGED vars
    PROVE  WriterInv'
<1>1. /\ posted' = posted /\ queue' = queue /\ pending' = pending /\ batch' = batch /\ hand' = hand
      /\ sequence' = sequence /\ wire' = wire /\ access' = access /\ linked' = linked
      /\ cancelled' \in BOOLEAN
  BY DEF WriterInv, Types, Cancel, Collected, Flush, writer,
     vars
<1>2. \/ phase' = phase /\ batch_bytes' = batch_bytes
      \/ /\ phase = "collecting" /\ phase' = "writing" /\ batch_bytes' = batch_bytes
      \/ /\ phase = "writing" /\ phase' = "waiting" /\ batch_bytes' = 0
         /\ hand = <<>> /\ batch = <<>>
  BY DEF Cancel, Collected, Flush, writer, vars
<1>3. Types'
  <2>1. batch_bytes' \in Nat /\ batch_bytes' < MaxBytes + MaxPayload
    BY WriterAssumption, <1>2 DEF WriterInv, Types, BatchBounded
  <2>2. BatchBounded'
    BY <1>1, <2>1 DEF WriterInv, Types, BatchBounded, IsData
  <2> QED BY <1>1, <1>2, <2>1, <2>2 DEF WriterInv, Types
<1>4. SizesOK'
  BY <1>1 DEF WriterInv, SizesOK, Sized, Within, IsData
<1>5. BytesOK' /\ PhasesOK' /\ SequencesOK'
  BY <1>1, <1>2 DEF WriterInv, BytesOK, BytesCounted, Gathered, PhasesOK,
     SequencesOK, Running, IsData, Types
<1>6. OrderOK'
  <2>1. InTransit' = InTransit /\ Sent' = Sent
    BY <1>1 DEF InTransit, Sent, Messages
  <2>2. CASE Running
    <3>1. Running'
      BY <1>2, <2>2 DEF Running
    <3> QED BY <1>1, <2>1, <2>2, <3>1, OrderKept DEF WriterInv
  <2>3. CASE ~Running
    <3>1. phase' = phase /\ ~Running'
      BY <1>2, <2>3 DEF Running
    <3> QED BY <1>1, <2>1, <2>3, <3>1 DEF WriterInv, OrderOK, Carried, Reported, Continues,
               End
  <2> QED BY <2>2, <2>3
<1> QED BY <1>3, <1>4, <1>5, <1>6 DEF WriterInv

\* Encrypting preserves the invariant.
LEMMA EncryptStep == ASSUME WriterInv, EncryptMessage PROVE WriterInv'
<1> DEFINE m == Head(batch)
           t == Tail(batch)
           frame == [sequence |-> sequence, message |-> m]
<1>1. /\ phase = "writing" /\ phase' = "writing" /\ Running /\ Running' /\ hand = <<>>
      /\ batch # <<>>
      /\ hand' = <<frame>> /\ batch' = t /\ sequence' = sequence + 1
      /\ posted' = posted /\ queue' = queue /\ pending' = pending /\ cancelled' = cancelled
      /\ batch_bytes' = batch_bytes /\ wire' = wire /\ access' = access /\ linked' = linked
  BY DEF EncryptMessage, Running
<1>2. batch \in Batches /\ Sized(batch) /\ sequence \in Nat /\ wire \in Seq(WireFrame)
  BY DEF WriterInv, Types, Batches, SizesOK
<1>3. /\ m \in Message /\ t \in Batches /\ <<m>> \in Batches /\ batch = <<m>> \o t
      /\ Sized(t) /\ Len(t) = Len(batch) - 1
  BY <1>1, <1>2, Parts, SizedFacts, HeadTailProperties DEF Batches
<1> HIDE DEF m, t
<1>4. /\ frame \in WireFrame /\ frame.sequence = sequence /\ frame.message = m
      /\ Messages(hand) = <<>> /\ Messages(hand') = <<m>>
  <2>1. frame \in WireFrame
    BY <1>2, <1>3 DEF WireFrame
  <2>2. Messages(<<frame>>) = <<frame.message>> /\ Messages(<<>>) = <<>>
    BY DEF Messages
  <2> QED BY <1>1, <2>1, <2>2
<1> HIDE DEF frame
<1>5. Types'
  <2>1. hand' \in Seq(WireFrame) /\ Len(hand') = 1
    BY <1>1, <1>4
  <2>2. Len(batch') <= MaxMessages
    <3> DEFINE n == Len(batch)
    <3>1. n \in Nat /\ n <= MaxMessages /\ MaxMessages \in Nat
      BY WriterAssumption, <1>2 DEF Batches, WriterInv, Types, BatchBounded
    <3>2. Len(batch') = n - 1
      BY <1>1, <1>3
    <3> HIDE DEF n
    <3> QED BY <3>1, <3>2
  <2>3. \A i \in DOMAIN batch' : IsData(batch'[i]) => Len(batch'[i].units) <= MaxPayload
    BY <1>1, <1>3 DEF Sized, Within
  <2>4. BatchBounded'
    BY <1>1, <2>2, <2>3 DEF WriterInv, Types, BatchBounded, IsData
  <2> QED BY <1>1, <1>2, <1>3, <2>1, <2>4 DEF WriterInv, Types, Batches
<1>6. SizesOK'
  BY <1>1, <1>3 DEF WriterInv, SizesOK, Sized, Within, IsData
<1>7. BytesOK' /\ PhasesOK'
  BY <1>1 DEF WriterInv, BytesOK, BytesCounted, Gathered, PhasesOK
<1>8. SequencesOK'
  <2>1. /\ access.state = "open" /\ sequence = access.expected + Len(wire) + 0
        /\ \A i \in DOMAIN wire : wire[i].sequence = access.expected + i - 1
    BY <1>1 DEF WriterInv, SequencesOK
  <2>2. hand'[1].sequence = sequence /\ Len(hand') = 1
    BY <1>1, <1>4
  <2>3. access.expected \in Nat /\ Len(wire) \in Nat
    BY <1>2 DEF WriterInv, Types
  <2> QED BY <1>1, <2>1, <2>2, <2>3 DEF SequencesOK
<1>9. InTransit' = InTransit
  <2> DEFINE p == access.received \o Messages(wire)
             h == <<m>>
  <2>1. p \in Batches /\ h \in Batches
    BY <1>3, StateSequences, Joins DEF WriterInv
  <2>2. /\ InTransit = (((p \o <<>>) \o (h \o t)) \o pending) \o queue
        /\ InTransit' = (((p \o h) \o t) \o pending) \o queue
    BY <1>1, <1>3, <1>4, LineNow DEF Line
  <2> HIDE DEF p, h
  <2>3. (p \o <<>>) \o (h \o t) = (p \o h) \o t
    BY <1>3, <2>1, Regroup
  <2> QED BY <2>2, <2>3
<1> QED BY <1>1, <1>5, <1>6, <1>7, <1>8, <1>9, OrderKept DEF WriterInv

\* Handing a frame to the socket preserves the invariant.
LEMMA FeedStep == ASSUME WriterInv, Feed PROVE WriterInv'
<1>1. /\ phase = "writing" /\ phase' = "writing" /\ Running /\ Running' /\ hand # <<>>
      /\ Len(wire) < WireCapacity /\ wire' = wire \o hand /\ hand' = <<>>
      /\ posted' = posted /\ queue' = queue /\ pending' = pending /\ cancelled' = cancelled
      /\ batch' = batch /\ batch_bytes' = batch_bytes /\ sequence' = sequence
      /\ access' = access /\ linked' = linked
  BY DEF Feed, Running
<1>2. /\ wire \in Seq(WireFrame) /\ hand \in Seq(WireFrame) /\ Len(hand) <= 1
      /\ access.expected \in Nat
  BY DEF WriterInv, Types
<1>3. Len(hand) = 1
  <2> DEFINE n == Len(hand)
  <2>1. n \in Nat \ {0} /\ n <= 1
    BY <1>1, <1>2
  <2> HIDE DEF n
  <2>2. n = 1
    BY <2>1
  <2> QED BY <2>2 DEF n
<1> DEFINE n == Len(wire)
<1>4. /\ n \in Nat /\ wire' \in Seq(WireFrame) /\ Len(wire') = n + 1
      /\ \A i \in 1..n : wire'[i] = wire[i]
      /\ wire'[n + 1] = hand[1]
  <2>1. /\ wire' \in Seq(WireFrame) /\ Len(wire') = n + 1
        /\ \A i \in 1..(n + 1) : wire'[i] = IF i <= n THEN wire[i] ELSE hand[i - n]
    <3>1. /\ wire \o hand \in Seq(WireFrame) /\ Len(wire \o hand) = Len(wire) + Len(hand)
          /\ \A i \in 1..(Len(wire) + Len(hand)) :
                (wire \o hand)[i] = IF i <= Len(wire) THEN wire[i] ELSE hand[i - Len(wire)]
      BY <1>2, ConcatProperties
    <3> QED BY <1>1, <1>3, <3>1
  <2>2. n \in Nat
    BY <1>2
  <2> HIDE DEF n
  <2>3. /\ n + 1 \in 1..(n + 1) /\ ~(n + 1 <= n) /\ (n + 1) - n = 1
        /\ \A i \in 1..n : i \in 1..(n + 1) /\ i <= n
    BY <2>2
  <2> QED BY <2>1, <2>2, <2>3
<1>5. DOMAIN wire = 1..n /\ DOMAIN wire' = 1..(n + 1)
  BY <1>2, <1>4
<1>6. Types'
  <2>1. Len(wire') <= WireCapacity
    BY WriterAssumption, <1>1, <1>4
  <2> QED BY <1>1, <1>4, <2>1 DEF WriterInv, Types, BatchBounded, IsData
<1>7. SizesOK' /\ BytesOK' /\ PhasesOK'
  BY <1>1 DEF WriterInv, SizesOK, Sized, Within, IsData, BytesOK, BytesCounted,
     Gathered, PhasesOK
<1>8. SequencesOK'
  <2>1. /\ access.state = "open" /\ sequence = access.expected + n + 1
        /\ \A i \in 1..n : wire[i].sequence = access.expected + i - 1
        /\ hand[1].sequence = access.expected + n
    BY <1>1, <1>3, <1>5 DEF WriterInv, SequencesOK
  <2>2. Len(hand') = 0
    BY <1>1
  <2> HIDE DEF n
  <2>3. \A i \in 1..(n + 1) : wire'[i].sequence = access.expected + i - 1
    <3> TAKE i \in 1..(n + 1)
    <3>1. CASE i \in 1..n
      BY <1>4, <2>1, <3>1
    <3>2. CASE i = n + 1
      BY <1>2, <1>4, <2>1, <3>2
    <3> QED BY <1>4, <3>1, <3>2
  <2>4. sequence = access.expected + Len(wire') + 0
    BY <1>2, <1>4, <2>1
  <2> QED BY <1>1, <1>5, <2>1, <2>2, <2>3, <2>4 DEF SequencesOK
<1>9. InTransit' = InTransit
  <2> DEFINE a == access.received
             b == Messages(wire)
             c == Messages(hand)
  <2>1. a \in Batches /\ b \in Batches /\ c \in Batches
    BY StateSequences DEF WriterInv
  <2>2. Messages(wire') = b \o c /\ Messages(hand') = <<>>
    BY <1>1, <1>2, FrameFacts
  <2>3. InTransit' = ((((a \o (b \o c)) \o <<>>) \o batch) \o pending) \o queue
    BY <1>1, <2>2, LineNow DEF Line
  <2>4. InTransit = ((((a \o b) \o c) \o batch) \o pending) \o queue
    BY LineNow DEF Line
  <2> HIDE DEF a, b, c
  <2>5. (a \o b) \o c = a \o (b \o c)
    BY <2>1, Assoc
  <2>6. (a \o (b \o c)) \o <<>> = a \o (b \o c)
    BY <2>1, Joins
  <2> QED BY <2>3, <2>4, <2>5, <2>6
<1> QED BY <1>1, <1>6, <1>7, <1>8, <1>9, OrderKept DEF WriterInv

\* The writer gives up what it holds to report: what was sent remains a beginning.
LEMMA GiveUpStep ==
    ASSUME WriterInv, Running,
           hand' = <<[sequence |-> sequence, message |-> Error]>>, sequence' = sequence + 1,
           phase' = "reporting", batch' = <<>>, batch_bytes' \in Nat, batch_bytes' <= batch_bytes,
           UNCHANGED <<posted, queue, pending, cancelled, wire, access, linked>>
    PROVE  WriterInv'
<1>1. /\ posted' = posted /\ queue' = queue /\ pending' = pending /\ cancelled' = cancelled
      /\ wire' = wire /\ access' = access /\ linked' = linked
  OBVIOUS
<1>2. /\ hand' \in Seq(WireFrame)
      /\ Len(hand') = 1
      /\ hand'[1].message = Error
      /\ hand' # <<>>
  <2>1. Error \in Message
    BY DEF Error, Message
  <2>2. [sequence |-> sequence, message |-> Error] \in WireFrame
    BY <2>1 DEF WireFrame, WriterInv, Types
  <2> QED BY <2>2
<1>3. Types'
  <2>1. batch' \in Seq(Message) /\ Len(batch') = 0 /\ DOMAIN batch' = {}
    OBVIOUS
  <2>2. batch_bytes' < MaxBytes + MaxPayload
    <3>1. /\ batch_bytes \in Nat /\ batch_bytes < MaxBytes + MaxPayload
          /\ batch_bytes' \in Nat /\ batch_bytes' <= batch_bytes
      BY DEF WriterInv, Types, BatchBounded
    <3>2. MaxBytes + MaxPayload \in Nat
      BY WriterAssumption
    <3> QED BY <3>1, <3>2
  <2>3. BatchBounded'
    BY WriterAssumption, <2>1, <2>2 DEF BatchBounded
  <2>4. sequence' \in Nat
    <3>1. sequence \in Nat /\ sequence' = sequence + 1
      BY DEF WriterInv, Types
    <3> QED BY <3>1
  <2>5. Len(hand') <= 1
    BY <1>2
  <2> QED BY <1>1, <1>2, <2>1, <2>3, <2>4, <2>5 DEF WriterInv, Types
<1>4. SizesOK'
  BY <1>1 DEF WriterInv, SizesOK, Sized, Within, IsData
<1>5. BytesOK' /\ PhasesOK' /\ SequencesOK'
  <2>1. hand' # <<>> /\ hand'[1].message = Error'
    BY <1>2 DEF Error
  <2>2. linked
    BY DEF WriterInv, PhasesOK, Running
  <2> QED BY <1>1, <2>1, <2>2 DEF BytesOK, BytesCounted, Gathered, PhasesOK, SequencesOK, Running
<1>6. Carried(posted, Sent)
  <2>1. Carried(posted, InTransit)
    BY DEF WriterInv, OrderOK
  <2>2. InTransit \in Batches /\ Sent \in Batches /\ Starts(Sent, InTransit)
    BY SentFirst DEF WriterInv
  <2> QED BY <2>1, <2>2, StartsKeep, Zenon
<1>7. OrderOK'
  <2>1. Sent' = Sent
    BY <1>1 DEF Sent, Messages
  <2>2. Carried(posted', Sent')
    BY <1>1, <1>6, <2>1
  <2>3. ~Running' /\ phase' # "ended"
    BY DEF Running
  <2> QED BY <2>2, <2>3 DEF OrderOK, Carried, Continues, End
<1> QED BY <1>3, <1>4, <1>5, <1>7 DEF WriterInv

\* Noticing the cancellation, between batches or within one, preserves the invariant.
LEMMA StopStep ==
    ASSUME WriterInv, Notice \/ Abort
    PROVE  WriterInv'
<1>1. batch_bytes \in Nat
  BY DEF WriterInv, Types
<1>2. CASE Notice
  BY <1>1, <1>2, GiveUpStep DEF Notice, WriterInv, PhasesOK, Running
<1>3. CASE Abort
  BY <1>1, <1>3, GiveUpStep DEF Abort, Running
<1> QED BY <1>2, <1>3

\* Sending the report, or giving up on it, preserves the invariant.
LEMMA ReportStep == ASSUME WriterInv, Report PROVE WriterInv'
<1>1. /\ phase = "reporting" /\ phase' = "ended" /\ ~Running /\ ~Running' /\ hand' = <<>>
      /\ posted' = posted /\ queue' = queue /\ pending' = pending /\ cancelled' = cancelled
      /\ batch' = batch /\ batch_bytes' = batch_bytes /\ sequence' = sequence
      /\ access' = access /\ linked' = linked
      /\ (Len(wire) < WireCapacity /\ wire' = wire \o hand) \/ wire' = wire
  BY DEF Report, Running
<1>2. /\ wire \in Seq(WireFrame) /\ hand \in Seq(WireFrame) /\ Len(hand) <= 1
      /\ Len(wire) \in Nat
      /\ hand # <<>> /\ hand[1].message = Error
  BY <1>1 DEF WriterInv, Types, PhasesOK
<1>3. Len(hand) = 1
  <2> DEFINE n == Len(hand)
  <2>1. n \in Nat \ {0} /\ n <= 1
    BY <1>2
  <2> HIDE DEF n
  <2>2. n = 1
    BY <2>1
  <2> QED BY <2>2 DEF n
<1>4. wire' \in Seq(WireFrame) /\ Len(wire') <= WireCapacity
  <2>1. CASE Len(wire) < WireCapacity /\ wire' = wire \o hand
    <3>1. wire' \in Seq(WireFrame) /\ Len(wire') = Len(wire) + 1
      <4>1. wire \o hand \in Seq(WireFrame) /\ Len(wire \o hand) = Len(wire) + Len(hand)
        BY <1>2, ConcatProperties
      <4> QED BY <1>3, <2>1, <4>1
    <3> QED BY WriterAssumption, <1>2, <2>1, <3>1
  <2>2. CASE wire' = wire
    BY <2>2 DEF WriterInv, Types
  <2> QED BY <1>1, <2>1, <2>2
<1>5. Types'
  BY <1>1, <1>4 DEF WriterInv, Types, BatchBounded, IsData
<1>6. SizesOK' /\ BytesOK' /\ PhasesOK' /\ SequencesOK'
  BY <1>1 DEF WriterInv, SizesOK, Sized, Within, IsData, BytesOK, BytesCounted,
     Gathered, PhasesOK, SequencesOK
<1>7. Reported(posted, Sent')
  <2> DEFINE b == Messages(wire)
             a == access.received
  <2>1. Carried(posted, Sent) /\ Sent \in Batches
    BY <1>1, SentFirst DEF WriterInv, OrderOK
  <2>2. Reported(posted, Sent)
    BY <2>1 DEF Carried, Reported
  <2>3. CASE access.state = "open" /\ wire' = wire \o hand
    <3>1. /\ Messages(wire') = b \o Messages(hand)
          /\ Messages(hand) = <<Error>>
      <4>1. Messages(wire \o hand) = Messages(wire) \o Messages(hand)
        BY <1>2, FrameFacts
      <4>2. hand = <<hand[1]>> /\ hand[1] \in WireFrame
        BY <1>2, <1>3
      <4>3. Messages(hand) = <<hand[1].message>>
        BY <1>2, <4>2, FrameFacts
      <4> QED BY <1>2, <2>3, <4>1, <4>3
    <3>2. Sent' = a \o (b \o <<Error>>) /\ Sent = a \o b
      BY <1>1, <2>3, <3>1 DEF Sent, Messages
    <3>3. a \in Batches /\ b \in Batches /\ Error \in Message
      BY StateSequences DEF WriterInv, Error, Message
    <3> HIDE DEF a, b
    <3>4. b \o <<Error>> = Append(b, Error)
      BY <3>3, Appends
    <3>5. a \o Append(b, Error) = Append(a \o b, Error)
      BY <3>3, Added
    <3>6. Sent' = Append(Sent, Error)
      BY <3>2, <3>4, <3>5
    <3>7. Reported(posted, Append(Sent, Error))
      BY <2>1, <3>3, Appended
    <3> QED BY <3>6, <3>7
  <2>4. CASE access.state # "open" \/ wire' = wire
    <3>1. Sent' = Sent
      BY <1>1, <2>4 DEF Sent, Messages
    <3> QED BY <2>2, <3>1
  <2> QED BY <1>1, <2>3, <2>4
<1>8. OrderOK'
  BY <1>1, <1>7 DEF OrderOK, Reported, Continues, End, Error
<1> QED BY <1>5, <1>6, <1>8 DEF WriterInv

\* Losing the connection preserves the invariant.
LEMMA LoseStep == ASSUME WriterInv, Lose PROVE WriterInv'
<1>1. /\ phase' = "ended" /\ ~Running' /\ wire' = <<>> /\ linked' = FALSE
      /\ posted' = posted /\ queue' = queue /\ pending' = pending /\ cancelled' = cancelled
      /\ batch' = batch /\ batch_bytes' = batch_bytes /\ hand' = hand /\ sequence' = sequence
      /\ access' = access
  BY DEF Lose, Running
<1>2. wire' \in Seq(WireFrame) /\ Len(wire') <= WireCapacity
  BY WriterAssumption, <1>1
<1>3. Types'
  BY <1>1, <1>2 DEF WriterInv, Types, BatchBounded, IsData
<1>4. SizesOK' /\ BytesOK' /\ PhasesOK' /\ SequencesOK'
  BY <1>1 DEF WriterInv, SizesOK, Sized, Within, IsData, BytesOK, BytesCounted,
     Gathered, PhasesOK, SequencesOK
<1>5. access.received \in Batches /\ Sent' = access.received
  <2>1. access.received \in Batches
    BY StateSequences DEF WriterInv
  <2>2. Messages(wire') = <<>>
    BY <1>1 DEF Messages
  <2>3. access.received \o <<>> = access.received
    BY <2>1, Joins
  <2> QED BY <1>1, <2>1, <2>2, <2>3 DEF Sent, Messages
<1>6. Reported(posted, access.received)
  BY ReceivedInOrder DEF WriterInv
<1>7. OrderOK'
  <2>1. Reported(posted', Sent')
    BY <1>1, <1>5, <1>6
  <2> QED BY <1>1, <2>1 DEF OrderOK, Reported, Continues, End, Error
<1> QED BY <1>3, <1>4, <1>7 DEF WriterInv

\* Receiving preserves the invariant: while the writer runs the frame has the sequence
\* that is expected and is no report.
LEMMA ReceiveStep == ASSUME WriterInv, Receive PROVE WriterInv'
<1> DEFINE frame == Head(wire)
           m == frame.message
           a == access.received
           b == Messages(wire)
           t == Messages(Tail(wire))
<1>1. /\ linked /\ access.state = "open" /\ wire # <<>> /\ wire' = Tail(wire)
      /\ posted' = posted /\ queue' = queue /\ pending' = pending /\ cancelled' = cancelled
      /\ batch' = batch /\ batch_bytes' = batch_bytes /\ hand' = hand /\ sequence' = sequence
      /\ phase' = phase /\ linked' = linked
      /\ (Running' <=> Running)
  BY DEF Receive, writer, Running
<1>2. /\ wire \in Seq(WireFrame) /\ access.expected \in Nat /\ a \in Batches /\ b \in Batches
      /\ access \in [expected : Nat, received : Seq(Message), state : {"open", "told", "refused"}]
      /\ Len(wire) <= WireCapacity
  BY StateSequences DEF WriterInv, Types
<1>3. /\ frame \in WireFrame /\ Tail(wire) \in Seq(WireFrame)
      /\ Len(Tail(wire)) = Len(wire) - 1
      /\ \A i \in 1..(Len(wire) - 1) : Tail(wire)[i] = wire[i + 1]
      /\ frame = wire[1] /\ Len(wire) \in Nat \ {0}
  BY <1>1, <1>2, HeadTailProperties
<1>4. /\ m \in Message /\ t \in Batches /\ b # <<>> /\ Head(b) = m /\ Tail(b) = t
  BY <1>1, <1>2, <1>3, FrameFacts
<1>5. <<m>> \in Batches /\ b = <<m>> \o t
  BY <1>2, <1>4, Parts
<1>6. \/ access' = [access EXCEPT !.state = "refused"] /\ frame.sequence # access.expected
      \/ access' = [expected |-> access.expected + 1, received |-> Append(a, m),
                     state |-> IF m = Error THEN "told" ELSE "open"]
  BY DEF Receive
<1>7. Messages(wire') = t
  BY <1>1
<1> HIDE DEF frame, m, a, b, t
<1>8. /\ Append(a, m) \in Batches /\ Append(a, m) \o t = a \o b /\ a \o b \in Batches
      /\ Starts(Append(a, m), a \o b) /\ Starts(a, a \o b) /\ Starts(a \o b, a \o b)
  <2> DEFINE h == <<m>>
             p == Append(a, m)
  <2>1. p = a \o h /\ p \in Batches /\ h \in Batches /\ b = h \o t
    BY <1>2, <1>4, <1>5, Appends
  <2> HIDE DEF h, p
  <2>2. (a \o h) \o t = a \o (h \o t)
    BY <1>2, <1>4, <2>1, Assoc
  <2>3. p \o t = a \o b /\ a \o b \in Batches
    BY <1>2, <2>1, <2>2, Joins
  <2>4. Starts(p, p \o t) /\ Starts(a, a \o b)
    BY <1>2, <1>4, <2>1, StartsFacts
  <2>5. Starts(a \o b, a \o b)
    BY <2>3 DEF Starts, Batches
  <2> QED BY <2>1, <2>3, <2>4, <2>5 DEF p
<1>9. Types'
  <2>1. access' \in [expected : Nat, received : Seq(Message), state : {"open", "told", "refused"}]
    <3> DEFINE r == Append(a, m)
    <3>1. r \in Seq(Message) /\ access.expected + 1 \in Nat
      BY <1>2, <1>8 DEF Batches
    <3> HIDE DEF r
    <3>2. CASE access' = [access EXCEPT !.state = "refused"]
      BY <1>2, <3>2
    <3>3. CASE access' = [expected |-> access.expected + 1, received |-> r,
                          state |-> IF m = Error THEN "told" ELSE "open"]
      BY <3>1, <3>3
    <3> QED BY <1>6, <3>2, <3>3 DEF r
  <2>2. Len(wire') <= WireCapacity
    <3>1. Len(wire') = Len(wire) - 1 /\ WireCapacity \in Nat
      BY WriterAssumption, <1>1, <1>3
    <3> QED BY <1>2, <1>3, <3>1
  <2> QED BY <1>1, <1>3, <2>1, <2>2 DEF WriterInv, Types, BatchBounded, IsData
<1>10. SizesOK' /\ BytesOK' /\ PhasesOK'
  BY <1>1 DEF WriterInv, SizesOK, Sized, Within, IsData, BytesOK, BytesCounted,
     Gathered, PhasesOK, Error
<1>11. ASSUME Running PROVE SequencesOK' /\ OrderOK'
  <2>1. /\ sequence = access.expected + Len(wire) + Len(hand)
        /\ \A i \in DOMAIN wire : wire[i].sequence = access.expected + i - 1
        /\ hand # <<>> => hand[1].sequence = access.expected + Len(wire)
    BY <1>11 DEF WriterInv, SequencesOK
  <2>2. frame.sequence = access.expected
    <3>1. 1 \in DOMAIN wire
      BY <1>2, <1>3
    <3>2. wire[1].sequence = access.expected + 1 - 1
      BY <2>1, <3>1
    <3> QED BY <1>2, <1>3, <3>2
  <2>3. /\ InTransit \in Batches
        /\ Starts(a \o b, InTransit)
        /\ Carried(posted, InTransit)
    <3>1. Sent = a \o b
      BY <1>1 DEF Sent, a, b
    <3> QED BY <1>11, <3>1, SentFirst DEF WriterInv, OrderOK
  <2>4. m # Error
    <3> DEFINE p == Append(a, m)
    <3>1. p \in Batches /\ Starts(p, InTransit)
      BY <1>8, <2>3, StartsFacts
    <3>2. Len(p) = Len(a) + 1 /\ p[Len(a) + 1] = m /\ Len(a) \in Nat
      BY <1>2, <1>4, AppendProperties DEF Batches
    <3> HIDE DEF p
    <3>3. Carried(posted, p)
      BY <2>3, <3>1, StartsKeep, Zenon
    <3>4. Len(a) + 1 \in DOMAIN p
      BY <3>1, <3>2 DEF Batches
    <3>5. m.units # <<>>
      BY <3>2, <3>3, <3>4 DEF Carried, Continues
    <3> QED BY <3>5 DEF Error
  <2>5. access' = [expected |-> access.expected + 1, received |-> Append(a, m), state |-> "open"]
    BY <1>6, <2>2, <2>4
  <2>6. InTransit' = InTransit
    <3>1. InTransit = ((((a \o b) \o Messages(hand)) \o batch) \o pending) \o queue
      BY LineNow DEF Line, a, b
    <3>2. InTransit'
             = ((((Append(a, m) \o t) \o Messages(hand)) \o batch) \o pending) \o queue
      BY <1>1, <1>7, <2>5, LineNow DEF Line
    <3> QED BY <1>8, <3>1, <3>2
  <2>7. OrderOK'
    BY <1>1, <1>11, <2>6, OrderKept DEF WriterInv
  <2>8. SequencesOK'
    <3>1. /\ access'.state = "open" /\ access'.expected = access.expected + 1
          /\ Len(wire') = Len(wire) - 1 /\ DOMAIN wire' = 1..(Len(wire) - 1)
          /\ Len(hand) \in Nat
      BY <1>1, <1>3, <2>5 DEF WriterInv, Types
    <3>2. \A i \in 1..(Len(wire) - 1) : wire'[i].sequence = (access.expected + 1) + i - 1
      <4> TAKE i \in 1..(Len(wire) - 1)
      <4>1. i + 1 \in DOMAIN wire /\ i \in Nat
        BY <1>2, <1>3
      <4>2. wire[i + 1].sequence = access.expected + (i + 1) - 1
        BY <2>1, <4>1
      <4> QED BY <1>1, <1>2, <1>3, <4>1, <4>2
    <3>3. sequence = (access.expected + 1) + (Len(wire) - 1) + Len(hand)
      BY <1>2, <1>3, <2>1, <3>1
    <3>4. hand # <<>> => hand[1].sequence = (access.expected + 1) + (Len(wire) - 1)
      BY <1>2, <1>3, <2>1
    <3> QED BY <1>1, <3>1, <3>2, <3>3, <3>4 DEF SequencesOK
  <2> QED BY <2>7, <2>8
<1>12. ASSUME ~Running PROVE SequencesOK' /\ OrderOK'
  <2>1. Sent = a \o b
    BY <1>1 DEF Sent, a, b
  <2>2. Sent' \in Batches /\ Starts(Sent', Sent)
    <3>1. Sent' = a \/ Sent' = Append(a, m) \o t \/ Sent' = Append(a, m)
      <4>1. Sent' = IF access'.state = "open" THEN access'.received \o t ELSE access'.received
        BY <1>7 DEF Sent, Messages
      <4>2. CASE access' = [access EXCEPT !.state = "refused"]
        <5>1. access'.state = "refused" /\ access'.received = a
          BY <1>2, <4>2 DEF a
        <5> QED BY <4>1, <5>1
      <4>3. CASE access' = [expected |-> access.expected + 1, received |-> Append(a, m),
                            state |-> IF m = Error THEN "told" ELSE "open"]
        <5>1. access'.received = Append(a, m)
          BY <4>3
        <5> QED BY <4>1, <5>1
      <4> QED BY <1>6, <4>2, <4>3
    <3> QED BY <1>2, <1>8, <2>1, <3>1
  <2>3. /\ Carried(posted, Sent) => Carried(posted, Sent')
        /\ Reported(posted, Sent) => Reported(posted, Sent')
    BY <1>8, <2>1, <2>2, StartsKeep
  <2>4. OrderOK'
    <3>1. phase' = "reporting" => Carried(posted', Sent')
      BY <1>1, <2>3 DEF WriterInv, OrderOK
    <3>2. phase' = "ended" => Reported(posted', Sent')
      BY <1>1, <2>3 DEF WriterInv, OrderOK
    <3> QED BY <1>1, <1>12, <3>1, <3>2 DEF OrderOK, Carried, Reported, Continues, End,
               Error
  <2> QED BY <1>1, <1>12, <2>4 DEF SequencesOK
<1> QED BY <1>9, <1>10, <1>11, <1>12 DEF WriterInv

\* The invariant holds in every behaviour.
LEMMA WriterInvariance == Spec => []WriterInv
<1>1. Init => WriterInv
  BY WriterInit
<1>2. ASSUME WriterInv, [Next]_vars PROVE WriterInv'
  <2>1. ASSUME NEW kind \in Streams, NEW n \in 1..MaxPayload, Post(kind, n) PROVE WriterInv'
    <3>1. kind \in Streams \cup {Control} /\ n \in Nat \ {0} /\ n <= MaxPayload
      BY WriterAssumption
    <3> QED BY <1>2, <2>1, <3>1, PostStep
  <2>2. CASE Post(Control, 1)
    <3>1. Control \in Streams \cup {Control} /\ 1 \in Nat \ {0}
      OBVIOUS
    <3> QED BY <1>2, <2>2, <3>1, PostStep
  <2>3. CASE Cancel
    BY <1>2, <2>3, StillStep
  <2>4. CASE WriterStep
    <3>1. CASE TakeFirst
      BY <1>2, <3>1, TakeFirstStep
    <3>2. CASE Collect
      BY <1>2, <3>2, CollectStep
    <3>3. CASE Collected \/ Flush
      BY <1>2, <3>3, StillStep
    <3>4. CASE EncryptMessage
      BY <1>2, <3>4, EncryptStep
    <3>5. CASE Feed
      BY <1>2, <3>5, FeedStep
    <3>6. CASE Notice \/ Abort
      BY <1>2, <3>6, StopStep
    <3>7. CASE Report
      BY <1>2, <3>7, ReportStep
    <3> QED BY <2>4, <3>1, <3>2, <3>3, <3>4, <3>5, <3>6, <3>7 DEF WriterStep
  <2>5. CASE Receive
    BY <1>2, <2>5, ReceiveStep
  <2>6. CASE Lose
    BY <1>2, <2>6, LoseStep
  <2>7. CASE UNCHANGED vars
    BY <1>2, <2>7, StillStep
  <2> QED BY <1>2, <2>1, <2>2, <2>3, <2>4, <2>5, <2>6, <2>7 DEF Next
<1> QED BY <1>1, <1>2, PTL DEF Spec

\* Every reachable state is well-typed and within the writer's limits: a batch holds at most
\* MaxMessages messages and, merging included, less than MaxBytes + MaxPayload bytes; one
\* message at most is deferred (WS_WRITE_BATCH_MAX_BYTES, push_ws_message).
THEOREM WriterTypeCorrect == Spec => []TypeOK
<1>1. WriterInv => TypeOK
  BY DEF WriterInv, BytesOK, BytesCounted, Gathered, TypeOK
<1> QED BY <1>1, WriterInvariance, PTL

\* For any limits, capacities and number of messages: until its writer stops a session
\* neither loses, repeats nor reorders what was posted, and whatever stops the writer the
\* access received a beginning of it, followed by the report at most (spawn_ws_writer).
THEOREM InPostedOrderHolds == Spec => []InPostedOrder
<1>1. WriterInv => InPostedOrder
  BY OrderHolds DEF WriterInv
<1> QED BY <1>1, WriterInvariance, PTL
================================================================================
