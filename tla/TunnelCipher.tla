------------------------------ MODULE TunnelCipher ------------------------------
(***************************************************************************)
(* The session cipher of a tunnel (ws-net-common/src/tunnel_crypto.rs):    *)
(* one DirectionCipher per direction, each with a send and a receive       *)
(* sequence.  The network is not trusted: a frame given to decrypt is any  *)
(* frame, so that loss, duplication, reordering, corruption and a frame    *)
(* sent back to its sender all occur.  Authenticated encryption is modelled *)
(* by what the code relies on: open_in_place accepts exactly the frames    *)
(* sealed with the key, the nonce (sequence) and the direction at hand.    *)
(***************************************************************************)
EXTENDS Naturals, Sequences

CONSTANTS Plains,       \* plaintexts: the kind byte and the payload
          Receivers,    \* threads that call decrypt
          MaxSequence   \* u64::MAX

ASSUME SequenceAssumption == MaxSequence \in Nat

Directions == {"access_to_gateway", "gateway_to_access"}

VARIABLES next_send_sequence,     \* of each direction's cipher at its sender
          next_receive_sequence,  \* of each direction's cipher at its receiver
          sealed,                 \* frames encrypt returned, in order
          opened,                 \* frames decrypt accepted, in order
          decrypting              \* calls of decrypt between load and compare_exchange

cipher_vars == <<next_send_sequence, next_receive_sequence, sealed, opened, decrypting>>

Frame == [direction : Directions, sequence : 0 .. MaxSequence, plain : Plains]
Idle == [expected |-> 0, frames |-> {}]

CipherInit ==
    /\ next_send_sequence = [d \in Directions |-> 0]
    /\ next_receive_sequence = [d \in Directions |-> 0]
    /\ sealed = [d \in Directions |-> <<>>]
    /\ opened = [d \in Directions |-> <<>>]
    /\ decrypting = [r \in Receivers |-> Idle]

\* value.checked_add(1) of a sequence.  Mutant: wrapping_add.
WrappingSuccessor(n) == {(n + 1) % (MaxSequence + 1)}
CheckedSuccessor(n) == IF n < MaxSequence THEN {n + 1} ELSE {}

\* DirectionCipher::encrypt takes a sequence in one atomic update and seals;
\* an exhausted sequence is an error that leaves it alone.
Encrypt(d, plain) ==
    \E next \in CheckedSuccessor(next_send_sequence[d]) :
        /\ next_send_sequence' = [next_send_sequence EXCEPT ![d] = next]
        /\ sealed' = [sealed EXCEPT ![d] = Append(@,
              [direction |-> d, sequence |-> next_send_sequence[d], plain |-> plain])]
        /\ UNCHANGED <<next_receive_sequence, opened, decrypting>>

\* open_in_place accepts the frame with the key of direction d.
Authentic(d, frame) == \E i \in 1 .. Len(sealed[d]) : sealed[d][i] = frame

\* DirectionCipher::decrypt up to a successful open_in_place: the sequence of
\* the frame is the expected one and the frame is authentic.  A frame that
\* fails a check is an error that changes nothing.
BeginDecrypt(r, d, frame) ==
    /\ decrypting[r] = Idle
    /\ frame.sequence = next_receive_sequence[d]
    /\ Authentic(d, frame)
    /\ decrypting' = [decrypting EXCEPT ![r] =
                        [expected |-> next_receive_sequence[d], frames |-> {frame}]]
    /\ UNCHANGED <<next_send_sequence, next_receive_sequence, sealed, opened>>

\* The rest of decrypt: compare_exchange(expected, expected + 1), which fails
\* when another call was faster, and the plaintext is returned.
\* Mutant: a store instead of the compare_exchange.
StoreDecrypt(r) ==
    \E frame \in decrypting[r].frames, next \in CheckedSuccessor(decrypting[r].expected) :
        LET d == frame.direction
        IN  /\ next_receive_sequence' = [next_receive_sequence EXCEPT ![d] = next]
            /\ opened' = [opened EXCEPT ![d] = Append(@, frame)]
            /\ decrypting' = [decrypting EXCEPT ![r] = Idle]
            /\ UNCHANGED <<next_send_sequence, sealed>>
FinishDecrypt(r) ==
    \E frame \in decrypting[r].frames, next \in CheckedSuccessor(decrypting[r].expected) :
        LET d == frame.direction
        IN  /\ next_receive_sequence[d] = decrypting[r].expected
            /\ next_receive_sequence' = [next_receive_sequence EXCEPT ![d] = next]
            /\ opened' = [opened EXCEPT ![d] = Append(@, frame)]
            /\ decrypting' = [decrypting EXCEPT ![r] = Idle]
            /\ UNCHANGED <<next_send_sequence, sealed>>

\* "concurrent tunnel frame receive detected": the call fails.
FailDecrypt(r) ==
    \E frame \in decrypting[r].frames :
        /\ next_receive_sequence[frame.direction] # decrypting[r].expected
        /\ decrypting' = [decrypting EXCEPT ![r] = Idle]
        /\ UNCHANGED <<next_send_sequence, next_receive_sequence, sealed, opened>>

CipherNext ==
    \/ \E d \in Directions, plain \in Plains : Encrypt(d, plain)
    \/ \E r \in Receivers, d \in Directions, frame \in Frame : BeginDecrypt(r, d, frame)
    \/ \E r \in Receivers : FinishDecrypt(r)
    \/ \E r \in Receivers : FailDecrypt(r)

CipherSpec == CipherInit /\ [][CipherNext]_cipher_vars

-------------------------------------------------------------------------------
\* Type invariant.
CipherTypeOK ==
    /\ next_send_sequence \in [Directions -> 0 .. MaxSequence]
    /\ next_receive_sequence \in [Directions -> 0 .. MaxSequence]
    /\ sealed \in [Directions -> Seq(Frame)]
    /\ opened \in [Directions -> Seq(Frame)]
    /\ decrypting \in [Receivers -> [expected : 0 .. MaxSequence, frames : SUBSET Frame]]

\* No nonce is used twice with a key: two calls of encrypt never take the same
\* sequence, not even when the 64-bit counter is exhausted.
NonceUnique ==
    \A d \in Directions : \A i, j \in 1 .. Len(sealed[d]) :
        i # j => sealed[d][i].sequence # sealed[d][j].sequence

\* Each direction of the cipher implements an ordered channel: whatever the
\* network does with the frames, and however calls of decrypt overlap, what
\* decrypt returns is a prefix of what was sealed.
AccessToGateway == INSTANCE OrderedChannel
    WITH sent <- sealed["access_to_gateway"], received <- opened["access_to_gateway"],
         Frames <- Frame, Capacity <- MaxSequence
GatewayToAccess == INSTANCE OrderedChannel
    WITH sent <- sealed["gateway_to_access"], received <- opened["gateway_to_access"],
         Frames <- Frame, Capacity <- MaxSequence

DirectionsOrdered == AccessToGateway!Spec /\ GatewayToAccess!Spec
================================================================================
