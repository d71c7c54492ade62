----------------------------- MODULE OrderedChannel -----------------------------
(***************************************************************************)
(* What one direction of the encrypted tunnel promises: the frames that    *)
(* are handed to the receiver are the frames that were sent, in the order  *)
(* they were sent, each at most once and without a gap.                    *)
(***************************************************************************)
EXTENDS Naturals, Sequences

CONSTANTS Frames,   \* what is sent
          Capacity  \* how many frames a channel may ever carry

VARIABLES sent, received

chan == <<sent, received>>

Init == sent = <<>> /\ received = <<>>

Send(f) == /\ Len(sent) < Capacity
           /\ sent' = Append(sent, f)
           /\ UNCHANGED received

Receive == /\ Len(received) < Len(sent)
           /\ received' = Append(received, sent[Len(received) + 1])
           /\ UNCHANGED sent

Next == Receive \/ \E f \in Frames : Send(f)

Spec == Init /\ [][Next]_chan
================================================================================
