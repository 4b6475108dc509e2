---------------------------- MODULE FrameChannel ----------------------------
(***************************************************************************)
(* What the panel protocol promises to the code above it: a frame handed   *)
(* to wing_send_frame at one end is handed, once and in order, to the      *)
(* frame callback at the other end.                                        *)
(***************************************************************************)
EXTENDS Naturals, Sequences

CONSTANT Frames           \* the frames a sender may send

VARIABLES sent,           \* frames accepted by the sender, in order
          delivered       \* frames handed to the callback, in order

vars == <<sent, delivered>>

Init == sent = <<>> /\ delivered = <<>>

Send == /\ \E f \in Frames : sent' = Append(sent, f)
        /\ UNCHANGED delivered

Deliver == /\ Len(delivered) < Len(sent)
           /\ delivered' = Append(delivered, sent[Len(delivered) + 1])
           /\ UNCHANGED sent

Next == Send \/ Deliver

Spec == Init /\ [][Next]_vars
=============================================================================
