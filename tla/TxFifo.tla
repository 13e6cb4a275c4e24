------------------------------- MODULE TxFifo -------------------------------
(***************************************************************************)
(* What the transmit path of the network driver promises to a sender: a    *)
(* frame it accepts goes out once, unchanged, after the frames accepted    *)
(* before it; a frame it refuses never goes out.                           *)
(***************************************************************************)
EXTENDS Naturals, Sequences

CONSTANTS Frames, Capacity, Nothing

VARIABLES
  offered,  \* the frame in the hands of the driver, or Nothing
  queue,    \* the frames accepted and not sent, oldest first
  wire      \* the last frame sent

Init == offered = Nothing /\ queue = <<>> /\ wire = Nothing

Offer(f) ==
  /\ offered = Nothing
  /\ offered' = f
  /\ UNCHANGED <<queue, wire>>

Accept ==
  /\ offered # Nothing
  /\ Len(queue) < Capacity
  /\ queue' = Append(queue, offered)
  /\ offered' = Nothing
  /\ UNCHANGED wire

Refuse ==
  /\ offered # Nothing
  /\ offered' = Nothing
  /\ UNCHANGED <<queue, wire>>

Transmit ==
  /\ queue # <<>>
  /\ wire' = Head(queue)
  /\ queue' = Tail(queue)
  /\ UNCHANGED offered

Next == (\E f \in Frames : Offer(f)) \/ Accept \/ Refuse \/ Transmit

Spec == Init /\ [][Next]_<<offered, queue, wire>>

=============================================================================
