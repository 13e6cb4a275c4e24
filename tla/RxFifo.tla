------------------------------- MODULE RxFifo -------------------------------
(***************************************************************************)
(* What the receive path of the network driver promises to its task: the   *)
(* frames that the device has put into buffers are handed over in the      *)
(* order of their arrival, each of them once, and none changes while it    *)
(* waits or is being read.                                                 *)
(***************************************************************************)
EXTENDS Naturals, Sequences

CONSTANTS Frames, Capacity, Nothing

VARIABLES
  queue,   \* the frames that have arrived and are not released, oldest first
  reading  \* the frame the task has in front of it, or Nothing

Init == queue = <<>> /\ reading = Nothing

Arrive(f) ==
  /\ Len(queue) < Capacity
  /\ queue' = Append(queue, f)
  /\ UNCHANGED reading

Read ==
  /\ reading = Nothing
  /\ queue # <<>>
  /\ reading' = Head(queue)
  /\ UNCHANGED queue

Release ==
  /\ reading # Nothing
  /\ queue' = Tail(queue)
  /\ reading' = Nothing

Next == (\E f \in Frames : Arrive(f)) \/ Read \/ Release

Spec == Init /\ [][Next]_<<queue, reading>>

=============================================================================
