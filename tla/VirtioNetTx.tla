----------------------------- MODULE VirtioNetTx ----------------------------
(***************************************************************************)
(* The transmit path of one virtio-net device: tasks that send frames and  *)
(* flush, the device, and the interrupt handler.                           *)
(*                                                                         *)
(* The tasks share one processor and have fixed priorities: a task steps   *)
(* only while those above it sleep, and may be preempted between any two   *)
(* steps.  virtio_net_send_frame_dev has no critical section, so a step is *)
(* one access to what the tasks share.                                     *)
(***************************************************************************)
EXTENDS Integers, Sequences

CONSTANTS
  tx_queue_size,  \* descriptors of the queue (256 in the code)
  IdxMod,         \* where the ring indices wrap around (2^16)
  BATCH_SIZE,     \* VIRTIO_NET_TX_BATCH_SIZE (16)
  LowSlots,       \* with fewer free slots a sender polls (4)
  MinSlots,       \* with fewer still it refuses the frame (2)
  Senders,        \* the priorities of the sending tasks; 0 is the highest
  Flushers,       \* those that flush before they sleep, as net_rx_task does
  Frames,
  Nothing

Descs == 0..(tx_queue_size - 1)
Indices == 0..(IdxMod - 1)

ASSUME TxAssumption ==
  /\ tx_queue_size \in Nat \ {0}
  /\ IdxMod \in Nat /\ IdxMod > tx_queue_size /\ IdxMod % tx_queue_size = 0
  /\ BATCH_SIZE \in Nat \ {0} /\ BATCH_SIZE < IdxMod
  /\ MinSlots \in Nat \ {0} /\ LowSlots \in Nat /\ MinSlots <= LowSlots
  /\ Senders \subseteq Nat /\ Flushers \subseteq Senders
  /\ Nothing \notin Frames

VARIABLES
  avail_idx, avail_ring,  \* descriptors given to the device
  tx_buffers,             \* the frame in each buffer
  tx_last_used,           \* used->idx as the driver last read it
  tx_batch_count,
  used_idx,               \* how far the device has completed
  dev_avail,              \* how far it has read
  notified,               \* it was told to look and has not yet seen the end
  wire,                   \* the last frame it sent
  pc,                     \* where each sender is
  frame,                  \* the frame each sender is sending
  idx,                    \* the descriptor each sender chose
  loaded                  \* the counter each sender is incrementing

driver == <<avail_idx, avail_ring, tx_buffers, tx_last_used, tx_batch_count>>
device == <<used_idx, dev_avail, notified, wire>>
locals == <<pc, frame, idx, loaded>>
vars == <<driver, device, locals>>

Inc(i) == (i + 1) % IdxMod
Slot(i) == i % tx_queue_size

\* virtio_net_prepare_tx, before any task sends.
Init ==
  /\ avail_idx = 0
  /\ avail_ring = [i \in Descs |-> 0]
  /\ tx_buffers = [d \in Descs |-> Nothing]
  /\ tx_last_used = 0
  /\ tx_batch_count = 0
  /\ used_idx = 0
  /\ dev_avail = 0
  /\ notified = FALSE
  /\ wire = Nothing
  /\ pc = [s \in Senders |-> "asleep"]
  /\ frame = [s \in Senders |-> Nothing]
  /\ idx = [s \in Senders |-> 0]
  /\ loaded = [s \in Senders |-> 0]

-----------------------------------------------------------------------------
(***************************************************************************)
(* The device, as the driver uses it.                                      *)
(***************************************************************************)
DevTransmit ==
  /\ notified
  /\ dev_avail # avail_idx
  /\ wire' = tx_buffers[avail_ring[Slot(dev_avail)]]
  /\ dev_avail' = Inc(dev_avail)
  /\ UNCHANGED <<driver, used_idx, notified, locals>>

DevComplete ==
  /\ used_idx # dev_avail
  /\ used_idx' = Inc(used_idx)
  /\ UNCHANGED <<driver, dev_avail, notified, wire, locals>>

\* The device has found nothing more and waits for the next notification.
DevIdle ==
  /\ notified
  /\ dev_avail = avail_idx
  /\ notified' = FALSE
  /\ UNCHANGED <<driver, used_idx, dev_avail, wire, locals>>

\* virtio_net_interrupt_handler looks for completions too.
IrqTxUsed ==
  /\ tx_last_used # used_idx
  /\ tx_last_used' = used_idx
  /\ UNCHANGED <<avail_idx, avail_ring, tx_buffers, tx_batch_count, device, locals>>

-----------------------------------------------------------------------------
(***************************************************************************)
(* The senders.                                                            *)
(***************************************************************************)
Runs(s) == \A h \in Senders : h < s => pc[h] = "asleep"
At(s, label) == pc[s] = label /\ Runs(s)
Goto(s, label) == pc' = [pc EXCEPT ![s] = label]

\* A task wakes up to do a burst of work.
Wake(s) ==
  /\ At(s, "asleep")
  /\ Goto(s, "burst")
  /\ UNCHANGED <<driver, device, frame, idx, loaded>>

\* virtio_net_send_frame_dev is called.
StartSend(s, f) ==
  /\ At(s, "burst")
  /\ frame' = [frame EXCEPT ![s] = f]
  /\ tx_last_used' = used_idx
  /\ Goto(s, "check")
  /\ UNCHANGED <<avail_idx, avail_ring, tx_buffers, tx_batch_count, device, idx, loaded>>

\* Slots that are free if the device is at used; 16-bit arithmetic.
AvailableSlots(used) == (tx_queue_size - ((avail_idx - used) % IdxMod)) % IdxMod

CheckSlots(s) ==
  /\ At(s, "check")
  /\ Goto(s, IF AvailableSlots(tx_last_used) >= LowSlots THEN "slot" ELSE "poll")
  /\ UNCHANGED <<driver, device, frame, idx, loaded>>

Poll(s) ==
  /\ At(s, "poll")
  /\ tx_last_used' = used_idx
  /\ Goto(s, IF AvailableSlots(used_idx) >= LowSlots THEN "slot" ELSE "poll")
  /\ UNCHANGED <<avail_idx, avail_ring, tx_buffers, tx_batch_count, device,
                 frame, idx, loaded>>

\* Fault: a frame is never refused.
PollEndsAccepting(s) ==
  /\ At(s, "poll")
  /\ tx_last_used' = used_idx
  /\ Goto(s, "slot")
  /\ UNCHANGED <<avail_idx, avail_ring, tx_buffers, tx_batch_count, device,
                 frame, idx, loaded>>

\* The last of 100 retries: the frame is refused, or it takes a last slot.
PollEnds(s) ==
  /\ At(s, "poll")
  /\ tx_last_used' = used_idx
  /\ Goto(s, IF AvailableSlots(used_idx) < MinSlots THEN "burst" ELSE "slot")
  /\ UNCHANGED <<avail_idx, avail_ring, tx_buffers, tx_batch_count, device,
                 frame, idx, loaded>>

\* Fault: the slot after the one that avail->idx is about to publish.
ComputeSlotAhead(s) ==
  /\ At(s, "slot")
  /\ idx' = [idx EXCEPT ![s] = Slot(avail_idx + 1)]
  /\ Goto(s, "fill")
  /\ UNCHANGED <<driver, device, frame, loaded>>

ComputeSlot(s) ==
  /\ At(s, "slot")
  /\ idx' = [idx EXCEPT ![s] = Slot(avail_idx)]
  /\ Goto(s, "fill")
  /\ UNCHANGED <<driver, device, frame, loaded>>

FillBuffer(s) ==
  /\ At(s, "fill")
  /\ tx_buffers' = [tx_buffers EXCEPT ![idx[s]] = frame[s]]
  /\ Goto(s, "ring")
  /\ UNCHANGED <<avail_idx, avail_ring, tx_last_used, tx_batch_count, device,
                 frame, idx, loaded>>

\* avail->ring[idx] = idx, and avail->idx is loaded to be incremented.
WriteRing(s) ==
  /\ At(s, "ring")
  /\ avail_ring' = [avail_ring EXCEPT ![idx[s]] = idx[s]]
  /\ loaded' = [loaded EXCEPT ![s] = avail_idx]
  /\ Goto(s, "publish")
  /\ UNCHANGED <<avail_idx, tx_buffers, tx_last_used, tx_batch_count, device,
                 frame, idx>>

Publish(s) ==
  /\ At(s, "publish")
  /\ avail_idx' = Inc(loaded[s])
  /\ Goto(s, "count")
  /\ UNCHANGED <<avail_ring, tx_buffers, tx_last_used, tx_batch_count, device,
                 frame, idx, loaded>>

LoadCount(s) ==
  /\ At(s, "count")
  /\ loaded' = [loaded EXCEPT ![s] = tx_batch_count]
  /\ Goto(s, "counted")
  /\ UNCHANGED <<driver, device, frame, idx>>

\* Fault: the host is notified one frame late.
StoreCountLate(s) ==
  /\ At(s, "counted")
  /\ tx_batch_count' = loaded[s] + 1
  /\ Goto(s, IF loaded[s] >= BATCH_SIZE THEN "notify" ELSE "burst")
  /\ UNCHANGED <<avail_idx, avail_ring, tx_buffers, tx_last_used, device, frame,
                 idx, loaded>>

StoreCount(s) ==
  /\ At(s, "counted")
  /\ tx_batch_count' = loaded[s] + 1
  /\ Goto(s, IF loaded[s] + 1 >= BATCH_SIZE THEN "notify" ELSE "burst")
  /\ UNCHANGED <<avail_idx, avail_ring, tx_buffers, tx_last_used, device, frame,
                 idx, loaded>>

\* Fault: the batch is closed and QUEUE_NOTIFY is not written.
NotifyForgotten(s) ==
  /\ \/ At(s, "notify") /\ Goto(s, "reset")
     \/ At(s, "flush") /\ Goto(s, "flushed")
  /\ UNCHANGED <<driver, device, frame, idx, loaded>>

\* QUEUE_NOTIFY is written, in send and in flush.
Notify(s) ==
  /\ notified' = TRUE
  /\ \/ At(s, "notify") /\ Goto(s, "reset")
     \/ At(s, "flush") /\ Goto(s, "flushed")
  /\ UNCHANGED <<driver, used_idx, dev_avail, wire, frame, idx, loaded>>

ResetCount(s) ==
  /\ tx_batch_count' = 0
  /\ \/ At(s, "reset") /\ Goto(s, "burst")
     \/ At(s, "flushed") /\ Goto(s, "asleep")
  /\ UNCHANGED <<avail_idx, avail_ring, tx_buffers, tx_last_used, device, frame,
                 idx, loaded>>

\* Fault: no flush.
EndBurstUnflushed(s) ==
  /\ At(s, "burst")
  /\ Goto(s, "asleep")
  /\ UNCHANGED <<driver, device, frame, idx, loaded>>

\* The burst is over: virtio_net_tx_flush_dev if the task calls it, then sleep.
EndBurst(s) ==
  /\ At(s, "burst")
  /\ Goto(s, IF s \in Flushers /\ tx_batch_count > 0 THEN "flush" ELSE "asleep")
  /\ UNCHANGED <<driver, device, frame, idx, loaded>>

-----------------------------------------------------------------------------
Device == DevTransmit \/ DevComplete \/ DevIdle

SendStep(s) ==
  \/ CheckSlots(s) \/ PollEnds(s) \/ ComputeSlot(s) \/ FillBuffer(s)
  \/ WriteRing(s) \/ Publish(s) \/ LoadCount(s) \/ StoreCount(s)
  \/ Notify(s) \/ ResetCount(s)

Sender(s) ==
  \/ Wake(s)
  \/ \E f \in Frames : StartSend(s, f)
  \/ Poll(s)
  \/ SendStep(s)
  \/ EndBurst(s)

Next == Device \/ IrqTxUsed \/ (\E s \in Senders : Sender(s))

Spec == Init /\ [][Next]_vars

(***************************************************************************)
(* The device works once it is notified, a task that can run goes on, polls*)
(* a bounded number of times and ends its bursts; the tasks of higher      *)
(* priority leave some time to the others.                                 *)
(***************************************************************************)
FairSpec ==
  /\ Spec
  /\ WF_vars(DevTransmit)
  /\ WF_vars(DevComplete)
  /\ \A s \in Senders : SF_vars(SendStep(s)) /\ SF_vars(EndBurst(s))

-----------------------------------------------------------------------------
(***************************************************************************)
(* Properties.                                                             *)
(***************************************************************************)
Labels == {"asleep", "burst", "check", "poll", "slot", "fill", "ring", "publish",
           "count", "counted", "notify", "reset", "flush", "flushed"}

\* Every variable has its type, and a batch is closed at BATCH_SIZE frames.
TypeOK ==
  /\ avail_idx \in Indices /\ used_idx \in Indices /\ dev_avail \in Indices
  /\ tx_last_used \in Indices
  /\ avail_ring \in [Descs -> Descs]
  /\ tx_buffers \in [Descs -> Frames \cup {Nothing}]
  /\ tx_batch_count \in 0..BATCH_SIZE
  /\ notified \in BOOLEAN
  /\ wire \in Frames \cup {Nothing}
  /\ pc \in [Senders -> Labels]
  /\ frame \in [Senders -> Frames \cup {Nothing}]
  /\ idx \in [Senders -> Descs]
  /\ loaded \in [Senders -> Indices]

Distance(from, to) == (to - from) % IdxMod

\* No sender writes into a buffer that the device has not given back, however
\* stale tx_last_used is and however the indices have wrapped.
FilledIsFree ==
  \A s \in Senders : pc[s] \in {"fill", "ring"} =>
    \A k \in 0..(Distance(used_idx, avail_idx) - 1) :
      avail_ring[Slot(used_idx + k)] # idx[s]

AllAsleep == \A s \in Senders : pc[s] = "asleep"
Waiting == Distance(dev_avail, avail_idx)

\* When the senders sleep, the device has been told of every frame: no frame is
\* left behind in a batch that nobody will complete.
QuietIsNotified == AllAsleep /\ Waiting > 0 => notified

\* "frames queued but host not yet notified": when no send is under way and the
\* device waits to be notified, the frames it has not seen are counted.
WaitingIsCounted ==
  (\A s \in Senders : pc[s] \in {"asleep", "burst"}) /\ ~notified
    => tx_batch_count >= Waiting

\* "frames queued but host not yet notified": a frame that waits while the
\* senders sleep and the device is not told of it is counted, so that the next
\* flush notifies.
FlushWillNotify == AllAsleep /\ ~notified /\ Waiting > 0 => tx_batch_count > 0

\* The frame at the front of the queue is sent.
FrontIsSent ==
  \A i \in Indices : (dev_avail = i /\ avail_idx # i) ~> (dev_avail # i)

\* The frame in the hands of the driver, and those it has given to the device.
Offered ==
  LET mid == {s \in Senders : pc[s] \in {"check", "poll", "slot", "fill", "ring", "publish"}}
  IN IF mid = {} THEN Nothing ELSE frame[CHOOSE s \in mid : TRUE]

Queue == [k \in 1..Waiting |-> tx_buffers[avail_ring[Slot(dev_avail + k - 1)]]]

Fifo == INSTANCE TxFifo WITH Capacity <- tx_queue_size, offered <- Offered, queue <- Queue

\* One sender, with the device: an accepted frame goes out once, in order and
\* unchanged.
ImplementsTxFifo == Fifo!Spec

=============================================================================
