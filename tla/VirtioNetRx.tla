---------------------------- MODULE VirtioNetRx ----------------------------
(***************************************************************************)
(* The receive path of one virtio-net device: the device, the interrupt    *)
(* handler of the driver and the task that consumes the frames, which is   *)
(* net_rx_task or, in the test programs, one that polls.                   *)
(*                                                                         *)
(* The device runs in parallel with the processor.  The handler runs with  *)
(* interrupts masked, so it excludes the task but not the device; each of  *)
(* its reads of used->idx is a step.  A critical section of the task is a  *)
(* step.                                                                   *)
(***************************************************************************)
EXTENDS Integers, Sequences

CONSTANTS
  queue_size,  \* descriptors of the queue (256 in the code)
  IdxMod,      \* where the ring indices wrap around (2^16)
  SEM_MAX,     \* the largest count of rx_sem
  Frames,      \* the frames that may arrive
  Runts,       \* those of them that leave no payload after the header
  Nothing

Descs == 0..(queue_size - 1)
Indices == 0..(IdxMod - 1)

\* 65536 is a multiple of every power of two that QUEUE_NUM_MAX may be.
ASSUME RxAssumption ==
  /\ queue_size \in Nat \ {0}
  /\ IdxMod \in Nat /\ IdxMod > queue_size /\ IdxMod % queue_size = 0
  /\ SEM_MAX \in Nat \ {0}
  /\ Runts \subseteq Frames
  /\ Nothing \notin Frames

VARIABLES
  avail_idx, avail_ring,  \* descriptors given to the device
  used_idx, used_ring,    \* descriptors the device has filled
  rx_buffers,             \* the frame in each buffer
  dev_avail,              \* the device's place in the avail ring
  stalled,                \* the device found no buffer and waits for a notify
  unsignalled,            \* it has filled a buffer and not signalled it yet
  interrupt_status,       \* bit 0 of INTERRUPT_STATUS; the line is its level
  rx_last_used,           \* the driver's place in the used ring
  g_rx_completions,       \* queue from the handler to the task: descriptors
  head, tail, count,      \* g_rx_completion_head, _tail and _count
  rx_sem,                 \* the count of the semaphore that the reader pends on:
                          \* rx_sem of the device, or g_rx_global_sem
  isr,                    \* where the handler is
  enqueued,               \* its flags: something to post,
  notify_device,          \*            buffers were given back
  reader,                 \* the task that reads: "net_rx_task" or "poller"
  task,                   \* where it is
  desc_id                 \* the descriptor it works on

rings   == <<avail_idx, avail_ring, used_idx, used_ring>>
device  == <<rx_buffers, dev_avail, stalled, unsignalled>>
pending == <<g_rx_completions, head, tail, count>>
flags   == <<enqueued, notify_device>>
vars == <<rings, device, interrupt_status, rx_last_used, pending, rx_sem,
          isr, flags, reader, task, desc_id>>

Inc(i) == (i + 1) % IdxMod
Slot(i) == i % queue_size

\* virtio_net_prepare_rx has given every buffer to the device.
Init ==
  /\ avail_idx = queue_size
  /\ avail_ring = [i \in Descs |-> i]
  /\ used_idx = 0
  /\ used_ring = [i \in Descs |-> 0]
  /\ rx_buffers = [d \in Descs |-> Nothing]
  /\ dev_avail = 0
  /\ stalled = FALSE
  /\ unsignalled = FALSE
  /\ interrupt_status = 0
  /\ rx_last_used = 0
  /\ g_rx_completions = [i \in Descs |-> 0]
  /\ head = 0 /\ tail = 0 /\ count = 0
  /\ rx_sem = 0
  /\ isr = "idle"
  /\ enqueued = FALSE /\ notify_device = FALSE
  /\ reader \in {"net_rx_task", "poller"}
  /\ task = "check"
  /\ desc_id = 0

-----------------------------------------------------------------------------
(***************************************************************************)
(* The device, as the driver uses it.                                      *)
(***************************************************************************)

\* A frame is written into the next buffer and the buffer is marked used.
DevFill(f) ==
  /\ ~stalled
  /\ dev_avail # avail_idx
  /\ LET d == avail_ring[Slot(dev_avail)] IN
       /\ rx_buffers' = [rx_buffers EXCEPT ![d] = f]
       /\ used_ring' = [used_ring EXCEPT ![Slot(used_idx)] = d]
  /\ used_idx' = Inc(used_idx)
  /\ dev_avail' = Inc(dev_avail)
  /\ unsignalled' = TRUE
  /\ UNCHANGED <<avail_idx, avail_ring, stalled, interrupt_status, rx_last_used,
                 pending, rx_sem, isr, flags, task, desc_id, reader>>

DevSignal ==
  /\ unsignalled
  /\ interrupt_status' = 1
  /\ unsignalled' = FALSE
  /\ UNCHANGED <<rings, rx_buffers, dev_avail, stalled, rx_last_used, pending,
                 rx_sem, isr, flags, task, desc_id, reader>>

\* The transmit queue shares the interrupt.
DevTxDone ==
  /\ interrupt_status' = 1
  /\ UNCHANGED <<rings, device, rx_last_used, pending, rx_sem, isr, flags,
                 task, desc_id, reader>>

\* A frame arrives and there is no buffer: the device waits to be notified.
DevStall ==
  /\ dev_avail = avail_idx
  /\ stalled' = TRUE
  /\ UNCHANGED <<rings, rx_buffers, dev_avail, unsignalled, interrupt_status,
                 rx_last_used, pending, rx_sem, isr, flags, task, desc_id, reader>>

-----------------------------------------------------------------------------
(***************************************************************************)
(* virtio_net_interrupt_handler.                                           *)
(***************************************************************************)
IrqEnter ==
  /\ isr = "idle"
  /\ interrupt_status = 1
  /\ isr' = "scan"
  /\ enqueued' = FALSE /\ notify_device' = FALSE
  /\ UNCHANGED <<rings, device, interrupt_status, rx_last_used, pending, rx_sem,
                 task, desc_id, reader>>

\* Fault: the slot after the one that avail->idx is about to publish.
RefillOneAhead(d) == avail_ring' = [avail_ring EXCEPT ![Slot(avail_idx + 1)] = d]

\* A descriptor is given back to the device.
Refill(d) == avail_ring' = [avail_ring EXCEPT ![Slot(avail_idx)] = d]

\* Fault: the completion is stored at the place of the oldest.
HandleRxUsedAtHead ==
  /\ isr = "scan"
  /\ rx_last_used # used_idx
  /\ count < queue_size
  /\ g_rx_completions' = [g_rx_completions EXCEPT ![head] = used_ring[Slot(rx_last_used)]]
  /\ tail' = (tail + 1) % queue_size
  /\ count' = count + 1
  /\ enqueued' = TRUE
  /\ rx_last_used' = Inc(rx_last_used)
  /\ UNCHANGED <<rings, device, head, interrupt_status, rx_sem, isr,
                 notify_device, task, desc_id, reader>>

\* Queue a completion for the task, or give the buffer back if the queue is
\* full.  (The device only returns descriptors it was given.)
HandleRxUsed ==
  /\ isr = "scan"
  /\ rx_last_used # used_idx
  /\ LET d == used_ring[Slot(rx_last_used)] IN
       IF count >= queue_size
         THEN /\ Refill(d)
              /\ avail_idx' = Inc(avail_idx)
              /\ notify_device' = TRUE
              /\ UNCHANGED <<pending, enqueued>>
         ELSE /\ g_rx_completions' = [g_rx_completions EXCEPT ![tail] = d]
              /\ tail' = (tail + 1) % queue_size
              /\ count' = count + 1
              /\ enqueued' = TRUE
              /\ UNCHANGED <<avail_ring, avail_idx, head, notify_device>>
  /\ rx_last_used' = Inc(rx_last_used)
  /\ UNCHANGED <<used_idx, used_ring, device, interrupt_status, rx_sem, isr,
                 task, desc_id, reader>>

\* Fault: no post for what was found.
HandleRxPostNothing ==
  /\ isr = "scan"
  /\ rx_last_used = used_idx
  /\ isr' = "ack"
  /\ UNCHANGED <<rings, device, interrupt_status, rx_last_used, pending, rx_sem,
                 flags, task, desc_id, reader>>

\* Nothing more in the used ring: notify the device if buffers were given back,
\* and post rx_sem once for the whole burst.
HandleRxPost ==
  /\ isr = "scan"
  /\ rx_last_used = used_idx
  /\ isr' = "ack"
  /\ IF ~enqueued THEN UNCHANGED <<rx_sem, task>>
     ELSE IF task = "waiting" THEN task' = "check" /\ UNCHANGED rx_sem
     ELSE /\ rx_sem' = IF rx_sem < SEM_MAX THEN rx_sem + 1 ELSE rx_sem
          /\ UNCHANGED task
  /\ stalled' = (stalled /\ ~notify_device)
  /\ UNCHANGED <<rings, rx_buffers, dev_avail, unsignalled, interrupt_status,
                 rx_last_used, pending, flags, desc_id, reader>>

\* INTERRUPT_ACK is written last: it clears what was signalled meanwhile.
IrqAck ==
  /\ isr = "ack"
  /\ interrupt_status' = 0
  /\ isr' = "idle"
  /\ UNCHANGED <<rings, device, rx_last_used, pending, rx_sem, flags, task,
                 desc_id, reader>>

-----------------------------------------------------------------------------
(***************************************************************************)
(* net_rx_task.                                                            *)
(***************************************************************************)
TaskAt(label) == isr = "idle" /\ task = label

Found == IF reader = "poller" THEN "poll" ELSE "peek"
NothingFound == IF reader = "poller" THEN "pend" ELSE "flush"

\* virtio_net_has_pending_rx_dev reads the count outside a critical section.
HasPending ==
  /\ TaskAt("check")
  /\ task' = IF count > 0 THEN Found ELSE NothingFound
  /\ UNCHANGED <<rings, device, interrupt_status, rx_last_used, pending, rx_sem,
                 isr, flags, desc_id, reader>>

\* A frame without payload ends the burst and stays at the head.
PeekRxBuffer ==
  /\ TaskAt("peek")
  /\ LET d == g_rx_completions[head] IN
       IF count = 0 \/ rx_buffers[d] \in Runts
         THEN task' = "flush" /\ UNCHANGED desc_id
         ELSE task' = "process" /\ desc_id' = d
  /\ UNCHANGED <<rings, device, interrupt_status, rx_last_used, pending, rx_sem,
                 isr, flags, reader>>

\* Fault: the completion stays counted.
ReleaseRxBufferKeepsCount ==
  /\ TaskAt("process")
  /\ head' = (head + 1) % queue_size
  /\ task' = "refill"
  /\ UNCHANGED <<rings, device, interrupt_status, rx_last_used, count,
                 g_rx_completions, tail, rx_sem, isr, flags, desc_id, reader>>

\* Fault: the head does not wrap around.
ReleaseRxBufferNoWrap ==
  /\ TaskAt("process")
  /\ head' = head + 1
  /\ count' = count - 1
  /\ task' = "refill"
  /\ UNCHANGED <<rings, device, interrupt_status, rx_last_used,
                 g_rx_completions, tail, rx_sem, isr, flags, desc_id, reader>>

\* net_demo_process_frame reads the frame where it is, then the completion is
\* taken off the queue.
ReleaseRxBuffer ==
  /\ TaskAt("process")
  /\ IF count = 0 \/ g_rx_completions[head] # desc_id
       THEN task' = "check" /\ UNCHANGED <<head, count>>
       ELSE /\ head' = (head + 1) % queue_size
            /\ count' = count - 1
            /\ task' = "refill"
  /\ UNCHANGED <<rings, device, interrupt_status, rx_last_used,
                 g_rx_completions, tail, rx_sem, isr, flags, desc_id, reader>>

ReleaseRefill ==
  /\ TaskAt("refill")
  /\ Refill(desc_id)
  /\ task' = "publish"
  /\ UNCHANGED <<avail_idx, used_idx, used_ring, device, interrupt_status,
                 rx_last_used, pending, rx_sem, isr, flags, desc_id, reader>>

\* A poller goes on or, at a frame without payload or when it has seen the one it was
\* looking for, waits.
ReleasePublish ==
  /\ TaskAt("publish")
  /\ avail_idx' = Inc(avail_idx)
  /\ task' \in {"check"} \cup (IF reader = "poller" THEN {"pend"} ELSE {})
  /\ UNCHANGED <<avail_ring, used_idx, used_ring, device, interrupt_status,
                 rx_last_used, pending, rx_sem, isr, flags, desc_id, reader>>

\* Fault: QUEUE_NOTIFY is not written.
RxFlushSilent ==
  /\ TaskAt("flush")
  /\ task' = "pend"
  /\ UNCHANGED <<rings, device, interrupt_status, rx_last_used, pending, rx_sem,
                 isr, flags, desc_id, reader>>

\* virtio_net_rx_flush_dev: tell the device that there are buffers.
RxFlush ==
  /\ TaskAt("flush")
  /\ stalled' = FALSE
  /\ task' = "pend"
  /\ UNCHANGED <<rings, rx_buffers, dev_avail, unsignalled, interrupt_status,
                 rx_last_used, pending, rx_sem, isr, flags, desc_id, reader>>

\* virtio_net_wait_rx_dev, or virtio_net_wait_rx_any for a poller.
WaitRx ==
  /\ TaskAt("pend")
  /\ IF rx_sem > 0
       THEN rx_sem' = rx_sem - 1 /\ task' = "check"
       ELSE task' = "waiting" /\ UNCHANGED rx_sem
  /\ UNCHANGED <<rings, device, interrupt_status, rx_last_used, pending,
                 isr, flags, desc_id, reader>>

\* Only a poller waits with a timeout.
WaitTimeout ==
  /\ TaskAt("waiting")
  /\ reader = "poller"
  /\ task' = "check"
  /\ UNCHANGED <<rings, device, interrupt_status, rx_last_used, pending, rx_sem,
                 isr, flags, desc_id, reader>>

\* virtio_net_poll_frame_dev takes the completion off the queue first,
PollTake ==
  /\ TaskAt("poll")
  /\ IF count = 0
       THEN task' = "pend" /\ UNCHANGED <<head, count, desc_id>>
       ELSE /\ desc_id' = g_rx_completions[head]
            /\ head' = (head + 1) % queue_size
            /\ count' = count - 1
            /\ task' = "copy"
  /\ UNCHANGED <<rings, device, interrupt_status, rx_last_used,
                 g_rx_completions, tail, rx_sem, isr, flags, reader>>

\* copies the frame, and then gives the buffer back like a release.
PollCopy ==
  /\ TaskAt("copy")
  /\ task' = "refill"
  /\ UNCHANGED <<rings, device, interrupt_status, rx_last_used, pending, rx_sem,
                 isr, flags, desc_id, reader>>

\* The receive task of the other device notifies both devices.
OtherTaskFlush ==
  /\ reader = "net_rx_task"
  /\ isr = "idle"
  /\ stalled
  /\ stalled' = FALSE
  /\ UNCHANGED <<rings, rx_buffers, dev_avail, unsignalled, interrupt_status,
                 rx_last_used, pending, rx_sem, isr, flags, task, desc_id, reader>>

-----------------------------------------------------------------------------
Device == (\E f \in Frames : DevFill(f)) \/ DevSignal \/ DevTxDone \/ DevStall

Handler == HandleRxUsed \/ HandleRxPost \/ IrqAck

RxTask ==
  \/ HasPending
  \/ PeekRxBuffer
  \/ ReleaseRxBuffer
  \/ ReleaseRefill
  \/ ReleasePublish
  \/ RxFlush
  \/ WaitRx
  \/ WaitTimeout
  \/ PollTake
  \/ PollCopy

Next == Device \/ IrqEnter \/ Handler \/ RxTask \/ OtherTaskFlush

Spec == Init /\ [][Next]_vars

(***************************************************************************)
(* The device signals what it has filled, a raised line is taken and its   *)
(* handler runs to the end (if the device pauses), and interrupts leave    *)
(* some time to the task.  Nothing forces frames to arrive, or the other   *)
(* task to run.                                                            *)
(***************************************************************************)
FairSpec ==
  /\ Spec
  /\ WF_vars(DevSignal)
  /\ WF_vars(IrqEnter)
  /\ WF_vars(Handler)
  /\ SF_vars(RxTask)

-----------------------------------------------------------------------------
(***************************************************************************)
(* Properties.                                                             *)
(***************************************************************************)
TypeOK ==
  /\ avail_idx \in Indices /\ used_idx \in Indices
  /\ dev_avail \in Indices /\ rx_last_used \in Indices
  /\ avail_ring \in [Descs -> Descs] /\ used_ring \in [Descs -> Descs]
  /\ rx_buffers \in [Descs -> Frames \cup {Nothing}]
  /\ stalled \in BOOLEAN /\ unsignalled \in BOOLEAN /\ flags \in BOOLEAN \X BOOLEAN
  /\ interrupt_status \in 0..1
  /\ g_rx_completions \in [Descs -> Descs]
  /\ head \in Descs /\ tail \in Descs /\ count \in 0..queue_size
  /\ rx_sem \in 0..SEM_MAX
  /\ isr \in {"idle", "scan", "ack"}
  /\ reader \in {"net_rx_task", "poller"}
  /\ task \in {"check", "refill", "publish", "pend", "waiting"}
              \cup (IF reader = "poller" THEN {"poll", "copy"}
                                       ELSE {"peek", "process", "flush"})
  /\ desc_id \in Descs

\* The entries of a ring between two indices, oldest first.
Between(ring, from, to) ==
  [k \in 1..((to - from) % IdxMod) |-> ring[Slot(from + k - 1)]]

GivenToDevice == Between(avail_ring, dev_avail, avail_idx)
Filled == Between(used_ring, rx_last_used, used_idx)
Completed == [k \in 1..count |-> g_rx_completions[(head + k - 1) % queue_size]]
Copied == IF task = "copy" THEN <<desc_id>> ELSE <<>>
InHand == IF task \in {"refill", "publish"} THEN <<desc_id>> ELSE <<>>

\* Every descriptor is in exactly one place: with the device, filled, queued for
\* the task, or on its way back.  So no buffer leaks or is filled while the
\* driver uses it, however the indices wrap.
EachDescriptorOnce ==
  LET all == GivenToDevice \o Filled \o Completed \o Copied \o InHand IN
  /\ Len(all) = queue_size
  /\ {all[k] : k \in 1..Len(all)} = Descs

\* Because descriptors are conserved, the handler never meets a full completion
\* queue: the branch that gives a frame's buffer back, and loses the frame, is
\* never taken.
NoFrameDropped == isr = "scan" /\ rx_last_used # used_idx => count < queue_size

\* When net_rx_task sleeps and no interrupt is being served, no completion with
\* payload waits for it, and the device is not left without a notification of
\* buffers that were given back.  (A poller never notifies the device, and looks at
\* the queue again after a timeout.)
SleepsOnlyWhenDrained ==
  (reader = "net_rx_task" /\ task = "waiting" /\ isr = "idle") =>
    /\ count = 0 \/ rx_buffers[g_rx_completions[head]] \in Runts
    /\ stalled => dev_avail = avail_idx

\* A buffer whose completion the handler has queued comes back to the device; with
\* net_rx_task, unless a frame without payload is queued before it or in it.
CompletedComesBack ==
  \A d \in Descs :
    (\E k \in 1..count : /\ Completed[k] = d
                         /\ \/ reader = "poller"
                            \/ \A j \in 1..k : rx_buffers[Completed[j]] \notin Runts)
      ~> (\E k \in 1..Len(GivenToDevice) : GivenToDevice[k] = d)

\* Every frame that the device has put into a buffer reaches the handler.
FilledIsTaken ==
  \A d \in Descs :
    (\E k \in 1..Len(Filled) : Filled[k] = d)
      ~> (\E k \in 1..count : Completed[k] = d)

Contents(s) == [k \in 1..Len(s) |-> rx_buffers[s[k]]]

\* The frames on their way to the task, and the one it has in front of it.
Arrived == Contents(Copied \o Completed \o Filled)
Reading == IF task \in {"process", "copy"} THEN rx_buffers[desc_id] ELSE Nothing

Fifo == INSTANCE RxFifo WITH Capacity <- queue_size, queue <- Arrived, reading <- Reading

\* Across the two rings, the completion queue and their wrap-arounds, the task
\* sees the frames in order, each once, and undisturbed while it reads them.
ImplementsRxFifo == Fifo!Spec

=============================================================================
