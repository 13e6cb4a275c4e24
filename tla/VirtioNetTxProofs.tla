-------------------------- MODULE VirtioNetTxProofs -------------------------
(***************************************************************************)
(* Proofs about VirtioNetTx with one task that sends at a time, for queues *)
(* and batches of any size, any frames and any width of the indices.       *)
(***************************************************************************)
EXTENDS VirtioNetTx, SequenceTheorems, TLAPS

-----------------------------------------------------------------------------
(***************************************************************************)
(* The inductive invariant: the order of the four indices, what the sender *)
(* holds, the ring, and the count of the batch.                            *)
(***************************************************************************)
InUse == Distance(used_idx, avail_idx)
InUseAsRead == Distance(tx_last_used, avail_idx)

IndexInv ==
  /\ Distance(used_idx, dev_avail) <= InUse
  /\ InUse <= InUseAsRead
  /\ InUseAsRead <= tx_queue_size

\* Between the check of the slots and the publication the queue has a free slot, and the
\* descriptor chosen is still the one that avail_idx points at.
SenderInv(s) ==
  /\ pc[s] \in {"slot", "fill", "ring", "publish"} => InUseAsRead < tx_queue_size
  /\ pc[s] \in {"fill", "ring", "publish"} => idx[s] = Slot(avail_idx)
  /\ pc[s] \in {"ring", "publish"} => tx_buffers[Slot(avail_idx)] = frame[s]
  /\ pc[s] = "publish" =>
       avail_ring[Slot(avail_idx)] = Slot(avail_idx) /\ loaded[s] = avail_idx
  /\ pc[s] \in {"check", "poll", "slot", "fill", "ring", "publish"} => frame[s] \in Frames

RingInv ==
  \A i \in Indices : Distance(used_idx, i) < InUse => avail_ring[Slot(i)] = Slot(i)

\* Unless the device will look anyway, no more frames wait than the batch counts.
CountInv(s) ==
  /\ pc[s] \notin {"notify", "reset"} => tx_batch_count < BATCH_SIZE
  /\ pc[s] = "counted" => loaded[s] = tx_batch_count
  /\ ~notified /\ pc[s] \in {"reset", "flushed"} => Waiting = 0
  /\ ~notified /\ pc[s] = "asleep" /\ s \in Flushers => Waiting = 0
  /\ ~notified /\ pc[s] \in {"count", "counted"} => Waiting <= tx_batch_count + 1
  /\ ~notified /\ pc[s] \notin {"count", "counted"} => Waiting <= tx_batch_count

TxInv ==
  /\ TypeOK /\ IndexInv /\ RingInv
  /\ \A s \in Senders : SenderInv(s) /\ CountInv(s)

-----------------------------------------------------------------------------
(***************************************************************************)
(* Facts about the indices.                                                *)
(***************************************************************************)
\* The index k steps after i.
Forward(i, k) == IF i + k < IdxMod THEN i + k ELSE i + k - IdxMod

LEMMA Constants ==
  /\ IdxMod \in Nat /\ tx_queue_size \in Nat /\ tx_queue_size > 0 /\ IdxMod > tx_queue_size
  /\ BATCH_SIZE \in Nat /\ BATCH_SIZE > 0 /\ BATCH_SIZE < IdxMod
  /\ MinSlots \in Nat /\ LowSlots \in Nat /\ MinSlots > 0 /\ LowSlots > 0
  BY TxAssumption

LEMMA IndexIs ==
  ASSUME NEW i \in Indices
  PROVE  i \in Nat /\ i < IdxMod
  BY Constants DEF Indices

LEMMA IsIndex ==
  ASSUME NEW i \in Nat, i < IdxMod
  PROVE  i \in Indices
  BY Constants DEF Indices

LEMMA DistanceIs ==
  ASSUME NEW a \in Indices, NEW b \in Indices
  PROVE  /\ a <= b => Distance(a, b) = b - a
         /\ b < a => Distance(a, b) = b - a + IdxMod
         /\ Distance(a, b) \in Nat /\ Distance(a, b) < IdxMod
<1>1. a \in Nat /\ b \in Nat /\ a < IdxMod /\ b < IdxMod /\ IdxMod \in Nat \ {0} /\ b - a \in Int
  BY Constants, IndexIs
<1>2. a <= b => Distance(a, b) = b - a
  BY <1>1 DEF Distance
<1>3. b < a => Distance(a, b) = b - a + IdxMod
  BY <1>1 DEF Distance
<1>4. QED
  BY <1>1, <1>2, <1>3

LEMMA IncIs ==
  ASSUME NEW a \in Indices
  PROVE  /\ a + 1 < IdxMod => Inc(a) = a + 1
         /\ a + 1 = IdxMod => Inc(a) = 0
         /\ Inc(a) \in Indices
<1>1. a \in Nat /\ a < IdxMod /\ IdxMod \in Nat \ {0} /\ a + 1 \in Int
  BY Constants, IndexIs
<1>2. a + 1 < IdxMod => Inc(a) = a + 1
  BY <1>1 DEF Inc
<1>3. a + 1 = IdxMod => Inc(a) = 0
  <2>1. IdxMod % IdxMod = 0
    BY <1>1
  <2>2. QED
    BY <2>1 DEF Inc
<1>4. Inc(a) \in Indices
  BY <1>1, <1>2, <1>3, IsIndex
<1>5. QED
  BY <1>2, <1>3, <1>4

LEMMA ForwardIs ==
  ASSUME NEW a \in Indices, NEW k \in Nat, k < IdxMod
  PROVE  Forward(a, k) \in Indices /\ Distance(a, Forward(a, k)) = k
<1> DEFINE b == Forward(a, k)
<1>1. a \in Nat /\ a < IdxMod /\ IdxMod \in Nat
  BY Constants, IndexIs
<1>2. /\ a + k < IdxMod => b = a + k
      /\ ~(a + k < IdxMod) => b = a + k - IdxMod
  BY DEF Forward
<1> HIDE DEF b
<1>3. b \in Indices
  BY <1>1, <1>2, IsIndex
<1>4. Distance(a, b) = k
  BY <1>1, <1>2, <1>3, DistanceIs
<1>5. QED
  BY <1>3, <1>4 DEF b

LEMMA ForwardInc ==
  ASSUME NEW a \in Indices, NEW k \in Nat, k + 1 < IdxMod
  PROVE  Forward(Inc(a), k) = Forward(a, k + 1)
<1>1. a \in Nat /\ a < IdxMod /\ IdxMod \in Nat
  BY Constants, IndexIs
<1>2. CASE a + 1 < IdxMod
  <2>1. Inc(a) = a + 1 /\ a + 1 + k = a + (k + 1)
    BY <1>1, <1>2, IncIs
  <2>2. QED
    BY <1>1, <2>1 DEF Forward
<1>3. CASE a + 1 = IdxMod
  <2>1. Inc(a) = 0 /\ 0 + k = k /\ k < IdxMod /\ ~(a + (k + 1) < IdxMod)
        /\ a + (k + 1) - IdxMod = k
    BY <1>1, <1>3, IncIs
  <2>2. QED
    BY <1>1, <2>1 DEF Forward
<1>4. QED
  BY <1>1, <1>2, <1>3

LEMMA Division ==
  ASSUME NEW a \in Nat, NEW t \in Nat \ {0}
  PROVE  /\ a \div t \in Nat /\ a % t \in Nat /\ a % t < t
         /\ a = t * (a \div t) + (a % t)
  OBVIOUS

LEMMA Remainder ==
  ASSUME NEW t \in Nat \ {0}, NEW q \in Nat, NEW r \in Nat, r < t
  PROVE  (t * q + r) % t = r
  OBVIOUS

LEMMA Apart ==
  ASSUME NEW t \in Nat \ {0}, NEW q \in Int, NEW d \in Int, 0 < d, d < t
  PROVE  t * q # d
<1>1. \A k \in Nat : t * k \in Nat
  OBVIOUS
<1>2. CASE q <= 0
  <2>1. t * q = - (t * (0 - q)) /\ t * (0 - q) \in Nat
    BY <1>1, <1>2
  <2>2. QED
    BY <2>1
<1>3. CASE q >= 1
  <2>1. t * q = t * (q - 1) + t /\ t * (q - 1) \in Nat
    BY <1>1, <1>3
  <2>2. QED
    BY <2>1
<1>4. QED
  BY <1>2, <1>3

LEMMA SlotIs ==
  /\ \A i \in Nat : Slot(i) \in Descs
  /\ \A i \in Nat : Slot(i + IdxMod) = Slot(i)
  /\ \A i, j \in Nat : i < j /\ j < i + tx_queue_size => Slot(i) # Slot(j)
<1> DEFINE t == tx_queue_size
<1>1. t \in Nat \ {0} /\ IdxMod \in Nat /\ IdxMod % t = 0
  BY TxAssumption
<1>2. \A i \in Nat : i \div t \in Nat /\ Slot(i) \in Nat /\ Slot(i) < t
                     /\ i = t * (i \div t) + Slot(i)
  BY <1>1, Division DEF Slot
<1>3. \A i \in Nat : Slot(i) \in Descs
  BY <1>1, <1>2 DEF Descs
<1>4. ASSUME NEW i \in Nat
      PROVE  Slot(i + IdxMod) = Slot(i)
  <2> DEFINE q == i \div t
             p == IdxMod \div t
  <2> DEFINE r == IdxMod % t
  <2>a. q \in Nat /\ i = t * q + Slot(i)
    BY <1>2
  <2>b. p \in Nat /\ IdxMod = t * p + r /\ r = 0
    BY <1>1, Division
  <2> HIDE DEF q, p, r
  <2>1. q \in Nat /\ p \in Nat /\ i = t * q + Slot(i) /\ IdxMod = t * p
    <3>1. t * p \in Nat
      BY <1>1, <2>b
    <3>2. QED
      BY <2>a, <2>b, <3>1
  <2>2. t * q + t * p = t * (q + p)
    BY <1>1, <2>1
  <2>3. Slot(i) \in Nat /\ Slot(i) < t /\ q + p \in Nat /\ t * q \in Nat /\ t * p \in Nat
    BY <1>1, <1>2, <2>1
  <2>4. i + IdxMod = t * (q + p) + Slot(i)
    BY <2>1, <2>2, <2>3
  <2>5. (t * (q + p) + Slot(i)) % t = Slot(i)
    BY <1>1, <2>3, Remainder
  <2>6. QED
    BY <2>4, <2>5 DEF Slot
<1>5. ASSUME NEW i \in Nat, NEW j \in Nat, i < j, j < i + t, Slot(i) = Slot(j)
      PROVE  FALSE
  <2> DEFINE q == j \div t
             p == i \div t
  <2>1. q \in Nat /\ p \in Nat /\ j = t * q + Slot(j) /\ i = t * p + Slot(i)
    BY <1>2
  <2> HIDE DEF q, p
  <2>2. t * (q - p) = t * q - t * p
    BY <1>1, <2>1
  <2>3. j - i = t * (q - p)
    <3>1. t * q \in Nat /\ t * p \in Nat /\ Slot(i) \in Nat /\ Slot(i) = Slot(j)
      BY <1>1, <1>2, <1>5, <2>1
    <3>2. QED
      BY <2>1, <2>2, <3>1
  <2>4. QED
    BY <1>1, <1>5, <2>1, <2>3, Apart
<1>6. QED
  BY <1>3, <1>4, <1>5

LEMMA SlotsAreApart ==
  ASSUME NEW i \in Indices, NEW j \in Indices, Distance(i, j) > 0, Distance(i, j) < tx_queue_size
  PROVE  Slot(i) # Slot(j)
<1>1. i \in Nat /\ i < IdxMod /\ j \in Nat /\ j < IdxMod /\ IdxMod \in Nat /\ tx_queue_size \in Nat
  BY Constants, IndexIs
<1>2. CASE i <= j
  <2>1. i < j /\ j < i + tx_queue_size
    BY <1>1, <1>2, DistanceIs
  <2>2. QED
    BY <1>1, <2>1, SlotIs
<1>3. CASE j < i
  <2>1. i < j + IdxMod /\ j + IdxMod < i + tx_queue_size /\ j + IdxMod \in Nat
    BY <1>1, <1>3, DistanceIs
  <2>2. Slot(i) # Slot(j + IdxMod)
    BY <1>1, <2>1, SlotIs
  <2>3. QED
    BY <1>1, <2>2, SlotIs
<1>4. QED
  BY <1>1, <1>2, <1>3

LEMMA SlotForward ==
  ASSUME NEW i \in Indices, NEW k \in Nat, k < IdxMod
  PROVE  Slot(i + k) = Slot(Forward(i, k))
<1>1. CASE i + k < IdxMod
  BY <1>1 DEF Forward
<1>2. CASE ~(i + k < IdxMod)
  <2>1. i + k - IdxMod \in Nat /\ i + k = (i + k - IdxMod) + IdxMod
    BY <1>2, Constants, IndexIs
  <2>2. QED
    BY <1>2, <2>1, SlotIs DEF Forward
<1>3. QED
  BY <1>1, <1>2

LEMMA NoDistance ==
  ASSUME NEW a \in Indices, NEW b \in Indices
  PROVE  Distance(a, b) = 0 <=> a = b
  BY DistanceIs, IndexIs, Constants

LEMMA StepTo ==
  ASSUME NEW a \in Indices, NEW b \in Indices, Distance(a, b) + 1 < IdxMod
  PROVE  Distance(a, Inc(b)) = Distance(a, b) + 1
<1>1. a \in Nat /\ a < IdxMod /\ b \in Nat /\ b < IdxMod /\ IdxMod \in Nat
  BY Constants, IndexIs
<1>2. /\ b + 1 < IdxMod => Inc(b) = b + 1
      /\ b + 1 = IdxMod => Inc(b) = 0
      /\ Inc(b) \in Indices
  BY IncIs
<1>3. /\ a <= Inc(b) => Distance(a, Inc(b)) = Inc(b) - a
      /\ Inc(b) < a => Distance(a, Inc(b)) = Inc(b) - a + IdxMod
  BY <1>2, DistanceIs
<1>4. /\ a <= b => Distance(a, b) = b - a
      /\ b < a => Distance(a, b) = b - a + IdxMod
  BY DistanceIs
<1>5. QED
  BY <1>1, <1>2, <1>3, <1>4

LEMMA StepFrom ==
  ASSUME NEW a \in Indices, NEW b \in Indices, a # b
  PROVE  Distance(Inc(a), b) = Distance(a, b) - 1
<1>1. a \in Nat /\ a < IdxMod /\ b \in Nat /\ b < IdxMod /\ IdxMod \in Nat
  BY Constants, IndexIs
<1>2. /\ a + 1 < IdxMod => Inc(a) = a + 1
      /\ a + 1 = IdxMod => Inc(a) = 0
      /\ Inc(a) \in Indices
  BY IncIs
<1>3. /\ Inc(a) <= b => Distance(Inc(a), b) = b - Inc(a)
      /\ b < Inc(a) => Distance(Inc(a), b) = b - Inc(a) + IdxMod
  BY <1>2, DistanceIs
<1>4. /\ a <= b => Distance(a, b) = b - a
      /\ b < a => Distance(a, b) = b - a + IdxMod
  BY DistanceIs
<1>5. QED
  BY <1>1, <1>2, <1>3, <1>4

LEMMA Between ==
  ASSUME NEW a \in Indices, NEW b \in Indices, NEW c \in Indices,
         Distance(a, b) <= Distance(a, c)
  PROVE  Distance(b, c) = Distance(a, c) - Distance(a, b)
<1>1. /\ a \in Nat /\ a < IdxMod /\ b \in Nat /\ b < IdxMod /\ c \in Nat /\ c < IdxMod
      /\ IdxMod \in Nat
  BY Constants, IndexIs
<1>2. /\ a <= b => Distance(a, b) = b - a
      /\ b < a => Distance(a, b) = b - a + IdxMod
      /\ a <= c => Distance(a, c) = c - a
      /\ c < a => Distance(a, c) = c - a + IdxMod
      /\ b <= c => Distance(b, c) = c - b
      /\ c < b => Distance(b, c) = c - b + IdxMod
  BY DistanceIs
<1>3. QED
  BY <1>1, <1>2

LEMMA FreeSlots ==
  ASSUME NEW used \in Indices, avail_idx \in Indices,
         Distance(used, avail_idx) <= tx_queue_size
  PROVE  AvailableSlots(used) = tx_queue_size - Distance(used, avail_idx)
<1> DEFINE d == Distance(used, avail_idx)
<1>1. AvailableSlots(used) = (tx_queue_size - d) % IdxMod
  BY DEF AvailableSlots, Distance
<1>2. d \in Nat
  BY DistanceIs
<1> HIDE DEF d
<1>3. tx_queue_size - d \in Nat /\ tx_queue_size - d < IdxMod
  BY <1>2, Constants DEF d
<1>4. QED
  BY <1>1, <1>3, Constants DEF d

-----------------------------------------------------------------------------
(***************************************************************************)
(* The parts of the invariant, with one sender.                            *)
(***************************************************************************)
LEMMA InitTxInv == Init => TxInv
<1> SUFFICES ASSUME Init PROVE TxInv
  OBVIOUS
<1>1. 0 \in Indices /\ 0 \in Descs /\ Distance(0, 0) = 0 /\ Slot(0) = 0
  <2>1. 0 \in Indices /\ 0 \in Descs
    BY Constants DEF Indices, Descs
  <2>2. QED
    BY <2>1, Constants, NoDistance DEF Slot
<1>2. TypeOK
  <2>1. /\ pc \in [Senders -> Labels] /\ frame \in [Senders -> Frames \cup {Nothing}]
        /\ idx \in [Senders -> Descs] /\ loaded \in [Senders -> Indices]
        /\ avail_ring \in [Descs -> Descs] /\ tx_buffers \in [Descs -> Frames \cup {Nothing}]
    BY <1>1 DEF Init, Labels
  <2>2. tx_batch_count \in 0..BATCH_SIZE
    BY Constants DEF Init
  <2>3. QED
    BY <1>1, <2>1, <2>2 DEF Init, TypeOK
<1>3. IndexInv
  BY <1>1, Constants DEF Init, IndexInv, InUse, InUseAsRead
<1>4. RingInv
  BY <1>1, DistanceIs DEF Init, RingInv, InUse
<1>5. \A s \in Senders : SenderInv(s) /\ CountInv(s)
  BY <1>1, Constants DEF Init, SenderInv, CountInv, Waiting
<1>6. QED
  BY <1>2, <1>3, <1>4, <1>5 DEF TxInv

LEMMA TypeKept ==
  ASSUME NEW only, Senders = {only}, TxInv, Next
  PROVE  TypeOK'
<1>1. only \in Senders /\ TypeOK /\ CountInv(only)
  BY DEF TxInv
<1> USE DEF TypeOK, Labels
<1>2. CASE DevTransmit
  <2>1. wire' \in Frames \cup {Nothing} /\ dev_avail' \in Indices
    BY <1>1, <1>2, IncIs, SlotIs, IndexIs DEF DevTransmit
  <2>2. QED
    BY <1>1, <1>2, <2>1 DEF DevTransmit, driver, locals
<1>3. CASE DevComplete
  BY <1>1, <1>3, IncIs DEF DevComplete, driver, locals
<1>4. CASE DevIdle \/ IrqTxUsed
  BY <1>1, <1>4 DEF DevIdle, IrqTxUsed, driver, device, locals
<1> USE <1>1 DEF At, Goto, driver, device
<1>5. CASE Wake(only) \/ CheckSlots(only) \/ Poll(only) \/ PollEnds(only) \/ EndBurst(only)
  BY <1>5 DEF Wake, CheckSlots, Poll, PollEnds, EndBurst
<1>6. ASSUME NEW f \in Frames, StartSend(only, f)
      PROVE  TypeOK'
  BY <1>6 DEF StartSend
<1>7. CASE ComputeSlot(only)
  <2>1. Slot(avail_idx) \in Descs
    BY SlotIs, IndexIs
  <2>2. QED
    BY <1>7, <2>1 DEF ComputeSlot
<1>8. CASE FillBuffer(only)
  BY <1>8 DEF FillBuffer
<1>9. CASE WriteRing(only)
  BY <1>9 DEF WriteRing
<1>10. CASE Publish(only)
  <2>1. Inc(loaded[only]) \in Indices
    BY IncIs
  <2>2. QED
    BY <1>10, <2>1 DEF Publish
<1>11. CASE LoadCount(only)
  <2>1. tx_batch_count \in Indices
    BY Constants, IsIndex
  <2>2. QED
    BY <1>11, <2>1 DEF LoadCount
<1>12. CASE StoreCount(only)
  <2>1. loaded[only] + 1 \in 0..BATCH_SIZE
    BY <1>12, Constants DEF StoreCount, CountInv
  <2>2. QED
    BY <1>12, <2>1 DEF StoreCount
<1>13. CASE Notify(only)
  BY <1>13 DEF Notify
<1>14. CASE ResetCount(only)
  BY <1>14, Constants DEF ResetCount
<1>15. QED
  BY <1>2, <1>3, <1>4, <1>5, <1>6, <1>7, <1>8, <1>9, <1>10, <1>11, <1>12, <1>13, <1>14
  DEF Next, Device, Sender, SendStep

\* Which step moves which index.
LEMMA IndexStep ==
  ASSUME NEW only, Senders = {only}, Next
  PROVE  \/ DevTransmit \/ DevComplete
         \/ /\ tx_last_used' = used_idx
            /\ UNCHANGED <<avail_idx, used_idx, dev_avail, avail_ring, tx_batch_count, notified>>
         \/ Publish(only)
         \/ UNCHANGED <<avail_idx, used_idx, dev_avail, tx_last_used>>
<1> USE DEF driver, device, locals
<1>1. CASE Device \/ IrqTxUsed
  BY <1>1 DEF Device, DevIdle, IrqTxUsed
<1>2. CASE Sender(only)
  BY <1>2 DEF Sender, SendStep, Wake, StartSend, CheckSlots, Poll, PollEnds, ComputeSlot,
       FillBuffer, WriteRing, LoadCount, StoreCount, Notify, ResetCount, EndBurst
<1>3. QED
  BY <1>1, <1>2 DEF Next

LEMMA IndexKept ==
  ASSUME NEW only, Senders = {only}, TxInv, Next
  PROVE  IndexInv'
<1>1. /\ avail_idx \in Indices /\ used_idx \in Indices /\ dev_avail \in Indices
      /\ tx_last_used \in Indices /\ IndexInv
  BY DEF TxInv, TypeOK
<1>2. /\ InUse \in Nat /\ InUseAsRead \in Nat /\ Distance(used_idx, dev_avail) \in Nat
      /\ InUse <= InUseAsRead /\ InUseAsRead <= tx_queue_size
      /\ Distance(used_idx, dev_avail) <= InUse
  BY <1>1, DistanceIs DEF IndexInv, InUse, InUseAsRead
<1>3. CASE DevTransmit
  <2>1. /\ dev_avail' = Inc(dev_avail) /\ dev_avail # avail_idx
        /\ UNCHANGED <<avail_idx, used_idx, tx_last_used>>
    BY <1>3 DEF DevTransmit, driver
  <2>2. Distance(used_idx, dev_avail) # InUse
    <3>1. SUFFICES ASSUME Distance(used_idx, dev_avail) = InUse PROVE FALSE
      OBVIOUS
    <3>2. Distance(dev_avail, avail_idx) = 0
      BY <1>1, <1>2, <3>1, Between DEF InUse
    <3>3. QED
      BY <1>1, <2>1, <3>2, NoDistance
  <2>3. Distance(used_idx, Inc(dev_avail)) = Distance(used_idx, dev_avail) + 1
    BY <1>1, <1>2, <2>2, Constants, StepTo
  <2>4. QED
    BY <1>2, <2>1, <2>2, <2>3 DEF IndexInv, InUse, InUseAsRead
<1>4. CASE DevComplete
  <2>1. /\ used_idx' = Inc(used_idx) /\ used_idx # dev_avail
        /\ UNCHANGED <<avail_idx, dev_avail, tx_last_used>>
    BY <1>4 DEF DevComplete, driver
  <2>2. Distance(used_idx, dev_avail) # 0
    BY <1>1, <2>1, NoDistance
  <2>3. used_idx # avail_idx
    BY <1>1, <1>2, <2>2, NoDistance DEF InUse
  <2>4. /\ Distance(Inc(used_idx), dev_avail) = Distance(used_idx, dev_avail) - 1
        /\ Distance(Inc(used_idx), avail_idx) = InUse - 1
    BY <1>1, <2>1, <2>3, StepFrom DEF InUse
  <2>5. QED
    BY <1>2, <2>1, <2>4 DEF IndexInv, InUse, InUseAsRead
<1>5. CASE /\ tx_last_used' = used_idx
           /\ UNCHANGED <<avail_idx, used_idx, dev_avail>>
  BY <1>2, <1>5, Constants DEF IndexInv, InUse, InUseAsRead
<1>6. CASE Publish(only)
  <2>1. /\ pc[only] = "publish" /\ avail_idx' = Inc(loaded[only])
        /\ UNCHANGED <<used_idx, dev_avail, tx_last_used>>
    BY <1>6 DEF Publish, At, device
  <2>2. avail_idx' = Inc(avail_idx) /\ InUseAsRead < tx_queue_size
    BY <2>1 DEF TxInv, SenderInv
  <2>3. /\ Distance(used_idx, Inc(avail_idx)) = InUse + 1
        /\ Distance(tx_last_used, Inc(avail_idx)) = InUseAsRead + 1
    BY <1>1, <1>2, <2>2, Constants, StepTo DEF InUse, InUseAsRead
  <2>4. QED
    BY <1>2, <2>1, <2>2, <2>3, Constants DEF IndexInv, InUse, InUseAsRead
<1>7. CASE UNCHANGED <<avail_idx, used_idx, dev_avail, tx_last_used>>
  BY <1>1, <1>7 DEF IndexInv, InUse, InUseAsRead
<1>8. QED
  BY <1>3, <1>4, <1>5, <1>6, <1>7, IndexStep

LEMMA SenderKept ==
  ASSUME NEW only, Senders = {only}, TxInv, Next
  PROVE  SenderInv(only)'
<1>1. only \in Senders /\ TypeOK /\ SenderInv(only)
  BY DEF TxInv
<1>2. /\ avail_idx \in Indices /\ used_idx \in Indices /\ tx_last_used \in Indices
      /\ InUse \in Nat /\ InUseAsRead \in Nat /\ tx_queue_size \in Nat
      /\ InUse <= InUseAsRead /\ InUseAsRead <= tx_queue_size
  BY DistanceIs, Constants DEF TxInv, TypeOK, IndexInv, InUse, InUseAsRead
<1>3. AvailableSlots(tx_last_used) = tx_queue_size - InUseAsRead
      /\ AvailableSlots(used_idx) = tx_queue_size - InUse
  BY <1>2, FreeSlots DEF InUse, InUseAsRead
<1>4. Slot(avail_idx) \in Descs
  BY <1>2, SlotIs, IndexIs
<1>5. CASE Device
  BY <1>1, <1>5 DEF Device, DevTransmit, DevComplete, DevIdle, driver, locals, SenderInv, InUseAsRead
<1>6. CASE IrqTxUsed
  BY <1>1, <1>2, <1>6 DEF IrqTxUsed, locals, SenderInv, InUseAsRead, InUse
<1> USE <1>1 DEF At, Goto, driver, device, TypeOK
<1>7. CASE Wake(only) \/ LoadCount(only) \/ StoreCount(only) \/ Notify(only) \/ ResetCount(only)
           \/ EndBurst(only)
  <2>1. pc'[only] \in {"asleep", "burst", "counted", "notify", "reset", "flush", "flushed"}
    BY <1>7 DEF Wake, LoadCount, StoreCount, Notify, ResetCount, EndBurst
  <2>2. QED
    BY <2>1 DEF SenderInv
<1>8. ASSUME NEW f \in Frames, StartSend(only, f)
      PROVE  SenderInv(only)'
  <2>1. pc'[only] = "check" /\ frame'[only] = f
    BY <1>8 DEF StartSend
  <2>2. QED
    BY <2>1 DEF SenderInv
<1>9. CASE CheckSlots(only)
  <2>1. /\ pc[only] = "check" /\ pc'[only] \in {"slot", "poll"} /\ frame' = frame
        /\ pc'[only] = "slot" => InUseAsRead < tx_queue_size
        /\ UNCHANGED <<avail_idx, tx_last_used>>
    BY <1>2, <1>3, <1>9, Constants DEF CheckSlots
  <2>2. QED
    BY <2>1 DEF SenderInv, InUseAsRead
<1>10. CASE Poll(only) \/ PollEnds(only)
  <2>1. /\ pc[only] = "poll" /\ pc'[only] \in {"slot", "poll", "burst"} /\ frame' = frame
        /\ pc'[only] = "slot" => InUse < tx_queue_size
        /\ tx_last_used' = used_idx /\ avail_idx' = avail_idx
    BY <1>2, <1>3, <1>10, Constants DEF Poll, PollEnds
  <2>2. QED
    BY <2>1 DEF SenderInv, InUseAsRead, InUse
<1>11. CASE ComputeSlot(only)
  <2>1. /\ pc[only] = "slot" /\ pc'[only] = "fill" /\ frame' = frame
        /\ idx'[only] = Slot(avail_idx)
        /\ UNCHANGED <<avail_idx, tx_last_used>>
    BY <1>11 DEF ComputeSlot
  <2>2. QED
    BY <2>1 DEF SenderInv, InUseAsRead, Slot
<1>12. CASE FillBuffer(only)
  <2>1. /\ pc[only] = "fill" /\ pc'[only] = "ring" /\ frame' = frame /\ idx' = idx
        /\ tx_buffers' = [tx_buffers EXCEPT ![idx[only]] = frame[only]]
        /\ UNCHANGED <<avail_idx, tx_last_used>>
    BY <1>12 DEF FillBuffer
  <2>2. tx_buffers'[Slot(avail_idx)] = frame[only] /\ idx[only] = Slot(avail_idx)
    BY <1>4, <2>1 DEF SenderInv
  <2>3. QED
    BY <2>1, <2>2 DEF SenderInv, InUseAsRead, Slot
<1>13. CASE WriteRing(only)
  <2>1. /\ pc[only] = "ring" /\ pc'[only] = "publish" /\ frame' = frame /\ idx' = idx
        /\ avail_ring' = [avail_ring EXCEPT ![idx[only]] = idx[only]]
        /\ loaded'[only] = avail_idx
        /\ UNCHANGED <<avail_idx, tx_last_used, tx_buffers>>
    BY <1>13 DEF WriteRing
  <2>2. avail_ring'[Slot(avail_idx)] = Slot(avail_idx) /\ idx[only] = Slot(avail_idx)
    BY <1>4, <2>1 DEF SenderInv
  <2>3. QED
    BY <2>1, <2>2 DEF SenderInv, InUseAsRead, Slot
<1>14. CASE Publish(only)
  <2>1. pc'[only] = "count"
    BY <1>14 DEF Publish
  <2>2. QED
    BY <2>1 DEF SenderInv
<1>15. QED
  BY <1>5, <1>6, <1>7, <1>8, <1>9, <1>10, <1>11, <1>12, <1>13, <1>14 DEF Next, Sender, SendStep

LEMMA RingKept ==
  ASSUME NEW only, Senders = {only}, TxInv, Next
  PROVE  RingInv'
<1>1. /\ TypeOK /\ IndexInv /\ RingInv /\ only \in Senders /\ SenderInv(only)
      /\ avail_idx \in Indices /\ used_idx \in Indices
      /\ InUse \in Nat /\ InUse <= tx_queue_size /\ InUseAsRead \in Nat /\ InUse <= InUseAsRead
  BY DistanceIs, Constants DEF TxInv, TypeOK, IndexInv, InUse, InUseAsRead
<1>2. CASE DevComplete
  <2>1. used_idx' = Inc(used_idx) /\ UNCHANGED <<avail_idx, avail_ring>> /\ used_idx # dev_avail
    BY <1>2 DEF DevComplete, driver
  <2>2. InUse # 0 /\ used_idx # avail_idx
    BY <1>1, <2>1, NoDistance, DistanceIs DEF TypeOK, IndexInv, InUse
  <2>3. InUse' = InUse - 1
    BY <1>1, <2>1, <2>2, StepFrom DEF InUse
  <2>4. ASSUME NEW i \in Indices, Distance(Inc(used_idx), i) < InUse - 1
        PROVE  Distance(used_idx, i) < InUse
    <3>1. CASE i = used_idx
      BY <1>1, <2>2, <3>1, NoDistance
    <3>2. CASE i # used_idx
      BY <1>1, <2>4, <3>2, StepFrom, DistanceIs
    <3>3. QED
      BY <3>1, <3>2
  <2>5. QED
    BY <1>1, <2>1, <2>3, <2>4 DEF RingInv, Slot, Distance
<1>3. CASE WriteRing(only)
  <2>1. /\ avail_ring' = [avail_ring EXCEPT ![idx[only]] = idx[only]]
        /\ UNCHANGED <<used_idx, avail_idx>> /\ idx[only] \in Descs
    BY <1>1, <1>3 DEF WriteRing, device, TypeOK
  <2>2. \A i : avail_ring[Slot(i)] = Slot(i) => avail_ring'[Slot(i)] = Slot(i)
    BY <1>1, <2>1 DEF TypeOK
  <2>3. QED
    BY <1>1, <2>1, <2>2 DEF RingInv, InUse, Slot, Distance
<1>4. CASE Publish(only)
  <2>1. /\ avail_idx' = Inc(avail_idx) /\ UNCHANGED <<used_idx, avail_ring>>
        /\ avail_ring[Slot(avail_idx)] = Slot(avail_idx) /\ InUse < tx_queue_size
    BY <1>1, <1>4, Constants DEF Publish, At, device, SenderInv
  <2>2. InUse' = InUse + 1
    BY <1>1, <2>1, Constants, StepTo DEF InUse
  <2>3. ASSUME NEW i \in Indices, Distance(used_idx, i) < InUse + 1
        PROVE  avail_ring[Slot(i)] = Slot(i)
    <3>1. CASE Distance(used_idx, i) < InUse
      BY <1>1, <3>1 DEF RingInv
    <3>2. CASE Distance(used_idx, i) = InUse
      <4>1. Distance(i, avail_idx) = 0
        BY <1>1, <3>2, Between DEF InUse
      <4>2. i = avail_idx
        BY <1>1, <4>1, NoDistance
      <4>3. QED
        BY <2>1, <4>2
    <3>3. QED
      BY <1>1, <2>3, <3>1, <3>2, DistanceIs
  <2>4. QED
    BY <2>1, <2>2, <2>3 DEF RingInv, Slot, Distance
<1>5. CASE UNCHANGED <<used_idx, avail_idx, avail_ring>>
  BY <1>1, <1>5 DEF RingInv, InUse
<1>6. QED
  BY <1>2, <1>3, <1>4, <1>5
  DEF Next, Device, DevTransmit, DevIdle, IrqTxUsed, Sender, SendStep, Wake, StartSend, CheckSlots,
      Poll, PollEnds, ComputeSlot, FillBuffer, LoadCount, StoreCount, Notify, ResetCount, EndBurst,
      driver, device, locals

\* How a step of the device or of the driver changes the number of frames that wait.
LEMMA WaitingStep ==
  ASSUME NEW only, Senders = {only}, TxInv, Next
  PROVE  /\ Waiting \in Nat /\ Waiting' \in Nat
         /\ Publish(only) => Waiting' = Waiting + 1
         /\ DevTransmit => Waiting' = Waiting - 1
         /\ ~Publish(only) /\ ~DevTransmit => Waiting' = Waiting
<1>1. /\ avail_idx \in Indices /\ dev_avail \in Indices /\ used_idx \in Indices
      /\ avail_idx' \in Indices /\ dev_avail' \in Indices
      /\ IndexInv /\ only \in Senders /\ SenderInv(only)
  BY TypeKept DEF TxInv, TypeOK
<1>2. Waiting \in Nat /\ Waiting' \in Nat
  BY <1>1, DistanceIs DEF Waiting, Distance
<1>3. ASSUME Publish(only)
      PROVE  Waiting' = Waiting + 1
  <2>1. avail_idx' = Inc(avail_idx) /\ dev_avail' = dev_avail
    BY <1>1, <1>3 DEF Publish, At, device, SenderInv
  <2>2. Waiting + 1 < IdxMod
    <3>1. InUseAsRead < tx_queue_size
      BY <1>1, <1>3 DEF Publish, At, SenderInv
    <3>2. Waiting = InUse - Distance(used_idx, dev_avail) /\ Distance(used_idx, dev_avail) \in Nat
      BY <1>1, Between, DistanceIs DEF IndexInv, InUse, Waiting
    <3>3. InUse \in Nat /\ InUseAsRead \in Nat /\ InUse <= InUseAsRead
      BY <1>1, DistanceIs DEF IndexInv, InUse, InUseAsRead, TxInv, TypeOK
    <3>4. QED
      BY <1>2, <3>1, <3>2, <3>3, Constants
  <2>3. QED
    BY <1>1, <2>1, <2>2, StepTo DEF Waiting
<1>4. ASSUME DevTransmit
      PROVE  Waiting' = Waiting - 1
  <2>1. dev_avail' = Inc(dev_avail) /\ avail_idx' = avail_idx /\ dev_avail # avail_idx
    BY <1>4 DEF DevTransmit, driver
  <2>2. QED
    BY <1>1, <2>1, StepFrom DEF Waiting
<1>5. ASSUME ~Publish(only), ~DevTransmit
      PROVE  Waiting' = Waiting
  BY <1>5, IndexStep DEF DevComplete, driver, Waiting
<1>6. QED
  BY <1>2, <1>3, <1>4, <1>5

LEMMA CountKept ==
  ASSUME NEW only, Senders = {only}, TxInv, Next
  PROVE  CountInv(only)'
<1>1. only \in Senders /\ TypeOK /\ CountInv(only)
  BY DEF TxInv
<1>2. Waiting \in Nat /\ Waiting' \in Nat
  BY WaitingStep
<1>3. tx_batch_count \in Nat /\ BATCH_SIZE \in Nat /\ BATCH_SIZE > 0
  BY <1>1, Constants DEF TypeOK
<1>4. CASE DevTransmit
  BY <1>1, <1>4 DEF DevTransmit, driver, locals, CountInv
<1>5. CASE DevComplete
  <2>1. Waiting' = Waiting
    BY <1>5 DEF DevComplete, driver, Waiting
  <2>2. QED
    BY <1>1, <1>5, <2>1 DEF DevComplete, driver, locals, CountInv
<1>6. CASE DevIdle
  <2>1. Waiting' = 0
    BY <1>1, <1>6, NoDistance DEF DevIdle, driver, Waiting, TypeOK
  <2>2. QED
    BY <1>1, <1>3, <1>6, <2>1 DEF DevIdle, driver, locals, CountInv
<1>7. CASE IrqTxUsed
  <2>1. Waiting' = Waiting
    BY <1>7 DEF IrqTxUsed, device, Waiting
  <2>2. QED
    BY <1>1, <1>7, <2>1 DEF IrqTxUsed, device, locals, CountInv
<1> USE <1>1 DEF At, Goto, driver, device, TypeOK
<1>8. ASSUME \/ Wake(only) \/ CheckSlots(only) \/ Poll(only) \/ PollEnds(only) \/ EndBurst(only)
             \/ ComputeSlot(only) \/ FillBuffer(only) \/ WriteRing(only)
             \/ \E f \in Frames : StartSend(only, f)
      PROVE  CountInv(only)'
  <2>1. /\ UNCHANGED <<tx_batch_count, avail_idx, dev_avail, notified>>
        /\ pc[only] \in {"asleep", "burst", "check", "poll", "slot", "fill", "ring"}
        /\ pc'[only] \in {"asleep", "burst", "check", "poll", "slot", "fill", "ring", "publish",
                          "flush"}
        /\ pc'[only] = "asleep" /\ only \in Flushers => tx_batch_count = 0
    BY <1>3, <1>8 DEF Wake, CheckSlots, Poll, PollEnds, EndBurst, ComputeSlot, FillBuffer,
       WriteRing, StartSend
  <2>2. Waiting' = Waiting
    BY <2>1 DEF Waiting
  <2>3. /\ tx_batch_count' < BATCH_SIZE
        /\ ~notified' => Waiting' <= tx_batch_count'
        /\ ~notified' /\ pc'[only] = "asleep" /\ only \in Flushers => Waiting' = 0
    <3>1. tx_batch_count < BATCH_SIZE /\ (~notified => Waiting <= tx_batch_count)
      BY <2>1 DEF CountInv
    <3>2. QED
      BY <1>2, <1>3, <2>1, <2>2, <3>1
  <2>4. QED
    BY <2>1, <2>3 DEF CountInv
<1>9. CASE Publish(only)
  <2>1. /\ pc[only] = "publish" /\ pc'[only] = "count"
        /\ UNCHANGED <<tx_batch_count, notified>> /\ Waiting' = Waiting + 1
    BY <1>9, WaitingStep DEF Publish
  <2>2. QED
    BY <1>2, <1>3, <2>1 DEF CountInv
<1>10. CASE LoadCount(only)
  <2>1. /\ pc[only] = "count" /\ pc'[only] = "counted" /\ loaded'[only] = tx_batch_count
        /\ UNCHANGED <<tx_batch_count, avail_idx, dev_avail, notified>>
    BY <1>10 DEF LoadCount
  <2>2. Waiting' = Waiting
    BY <2>1 DEF Waiting
  <2>3. QED
    BY <2>1, <2>2 DEF CountInv
<1>11. CASE StoreCount(only)
  <2>1. /\ pc[only] = "counted" /\ tx_batch_count' = loaded[only] + 1
        /\ pc'[only] = IF loaded[only] + 1 >= BATCH_SIZE THEN "notify" ELSE "burst"
        /\ UNCHANGED <<avail_idx, dev_avail, notified>>
    BY <1>11 DEF StoreCount
  <2>2. Waiting' = Waiting /\ loaded[only] = tx_batch_count
    BY <2>1 DEF Waiting, CountInv
  <2>3. ~notified' => Waiting' <= tx_batch_count'
    BY <2>1, <2>2 DEF CountInv
  <2>4. pc'[only] # "notify" => tx_batch_count' < BATCH_SIZE
    BY <1>3, <2>1, <2>2
  <2>5. pc'[only] \in {"notify", "burst"}
    BY <2>1
  <2>6. QED
    BY <2>3, <2>4, <2>5 DEF CountInv
<1>12. CASE Notify(only)
  <2>1. /\ pc[only] \in {"notify", "flush"} /\ pc'[only] \in {"reset", "flushed"}
        /\ pc'[only] = "flushed" => pc[only] = "flush"
        /\ notified' = TRUE /\ UNCHANGED tx_batch_count
    BY <1>12 DEF Notify
  <2>2. QED
    BY <2>1 DEF CountInv
<1>13. CASE ResetCount(only)
  <2>1. /\ pc[only] \in {"reset", "flushed"} /\ pc'[only] \in {"burst", "asleep"}
        /\ tx_batch_count' = 0 /\ UNCHANGED <<avail_idx, dev_avail, notified>>
    BY <1>13 DEF ResetCount
  <2>2. Waiting' = Waiting
    BY <2>1 DEF Waiting
  <2>3. QED
    BY <1>2, <1>3, <2>1, <2>2 DEF CountInv
<1>14. QED
  BY <1>4, <1>5, <1>6, <1>7, <1>8, <1>9, <1>10, <1>11, <1>12, <1>13
  DEF Next, Device, Sender, SendStep

LEMMA NextKeepsTxInv ==
  ASSUME NEW only, Senders = {only}
  PROVE  TxInv /\ [Next]_vars => TxInv'
<1>1. ASSUME TxInv, Next
      PROVE  TxInv'
  BY <1>1, TypeKept, IndexKept, SenderKept, RingKept, CountKept DEF TxInv
<1>2. ASSUME TxInv, UNCHANGED vars
      PROVE  TxInv'
  <2>1. UNCHANGED <<avail_idx, avail_ring, tx_buffers, tx_last_used, tx_batch_count, used_idx,
                    dev_avail, notified, wire, pc, frame, idx, loaded>>
    BY <1>2 DEF vars, driver, device, locals
  <2>2. TypeOK' /\ IndexInv' /\ RingInv'
    BY <1>2, <2>1 DEF TxInv, TypeOK, IndexInv, RingInv, InUse, InUseAsRead
  <2>3. \A s \in Senders : SenderInv(s)' /\ CountInv(s)'
    BY <1>2, <2>1 DEF TxInv, SenderInv, CountInv, Waiting, InUseAsRead
  <2>4. QED
    BY <2>2, <2>3 DEF TxInv
<1>3. QED
  BY <1>1, <1>2

LEMMA TxInvariant ==
  ASSUME NEW only, Senders = {only}
  PROVE  Spec => []TxInv
  BY InitTxInv, NextKeepsTxInv, PTL DEF Spec

\* Every variable keeps its type: the indices wrap around, and a batch that one task
\* counts is closed at BATCH_SIZE frames.
THEOREM TypeCorrect ==
  ASSUME NEW only, Senders = {only}
  PROVE  Spec => []TypeOK
<1>1. TxInv => TypeOK
  BY DEF TxInv
<1>2. QED
  BY <1>1, TxInvariant, PTL

\* A frame is never written into a buffer that the device has not given back, although the
\* check of the slots relies on an index of the device that was read earlier.
THEOREM BuffersAreFree ==
  ASSUME NEW only, Senders = {only}
  PROVE  Spec => []FilledIsFree
<1>1. TxInv => FilledIsFree
  <2>1. SUFFICES ASSUME TxInv, NEW s \in Senders, pc[s] \in {"fill", "ring"},
                        NEW k \in 0..(InUse - 1)
                 PROVE  avail_ring[Slot(used_idx + k)] # idx[s]
    BY DEF FilledIsFree, InUse
  <2>2. /\ avail_idx \in Indices /\ used_idx \in Indices /\ tx_last_used \in Indices
        /\ InUse <= InUseAsRead /\ RingInv /\ SenderInv(s)
    BY <2>1 DEF TxInv, TypeOK, IndexInv
  <2>3. /\ InUse \in Nat /\ InUseAsRead \in Nat /\ InUse < IdxMod
        /\ idx[s] = Slot(avail_idx) /\ InUseAsRead < tx_queue_size
    BY <2>1, <2>2, DistanceIs DEF InUse, InUseAsRead, SenderInv
  <2>4. k \in Nat /\ k < InUse /\ k < IdxMod
    BY <2>1, <2>3, Constants
  <2> DEFINE i == Forward(used_idx, k)
  <2>5. i \in Indices /\ Distance(used_idx, i) = k /\ Slot(used_idx + k) = Slot(i)
    BY <2>2, <2>4, ForwardIs, SlotForward
  <2> HIDE DEF i
  <2>6. Distance(i, avail_idx) = InUse - k
    BY <2>2, <2>3, <2>4, <2>5, Between DEF InUse
  <2>7. Slot(i) # Slot(avail_idx)
    BY <2>2, <2>3, <2>4, <2>5, <2>6, SlotsAreApart, Constants
  <2>8. avail_ring[Slot(i)] = Slot(i)
    BY <2>2, <2>4, <2>5 DEF RingInv
  <2>9. QED
    BY <2>3, <2>5, <2>7, <2>8
<1>2. QED
  BY <1>1, TxInvariant, PTL

\* When no send is under way, the frames that the device has not been told of are counted.
THEOREM WaitingStaysCounted ==
  ASSUME NEW only, Senders = {only}
  PROVE  Spec => []WaitingIsCounted
<1>1. TxInv => WaitingIsCounted
  <2>1. SUFFICES ASSUME TxInv, pc[only] \in {"asleep", "burst"}, ~notified
                 PROVE  tx_batch_count >= Waiting
    BY DEF WaitingIsCounted
  <2>2. CountInv(only) /\ tx_batch_count \in Nat /\ Waiting \in Nat
    <3>1. TypeOK /\ CountInv(only)
      BY <2>1 DEF TxInv
    <3>2. Waiting \in Nat
      BY <3>1, DistanceIs DEF TypeOK, Waiting
    <3>3. QED
      BY <3>1, <3>2 DEF TypeOK
  <2>3. QED
    BY <2>1, <2>2 DEF CountInv
<1>2. QED
  BY <1>1, TxInvariant, PTL

\* When a task that flushes after its bursts sleeps, the device knows of every frame.
THEOREM NoFrameIsLeftBehind ==
  ASSUME NEW only, Senders = {only}, Flushers = Senders
  PROVE  Spec => []QuietIsNotified
<1>1. TxInv => QuietIsNotified
  <2>1. SUFFICES ASSUME TxInv, pc[only] = "asleep", ~notified
                 PROVE  ~(Waiting > 0)
    BY DEF QuietIsNotified, AllAsleep
  <2>2. CountInv(only)
    BY <2>1 DEF TxInv
  <2>3. Waiting = 0
    BY <2>1, <2>2 DEF CountInv
  <2>4. QED
    BY <2>3
<1>2. QED
  BY <1>1, TxInvariant, PTL

-----------------------------------------------------------------------------
(***************************************************************************)
(* The path is a FIFO queue.                                               *)
(***************************************************************************)
LEMMA AppendIs ==
  ASSUME NEW S, NEW q \in Seq(S), NEW e \in S, NEW r \in Seq(S),
         Len(r) = Len(q) + 1, r[Len(q) + 1] = e, \A i \in 1..Len(q) : r[i] = q[i]
  PROVE  r = Append(q, e)
<1>1. /\ Append(q, e) \in Seq(S) /\ Len(Append(q, e)) = Len(q) + 1
      /\ \A i \in 1..Len(q) : Append(q, e)[i] = q[i]
      /\ Append(q, e)[Len(q) + 1] = e
  BY AppendProperties
<1>2. Len(q) \in Nat
  BY LenProperties
<1>3. \A i \in 1..Len(r) : r[i] = Append(q, e)[i]
  BY <1>1, <1>2
<1>4. QED
  BY <1>1, <1>3, SeqEqual

LEMMA TailIs ==
  ASSUME NEW S, NEW q \in Seq(S), q # <<>>, NEW r \in Seq(S),
         Len(r) = Len(q) - 1, \A i \in 1..Len(r) : r[i] = q[i + 1]
  PROVE  r = Tail(q)
<1>1. /\ Tail(q) \in Seq(S) /\ Len(Tail(q)) = Len(q) - 1
      /\ \A i \in 1..Len(Tail(q)) : Tail(q)[i] = q[i + 1]
  BY HeadTailProperties
<1>2. QED
  BY <1>1, SeqEqual

Waits(k) == tx_buffers[Slot(Forward(dev_avail, k - 1))]

\* The frames that wait are in the buffers that the indices name.
QueueInBuffers ==
  /\ Queue \in Seq(Frames \cup {Nothing})
  /\ Len(Queue) = Waiting
  /\ \A k \in 1..Waiting : Queue[k] = Waits(k)
  /\ Waiting <= InUse

LEMMA QueueIs == TxInv => QueueInBuffers
<1> SUFFICES ASSUME TxInv PROVE QueueInBuffers
  OBVIOUS
<1>1. /\ TypeOK /\ avail_idx \in Indices /\ dev_avail \in Indices /\ used_idx \in Indices
      /\ RingInv /\ Distance(used_idx, dev_avail) <= InUse
  BY DEF TxInv, TypeOK, IndexInv
<1>2. /\ Waiting \in Nat /\ InUse \in Nat /\ Distance(used_idx, dev_avail) \in Nat
      /\ Waiting = InUse - Distance(used_idx, dev_avail) /\ Waiting < IdxMod
  BY <1>1, Between, DistanceIs DEF Waiting, InUse
<1>3. ASSUME NEW k \in 1..Waiting
      PROVE  /\ avail_ring[Slot(dev_avail + k - 1)] = Slot(Forward(dev_avail, k - 1))
             /\ Slot(Forward(dev_avail, k - 1)) \in Descs
  <2> DEFINE i == Forward(dev_avail, k - 1)
  <2>1. k - 1 \in Nat /\ k - 1 < IdxMod /\ dev_avail + k - 1 = dev_avail + (k - 1)
    BY <1>1, <1>2, IndexIs, Constants
  <2>2. i \in Indices /\ Distance(dev_avail, i) = k - 1 /\ Slot(dev_avail + k - 1) = Slot(i)
    BY <1>1, <2>1, ForwardIs, SlotForward
  <2> HIDE DEF i
  <2>3. Distance(used_idx, i) < InUse
    <3>1. /\ used_idx \in Nat /\ used_idx < IdxMod /\ dev_avail \in Nat /\ dev_avail < IdxMod
          /\ i \in Nat /\ i < IdxMod /\ IdxMod \in Nat /\ InUse < IdxMod
      BY <1>1, <2>2, IndexIs, Constants, DistanceIs DEF InUse
    <3>2. /\ used_idx <= dev_avail => Distance(used_idx, dev_avail) = dev_avail - used_idx
          /\ dev_avail < used_idx => Distance(used_idx, dev_avail) = dev_avail - used_idx + IdxMod
          /\ used_idx <= i => Distance(used_idx, i) = i - used_idx
          /\ i < used_idx => Distance(used_idx, i) = i - used_idx + IdxMod
          /\ dev_avail <= i => Distance(dev_avail, i) = i - dev_avail
          /\ i < dev_avail => Distance(dev_avail, i) = i - dev_avail + IdxMod
      BY <1>1, <2>2, DistanceIs
    <3>3. QED
      BY <1>2, <2>1, <2>2, <3>1, <3>2
  <2>4. avail_ring[Slot(i)] = Slot(i)
    BY <1>1, <2>2, <2>3 DEF RingInv
  <2>5. Slot(i) \in Descs
    BY <2>2, SlotIs, IndexIs
  <2>6. QED
    BY <2>2, <2>4, <2>5 DEF i
<1>4. \A k \in 1..Waiting : Queue[k] = Waits(k) /\ Queue[k] \in Frames \cup {Nothing}
  BY <1>1, <1>3 DEF Queue, Waits, TypeOK
<1>5. Queue \in [1..Waiting -> Frames \cup {Nothing}]
  BY <1>4 DEF Queue
<1>6. Queue \in Seq(Frames \cup {Nothing}) /\ Len(Queue) = Waiting
  BY <1>2, <1>5, SeqDef
<1>7. QED
  BY <1>2, <1>4, <1>6 DEF QueueInBuffers

LEMMA QueueIsNext == (TxInv => QueueInBuffers)'
  BY QueueIs, PTL

Sending == {"check", "poll", "slot", "fill", "ring", "publish"}

LEMMA OfferedIs ==
  ASSUME NEW only, Senders = {only}
  PROVE  /\ Offered = IF pc[only] \in Sending THEN frame[only] ELSE Nothing
         /\ Offered' = IF pc'[only] \in Sending THEN frame'[only] ELSE Nothing
<1>1. ASSUME NEW M, M = {s \in Senders : pc[s] \in Sending}
      PROVE  /\ pc[only] \in Sending => M # {} /\ (CHOOSE s \in M : TRUE) = only
             /\ pc[only] \notin Sending => M = {}
  BY <1>1
<1>2. ASSUME NEW M, M = {s \in Senders : pc'[s] \in Sending}
      PROVE  /\ pc'[only] \in Sending => M # {} /\ (CHOOSE s \in M : TRUE) = only
             /\ pc'[only] \notin Sending => M = {}
  BY <1>2
<1>3. Offered = IF pc[only] \in Sending THEN frame[only] ELSE Nothing
  BY <1>1 DEF Offered, Sending
<1>4. Offered' = IF pc'[only] \in Sending THEN frame'[only] ELSE Nothing
  BY <1>2 DEF Offered, Sending
<1>5. QED
  BY <1>3, <1>4

\* A frame that waits is in another buffer than the one that is filled.
LEMMA OthersWait ==
  ASSUME TxInv, NEW k \in 1..Waiting, InUse < tx_queue_size
  PROVE  Slot(Forward(dev_avail, k - 1)) # Slot(avail_idx)
<1> DEFINE i == Forward(dev_avail, k - 1)
<1>1. /\ avail_idx \in Indices /\ dev_avail \in Indices /\ IdxMod \in Nat
      /\ Waiting \in Nat /\ Waiting <= InUse /\ Waiting < IdxMod
      /\ InUse \in Nat /\ tx_queue_size \in Nat
  BY DistanceIs, QueueIs, Constants DEF QueueInBuffers, TxInv, TypeOK, Waiting, InUse
<1>2. k - 1 \in Nat /\ k - 1 < IdxMod
  BY <1>1
<1>3. i \in Indices /\ Distance(dev_avail, i) = k - 1
  BY <1>1, <1>2, ForwardIs
<1> HIDE DEF i
<1>4. Distance(i, avail_idx) = Waiting - (k - 1)
  BY <1>1, <1>2, <1>3, Between DEF Waiting
<1>5. Slot(i) # Slot(avail_idx)
  BY <1>1, <1>2, <1>3, <1>4, SlotsAreApart
<1>6. QED
  BY <1>5 DEF i

LEMMA QueueStep ==
  ASSUME NEW only, Senders = {only}, TxInv, Next
  PROVE  /\ ~Publish(only) /\ ~DevTransmit => Queue' = Queue
         /\ Publish(only) =>
              Len(Queue) < tx_queue_size /\ Queue' = Append(Queue, frame[only])
         /\ DevTransmit => Queue # <<>> /\ wire' = Head(Queue) /\ Queue' = Tail(Queue)
<1>1. TxInv'
  BY NextKeepsTxInv
<1>2. QueueInBuffers /\ QueueInBuffers'
  BY <1>1, QueueIs, QueueIsNext
<1> DEFINE S == Frames \cup {Nothing}
<1>3. /\ Queue \in Seq(S) /\ Len(Queue) = Waiting /\ \A k \in 1..Waiting : Queue[k] = Waits(k)
      /\ Queue' \in Seq(S) /\ Len(Queue') = Waiting'
      /\ \A k \in 1..Waiting' : Queue'[k] = Waits(k)'
      /\ Waiting <= InUse
  BY <1>2 DEF QueueInBuffers
<1>4. /\ TypeOK /\ only \in Senders /\ SenderInv(only) /\ IndexInv
      /\ avail_idx \in Indices /\ dev_avail \in Indices /\ IdxMod \in Nat
      /\ Waiting \in Nat /\ Waiting' \in Nat /\ Waiting < IdxMod
      /\ InUse \in Nat /\ tx_queue_size \in Nat /\ tx_queue_size < IdxMod
  BY DistanceIs, Constants, WaitingStep DEF TxInv, TypeOK, Waiting, InUse
<1>5. pc[only] \in {"slot", "fill", "ring", "publish"} => InUse < tx_queue_size
  BY <1>4, DistanceIs DEF SenderInv, IndexInv, InUse, InUseAsRead, TypeOK
<1>6. ASSUME ~Publish(only), ~DevTransmit
      PROVE  Queue' = Queue
  <2>1. Waiting' = Waiting
    BY <1>6, WaitingStep
  <2>2. dev_avail' = dev_avail
    BY <1>6, IndexStep DEF DevComplete
  <2>3. ASSUME NEW k \in 1..Waiting
        PROVE  Waits(k)' = Waits(k)
    <3>1. CASE FillBuffer(only)
      <4>1. /\ tx_buffers' = [tx_buffers EXCEPT ![idx[only]] = frame[only]]
            /\ idx[only] = Slot(avail_idx) /\ InUse < tx_queue_size
        BY <1>4, <1>5, <3>1 DEF FillBuffer, At, SenderInv
      <4>2. Slot(Forward(dev_avail, k - 1)) # idx[only]
        BY <4>1, OthersWait
      <4>3. tx_buffers'[Slot(Forward(dev_avail, k - 1))]
              = tx_buffers[Slot(Forward(dev_avail, k - 1))]
        BY <1>4, <4>1, <4>2 DEF TypeOK
      <4>4. QED
        BY <2>2, <4>3 DEF Waits, Slot, Forward
    <3>2. CASE UNCHANGED tx_buffers
      BY <2>2, <3>2 DEF Waits, Slot, Forward
    <3>3. QED
      BY <1>6, <3>1, <3>2
      DEF Next, Device, DevComplete, DevIdle, IrqTxUsed, Sender, SendStep, Wake, StartSend,
          CheckSlots, Poll, PollEnds, ComputeSlot, WriteRing, LoadCount, StoreCount, Notify,
          ResetCount, EndBurst, driver, device, locals
  <2>4. QED
    BY <1>3, <2>1, <2>3, SeqEqual
<1>7. ASSUME Publish(only)
      PROVE  Len(Queue) < tx_queue_size /\ Queue' = Append(Queue, frame[only])
  <2>1. /\ pc[only] = "publish" /\ UNCHANGED <<dev_avail, tx_buffers>>
        /\ Waiting' = Waiting + 1
        /\ tx_buffers[Slot(avail_idx)] = frame[only] /\ InUse < tx_queue_size
    BY <1>4, <1>5, <1>7, WaitingStep DEF Publish, At, device, SenderInv
  <2>2. \A k : Waits(k)' = Waits(k)
    BY <2>1 DEF Waits, Slot, Forward
  <2>3. Waits(Waiting + 1) = frame[only]
    <3>1. /\ Forward(dev_avail, Waiting) \in Indices
          /\ Distance(dev_avail, Forward(dev_avail, Waiting)) = Waiting
      BY <1>4, ForwardIs
    <3>2. Distance(Forward(dev_avail, Waiting), avail_idx) = 0
      BY <1>4, <3>1, Between DEF Waiting
    <3>3. Forward(dev_avail, Waiting) = avail_idx
      BY <1>4, <3>1, <3>2, NoDistance
    <3>4. ASSUME NEW k, k = Waiting + 1
          PROVE  Waits(k) = frame[only]
      <4>1. k - 1 = Waiting
        BY <1>4, <3>4
      <4>2. QED
        BY <2>1, <3>3, <4>1 DEF Waits
    <3>5. QED
      BY <3>4
  <2>4. frame[only] \in S
    BY <1>4 DEF TypeOK
  <2>5. /\ Len(Queue') = Len(Queue) + 1 /\ Queue'[Len(Queue) + 1] = frame[only]
        /\ \A k \in 1..Len(Queue) : Queue'[k] = Queue[k]
    BY <1>3, <1>4, <2>1, <2>2, <2>3
  <2>6. Queue' = Append(Queue, frame[only])
    BY <1>3, <2>4, <2>5, AppendIs
  <2>7. QED
    BY <1>3, <1>4, <2>1, <2>6
<1>8. ASSUME DevTransmit
      PROVE  Queue # <<>> /\ wire' = Head(Queue) /\ Queue' = Tail(Queue)
  <2>1. /\ dev_avail' = Inc(dev_avail) /\ dev_avail # avail_idx /\ UNCHANGED tx_buffers
        /\ wire' = tx_buffers[avail_ring[Slot(dev_avail)]]
        /\ Waiting' = Waiting - 1
    BY <1>8, WaitingStep DEF DevTransmit, driver
  <2>2. Waiting >= 1
    BY <1>4, <2>1
  <2>3. Queue # <<>> /\ Head(Queue) = Queue[1]
    BY <1>3, <2>2, EmptySeq
  <2>4. Queue[1] = wire'
    BY <1>4, <2>1, <2>2, IndexIs DEF Queue
  <2>5. ASSUME NEW k \in 1..Waiting'
        PROVE  Queue'[k] = Queue[k + 1]
    <3>1. Waits(k)' = tx_buffers[Slot(Forward(Inc(dev_avail), k - 1))]
      BY <2>1 DEF Waits, Slot, Forward
    <3>2. /\ k - 1 \in Nat /\ k - 1 + 1 < IdxMod /\ k - 1 + 1 = k + 1 - 1
          /\ k + 1 \in 1..Waiting
      BY <1>4, <2>1
    <3>3. Forward(Inc(dev_avail), k - 1) = Forward(dev_avail, k + 1 - 1)
      BY <1>4, <3>2, ForwardInc
    <3>4. QED
      BY <1>3, <3>1, <3>2, <3>3 DEF Waits
  <2>6. Queue' = Tail(Queue)
    BY <1>3, <2>1, <2>3, <2>5, TailIs
  <2>7. QED
    BY <2>3, <2>4, <2>6
<1>9. QED
  BY <1>6, <1>7, <1>8

LEMMA InitFifo ==
  ASSUME NEW only, Senders = {only}
  PROVE  Init => Fifo!Init
<1> SUFFICES ASSUME Init PROVE Fifo!Init
  OBVIOUS
<1>1. Offered = Nothing
  BY OfferedIs DEF Init, Sending
<1>2. Queue = <<>>
  <2>1. QueueInBuffers /\ Waiting = 0
    BY InitTxInv, QueueIs, NoDistance, Constants, IsIndex DEF Init, Waiting
  <2>2. QED
    BY <2>1, EmptySeq DEF QueueInBuffers
<1>3. QED
  BY <1>1, <1>2 DEF Init, Fifo!Init

LEMMA NextFifo ==
  ASSUME NEW only, Senders = {only}, TxInv, Next
  PROVE  Fifo!Next \/ UNCHANGED <<Offered, Queue, wire>>
<1>1. /\ TypeOK /\ only \in Senders /\ SenderInv(only) /\ Nothing \notin Frames
      /\ DOMAIN pc = Senders /\ DOMAIN frame = Senders
  BY TxAssumption DEF TxInv, TypeOK
<1>2. /\ Offered = IF pc[only] \in Sending THEN frame[only] ELSE Nothing
      /\ Offered' = IF pc'[only] \in Sending THEN frame'[only] ELSE Nothing
  BY OfferedIs
<1>3. CASE DevTransmit
  <2>1. Queue # <<>> /\ wire' = Head(Queue) /\ Queue' = Tail(Queue)
    BY <1>3, QueueStep
  <2>2. Offered' = Offered
    BY <1>2, <1>3 DEF DevTransmit, locals
  <2>3. QED
    BY <2>1, <2>2 DEF Fifo!Next, Fifo!Transmit
<1>4. CASE Publish(only)
  <2>1. Len(Queue) < tx_queue_size /\ Queue' = Append(Queue, frame[only])
    BY <1>4, QueueStep
  <2>2. pc[only] = "publish" /\ pc'[only] = "count" /\ wire' = wire
    BY <1>1, <1>4 DEF Publish, At, Goto, device
  <2>3. Offered = frame[only] /\ Offered # Nothing /\ Offered' = Nothing
    BY <1>1, <1>2, <2>2 DEF SenderInv, Sending
  <2>4. QED
    BY <2>1, <2>2, <2>3 DEF Fifo!Next, Fifo!Accept
<1>5. CASE ~DevTransmit /\ ~Publish(only)
  <2>1. Queue' = Queue
    BY <1>5, QueueStep
  <2>2. wire' = wire
    BY <1>5 DEF Next, Device, DevComplete, DevIdle, IrqTxUsed, Sender, SendStep, Wake, StartSend,
       CheckSlots, Poll, PollEnds, ComputeSlot, FillBuffer, WriteRing, LoadCount, StoreCount,
       Notify, ResetCount, EndBurst, device
  <2>3. ASSUME NEW f \in Frames, StartSend(only, f)
        PROVE  Fifo!Offer(f)
    <3>1. pc[only] = "burst" /\ pc'[only] = "check" /\ frame'[only] = f
      BY <1>1, <2>3 DEF StartSend, At, Goto
    <3>2. Offered = Nothing /\ Offered' = f
      BY <1>2, <3>1 DEF Sending
    <3>3. QED
      BY <2>1, <2>2, <3>2 DEF Fifo!Offer
  <2>4. CASE PollEnds(only)
    <3>1. /\ pc[only] = "poll" /\ pc'[only] \in {"burst", "slot"} /\ frame' = frame
      BY <1>1, <2>4 DEF PollEnds, At, Goto
    <3>2. Offered = frame[only] /\ Offered # Nothing /\ Offered' \in {frame[only], Nothing}
      BY <1>1, <1>2, <3>1 DEF SenderInv, Sending
    <3>3. QED
      BY <2>1, <2>2, <3>2 DEF Fifo!Next, Fifo!Refuse
  <2>5. CASE CheckSlots(only) \/ Poll(only) \/ ComputeSlot(only) \/ FillBuffer(only)
             \/ WriteRing(only)
    <3>1. /\ pc[only] \in Sending /\ pc'[only] \in Sending /\ frame' = frame
      BY <1>1, <2>5 DEF CheckSlots, Poll, ComputeSlot, FillBuffer, WriteRing, At, Goto, Sending
    <3>2. QED
      BY <1>2, <2>1, <2>2, <3>1
  <2>6. CASE Wake(only) \/ LoadCount(only) \/ StoreCount(only) \/ Notify(only)
             \/ ResetCount(only) \/ EndBurst(only)
    <3>1. /\ pc[only] \notin Sending /\ pc'[only] \notin Sending
      BY <1>1, <2>6 DEF Wake, LoadCount, StoreCount, Notify, ResetCount, EndBurst, At, Goto, Sending
    <3>2. QED
      BY <1>2, <2>1, <2>2, <3>1
  <2>7. CASE UNCHANGED <<pc, frame>>
    BY <1>2, <2>1, <2>2, <2>7
  <2>8. QED
    BY <1>5, <2>3, <2>4, <2>5, <2>6, <2>7
    DEF Next, Device, DevComplete, DevIdle, IrqTxUsed, Sender, SendStep, locals, Fifo!Next
<1>6. QED
  BY <1>3, <1>4, <1>5

\* A frame that the driver accepts goes out once, unchanged and after the frames accepted
\* before it; a frame that it refuses never does.
THEOREM FramesGoOutInOrder ==
  ASSUME NEW only, Senders = {only}
  PROVE  Spec => ImplementsTxFifo
<1>1. Init => TxInv /\ Fifo!Init
  BY InitTxInv, InitFifo
<1>2. TxInv /\ [Next]_vars => TxInv'
  BY NextKeepsTxInv
<1>3. TxInv /\ [Next]_vars => [Fifo!Next]_<<Offered, Queue, wire>>
  <2>1. UNCHANGED vars => UNCHANGED <<Offered, Queue, wire>>
    BY DEF vars, driver, device, locals, Offered, Queue, Waiting
  <2>2. QED
    BY <2>1, NextFifo
<1>4. QED
  BY <1>1, <1>2, <1>3, PTL DEF Spec, ImplementsTxFifo, Fifo!Spec

=============================================================================
