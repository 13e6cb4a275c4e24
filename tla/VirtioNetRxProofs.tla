-------------------------- MODULE VirtioNetRxProofs -------------------------
(***************************************************************************)
(* Proofs about VirtioNetRx for queues of any size, any frames, any width  *)
(* of the indices and both kinds of reader.                                *)
(***************************************************************************)
EXTENDS VirtioNetRx, SequenceTheorems, FiniteSetTheorems, TLAPS

-----------------------------------------------------------------------------
(***************************************************************************)
(* The inductive invariant: descriptors are conserved, the queues are where*)
(* their indices say, the buffers on the way to the task hold frames, and  *)
(* a task that gives up is woken.                                          *)
(***************************************************************************)
Distance(from, to) == (to - from) % IdxMod

Given == Distance(dev_avail, avail_idx)
Used == Distance(rx_last_used, used_idx)

Holding == task \in {"copy", "refill", "publish"}

\* The descriptor that the task works on, when no queue has it.
Held == IF Holding THEN {desc_id} ELSE {}

SizeInv ==
  Given + Used + count + (IF Holding THEN 1 ELSE 0) = queue_size

CoverInv ==
  Range(GivenToDevice) \cup Range(Filled) \cup Range(Completed)
    \cup Held = Descs

QueueInv ==
  /\ tail = (head + count) % queue_size
  /\ task = "process" => count > 0 /\ g_rx_completions[head] = desc_id
  /\ task = "publish" => avail_ring[Slot(avail_idx)] = desc_id

\* The buffers that hold frames on their way to the task.
InUse == Range(Filled) \cup Range(Completed) \cup (IF task = "copy" THEN {desc_id} ELSE {})

BufferInv == \A d \in InUse : rx_buffers[d] \in Frames

Drained == count = 0 \/ rx_buffers[g_rx_completions[head]] \in Runts

\* The handler has found something and not come to its end.
ToBePosted == isr = "scan" /\ enqueued

SleepInv ==
  reader = "net_rx_task" =>
    /\ task \in {"flush", "pend"} => Drained \/ ToBePosted \/ rx_sem > 0
    /\ task = "waiting" => Drained \/ ToBePosted
    /\ task \in {"pend", "waiting"} => (stalled => dev_avail = avail_idx)

RxInv == TypeOK /\ SizeInv /\ CoverInv /\ QueueInv /\ BufferInv /\ SleepInv

-----------------------------------------------------------------------------
(***************************************************************************)
(* Facts about the indices and the slots.                                  *)
(***************************************************************************)
LEMMA Constants ==
  /\ IdxMod \in Nat /\ queue_size \in Nat /\ queue_size > 0 /\ IdxMod > queue_size
  /\ SEM_MAX \in Nat /\ SEM_MAX > 0
  BY RxAssumption

LEMMA IndexIs ==
  ASSUME NEW i \in Indices
  PROVE  i \in Nat /\ i < IdxMod
  BY Constants DEF Indices

LEMMA IsIndex ==
  ASSUME NEW i \in Nat, i < IdxMod
  PROVE  i \in Indices
  BY Constants DEF Indices

LEMMA DistanceIs ==
  ASSUME NEW a \in Indices, NEW b \in Indices
  PROVE  /\ a <= b => Distance(a, b) = b - a
         /\ b < a => Distance(a, b) = b - a + IdxMod
         /\ Distance(a, b) \in Nat /\ Distance(a, b) < IdxMod
<1>1. a \in Nat /\ b \in Nat /\ a < IdxMod /\ b < IdxMod /\ IdxMod \in Nat \ {0} /\ b - a \in Int
  BY Constants, IndexIs
<1>2. a <= b => Distance(a, b) = b - a
  BY <1>1 DEF Distance
<1>3. b < a => Distance(a, b) = b - a + IdxMod
  BY <1>1 DEF Distance
<1>4. QED
  BY <1>1, <1>2, <1>3

LEMMA IncIs ==
  ASSUME NEW a \in Indices
  PROVE  /\ a + 1 < IdxMod => Inc(a) = a + 1
         /\ a + 1 = IdxMod => Inc(a) = 0
         /\ Inc(a) \in Indices
<1>1. a \in Nat /\ a < IdxMod /\ IdxMod \in Nat \ {0} /\ a + 1 \in Int
  BY Constants, IndexIs
<1>2. a + 1 < IdxMod => Inc(a) = a + 1
  BY <1>1 DEF Inc
<1>3. a + 1 = IdxMod => Inc(a) = 0
  <2>1. IdxMod % IdxMod = 0
    BY <1>1
  <2>2. QED
    BY <2>1 DEF Inc
<1>4. Inc(a) \in Indices
  BY <1>1, <1>2, <1>3, IsIndex
<1>5. QED
  BY <1>2, <1>3, <1>4

LEMMA Division ==
  ASSUME NEW a \in Nat, NEW t \in Nat \ {0}
  PROVE  /\ a \div t \in Nat /\ a % t \in Nat /\ a % t < t
         /\ a = t * (a \div t) + (a % t)
  OBVIOUS

LEMMA Remainder ==
  ASSUME NEW t \in Nat \ {0}, NEW q \in Nat, NEW r \in Nat, r < t
  PROVE  (t * q + r) % t = r
  OBVIOUS

LEMMA Apart ==
  ASSUME NEW t \in Nat \ {0}, NEW q \in Int, NEW d \in Int, 0 < d, d < t
  PROVE  t * q # d
<1>1. \A k \in Nat : t * k \in Nat
  OBVIOUS
<1>2. CASE q <= 0
  <2>1. t * q = - (t * (0 - q)) /\ t * (0 - q) \in Nat
    BY <1>1, <1>2
  <2>2. QED
    BY <2>1
<1>3. CASE q >= 1
  <2>1. t * q = t * (q - 1) + t /\ t * (q - 1) \in Nat
    BY <1>1, <1>3
  <2>2. QED
    BY <2>1
<1>4. QED
  BY <1>2, <1>3

LEMMA SlotIs ==
  /\ \A i \in Nat : Slot(i) \in Descs /\ Slot(i) \in Nat
  /\ \A i, k \in Nat : Slot(Slot(i) + k) = Slot(i + k)
  /\ \A i \in Nat : Slot(i + IdxMod) = Slot(i)
  /\ \A i, j \in Nat : i < j /\ j < i + queue_size => Slot(i) # Slot(j)
<1> DEFINE t == queue_size
<1>1. t \in Nat \ {0} /\ IdxMod \in Nat /\ IdxMod % t = 0
  BY RxAssumption
<1>2. \A i \in Nat : i \div t \in Nat /\ Slot(i) \in Nat /\ Slot(i) < t
                     /\ i = t * (i \div t) + Slot(i)
  BY <1>1, Division DEF Slot
<1>3. \A i \in Nat : Slot(i) \in Descs /\ Slot(i) \in Nat
  BY <1>1, <1>2 DEF Descs
<1>4. ASSUME NEW p \in Nat, NEW i \in Nat
      PROVE  Slot(t * p + i) = Slot(i)
  <2> DEFINE q == i \div t
  <2>1. q \in Nat /\ i = t * q + Slot(i) /\ Slot(i) \in Nat /\ Slot(i) < t
    BY <1>2
  <2> HIDE DEF q
  <2>2. t * p + t * q = t * (p + q) /\ t * p \in Nat /\ t * q \in Nat /\ p + q \in Nat
    BY <1>1, <2>1
  <2>3. t * p + i = t * (p + q) + Slot(i)
    BY <2>1, <2>2
  <2>4. (t * (p + q) + Slot(i)) % t = Slot(i)
    BY <1>1, <2>1, <2>2, Remainder
  <2>5. QED
    BY <2>3, <2>4 DEF Slot
<1>5. ASSUME NEW i \in Nat, NEW k \in Nat
      PROVE  Slot(Slot(i) + k) = Slot(i + k)
  <2> DEFINE q == i \div t
  <2>1. q \in Nat /\ i = t * q + Slot(i) /\ Slot(i) \in Nat
    BY <1>2
  <2> HIDE DEF q
  <2>2. Slot(t * q + (Slot(i) + k)) = Slot(Slot(i) + k)
    BY <1>4, <2>1
  <2>3. t * q \in Nat
    BY <1>1, <2>1
  <2>4. i + k = t * q + (Slot(i) + k)
    BY <2>1, <2>3
  <2>5. QED
    BY <2>2, <2>4
<1>6. ASSUME NEW i \in Nat
      PROVE  Slot(i + IdxMod) = Slot(i)
  <2> DEFINE p == IdxMod \div t
             r == IdxMod % t
  <2>1. p \in Nat /\ IdxMod = t * p + r /\ r = 0
    BY <1>1, Division
  <2> HIDE DEF p, r
  <2>2. t * p \in Nat
    BY <1>1, <2>1
  <2>3. i + IdxMod = t * p + i
    BY <2>1, <2>2
  <2>4. QED
    BY <1>4, <2>1, <2>3
<1>7. ASSUME NEW i \in Nat, NEW j \in Nat, i < j, j < i + t, Slot(i) = Slot(j)
      PROVE  FALSE
  <2> DEFINE q == j \div t
             p == i \div t
  <2>1. q \in Nat /\ p \in Nat /\ j = t * q + Slot(j) /\ i = t * p + Slot(i)
    BY <1>2
  <2> HIDE DEF q, p
  <2>2. t * (q - p) = t * q - t * p
    BY <1>1, <2>1
  <2>3. j - i = t * (q - p)
    <3>1. t * q \in Nat /\ t * p \in Nat /\ Slot(i) \in Nat /\ Slot(i) = Slot(j)
      BY <1>1, <1>2, <1>7, <2>1
    <3>2. QED
      BY <2>1, <2>2, <3>1
  <2>4. QED
    BY <1>1, <1>7, <2>1, <2>3, Apart
<1>8. QED
  BY <1>3, <1>5, <1>6, <1>7

LEMMA SlotOfDesc ==
  ASSUME NEW i \in Descs
  PROVE  Slot(i) = i
  BY Constants DEF Slot, Descs

LEMMA SlotInc ==
  ASSUME NEW i \in Indices, NEW k \in Nat
  PROVE  Slot(Inc(i) + k) = Slot(i + 1 + k)
<1>1. i \in Nat /\ i < IdxMod /\ IdxMod \in Nat
  BY Constants, IndexIs
<1>2. CASE i + 1 < IdxMod
  BY <1>1, <1>2, IncIs
<1>3. CASE i + 1 = IdxMod
  <2>1. Inc(i) = 0 /\ 0 + k = k /\ i + 1 + k = k + IdxMod
    BY <1>1, <1>3, IncIs
  <2>2. QED
    BY <2>1, SlotIs
<1>4. QED
  BY <1>1, <1>2, <1>3

LEMMA SlotEnd ==
  ASSUME NEW i \in Indices, NEW j \in Indices
  PROVE  Slot(i + Distance(i, j)) = Slot(j)
<1>1. i \in Nat /\ i < IdxMod /\ j \in Nat /\ j < IdxMod /\ IdxMod \in Nat
  BY Constants, IndexIs
<1>2. CASE i <= j
  <2>1. i + Distance(i, j) = j
    BY <1>1, <1>2, DistanceIs
  <2>2. QED
    BY <2>1
<1>3. CASE j < i
  <2>1. i + Distance(i, j) = j + IdxMod
    BY <1>1, <1>3, DistanceIs
  <2>2. QED
    BY <1>1, <2>1, SlotIs
<1>4. QED
  BY <1>1, <1>2, <1>3

LEMMA NoDistance ==
  ASSUME NEW a \in Indices, NEW b \in Indices
  PROVE  Distance(a, b) = 0 <=> a = b
  BY DistanceIs, IndexIs, Constants

LEMMA StepTo ==
  ASSUME NEW a \in Indices, NEW b \in Indices, Distance(a, b) + 1 < IdxMod
  PROVE  Distance(a, Inc(b)) = Distance(a, b) + 1
<1>1. a \in Nat /\ a < IdxMod /\ b \in Nat /\ b < IdxMod /\ IdxMod \in Nat
  BY Constants, IndexIs
<1>2. /\ b + 1 < IdxMod => Inc(b) = b + 1
      /\ b + 1 = IdxMod => Inc(b) = 0
      /\ Inc(b) \in Indices
  BY IncIs
<1>3. /\ a <= Inc(b) => Distance(a, Inc(b)) = Inc(b) - a
      /\ Inc(b) < a => Distance(a, Inc(b)) = Inc(b) - a + IdxMod
  BY <1>2, DistanceIs
<1>4. /\ a <= b => Distance(a, b) = b - a
      /\ b < a => Distance(a, b) = b - a + IdxMod
  BY DistanceIs
<1>5. QED
  BY <1>1, <1>2, <1>3, <1>4

LEMMA StepFrom ==
  ASSUME NEW a \in Indices, NEW b \in Indices, a # b
  PROVE  Distance(Inc(a), b) = Distance(a, b) - 1
<1>1. a \in Nat /\ a < IdxMod /\ b \in Nat /\ b < IdxMod /\ IdxMod \in Nat
  BY Constants, IndexIs
<1>2. /\ a + 1 < IdxMod => Inc(a) = a + 1
      /\ a + 1 = IdxMod => Inc(a) = 0
      /\ Inc(a) \in Indices
  BY IncIs
<1>3. /\ Inc(a) <= b => Distance(Inc(a), b) = b - Inc(a)
      /\ b < Inc(a) => Distance(Inc(a), b) = b - Inc(a) + IdxMod
  BY <1>2, DistanceIs
<1>4. /\ a <= b => Distance(a, b) = b - a
      /\ b < a => Distance(a, b) = b - a + IdxMod
  BY DistanceIs
<1>5. QED
  BY <1>1, <1>2, <1>3, <1>4

-----------------------------------------------------------------------------
(***************************************************************************)
(* A queue in a ring: n entries from place h on.                           *)
(***************************************************************************)
Ring(r, h, n) == [k \in 1..n |-> r[Slot(h + k - 1)]]

LEMMA RingIs ==
  ASSUME NEW r \in [Descs -> Descs], NEW h \in Nat, NEW n \in Nat
  PROVE  /\ Ring(r, h, n) \in Seq(Descs) /\ Len(Ring(r, h, n)) = n
         /\ \A k \in 1..n : Ring(r, h, n)[k] = r[Slot(h + k - 1)]
<1>1. ASSUME NEW k \in 1..n
      PROVE  r[Slot(h + k - 1)] \in Descs
  <2>1. h + k - 1 \in Nat
    OBVIOUS
  <2>2. QED
    BY <2>1, SlotIs
<1>2. Ring(r, h, n) \in [1..n -> Descs]
  BY <1>1 DEF Ring
<1>3. Ring(r, h, n) \in Seq(Descs) /\ Len(Ring(r, h, n)) = n
  BY <1>2, SeqDef
<1>4. QED
  BY <1>3 DEF Ring

LEMMA AppendIs ==
  ASSUME NEW S, NEW q \in Seq(S), NEW e \in S, NEW r \in Seq(S),
         Len(r) = Len(q) + 1, r[Len(q) + 1] = e, \A i \in 1..Len(q) : r[i] = q[i]
  PROVE  r = Append(q, e)
<1>1. /\ Append(q, e) \in Seq(S) /\ Len(Append(q, e)) = Len(q) + 1
      /\ \A i \in 1..Len(q) : Append(q, e)[i] = q[i]
      /\ Append(q, e)[Len(q) + 1] = e
  BY AppendProperties
<1>2. Len(q) \in Nat
  BY LenProperties
<1>3. \A i \in 1..Len(r) : r[i] = Append(q, e)[i]
  BY <1>1, <1>2
<1>4. QED
  BY <1>1, <1>3, SeqEqual

LEMMA TailIs ==
  ASSUME NEW S, NEW q \in Seq(S), q # <<>>, NEW r \in Seq(S),
         Len(r) = Len(q) - 1, \A i \in 1..Len(r) : r[i] = q[i + 1]
  PROVE  r = Tail(q)
<1>1. /\ Tail(q) \in Seq(S) /\ Len(Tail(q)) = Len(q) - 1
      /\ \A i \in 1..Len(Tail(q)) : Tail(q)[i] = q[i + 1]
  BY HeadTailProperties
<1>2. QED
  BY <1>1, SeqEqual

\* An entry behind the last one changes nothing.
LEMMA RingKeeps ==
  ASSUME NEW r \in [Descs -> Descs], NEW h \in Nat, NEW n \in Nat, n < queue_size,
         NEW s \in [Descs -> Descs], \A i \in Descs : i # Slot(h + n) => s[i] = r[i]
  PROVE  Ring(s, h, n) = Ring(r, h, n)
<1>1. ASSUME NEW k \in 1..n
      PROVE  s[Slot(h + k - 1)] = r[Slot(h + k - 1)]
  <2>1. h + k - 1 \in Nat /\ h + n \in Nat /\ h + k - 1 < h + n /\ h + n < h + k - 1 + queue_size
    BY Constants
  <2>2. Slot(h + k - 1) # Slot(h + n) /\ Slot(h + k - 1) \in Descs
    BY <2>1, SlotIs
  <2>3. QED
    BY <2>2
<1>2. QED
  BY <1>1 DEF Ring

\* The queue grows by the entry behind the last one.
LEMMA RingGrows ==
  ASSUME NEW r \in [Descs -> Descs], NEW h \in Nat, NEW n \in Nat
  PROVE  Ring(r, h, n + 1) = Append(Ring(r, h, n), r[Slot(h + n)])
<1>1. r[Slot(h + n)] \in Descs
  BY SlotIs
<1>2. /\ Ring(r, h, n) \in Seq(Descs) /\ Len(Ring(r, h, n)) = n
      /\ \A k \in 1..n : Ring(r, h, n)[k] = r[Slot(h + k - 1)]
  BY RingIs
<1>3. /\ Ring(r, h, n + 1) \in Seq(Descs) /\ Len(Ring(r, h, n + 1)) = n + 1
      /\ \A k \in 1..(n + 1) : Ring(r, h, n + 1)[k] = r[Slot(h + k - 1)]
  <2>1. n + 1 \in Nat
    OBVIOUS
  <2>2. QED
    BY <2>1, RingIs
<1>4. Ring(r, h, n + 1)[n + 1] = r[Slot(h + n)]
  <2>1. h + (n + 1) - 1 = h + n
    OBVIOUS
  <2>2. QED
    BY <1>3, <2>1
<1>5. ASSUME NEW k \in 1..n
      PROVE  Ring(r, h, n + 1)[k] = Ring(r, h, n)[k]
  <2>1. k \in 1..(n + 1)
    OBVIOUS
  <2>2. QED
    BY <1>2, <1>3, <2>1
<1>6. QED
  BY <1>1, <1>2, <1>4, <1>5, <1>3, AppendIs

IsAfter(next, h) == \A k \in Nat : Slot(next + k) = Slot(h + 1 + k)

\* The first entry is taken off.
LEMMA RingPops ==
  ASSUME NEW r \in [Descs -> Descs], NEW h \in Nat, NEW n \in Nat, n > 0,
         NEW next \in Nat, IsAfter(next, h)
  PROVE  /\ Ring(r, h, n) # <<>> /\ Head(Ring(r, h, n)) = r[Slot(h)]
         /\ Tail(Ring(r, h, n)) = Ring(r, next, n - 1)
<1>1. /\ Ring(r, h, n) \in Seq(Descs) /\ Len(Ring(r, h, n)) = n
      /\ \A k \in 1..n : Ring(r, h, n)[k] = r[Slot(h + k - 1)]
  BY RingIs
<1>2. n - 1 \in Nat
  OBVIOUS
<1>3. /\ Ring(r, next, n - 1) \in Seq(Descs) /\ Len(Ring(r, next, n - 1)) = n - 1
      /\ \A k \in 1..(n - 1) : Ring(r, next, n - 1)[k] = r[Slot(next + k - 1)]
  BY <1>2, RingIs
<1>4. Ring(r, h, n) # <<>>
  BY <1>1, EmptySeq
<1>5. Head(Ring(r, h, n)) = r[Slot(h)]
  <2>1. Ring(r, h, n)[1] = r[Slot(h + 1 - 1)] /\ h + 1 - 1 = h
    BY <1>1
  <2>2. QED
    BY <1>1, <1>4, <2>1
<1>6. ASSUME NEW k \in 1..(n - 1)
      PROVE  Ring(r, next, n - 1)[k] = Ring(r, h, n)[k + 1]
  <2>1. /\ k - 1 \in Nat /\ next + k - 1 = next + (k - 1) /\ h + (k + 1) - 1 = h + 1 + (k - 1)
        /\ k + 1 \in 1..n
    OBVIOUS
  <2>2. Slot(next + k - 1) = Slot(h + (k + 1) - 1)
    BY <2>1 DEF IsAfter
  <2>3. QED
    BY <1>1, <1>3, <2>1, <2>2
<1>7. QED
  BY <1>1, <1>3, <1>4, <1>5, <1>6, TailIs

-----------------------------------------------------------------------------
(***************************************************************************)
(* The entries of sequences as sets, and how many there can be.            *)
(***************************************************************************)
LEMMA RangeOfAppend ==
  ASSUME NEW S, NEW q \in Seq(S), NEW e \in S
  PROVE  Range(Append(q, e)) = Range(q) \cup {e}
<1>1. /\ Append(q, e) \in Seq(S) /\ Len(Append(q, e)) = Len(q) + 1
      /\ \A i \in 1..Len(q) : Append(q, e)[i] = q[i]
      /\ Append(q, e)[Len(q) + 1] = e
      /\ Len(q) \in Nat
  BY AppendProperties, LenProperties
<1>2. /\ Range(Append(q, e)) = {Append(q, e)[i] : i \in 1..(Len(q) + 1)}
      /\ Range(q) = {q[i] : i \in 1..Len(q)}
  BY <1>1, RangeEquality
<1>3. 1..(Len(q) + 1) = 1..Len(q) \cup {Len(q) + 1}
  BY <1>1
<1>4. QED
  BY <1>1, <1>2, <1>3

LEMMA RangeSplits ==
  ASSUME NEW S, NEW q \in Seq(S), q # <<>>
  PROVE  /\ Head(q) \in S /\ Tail(q) \in Seq(S) /\ Len(Tail(q)) = Len(q) - 1
         /\ Range(q) = {Head(q)} \cup Range(Tail(q))
<1>1. /\ Head(q) \in S /\ Tail(q) \in Seq(S) /\ Len(Tail(q)) = Len(q) - 1
      /\ \A i \in 1..Len(Tail(q)) : Tail(q)[i] = q[i + 1]
      /\ Len(q) \in Nat \ {0}
  BY HeadTailProperties, EmptySeq
<1>2. /\ Range(q) = {q[i] : i \in 1..Len(q)}
      /\ Range(Tail(q)) = {Tail(q)[i] : i \in 1..Len(Tail(q))}
  BY <1>1, RangeEquality
<1>3. Head(q) = q[1]
  OBVIOUS
<1>4. Range(Tail(q)) = {q[i + 1] : i \in 1..(Len(q) - 1)}
  BY <1>1, <1>2
<1>5. ASSUME NEW i \in 1..Len(q)
      PROVE  q[i] = Head(q) \/ q[i] \in Range(Tail(q))
  <2>1. CASE i = 1
    BY <1>3, <2>1
  <2>2. CASE i # 1
    <3>1. i - 1 \in 1..(Len(q) - 1) /\ (i - 1) + 1 = i
      BY <1>1, <2>2
    <3>2. QED
      BY <1>4, <3>1
  <2>3. QED
    BY <2>1, <2>2
<1>6. \A i \in 1..(Len(q) - 1) : i + 1 \in 1..Len(q)
  BY <1>1
<1>7. 1 \in 1..Len(q)
  BY <1>1
<1>8. QED
  BY <1>1, <1>2, <1>3, <1>4, <1>5, <1>6, <1>7

LEMMA RangeBound ==
  ASSUME NEW S, NEW q \in Seq(S)
  PROVE  /\ IsFiniteSet(Range(q)) /\ Cardinality(Range(q)) \in Nat
         /\ Cardinality(Range(q)) <= Len(q)
<1>1. Len(q) \in Nat /\ q \in [1..Len(q) -> S] /\ DOMAIN q = 1..Len(q)
  BY LenProperties
<1>2. q \in Surjection(1..Len(q), Range(q))
  BY <1>1 DEF Surjection, Range
<1>3. ExistsSurjection(1..Len(q), Range(q))
  BY <1>2 DEF ExistsSurjection
<1>4. QED
  BY <1>1, <1>3, FS_SurjCardinalityBound, FS_NatSurjection, FS_CardinalityType

LEMMA UnionBound ==
  ASSUME NEW A, NEW B, IsFiniteSet(A), IsFiniteSet(B)
  PROVE  /\ IsFiniteSet(A \cup B) /\ Cardinality(A \cup B) \in Nat
         /\ Cardinality(A \cup B) <= Cardinality(A) + Cardinality(B)
<1>1. /\ IsFiniteSet(A \cup B)
      /\ Cardinality(A \cup B) = Cardinality(A) + Cardinality(B) - Cardinality(A \cap B)
  BY FS_Union
<1>2. IsFiniteSet(A \cap B)
  BY FS_Intersection
<1>3. /\ Cardinality(A \cap B) \in Nat /\ Cardinality(A \cup B) \in Nat
      /\ Cardinality(A) \in Nat /\ Cardinality(B) \in Nat
  BY <1>1, <1>2, FS_CardinalityType
<1>4. QED
  BY <1>1, <1>3

LEMMA NumberOfDescs == Cardinality(Descs) = queue_size
<1>1. ASSUME NEW n \in Nat, n > 0
      PROVE  Cardinality(0..(n - 1)) = n
  <2>1. 0 \in Int /\ n - 1 \in Int /\ ~(0 > n - 1) /\ (n - 1) - 0 + 1 = n
    BY <1>1
  <2>2. Cardinality(0..(n - 1)) = IF 0 > n - 1 THEN 0 ELSE (n - 1) - 0 + 1
    BY <2>1, FS_Interval
  <2>3. QED
    BY <2>1, <2>2
<1>2. QED
  BY <1>1, Constants DEF Descs

\* As many entries as descriptors, and every descriptor among them: then the head
\* of one of the queues is not in another.
LEMMA HeadIsNowhereElse ==
  ASSUME NEW G \in Seq(Descs), NEW F \in Seq(Descs), NEW C \in Seq(Descs),
         NEW H \in SUBSET Descs, IsFiniteSet(H), G # <<>>,
         Len(G) + Len(F) + Len(C) + Cardinality(H) = queue_size,
         Range(G) \cup Range(F) \cup Range(C) \cup H = Descs
  PROVE  Head(G) \notin Range(F) \cup Range(C) \cup H
<1> SUFFICES ASSUME Head(G) \in Range(F) \cup Range(C) \cup H
             PROVE  FALSE
  OBVIOUS
<1> DEFINE A == Range(Tail(G)) \cup Range(F)
           B == Range(C) \cup H
<1>1. /\ Tail(G) \in Seq(Descs) /\ Len(Tail(G)) = Len(G) - 1
      /\ Range(G) = {Head(G)} \cup Range(Tail(G))
  BY RangeSplits
<1>2. A \cup B = Descs
  BY <1>1
<1>3. /\ IsFiniteSet(Range(Tail(G))) /\ Cardinality(Range(Tail(G))) <= Len(G) - 1
      /\ Cardinality(Range(Tail(G))) \in Nat
      /\ IsFiniteSet(Range(F)) /\ Cardinality(Range(F)) <= Len(F)
      /\ Cardinality(Range(F)) \in Nat
      /\ IsFiniteSet(Range(C)) /\ Cardinality(Range(C)) <= Len(C)
      /\ Cardinality(Range(C)) \in Nat
  <2>1. /\ IsFiniteSet(Range(Tail(G))) /\ Cardinality(Range(Tail(G))) <= Len(Tail(G))
        /\ Cardinality(Range(Tail(G))) \in Nat
    BY <1>1, RangeBound
  <2>2. /\ IsFiniteSet(Range(F)) /\ Cardinality(Range(F)) <= Len(F)
        /\ Cardinality(Range(F)) \in Nat
    BY RangeBound
  <2>3. /\ IsFiniteSet(Range(C)) /\ Cardinality(Range(C)) <= Len(C)
        /\ Cardinality(Range(C)) \in Nat
    BY RangeBound
  <2>4. QED
    BY <1>1, <2>1, <2>2, <2>3
<1>4. /\ IsFiniteSet(A) /\ Cardinality(A) \in Nat
      /\ Cardinality(A) <= Cardinality(Range(Tail(G))) + Cardinality(Range(F))
      /\ IsFiniteSet(B) /\ Cardinality(B) \in Nat
      /\ Cardinality(B) <= Cardinality(Range(C)) + Cardinality(H)
  BY <1>3, UnionBound
<1> HIDE DEF A, B
<1>5. Cardinality(A \cup B) <= Cardinality(A) + Cardinality(B) /\ Cardinality(A \cup B) \in Nat
  BY <1>4, UnionBound
<1>6. Cardinality(Descs) = queue_size
  BY NumberOfDescs
<1>7. /\ Cardinality(H) \in Nat /\ Len(G) \in Nat /\ Len(F) \in Nat /\ Len(C) \in Nat
      /\ queue_size \in Nat
  BY FS_CardinalityType, LenProperties, Constants
<1>8. queue_size <= Cardinality(A) + Cardinality(B)
  BY <1>2, <1>5, <1>6
<1>9. Cardinality(A) <= Len(G) - 1 + Len(F) /\ Cardinality(B) <= Len(C) + Cardinality(H)
  BY <1>3, <1>4, <1>7
<1>10. QED
  BY <1>4, <1>7, <1>8, <1>9

-----------------------------------------------------------------------------
(***************************************************************************)
(* The three queues, and what each action moves between them.              *)
(***************************************************************************)
LEMMA QueuesAre ==
  /\ GivenToDevice = Ring(avail_ring, dev_avail, Given)
  /\ Filled = Ring(used_ring, rx_last_used, Used)
  /\ Completed = Ring(g_rx_completions, head, count)
  BY DEF GivenToDevice, Filled, Completed, Between, Ring, Distance, Slot, Given, Used

LEMMA QueuesAreNext ==
  /\ GivenToDevice' = Ring(avail_ring', dev_avail', Given')
  /\ Filled' = Ring(used_ring', rx_last_used', Used')
  /\ Completed' = Ring(g_rx_completions', head', count')
  BY DEF GivenToDevice, Filled, Completed, Between, Ring, Distance, Slot, Given, Used

LEMMA QueueTypes ==
  ASSUME TypeOK
  PROVE  /\ Given \in Nat /\ Used \in Nat /\ count \in Nat
         /\ GivenToDevice \in Seq(Descs) /\ Len(GivenToDevice) = Given
         /\ Filled \in Seq(Descs) /\ Len(Filled) = Used
         /\ Completed \in Seq(Descs) /\ Len(Completed) = count
         /\ dev_avail \in Nat /\ rx_last_used \in Nat /\ head \in Nat
         /\ avail_idx \in Nat /\ used_idx \in Nat /\ tail \in Nat
<1>1. /\ avail_idx \in Indices /\ used_idx \in Indices
      /\ dev_avail \in Indices /\ rx_last_used \in Indices
      /\ avail_ring \in [Descs -> Descs] /\ used_ring \in [Descs -> Descs]
      /\ g_rx_completions \in [Descs -> Descs]
      /\ head \in Descs /\ tail \in Descs /\ count \in 0..queue_size
  BY DEF TypeOK
<1>2. /\ dev_avail \in Nat /\ rx_last_used \in Nat /\ avail_idx \in Nat /\ used_idx \in Nat
  BY <1>1, IndexIs
<1>3. head \in Nat /\ tail \in Nat /\ count \in Nat
  BY <1>1 DEF Descs
<1>4. Given \in Nat /\ Used \in Nat
  BY <1>1, DistanceIs DEF Given, Used
<1>5. GivenToDevice \in Seq(Descs) /\ Len(GivenToDevice) = Given
  BY <1>1, <1>2, <1>4, RingIs, QueuesAre
<1>6. Filled \in Seq(Descs) /\ Len(Filled) = Used
  BY <1>1, <1>2, <1>4, RingIs, QueuesAre
<1>7. Completed \in Seq(Descs) /\ Len(Completed) = count
  BY <1>1, <1>3, RingIs, QueuesAre
<1>8. QED
  BY <1>2, <1>3, <1>4, <1>5, <1>6, <1>7

LEMMA Sizes ==
  ASSUME TypeOK, SizeInv
  PROVE  /\ Given + Used + count <= queue_size
         /\ Holding => Given + Used + count + 1 = queue_size
         /\ ~Holding => Given + Used + count = queue_size
         /\ Given < IdxMod /\ Used < IdxMod /\ Given <= queue_size /\ Used <= queue_size
  BY QueueTypes, Constants DEF SizeInv, Given, Used

LEMMA FillMoves ==
  ASSUME TypeOK, SizeInv, NEW f \in Frames, DevFill(f)
  PROVE  /\ GivenToDevice # <<>> /\ Head(GivenToDevice) = avail_ring[Slot(dev_avail)]
         /\ GivenToDevice' = Tail(GivenToDevice)
         /\ Filled' = Append(Filled, Head(GivenToDevice))
         /\ Completed' = Completed
         /\ rx_buffers' = [rx_buffers EXCEPT ![Head(GivenToDevice)] = f]
         /\ Given > 0 /\ Given' = Given - 1 /\ Used' = Used + 1
<1> DEFINE d == avail_ring[Slot(dev_avail)]
<1>1. /\ dev_avail # avail_idx
      /\ rx_buffers' = [rx_buffers EXCEPT ![d] = f]
      /\ used_ring' = [used_ring EXCEPT ![Slot(used_idx)] = d]
      /\ used_idx' = Inc(used_idx) /\ dev_avail' = Inc(dev_avail)
      /\ UNCHANGED <<avail_idx, avail_ring, rx_last_used, pending>>
  BY DEF DevFill
<1>2. /\ avail_idx \in Indices /\ used_idx \in Indices
      /\ dev_avail \in Indices /\ rx_last_used \in Indices
      /\ avail_ring \in [Descs -> Descs] /\ used_ring \in [Descs -> Descs]
  BY DEF TypeOK
<1>3. Given \in Nat /\ Used \in Nat /\ Given # 0 /\ Given + Used <= queue_size
  BY <1>1, <1>2, QueueTypes, Sizes, NoDistance DEF Given
<1>4. Given' = Given - 1
  BY <1>1, <1>2, StepFrom DEF Given
<1>5. Used' = Used + 1
  <2>1. Used + 1 < IdxMod
    BY <1>3, Constants
  <2>2. QED
    BY <1>1, <1>2, <2>1, StepTo DEF Used
<1>6. d \in Descs /\ Slot(used_idx) \in Descs /\ used_ring' \in [Descs -> Descs]
  BY <1>1, <1>2, SlotIs, QueueTypes
<1>7. /\ GivenToDevice # <<>> /\ Head(GivenToDevice) = d
      /\ GivenToDevice' = Tail(GivenToDevice)
  <2>1. /\ dev_avail \in Nat /\ Inc(dev_avail) \in Nat
        /\ IsAfter(Inc(dev_avail), dev_avail)
        /\ Given > 0
    BY <1>2, <1>3, SlotInc, IncIs, IndexIs DEF IsAfter
  <2>2. /\ Ring(avail_ring, dev_avail, Given) # <<>>
        /\ Head(Ring(avail_ring, dev_avail, Given)) = d
        /\ Tail(Ring(avail_ring, dev_avail, Given))
             = Ring(avail_ring, Inc(dev_avail), Given - 1)
    <3>1. avail_ring \in [Descs -> Descs]
      BY <1>2
    <3>2. QED
      BY <1>3, <2>1, <3>1, RingPops
  <2> HIDE DEF d
  <2>3. QED
    BY <1>1, <1>4, <2>2, QueuesAre, QueuesAreNext
<1>8. Filled' = Append(Filled, d)
  <2>1. Slot(rx_last_used + Used) = Slot(used_idx)
    BY <1>2, SlotEnd DEF Used
  <2>2. Slot(rx_last_used + Used) = Slot(used_idx) /\ rx_last_used \in Nat /\ Used < queue_size
    BY <1>3, <2>1, QueueTypes, Constants
  <2>3. \A i \in Descs : i # Slot(rx_last_used + Used) => used_ring'[i] = used_ring[i]
    BY <1>1, <1>2, <2>2
  <2>4. Ring(used_ring', rx_last_used, Used) = Ring(used_ring, rx_last_used, Used)
    BY <1>2, <1>3, <1>6, <2>2, <2>3, RingKeeps
  <2>5. Ring(used_ring', rx_last_used, Used + 1)
          = Append(Ring(used_ring', rx_last_used, Used), used_ring'[Slot(rx_last_used + Used)])
    BY <1>3, <1>6, <2>2, RingGrows
  <2>6. used_ring'[Slot(used_idx)] = d
    BY <1>1, <1>2, <1>6
  <2>7. QED
    BY <1>1, <1>5, <2>2, <2>4, <2>5, <2>6, QueuesAre, QueuesAreNext
<1>9. Completed' = Completed
  BY <1>1 DEF Completed, pending
<1>10. Given > 0
  BY <1>3
<1>11. QED
  BY <1>1, <1>4, <1>5, <1>7, <1>8, <1>9, <1>10

\* The completion queue is never full when the handler takes a used entry, so the
\* other branch is not reached.
LEMMA UsedMoves ==
  ASSUME TypeOK, SizeInv, QueueInv, HandleRxUsed
  PROVE  /\ Filled # <<>> /\ Head(Filled) = used_ring[Slot(rx_last_used)]
         /\ Filled' = Tail(Filled)
         /\ Completed' = Append(Completed, Head(Filled))
         /\ GivenToDevice' = GivenToDevice
         /\ Used > 0 /\ Used' = Used - 1 /\ Given' = Given
         /\ count < queue_size /\ count' = count + 1 /\ enqueued'
         /\ g_rx_completions' = [g_rx_completions EXCEPT ![tail] = Head(Filled)]
         /\ tail' = (tail + 1) % queue_size
         /\ UNCHANGED <<avail_idx, avail_ring, head, notify_device>>
<1> DEFINE d == used_ring[Slot(rx_last_used)]
<1>1. /\ avail_idx \in Indices /\ used_idx \in Indices
      /\ dev_avail \in Indices /\ rx_last_used \in Indices
      /\ used_ring \in [Descs -> Descs] /\ g_rx_completions \in [Descs -> Descs]
      /\ head \in Descs /\ tail \in Descs
  BY DEF TypeOK
<1>2. /\ rx_last_used # used_idx /\ rx_last_used' = Inc(rx_last_used)
      /\ UNCHANGED <<used_idx, used_ring, dev_avail>>
  BY DEF HandleRxUsed, device
<1>3. Used \in Nat /\ Used # 0 /\ Given \in Nat /\ count \in Nat /\ Given + Used + count <= queue_size
  BY <1>1, <1>2, QueueTypes, Sizes, NoDistance DEF Used
<1>4. count < queue_size
  BY <1>3, Constants
<1>5. /\ g_rx_completions' = [g_rx_completions EXCEPT ![tail] = d]
      /\ tail' = (tail + 1) % queue_size
      /\ count' = count + 1
      /\ enqueued' = TRUE
      /\ UNCHANGED <<avail_ring, avail_idx, head, notify_device>>
  <2>1. ~(count >= queue_size)
    BY <1>3, <1>4, Constants
  <2>2. QED
    BY <2>1 DEF HandleRxUsed
<1>6. Used' = Used - 1 /\ Given' = Given
  BY <1>1, <1>2, <1>5, StepFrom DEF Used, Given
<1>7. /\ Filled # <<>> /\ Head(Filled) = d /\ Filled' = Tail(Filled)
  <2>1. /\ rx_last_used \in Nat /\ Inc(rx_last_used) \in Nat
        /\ IsAfter(Inc(rx_last_used), rx_last_used)
        /\ Used > 0
    BY <1>1, <1>3, SlotInc, IncIs, IndexIs DEF IsAfter
  <2>2. /\ Ring(used_ring, rx_last_used, Used) # <<>>
        /\ Head(Ring(used_ring, rx_last_used, Used)) = d
        /\ Tail(Ring(used_ring, rx_last_used, Used))
             = Ring(used_ring, Inc(rx_last_used), Used - 1)
    <3>1. used_ring \in [Descs -> Descs]
      BY <1>1
    <3>2. QED
      BY <1>3, <2>1, <3>1, RingPops
  <2>3. QED
    BY <1>2, <1>6, <2>2, QueuesAre, QueuesAreNext
<1>8. d \in Descs /\ g_rx_completions' \in [Descs -> Descs]
  BY <1>1, <1>5, SlotIs, QueueTypes
<1>9. Completed' = Append(Completed, d)
  <2>1. tail = Slot(head + count) /\ head \in Nat
    BY QueueTypes DEF QueueInv, Slot
  <2>2. \A i \in Descs : i # Slot(head + count) => g_rx_completions'[i] = g_rx_completions[i]
    BY <1>1, <1>5, <2>1
  <2>3. Ring(g_rx_completions', head, count) = Ring(g_rx_completions, head, count)
    BY <1>1, <1>3, <1>4, <1>8, <2>1, <2>2, RingKeeps
  <2>4. Ring(g_rx_completions', head, count + 1)
          = Append(Ring(g_rx_completions', head, count), g_rx_completions'[Slot(head + count)])
    BY <1>3, <1>8, <2>1, RingGrows
  <2>5. g_rx_completions'[tail] = d
    BY <1>1, <1>5, <1>8
  <2>6. QED
    BY <1>5, <2>1, <2>3, <2>4, <2>5, QueuesAre, QueuesAreNext
<1>10. GivenToDevice' = GivenToDevice
  BY <1>2, <1>5, <1>6, QueuesAre, QueuesAreNext
<1>11. Used > 0
  BY <1>3
<1>12. QED
  BY <1>4, <1>5, <1>6, <1>7, <1>9, <1>10, <1>11

\* The task takes the oldest completion off the queue.
LEMMA TakeMoves ==
  ASSUME TypeOK, count > 0, count' = count - 1, head' = (head + 1) % queue_size,
         g_rx_completions' = g_rx_completions
  PROVE  /\ Completed # <<>> /\ Head(Completed) = g_rx_completions[head]
         /\ Completed' = Tail(Completed)
<1>1. g_rx_completions \in [Descs -> Descs] /\ head \in Nat /\ count \in Nat /\ Slot(head) = head
  <2>1. head \in Descs
    BY DEF TypeOK
  <2>2. Slot(head) = head
    BY <2>1, SlotOfDesc
  <2>3. QED
    BY <2>2, QueueTypes DEF TypeOK
<1>2. head' = Slot(head + 1) /\ head' \in Nat /\ head + 1 \in Nat
  BY <1>1, SlotIs DEF Slot
<1>3. IsAfter(head', head)
  BY <1>2, SlotIs DEF IsAfter
<1>4. ASSUME NEW next \in Nat, IsAfter(next, head)
      PROVE  /\ Ring(g_rx_completions, head, count) # <<>>
             /\ Head(Ring(g_rx_completions, head, count)) = g_rx_completions[Slot(head)]
             /\ Tail(Ring(g_rx_completions, head, count)) = Ring(g_rx_completions, next, count - 1)
  BY <1>1, <1>4, RingPops
<1>5. Ring(g_rx_completions', head', count') = Ring(g_rx_completions, head', count - 1)
  OBVIOUS
<1>6. QED
  BY <1>1, <1>2, <1>3, <1>4, <1>5, QueuesAre, QueuesAreNext

LEMMA ReleaseMoves ==
  ASSUME TypeOK, QueueInv, ReleaseRxBuffer
  PROVE  /\ count > 0 /\ count' = count - 1
         /\ head' = (head + 1) % queue_size /\ task' = "refill"
         /\ Completed # <<>> /\ Head(Completed) = desc_id
         /\ g_rx_completions[head] = desc_id
         /\ Completed' = Tail(Completed)
         /\ GivenToDevice' = GivenToDevice /\ Filled' = Filled
         /\ Given' = Given /\ Used' = Used
<1>1. task = "process" /\ count > 0 /\ g_rx_completions[head] = desc_id
  BY DEF ReleaseRxBuffer, TaskAt, QueueInv
<1>2. /\ count' = count - 1 /\ head' = (head + 1) % queue_size /\ task' = "refill"
      /\ UNCHANGED <<rings, device, rx_last_used, g_rx_completions>>
  <2>1. ~(count = 0 \/ g_rx_completions[head] # desc_id)
    BY <1>1
  <2>2. QED
    BY <2>1 DEF ReleaseRxBuffer
<1>3. /\ Completed # <<>> /\ Head(Completed) = desc_id
      /\ Completed' = Tail(Completed)
  BY <1>1, <1>2, TakeMoves
<1>4. Given' = Given /\ Used' = Used
  BY <1>2 DEF Given, Used, rings, device
<1>5. GivenToDevice' = GivenToDevice /\ Filled' = Filled
  BY <1>2 DEF GivenToDevice, Filled, rings, device
<1>6. QED
  BY <1>1, <1>2, <1>3, <1>4, <1>5

LEMMA PollMoves ==
  ASSUME TypeOK, PollTake, count # 0
  PROVE  /\ count > 0 /\ count' = count - 1
         /\ head' = (head + 1) % queue_size /\ task' = "copy"
         /\ Completed # <<>> /\ Head(Completed) = desc_id'
         /\ g_rx_completions[head] = desc_id'
         /\ Completed' = Tail(Completed)
         /\ GivenToDevice' = GivenToDevice /\ Filled' = Filled
         /\ Given' = Given /\ Used' = Used
<1>1. /\ count' = count - 1 /\ head' = (head + 1) % queue_size /\ task' = "copy"
      /\ desc_id' = g_rx_completions[head]
      /\ UNCHANGED <<rings, device, rx_last_used, g_rx_completions>>
  BY DEF PollTake
<1>2. count > 0
  BY QueueTypes
<1>3. /\ Completed # <<>> /\ Head(Completed) = desc_id'
      /\ Completed' = Tail(Completed)
  BY <1>1, <1>2, TakeMoves
<1>4. Given' = Given /\ Used' = Used
  BY <1>1 DEF Given, Used, rings, device
<1>5. GivenToDevice' = GivenToDevice /\ Filled' = Filled
  BY <1>1 DEF GivenToDevice, Filled, rings, device
<1>6. QED
  BY <1>1, <1>2, <1>3, <1>4, <1>5

\* The slot that is written is not one that the device may read yet.
LEMMA RefillMoves ==
  ASSUME TypeOK, SizeInv, ReleaseRefill
  PROVE  /\ GivenToDevice' = GivenToDevice /\ Filled' = Filled /\ Completed' = Completed
         /\ Given' = Given /\ Used' = Used
         /\ avail_ring'[Slot(avail_idx')] = desc_id'
<1>1. /\ avail_ring' = [avail_ring EXCEPT ![Slot(avail_idx)] = desc_id]
      /\ task = "refill"
      /\ UNCHANGED <<avail_idx, used_idx, used_ring, device, rx_last_used, pending, desc_id>>
  BY DEF ReleaseRefill, Refill, TaskAt
<1>2. /\ avail_idx \in Indices /\ dev_avail \in Indices /\ desc_id \in Descs
      /\ avail_ring \in [Descs -> Descs] /\ Slot(avail_idx) \in Descs /\ dev_avail \in Nat
  BY QueueTypes, SlotIs DEF TypeOK
<1>3. Given' = Given /\ Used' = Used
  BY <1>1 DEF Given, Used, device
<1>4. Filled' = Filled /\ Completed' = Completed
  BY <1>1 DEF Filled, Completed, pending
<1>5. Given \in Nat /\ Given < queue_size
  BY <1>1, QueueTypes, Sizes, Constants DEF Holding
<1>6. Slot(dev_avail + Given) = Slot(avail_idx)
  BY <1>2, SlotEnd DEF Given
<1>7. avail_ring' \in [Descs -> Descs]
  BY <1>1, <1>2
<1>8. \A i \in Descs : i # Slot(dev_avail + Given) => avail_ring'[i] = avail_ring[i]
  BY <1>1, <1>2, <1>6
<1>9. Ring(avail_ring', dev_avail, Given) = Ring(avail_ring, dev_avail, Given)
  BY <1>2, <1>5, <1>7, <1>8, RingKeeps
<1>10. dev_avail' = dev_avail
  BY <1>1 DEF device
<1>11. GivenToDevice' = GivenToDevice
  BY <1>3, <1>9, <1>10, QueuesAre, QueuesAreNext
<1>12. avail_ring'[Slot(avail_idx')] = desc_id'
  BY <1>1, <1>2
<1>13. QED
  BY <1>3, <1>4, <1>11, <1>12

LEMMA PublishMoves ==
  ASSUME TypeOK, SizeInv, QueueInv, ReleasePublish
  PROVE  /\ GivenToDevice' = Append(GivenToDevice, desc_id)
         /\ Filled' = Filled /\ Completed' = Completed
         /\ Given' = Given + 1 /\ Used' = Used
<1>1. /\ avail_idx' = Inc(avail_idx)
      /\ task = "publish"
      /\ UNCHANGED <<avail_ring, used_idx, used_ring, device, rx_last_used, pending, desc_id>>
  BY DEF ReleasePublish, TaskAt
<1>2. /\ avail_idx \in Indices /\ dev_avail \in Indices
      /\ avail_ring \in [Descs -> Descs] /\ dev_avail \in Nat
      /\ avail_ring[Slot(avail_idx)] = desc_id
  BY <1>1, QueueTypes DEF TypeOK, QueueInv
<1>3. Given \in Nat /\ Given + 1 < IdxMod
  BY <1>1, QueueTypes, Sizes, Constants DEF Holding
<1>4. dev_avail' = dev_avail
  BY <1>1 DEF device
<1>5. Given' = Given + 1
  BY <1>1, <1>2, <1>3, <1>4, StepTo DEF Given
<1>6. Used' = Used /\ Filled' = Filled /\ Completed' = Completed
  BY <1>1 DEF Used, Filled, Completed, pending
<1>7. Slot(dev_avail + Given) = Slot(avail_idx)
  BY <1>2, SlotEnd DEF Given
<1>8. Ring(avail_ring, dev_avail, Given + 1)
        = Append(Ring(avail_ring, dev_avail, Given), avail_ring[Slot(dev_avail + Given)])
  BY <1>2, <1>3, RingGrows
<1>9. GivenToDevice' = Append(GivenToDevice, desc_id)
  BY <1>1, <1>2, <1>4, <1>5, <1>7, <1>8, QueuesAre, QueuesAreNext
<1>10. QED
  BY <1>5, <1>6, <1>9

-----------------------------------------------------------------------------
(***************************************************************************)
(* The steps that move no descriptor.                                      *)
(***************************************************************************)
Still ==
  \/ DevSignal \/ DevTxDone \/ DevStall \/ IrqEnter \/ HandleRxPost \/ IrqAck
  \/ HasPending \/ PeekRxBuffer \/ RxFlush \/ WaitRx \/ WaitTimeout
  \/ (PollTake /\ count = 0) \/ PollCopy \/ OtherTaskFlush

LEMMA Steps ==
  ASSUME Next
  PROVE  \/ Still \/ (\E f \in Frames : DevFill(f)) \/ HandleRxUsed \/ ReleaseRxBuffer
         \/ ReleaseRefill \/ ReleasePublish \/ (PollTake /\ count # 0)
  BY DEF Next, Device, Handler, RxTask, Still

LEMMA StillMoves ==
  ASSUME Still
  PROVE  /\ UNCHANGED <<rings, rx_buffers, dev_avail, rx_last_used, pending>>
         /\ (Holding' <=> Holding) /\ Held' = Held
         /\ task' # "publish" \/ UNCHANGED <<task, desc_id>>
<1> USE DEF Holding, Held, rings, pending, device, flags
<1>1. CASE DevSignal
  BY <1>1 DEF DevSignal
<1>2. CASE DevTxDone
  BY <1>2 DEF DevTxDone
<1>3. CASE DevStall
  BY <1>3 DEF DevStall
<1>4. CASE IrqEnter
  BY <1>4 DEF IrqEnter
<1>5. CASE HandleRxPost
  BY <1>5 DEF HandleRxPost
<1>6. CASE IrqAck
  BY <1>6 DEF IrqAck
<1>7. CASE HasPending
  BY <1>7 DEF HasPending, TaskAt, Found, NothingFound
<1>8. CASE PeekRxBuffer
  BY <1>8 DEF PeekRxBuffer, TaskAt
<1>9. CASE RxFlush
  BY <1>9 DEF RxFlush, TaskAt
<1>10. CASE WaitRx
  BY <1>10 DEF WaitRx, TaskAt
<1>11. CASE WaitTimeout
  BY <1>11 DEF WaitTimeout, TaskAt
<1>12. CASE PollTake /\ count = 0
  BY <1>12 DEF PollTake, TaskAt
<1>13. CASE PollCopy
  BY <1>13 DEF PollCopy, TaskAt
<1>14. CASE OtherTaskFlush
  BY <1>14 DEF OtherTaskFlush
<1>15. QED
  BY <1>1, <1>2, <1>3, <1>4, <1>5, <1>6, <1>7, <1>8, <1>9, <1>10, <1>11, <1>12, <1>13, <1>14 DEF Still

LEMMA StillQueues ==
  ASSUME UNCHANGED <<rings, dev_avail, rx_last_used, pending>>
  PROVE  /\ GivenToDevice' = GivenToDevice /\ Filled' = Filled /\ Completed' = Completed
         /\ Given' = Given /\ Used' = Used
  BY DEF GivenToDevice, Filled, Completed, Given, Used, rings, pending

LEMMA SizeNext ==
  ASSUME TypeOK, SizeInv, QueueInv, Next
  PROVE  SizeInv'
<1>1. Given \in Nat /\ Used \in Nat /\ count \in Nat /\ queue_size \in Nat
  BY QueueTypes, Constants
<1>2. CASE Still
  <2>1. Given' = Given /\ Used' = Used /\ count' = count /\ (Holding' <=> Holding)
    BY <1>2, StillMoves, StillQueues DEF pending
  <2>2. QED
    BY <2>1 DEF SizeInv
<1>3. ASSUME NEW f \in Frames, DevFill(f)
      PROVE  SizeInv'
  <2>1. Given' = Given - 1 /\ Used' = Used + 1 /\ count' = count /\ (Holding' <=> Holding)
    BY <1>3, FillMoves DEF DevFill, pending, Holding
  <2>2. QED
    BY <1>1, <2>1 DEF SizeInv
<1>4. CASE HandleRxUsed
  <2>1. Given' = Given /\ Used' = Used - 1 /\ count' = count + 1 /\ (Holding' <=> Holding)
    BY <1>4, UsedMoves DEF HandleRxUsed, Holding
  <2>2. QED
    BY <1>1, <2>1 DEF SizeInv
<1>5. CASE ReleaseRxBuffer
  <2>1. Given' = Given /\ Used' = Used /\ count' = count - 1 /\ ~Holding /\ Holding'
    BY <1>5, ReleaseMoves DEF ReleaseRxBuffer, TaskAt, Holding
  <2>2. QED
    BY <1>1, <2>1 DEF SizeInv
<1>6. CASE ReleaseRefill
  <2>1. Given' = Given /\ Used' = Used /\ count' = count /\ Holding /\ Holding'
    BY <1>6, RefillMoves DEF ReleaseRefill, TaskAt, Holding, pending
  <2>2. QED
    BY <1>1, <2>1 DEF SizeInv
<1>7. CASE ReleasePublish
  <2>1. Given' = Given + 1 /\ Used' = Used /\ count' = count /\ Holding /\ ~Holding'
    BY <1>7, PublishMoves DEF ReleasePublish, TaskAt, Holding, pending
  <2>2. QED
    BY <1>1, <2>1 DEF SizeInv
<1>8. CASE PollTake /\ count # 0
  <2>1. Given' = Given /\ Used' = Used /\ count' = count - 1 /\ ~Holding /\ Holding'
    BY <1>8, PollMoves DEF PollTake, TaskAt, Holding
  <2>2. QED
    BY <1>1, <2>1 DEF SizeInv
<1>9. QED
  BY <1>2, <1>3, <1>4, <1>5, <1>6, <1>7, <1>8, Steps

LEMMA CoverNext ==
  ASSUME TypeOK, SizeInv, QueueInv, CoverInv, Next
  PROVE  CoverInv'
<1> DEFINE G == GivenToDevice
           F == Filled
           C == Completed
<1>1. G \in Seq(Descs) /\ F \in Seq(Descs) /\ C \in Seq(Descs) /\ desc_id \in Descs
  BY QueueTypes DEF TypeOK
<1>2. CASE Still
  <2>1. G' = G /\ F' = F /\ C' = C /\ Held' = Held
    BY <1>2, StillMoves, StillQueues
  <2>2. QED
    BY <2>1 DEF CoverInv
<1>3. ASSUME NEW f \in Frames, DevFill(f)
      PROVE  CoverInv'
  <2>1. /\ G # <<>> /\ G' = Tail(G) /\ F' = Append(F, Head(G)) /\ C' = C /\ Held' = Held
    BY <1>3, FillMoves DEF DevFill, Held, Holding
  <2>2. Range(G) = {Head(G)} \cup Range(Tail(G)) /\ Head(G) \in Descs
    BY <1>1, <2>1, RangeSplits
  <2>3. Range(F') = Range(F) \cup {Head(G)}
    BY <1>1, <2>1, <2>2, RangeOfAppend
  <2>4. QED
    BY <2>1, <2>2, <2>3 DEF CoverInv
<1>4. CASE HandleRxUsed
  <2>1. F # <<>> /\ F' = Tail(F) /\ C' = Append(C, Head(F)) /\ G' = G /\ Held' = Held
    BY <1>4, UsedMoves DEF HandleRxUsed, Held, Holding
  <2>2. Range(F) = {Head(F)} \cup Range(Tail(F)) /\ Head(F) \in Descs
    BY <1>1, <2>1, RangeSplits
  <2>3. Range(C') = Range(C) \cup {Head(F)}
    BY <1>1, <2>1, <2>2, RangeOfAppend
  <2>4. QED
    BY <2>1, <2>2, <2>3 DEF CoverInv
<1>5. CASE ReleaseRxBuffer
  <2>1. /\ C # <<>> /\ C' = Tail(C) /\ Head(C) = desc_id /\ G' = G /\ F' = F
        /\ Held = {} /\ Held' = {desc_id}
    BY <1>5, ReleaseMoves DEF ReleaseRxBuffer, TaskAt, Held, Holding
  <2>2. Range(C) = {Head(C)} \cup Range(Tail(C))
    BY <1>1, <2>1, RangeSplits
  <2>3. QED
    BY <2>1, <2>2 DEF CoverInv
<1>6. CASE ReleaseRefill
  <2>1. G' = G /\ F' = F /\ C' = C /\ Held' = Held
    BY <1>6, RefillMoves DEF ReleaseRefill, TaskAt, Held, Holding
  <2>2. QED
    BY <2>1 DEF CoverInv
<1>7. CASE ReleasePublish
  <2>1. /\ G' = Append(G, desc_id) /\ F' = F /\ C' = C
        /\ Held = {desc_id} /\ Held' = {}
    BY <1>7, PublishMoves DEF ReleasePublish, TaskAt, Held, Holding
  <2>2. Range(G') = Range(G) \cup {desc_id}
    BY <1>1, <2>1, RangeOfAppend
  <2>3. QED
    BY <2>1, <2>2 DEF CoverInv
<1>8. CASE PollTake /\ count # 0
  <2>1. /\ C # <<>> /\ C' = Tail(C) /\ Head(C) = desc_id' /\ G' = G /\ F' = F
        /\ Held = {} /\ Held' = {desc_id'}
    BY <1>8, PollMoves DEF PollTake, TaskAt, Held, Holding
  <2>2. Range(C) = {Head(C)} \cup Range(Tail(C))
    BY <1>1, <2>1, RangeSplits
  <2>3. QED
    BY <2>1, <2>2 DEF CoverInv
<1>9. QED
  BY <1>2, <1>3, <1>4, <1>5, <1>6, <1>7, <1>8, Steps

LEMMA QueueNext ==
  ASSUME TypeOK, SizeInv, QueueInv, Next
  PROVE  QueueInv'
<1>1. /\ head \in Descs /\ tail \in Nat /\ head \in Nat /\ count \in Nat
      /\ g_rx_completions \in [Descs -> Descs] /\ tail \in Descs
      /\ queue_size \in Nat /\ queue_size > 0
      /\ tail = Slot(head + count)
  BY QueueTypes, Constants DEF TypeOK, QueueInv, Slot
<1>2. CASE Still
  <2>1. /\ UNCHANGED <<rings, pending>>
        /\ task' # "publish" \/ UNCHANGED <<task, desc_id>>
    BY <1>2, StillMoves
  <2>2. task' = "process" => count > 0 /\ g_rx_completions[head] = desc_id'
    <3>1. ASSUME PeekRxBuffer, task' = "process"
          PROVE  count > 0 /\ g_rx_completions[head] = desc_id'
      BY <1>1, <3>1 DEF PeekRxBuffer
    <3>2. ASSUME ~PeekRxBuffer, task' = "process"
          PROVE  task = "process" /\ desc_id' = desc_id
      BY <1>2, <3>2 DEF Still, DevSignal, DevTxDone, DevStall, IrqEnter, HandleRxPost, IrqAck,
         HasPending, RxFlush, WaitRx, WaitTimeout, PollTake, PollCopy, OtherTaskFlush, TaskAt,
         Found, NothingFound
    <3>3. QED
      BY <3>1, <3>2 DEF QueueInv
  <2>3. QED
    BY <2>1, <2>2 DEF QueueInv, rings, pending
<1>3. ASSUME NEW f \in Frames, DevFill(f)
      PROVE  QueueInv'
  BY <1>3 DEF DevFill, QueueInv, pending
<1>4. CASE HandleRxUsed
  <2>1. /\ count < queue_size /\ count' = count + 1
        /\ tail' = Slot(tail + 1)
        /\ g_rx_completions' = [g_rx_completions EXCEPT ![tail] = Head(Filled)]
        /\ UNCHANGED <<avail_idx, avail_ring, head>>
        /\ UNCHANGED <<task, desc_id>>
    BY <1>4, UsedMoves DEF HandleRxUsed, Slot
  <2>2. tail' = Slot(head' + count')
    <3>1. head + count \in Nat /\ 1 \in Nat /\ head + count + 1 = head + (count + 1)
      BY <1>1
    <3>2. Slot(Slot(head + count) + 1) = Slot(head + count + 1)
      BY <3>1, SlotIs
    <3>3. QED
      BY <1>1, <2>1, <3>1, <3>2
  <2>3. task' = "process" => count' > 0 /\ g_rx_completions'[head'] = desc_id'
    <3>1. CASE count > 0
      <4>1. /\ head + count \in Nat /\ head < head + count
            /\ head + count < head + queue_size
        BY <1>1, <2>1, <3>1
      <4>2. Slot(head) # Slot(head + count)
        BY <1>1, <4>1, SlotIs
      <4>3. Slot(head) = head
        BY <1>1, SlotOfDesc
      <4>4. g_rx_completions'[head'] = g_rx_completions[head]
        BY <1>1, <2>1, <4>2, <4>3
      <4>5. QED
        BY <1>1, <2>1, <4>4 DEF QueueInv
    <3>2. CASE ~(count > 0)
      BY <2>1, <3>2 DEF QueueInv
    <3>3. QED
      BY <3>1, <3>2
  <2>4. task' = "publish" => avail_ring'[Slot(avail_idx')] = desc_id'
    BY <2>1 DEF QueueInv
  <2>5. QED
    BY <2>2, <2>3, <2>4 DEF QueueInv, Slot
<1>5. ASSUME count > 0, count' = count - 1, head' = (head + 1) % queue_size, tail' = tail
      PROVE  tail' = (head' + count') % queue_size
  <2>1. Slot(Slot(head + 1) + (count - 1)) = Slot(head + 1 + (count - 1))
    BY <1>1, <1>5, SlotIs
  <2>2. head + 1 + (count - 1) = head + count /\ head' = Slot(head + 1) /\ count' = count - 1
    BY <1>1, <1>5 DEF Slot
  <2>3. QED
    BY <1>1, <1>5, <2>1, <2>2 DEF Slot
<1>6. CASE ReleaseRxBuffer
  <2>1. count > 0 /\ count' = count - 1 /\ head' = (head + 1) % queue_size /\ task' = "refill" /\ tail' = tail
    BY <1>6, ReleaseMoves DEF ReleaseRxBuffer
  <2>2. QED
    BY <1>5, <2>1 DEF QueueInv
<1>7. CASE ReleaseRefill
  <2>1. /\ avail_ring'[Slot(avail_idx')] = desc_id' /\ task' = "publish"
        /\ UNCHANGED pending
    BY <1>7, RefillMoves DEF ReleaseRefill
  <2>2. QED
    BY <2>1 DEF QueueInv, pending
<1>8. CASE ReleasePublish
  <2>1. task' \in {"check", "pend"} /\ UNCHANGED pending
    BY <1>8 DEF ReleasePublish
  <2>2. QED
    BY <2>1 DEF QueueInv, pending
<1>9. CASE PollTake /\ count # 0
  <2>1. count > 0 /\ count' = count - 1 /\ head' = (head + 1) % queue_size /\ task' = "copy" /\ tail' = tail
    BY <1>9, PollMoves DEF PollTake
  <2>2. QED
    BY <1>5, <2>1 DEF QueueInv
<1>10. QED
  BY <1>2, <1>3, <1>4, <1>6, <1>7, <1>8, <1>9, Steps

\* The buffer that the device fills is not one that anybody else uses.
LEMMA FillsFreeBuffer ==
  ASSUME TypeOK, SizeInv, CoverInv, GivenToDevice # <<>>
  PROVE  Head(GivenToDevice) \notin Range(Filled) \cup Range(Completed) \cup Held
<1>1. /\ GivenToDevice \in Seq(Descs) /\ Filled \in Seq(Descs) /\ Completed \in Seq(Descs)
      /\ Len(GivenToDevice) = Given /\ Len(Filled) = Used /\ Len(Completed) = count
      /\ Given \in Nat /\ Used \in Nat /\ count \in Nat
      /\ desc_id \in Descs
  BY QueueTypes DEF TypeOK
<1>2. Held \in SUBSET Descs
  BY <1>1 DEF Held
<1>3. /\ IsFiniteSet(Held) /\ (Holding => Cardinality(Held) = 1)
      /\ (~Holding => Cardinality(Held) = 0)
  BY FS_Singleton, FS_EmptySet DEF Held
<1>4. Given + Used + count + Cardinality(Held) = queue_size
  BY <1>3 DEF SizeInv
<1>5. Range(GivenToDevice) \cup Range(Filled) \cup Range(Completed) \cup Held = Descs
  BY DEF CoverInv
<1>6. QED
  BY <1>1, <1>2, <1>3, <1>4, <1>5, HeadIsNowhereElse

LEMMA BufferNext ==
  ASSUME TypeOK, SizeInv, QueueInv, CoverInv, BufferInv, Next
  PROVE  BufferInv'
<1> DEFINE G == GivenToDevice
           F == Filled
           C == Completed
<1>1. /\ G \in Seq(Descs) /\ F \in Seq(Descs) /\ C \in Seq(Descs) /\ desc_id \in Descs
      /\ rx_buffers \in [Descs -> Frames \cup {Nothing}]
  BY QueueTypes DEF TypeOK
<1>2. \A d \in InUse : rx_buffers[d] \in Frames
  BY DEF BufferInv
<1>3. ASSUME InUse' \subseteq InUse, rx_buffers' = rx_buffers
      PROVE  BufferInv'
  <2>1. \A d \in InUse' : rx_buffers'[d] \in Frames
    BY <1>2, <1>3
  <2>2. QED
    BY <2>1 DEF BufferInv
<1>4. CASE Still
  <2>1. F' = F /\ C' = C /\ rx_buffers' = rx_buffers
    BY <1>4, StillMoves, StillQueues
  <2>2. task' = "copy" => task = "copy" /\ desc_id' = desc_id
    BY <1>4 DEF Still, DevSignal, DevTxDone, DevStall, IrqEnter, HandleRxPost, IrqAck,
       HasPending, PeekRxBuffer, RxFlush, WaitRx, WaitTimeout, PollTake, PollCopy, OtherTaskFlush,
       TaskAt, Found, NothingFound
  <2>3. InUse' \subseteq InUse
    BY <2>1, <2>2 DEF InUse
  <2>4. QED
    BY <1>3, <2>1, <2>3
<1>5. ASSUME NEW f \in Frames, DevFill(f)
      PROVE  BufferInv'
  <2>1. /\ G # <<>> /\ F' = Append(F, Head(G)) /\ C' = C
        /\ rx_buffers' = [rx_buffers EXCEPT ![Head(G)] = f]
        /\ task' = task /\ desc_id' = desc_id
    BY <1>5, FillMoves DEF DevFill
  <2>2. Head(G) \in Descs
    BY <1>1, <2>1, RangeSplits
  <2>3. Range(F') = Range(F) \cup {Head(G)}
    BY <1>1, <2>1, <2>2, RangeOfAppend
  <2>4. Head(G) \notin InUse
    BY <2>1, FillsFreeBuffer DEF InUse, Held, Holding
  <2>5. InUse' = InUse \cup {Head(G)}
    BY <2>1, <2>3 DEF InUse
  <2>6. InUse \subseteq Descs
    BY <1>1, RangeOfSeq DEF InUse
  <2>7. \A d \in InUse' : rx_buffers'[d] \in Frames
    BY <1>1, <1>2, <2>1, <2>2, <2>4, <2>5, <2>6
  <2>8. QED
    BY <2>7 DEF BufferInv
<1>6. CASE HandleRxUsed
  <2>1. /\ F # <<>> /\ F' = Tail(F) /\ C' = Append(C, Head(F))
        /\ rx_buffers' = rx_buffers /\ task' = task /\ desc_id' = desc_id
    BY <1>6, UsedMoves DEF HandleRxUsed, device
  <2>2. Range(F) = {Head(F)} \cup Range(Tail(F)) /\ Head(F) \in Descs
    BY <1>1, <2>1, RangeSplits
  <2>3. Range(C') = Range(C) \cup {Head(F)}
    BY <1>1, <2>1, <2>2, RangeOfAppend
  <2>4. InUse' \subseteq InUse
    BY <2>1, <2>2, <2>3 DEF InUse
  <2>5. QED
    BY <1>3, <2>1, <2>4
<1>7. CASE ReleaseRxBuffer
  <2>1. /\ C # <<>> /\ C' = Tail(C) /\ F' = F /\ rx_buffers' = rx_buffers /\ task' = "refill"
    BY <1>7, ReleaseMoves DEF ReleaseRxBuffer, device
  <2>2. Range(C) = {Head(C)} \cup Range(Tail(C))
    BY <1>1, <2>1, RangeSplits
  <2>3. InUse' \subseteq InUse
    BY <2>1, <2>2 DEF InUse
  <2>4. QED
    BY <1>3, <2>1, <2>3
<1>8. CASE ReleaseRefill \/ ReleasePublish
  <2>1. /\ F' = F /\ C' = C /\ rx_buffers' = rx_buffers /\ task' # "copy"
    BY <1>8, RefillMoves, PublishMoves DEF ReleaseRefill, ReleasePublish, device
  <2>2. InUse' \subseteq InUse
    BY <2>1 DEF InUse
  <2>3. QED
    BY <1>3, <2>1, <2>2
<1>9. CASE PollTake /\ count # 0
  <2>1. /\ C # <<>> /\ C' = Tail(C) /\ Head(C) = desc_id' /\ F' = F
        /\ rx_buffers' = rx_buffers
    BY <1>9, PollMoves DEF PollTake, device
  <2>2. Range(C) = {Head(C)} \cup Range(Tail(C))
    BY <1>1, <2>1, RangeSplits
  <2>3. InUse' \subseteq InUse
    BY <2>1, <2>2 DEF InUse
  <2>4. QED
    BY <1>3, <2>1, <2>3
<1>10. QED
  BY <1>4, <1>5, <1>6, <1>7, <1>8, <1>9, Steps

\* The oldest completion keeps its place and its frame.
LEMMA DrainedStays ==
  ASSUME TypeOK, SizeInv, CoverInv, NEW f \in Frames, DevFill(f), Drained
  PROVE  Drained'
<1>1. /\ GivenToDevice # <<>>
      /\ rx_buffers' = [rx_buffers EXCEPT ![Head(GivenToDevice)] = f]
      /\ UNCHANGED <<g_rx_completions, head, count>>
  BY FillMoves DEF DevFill, pending
<1>2. CASE count = 0
  BY <1>1, <1>2 DEF Drained
<1>3. CASE count # 0
  <2>1. /\ Completed \in Seq(Descs) /\ Len(Completed) = count /\ count \in Nat /\ head \in Nat
        /\ head \in Descs /\ g_rx_completions \in [Descs -> Descs]
        /\ rx_buffers \in [Descs -> Frames \cup {Nothing}]
    BY QueueTypes DEF TypeOK
  <2>2. Completed[1] = g_rx_completions[head] /\ 1 \in 1..Len(Completed)
    <3>1. 1 \in 1..count /\ head + 1 - 1 = head
      BY <1>3, <2>1
    <3>2. Slot(head) = head
      BY <2>1, SlotOfDesc
    <3>3. Completed[1] = g_rx_completions[(head + 1 - 1) % queue_size]
      BY <3>1 DEF Completed
    <3>4. QED
      BY <2>1, <3>1, <3>2, <3>3 DEF Slot
  <2>3. g_rx_completions[head] \in Range(Completed)
    BY <2>1, <2>2, RangeEquality
  <2>4. g_rx_completions[head] # Head(GivenToDevice)
    BY <1>1, <2>3, FillsFreeBuffer
  <2>5. rx_buffers'[g_rx_completions[head]] = rx_buffers[g_rx_completions[head]]
    BY <1>1, <2>1, <2>4
  <2>6. QED
    BY <1>1, <2>5 DEF Drained
<1>4. QED
  BY <1>2, <1>3

\* What the handler and the device do leaves the task with a reason to look again.
LEMMA SleepNext ==
  ASSUME TypeOK, SizeInv, QueueInv, CoverInv, SleepInv, Next
  PROVE  SleepInv'
<1> SUFFICES ASSUME reader' = "net_rx_task"
             PROVE  /\ task' \in {"flush", "pend"} => Drained' \/ ToBePosted' \/ rx_sem' > 0
                    /\ task' = "waiting" => Drained' \/ ToBePosted'
                    /\ task' \in {"pend", "waiting"} => (stalled' => dev_avail' = avail_idx')
  BY DEF SleepInv
<1>1. reader' = reader
  BY DEF Next, Device, Handler, RxTask, DevFill, DevSignal, DevTxDone, DevStall, IrqEnter,
     HandleRxUsed, HandleRxPost, IrqAck, HasPending, PeekRxBuffer, ReleaseRxBuffer,
     ReleaseRefill, ReleasePublish, RxFlush, WaitRx, WaitTimeout, PollTake, PollCopy, OtherTaskFlush
<1>2. /\ reader = "net_rx_task"
      /\ task \in {"flush", "pend"} => Drained \/ ToBePosted \/ rx_sem > 0
      /\ task = "waiting" => Drained \/ ToBePosted
      /\ task \in {"pend", "waiting"} => (stalled => dev_avail = avail_idx)
  BY <1>1 DEF SleepInv
<1>3. rx_sem \in Nat /\ SEM_MAX \in Nat /\ SEM_MAX > 0 /\ stalled \in BOOLEAN /\ enqueued \in BOOLEAN
  BY Constants DEF TypeOK, flags
<1>4. ASSUME NEW f \in Frames, DevFill(f)
      PROVE  /\ task' \in {"flush", "pend"} => Drained' \/ ToBePosted' \/ rx_sem' > 0
             /\ task' = "waiting" => Drained' \/ ToBePosted'
             /\ task' \in {"pend", "waiting"} => (stalled' => dev_avail' = avail_idx')
  <2>1. Drained => Drained'
    BY <1>4, DrainedStays
  <2>2. task' = task /\ rx_sem' = rx_sem /\ (ToBePosted' <=> ToBePosted) /\ ~stalled'
    BY <1>4 DEF DevFill, ToBePosted, flags
  <2>3. QED
    BY <1>2, <2>1, <2>2
<1>5. CASE HandleRxUsed
  <2>1. /\ ToBePosted' /\ task' = task /\ stalled' = stalled
        /\ dev_avail' = dev_avail /\ avail_idx' = avail_idx
    BY <1>5, UsedMoves DEF HandleRxUsed, ToBePosted, device
  <2>2. QED
    BY <1>2, <2>1
<1>6. CASE HandleRxPost
  <2>1. (Drained' <=> Drained) /\ dev_avail' = dev_avail /\ avail_idx' = avail_idx
    BY <1>6 DEF HandleRxPost, Drained, rings, pending
  <2>2. (ToBePosted <=> enqueued) /\ (stalled' => stalled)
    BY <1>6 DEF HandleRxPost, ToBePosted
  <2>3. CASE ~enqueued
    BY <1>2, <1>6, <2>1, <2>2, <2>3 DEF HandleRxPost
  <2>4. CASE enqueued /\ task = "waiting"
    BY <1>6, <2>4 DEF HandleRxPost
  <2>5. CASE enqueued /\ task # "waiting"
    <3>1. task' = task /\ rx_sem' > 0
      BY <1>3, <1>6, <2>5 DEF HandleRxPost
    <3>2. QED
      BY <1>2, <2>1, <2>2, <2>5, <3>1
  <2>6. QED
    BY <2>3, <2>4, <2>5
<1>7. CASE ReleaseRxBuffer \/ ReleaseRefill \/ ReleasePublish
  <2>1. task' \in {"refill", "publish", "check"}
    BY <1>2, <1>7 DEF ReleaseRxBuffer, ReleaseRefill, ReleasePublish
  <2>2. QED
    BY <2>1
<1>8. CASE PollTake
  <2>1. task = "poll" /\ FALSE
    <3>1. task # "poll"
      BY <1>2 DEF TypeOK
    <3>2. QED
      BY <1>8, <3>1 DEF PollTake, TaskAt
  <2>2. QED
    BY <2>1
<1>9. CASE Still /\ ~HandleRxPost /\ ~PollTake
  <2>1. UNCHANGED <<rings, rx_buffers, dev_avail, rx_last_used, pending>>
    BY <1>9, StillMoves
  <2>2. (Drained' <=> Drained) /\ dev_avail' = dev_avail /\ avail_idx' = avail_idx
    BY <2>1 DEF Drained, rings, pending
  <2>3. CASE DevSignal \/ DevTxDone \/ IrqAck
    BY <1>2, <2>2, <2>3 DEF DevSignal, DevTxDone, IrqAck, ToBePosted, device, flags
  <2>4. CASE DevStall
    BY <1>2, <2>2, <2>4 DEF DevStall, ToBePosted, flags
  <2>5. CASE IrqEnter
    BY <1>2, <2>2, <2>5 DEF IrqEnter, ToBePosted, device
  <2>6. CASE HasPending
    <3>1. task' \in {"peek", "flush"} /\ (task' = "flush" => ~(count > 0))
      BY <1>2, <2>6 DEF HasPending, Found, NothingFound
    <3>2. task' = "flush" => Drained
      BY <3>1, QueueTypes DEF Drained
    <3>3. QED
      BY <2>2, <3>1, <3>2
  <2>7. CASE PeekRxBuffer
    <3>1. task' \in {"flush", "process"} /\ (task' = "flush" => Drained)
      BY <2>7 DEF PeekRxBuffer, Drained
    <3>2. QED
      BY <2>2, <3>1
  <2>8. CASE RxFlush
    BY <1>2, <2>2, <2>8 DEF RxFlush, ToBePosted, TaskAt, flags
  <2>9. CASE WaitRx
    <3>1. /\ ~ToBePosted /\ task = "pend" /\ stalled' = stalled
          /\ task' = "check" \/ (task' = "waiting" /\ ~(rx_sem > 0))
      BY <2>9 DEF WaitRx, ToBePosted, TaskAt, device
    <3>2. QED
      BY <1>2, <2>2, <3>1
  <2>10. CASE WaitTimeout
    BY <1>2, <2>10 DEF WaitTimeout
  <2>11. CASE PollCopy
    BY <2>11 DEF PollCopy
  <2>12. CASE OtherTaskFlush
    BY <1>2, <2>2, <2>12 DEF OtherTaskFlush, ToBePosted, flags
  <2>13. QED
    BY <1>9, <2>3, <2>4, <2>5, <2>6, <2>7, <2>8, <2>9, <2>10, <2>11, <2>12 DEF Still
<1>10. QED
  BY <1>4, <1>5, <1>6, <1>7, <1>8, <1>9, Steps

\* The indices, rings and queues stay what they are; the rest is in TypeNext.
LEMMA QueueTypesNext ==
  ASSUME TypeOK, SizeInv, QueueInv, Next
  PROVE  /\ avail_idx' \in Indices /\ used_idx' \in Indices
         /\ dev_avail' \in Indices /\ rx_last_used' \in Indices
         /\ avail_ring' \in [Descs -> Descs] /\ used_ring' \in [Descs -> Descs]
         /\ g_rx_completions' \in [Descs -> Descs]
         /\ head' \in Descs /\ tail' \in Descs /\ count' \in 0..queue_size
<1> DEFINE Good == /\ avail_idx' \in Indices /\ used_idx' \in Indices
                   /\ dev_avail' \in Indices /\ rx_last_used' \in Indices
                   /\ avail_ring' \in [Descs -> Descs] /\ used_ring' \in [Descs -> Descs]
                   /\ g_rx_completions' \in [Descs -> Descs]
                   /\ head' \in Descs /\ tail' \in Descs /\ count' \in 0..queue_size
<1>1. /\ avail_idx \in Indices /\ used_idx \in Indices
      /\ dev_avail \in Indices /\ rx_last_used \in Indices
      /\ avail_ring \in [Descs -> Descs] /\ used_ring \in [Descs -> Descs]
      /\ g_rx_completions \in [Descs -> Descs]
      /\ head \in Descs /\ tail \in Descs /\ count \in 0..queue_size
      /\ desc_id \in Descs
  BY DEF TypeOK
<1>2. /\ Inc(avail_idx) \in Indices /\ Inc(used_idx) \in Indices
      /\ Inc(dev_avail) \in Indices /\ Inc(rx_last_used) \in Indices
  BY <1>1, IncIs
<1>3. /\ avail_ring[Slot(dev_avail)] \in Descs /\ used_ring[Slot(rx_last_used)] \in Descs
      /\ (head + 1) % queue_size \in Descs /\ (tail + 1) % queue_size \in Descs
  <2>1. head + 1 \in Nat /\ tail + 1 \in Nat /\ dev_avail \in Nat /\ rx_last_used \in Nat
    BY QueueTypes
  <2>2. Slot(head + 1) \in Descs /\ Slot(tail + 1) \in Descs
    BY <2>1, SlotIs
  <2>3. Slot(dev_avail) \in Descs /\ Slot(rx_last_used) \in Descs
    BY <2>1, SlotIs
  <2>4. QED
    BY <1>1, <2>2, <2>3 DEF Slot
<1>4. count \in Nat /\ queue_size \in Nat
  BY QueueTypes, Constants
<1>5. CASE Still
  <2>1. UNCHANGED <<rings, dev_avail, rx_last_used, pending>>
    BY <1>5, StillMoves
  <2>2. QED
    BY <1>1, <2>1 DEF rings, pending
<1>6. ASSUME NEW f \in Frames, DevFill(f)
      PROVE  Good
  BY <1>1, <1>2, <1>3, <1>6 DEF DevFill, pending
<1>7. CASE HandleRxUsed
  <2>1. /\ g_rx_completions' = [g_rx_completions EXCEPT ![tail] = used_ring[Slot(rx_last_used)]]
        /\ count < queue_size /\ count' = count + 1 /\ tail' = (tail + 1) % queue_size
        /\ UNCHANGED <<avail_idx, avail_ring, head>>
    BY <1>7, UsedMoves
  <2>2. /\ rx_last_used' = Inc(rx_last_used)
        /\ UNCHANGED <<used_idx, used_ring, dev_avail>>
    BY <1>7 DEF HandleRxUsed, device
  <2>3. count' \in 0..queue_size
    BY <1>4, <2>1
  <2>4. QED
    BY <1>1, <1>2, <1>3, <2>1, <2>2, <2>3
<1>8. CASE ReleaseRxBuffer \/ (PollTake /\ count # 0)
  <2>1. count > 0 /\ count' = count - 1 /\ head' = (head + 1) % queue_size
    BY <1>8, ReleaseMoves, PollMoves
  <2>2. UNCHANGED <<rings, device, rx_last_used, g_rx_completions, tail>>
    BY <1>8 DEF ReleaseRxBuffer, PollTake
  <2>3. count' \in 0..queue_size
    BY <1>1, <1>4, <2>1
  <2>4. QED
    BY <1>1, <1>3, <2>1, <2>2, <2>3 DEF rings, device
<1>9. CASE ReleaseRefill
  BY <1>1, <1>9 DEF ReleaseRefill, Refill, device, pending
<1>10. CASE ReleasePublish
  BY <1>1, <1>2, <1>10 DEF ReleasePublish, device, pending
<1>11. QED
  BY <1>5, <1>6, <1>7, <1>8, <1>9, <1>10, Steps

LEMMA TypeNext ==
  ASSUME TypeOK, SizeInv, QueueInv, Next
  PROVE  TypeOK'
<1> DEFINE Labels == {"check", "refill", "publish", "pend", "waiting"}
              \cup (IF reader = "poller" THEN {"poll", "copy"}
                                       ELSE {"peek", "process", "flush"})
<1>1. /\ rx_buffers \in [Descs -> Frames \cup {Nothing}]
      /\ stalled \in BOOLEAN /\ unsignalled \in BOOLEAN
      /\ enqueued \in BOOLEAN /\ notify_device \in BOOLEAN
      /\ interrupt_status \in 0..1
      /\ rx_sem \in 0..SEM_MAX
      /\ isr \in {"idle", "scan", "ack"}
      /\ reader \in {"net_rx_task", "poller"}
      /\ task \in Labels
      /\ desc_id \in Descs
  BY DEF TypeOK, flags
<1>2. reader' = reader
  BY DEF Next, Device, Handler, RxTask, DevFill, DevSignal, DevTxDone, DevStall, IrqEnter,
     HandleRxUsed, HandleRxPost, IrqAck, HasPending, PeekRxBuffer, ReleaseRxBuffer,
     ReleaseRefill, ReleasePublish, RxFlush, WaitRx, WaitTimeout, PollTake, PollCopy, OtherTaskFlush
<1>3. task' \in Labels /\ desc_id' \in Descs
  <2>1. g_rx_completions[head] \in Descs
    BY DEF TypeOK
  <2>2. CASE Device \/ IrqEnter \/ IrqAck \/ OtherTaskFlush \/ HandleRxUsed
    BY <1>1, <2>2 DEF Device, DevFill, DevSignal, DevTxDone, DevStall, IrqEnter, IrqAck,
       OtherTaskFlush, HandleRxUsed
  <2>3. CASE HandleRxPost
    BY <1>1, <2>3 DEF HandleRxPost
  <2>4. CASE HasPending
    BY <1>1, <2>4 DEF HasPending, Found, NothingFound
  <2>5. CASE PeekRxBuffer
    BY <1>1, <2>1, <2>5 DEF PeekRxBuffer, TaskAt
  <2>6. CASE ReleaseRxBuffer \/ ReleaseRefill
    BY <1>1, <2>6 DEF ReleaseRxBuffer, ReleaseRefill
  <2>7. CASE ReleasePublish
    BY <1>1, <2>7 DEF ReleasePublish
  <2>8. CASE RxFlush \/ WaitRx \/ WaitTimeout
    BY <1>1, <2>8 DEF RxFlush, WaitRx, WaitTimeout
  <2>9. CASE PollTake
    BY <1>1, <2>1, <2>9 DEF PollTake, TaskAt
  <2>10. CASE PollCopy
    BY <1>1, <2>10 DEF PollCopy
  <2>11. QED
    BY <2>2, <2>3, <2>4, <2>5, <2>6, <2>7, <2>8, <2>9, <2>10 DEF Next, Handler, RxTask
<1>4. /\ rx_buffers' \in [Descs -> Frames \cup {Nothing}]
      /\ interrupt_status' \in 0..1
      /\ isr' \in {"idle", "scan", "ack"}
  BY <1>1 DEF Next, Device, Handler, RxTask, DevFill, DevSignal, DevTxDone, DevStall, IrqEnter,
     HandleRxUsed, HandleRxPost, IrqAck, HasPending, PeekRxBuffer, ReleaseRxBuffer, device,
     ReleaseRefill, ReleasePublish, RxFlush, WaitRx, WaitTimeout, PollTake, PollCopy, OtherTaskFlush
<1>5. rx_sem' \in 0..SEM_MAX
  <2>1. CASE HandleRxPost
    BY <1>1, <2>1, Constants DEF HandleRxPost
  <2>2. CASE WaitRx
    BY <1>1, <2>2, Constants DEF WaitRx
  <2>3. CASE ~HandleRxPost /\ ~WaitRx
    BY <1>1, <2>3 DEF Next, Device, Handler, RxTask, DevFill, DevSignal, DevTxDone, DevStall, IrqEnter,
       HandleRxUsed, IrqAck, HasPending, PeekRxBuffer, ReleaseRxBuffer,
       ReleaseRefill, ReleasePublish, RxFlush, WaitTimeout, PollTake, PollCopy, OtherTaskFlush
  <2>4. QED
    BY <2>1, <2>2, <2>3
<1>6. stalled' \in BOOLEAN /\ unsignalled' \in BOOLEAN
  BY <1>1 DEF Next, Device, Handler, RxTask, DevFill, DevSignal, DevTxDone, DevStall, IrqEnter,
     HandleRxUsed, HandleRxPost, IrqAck, HasPending, PeekRxBuffer, ReleaseRxBuffer, device,
     ReleaseRefill, ReleasePublish, RxFlush, WaitRx, WaitTimeout, PollTake, PollCopy, OtherTaskFlush
<1>7. enqueued' \in BOOLEAN /\ notify_device' \in BOOLEAN
  BY <1>1 DEF Next, Device, Handler, RxTask, DevFill, DevSignal, DevTxDone, DevStall, IrqEnter,
     HandleRxUsed, HandleRxPost, IrqAck, HasPending, PeekRxBuffer, ReleaseRxBuffer, flags,
     ReleaseRefill, ReleasePublish, RxFlush, WaitRx, WaitTimeout, PollTake, PollCopy, OtherTaskFlush
<1>8. QED
  BY <1>1, <1>2, <1>3, <1>4, <1>5, <1>6, <1>7, QueueTypesNext DEF TypeOK, flags

-----------------------------------------------------------------------------
(***************************************************************************)
(* The invariant and what follows from it.                                 *)
(***************************************************************************)
LEMMA InitialGiven ==
  ASSUME Init
  PROVE  Given = queue_size /\ Range(GivenToDevice) = Descs
<1>1. /\ avail_ring = [i \in Descs |-> i] /\ dev_avail = 0 /\ avail_idx = queue_size
      /\ queue_size \in Nat /\ queue_size < IdxMod /\ IdxMod \in Nat
  BY Constants DEF Init
<1>2. Given = queue_size
  <2>1. queue_size - 0 = queue_size /\ queue_size % IdxMod = queue_size
    BY <1>1
  <2>2. QED
    BY <1>1, <2>1 DEF Given, Distance
<1>3. avail_ring \in [Descs -> Descs] /\ 0 \in Nat
  BY <1>1
<1>4. /\ GivenToDevice \in Seq(Descs) /\ Len(GivenToDevice) = queue_size
      /\ \A k \in 1..queue_size : GivenToDevice[k] = avail_ring[Slot(0 + k - 1)]
  BY <1>1, <1>2, <1>3, RingIs, QueuesAre
<1>5. ASSUME NEW k \in 1..queue_size
      PROVE  GivenToDevice[k] = k - 1
  <2>1. k - 1 \in Descs /\ 0 + k - 1 = k - 1
    BY <1>1 DEF Descs
  <2>2. Slot(0 + k - 1) = k - 1
    BY <2>1, SlotOfDesc
  <2>3. QED
    BY <1>1, <1>4, <2>1, <2>2
<1>6. Range(GivenToDevice) = {GivenToDevice[k] : k \in 1..queue_size}
  BY <1>4, RangeEquality
<1>7. ASSUME NEW d \in Descs
      PROVE  d + 1 \in 1..queue_size /\ (d + 1) - 1 = d
  BY <1>1 DEF Descs
<1>8. ASSUME NEW k \in 1..queue_size
      PROVE  k - 1 \in Descs
  BY <1>1 DEF Descs
<1>9. QED
  BY <1>2, <1>5, <1>6, <1>7, <1>8

LEMMA InitInv == Init => RxInv
<1> SUFFICES ASSUME Init
             PROVE  RxInv
  OBVIOUS
<1>1. /\ queue_size \in Nat /\ queue_size > 0 /\ IdxMod \in Nat /\ IdxMod > queue_size
      /\ SEM_MAX \in Nat
  BY Constants
<1>2. 0 \in Descs /\ 0 \in Indices /\ queue_size \in Indices
  BY <1>1 DEF Descs, Indices
<1>3. TypeOK
  <2>1. 0 \in 0..queue_size /\ 0 \in 0..SEM_MAX
    BY <1>1
  <2>2. /\ avail_idx \in Indices /\ used_idx \in Indices
        /\ dev_avail \in Indices /\ rx_last_used \in Indices
        /\ head \in Descs /\ tail \in Descs /\ count \in 0..queue_size
        /\ rx_sem \in 0..SEM_MAX /\ desc_id \in Descs /\ interrupt_status \in 0..1
    BY <1>2, <2>1 DEF Init
  <2>3. /\ avail_ring \in [Descs -> Descs] /\ used_ring \in [Descs -> Descs]
        /\ g_rx_completions \in [Descs -> Descs]
        /\ rx_buffers \in [Descs -> Frames \cup {Nothing}]
    BY <1>2 DEF Init
  <2>4. /\ stalled \in BOOLEAN /\ unsignalled \in BOOLEAN /\ flags \in BOOLEAN \X BOOLEAN
    BY DEF Init, flags
  <2>5. isr = "idle" /\ reader \in {"net_rx_task", "poller"} /\ task = "check"
    BY DEF Init
  <2>6. QED
    BY <2>2, <2>3, <2>4, <2>5 DEF TypeOK
<1>4. Used = 0 /\ Filled = <<>>
  <2>1. Used = 0
    BY <1>2, NoDistance DEF Init, Used
  <2>2. QED
    BY <1>3, <2>1, QueueTypes, EmptySeq
<1>5. Completed = <<>>
  <2>1. count = 0
    BY DEF Init
  <2>2. QED
    BY <1>3, <2>1, QueueTypes, EmptySeq
<1>6. task = "check" /\ count = 0 /\ tail = 0 /\ head = 0
  BY DEF Init
<1>7. SizeInv
  BY <1>1, <1>4, <1>6, InitialGiven DEF SizeInv, Holding
<1>8. Range(Filled) = {} /\ Range(Completed) = {}
  BY <1>4, <1>5 DEF Range
<1>9. CoverInv /\ BufferInv
  BY <1>6, <1>8, InitialGiven DEF CoverInv, BufferInv, InUse, Held, Holding
<1>10. QueueInv
  <2>1. Slot(0) = 0
    BY <1>2, SlotOfDesc
  <2>2. QED
    BY <1>6, <2>1 DEF QueueInv, Slot
<1>11. SleepInv
  BY <1>6 DEF SleepInv
<1>12. QED
  BY <1>3, <1>7, <1>9, <1>10, <1>11 DEF RxInv

LEMMA InvNext == RxInv /\ [Next]_vars => RxInv'
<1> SUFFICES ASSUME RxInv, [Next]_vars
             PROVE  RxInv'
  OBVIOUS
<1>1. TypeOK /\ SizeInv /\ CoverInv /\ QueueInv /\ BufferInv /\ SleepInv
  BY DEF RxInv
<1>2. CASE Next
  BY <1>1, <1>2, TypeNext, SizeNext, CoverNext, QueueNext, BufferNext, SleepNext DEF RxInv
<1>3. CASE UNCHANGED vars
  <2>1. /\ UNCHANGED <<rings, device, pending, flags>>
        /\ UNCHANGED <<interrupt_status, rx_last_used, rx_sem, isr, reader, task, desc_id>>
    BY <1>3 DEF vars
  <2>2. /\ GivenToDevice' = GivenToDevice /\ Filled' = Filled /\ Completed' = Completed
        /\ Given' = Given /\ Used' = Used
    BY <2>1, StillQueues DEF device
  <2>3. TypeOK'
    BY <1>1, <2>1 DEF TypeOK, rings, device, pending, flags
  <2>4. SizeInv' /\ CoverInv' /\ BufferInv'
    BY <1>1, <2>1, <2>2 DEF SizeInv, CoverInv, BufferInv, InUse, Held, Holding, pending, device
  <2>5. QueueInv' /\ SleepInv'
    BY <1>1, <2>1 DEF QueueInv, SleepInv, Drained, ToBePosted, rings, device, pending, flags
  <2>6. QED
    BY <2>3, <2>4, <2>5 DEF RxInv
<1>4. QED
  BY <1>2, <1>3

LEMMA Invariant == Spec => []RxInv
  BY InitInv, InvNext, PTL DEF Spec

\* Indices stay indices, the completion queue never holds more than its slots, the
\* semaphore does not pass its limit, and a task is only where its kind of reader goes.
THEOREM TypeCorrect == Spec => []TypeOK
<1>1. RxInv => TypeOK
  BY DEF RxInv
<1>2. QED
  BY <1>1, Invariant, PTL

LEMMA ConcatDescs ==
  ASSUME NEW s \in Seq(Descs), NEW t \in Seq(Descs)
  PROVE  /\ s \o t \in Seq(Descs) /\ Len(s \o t) = Len(s) + Len(t)
         /\ Range(s \o t) = Range(s) \cup Range(t)
  BY ConcatProperties, RangeConcatenation

\* No descriptor is lost or given twice, whatever the device and the handler do while
\* the task is between two steps of a release, and however the indices wrap around.
THEOREM DescriptorsAreConserved == Spec => []EachDescriptorOnce
<1>1. RxInv => EachDescriptorOnce
  <2> SUFFICES ASSUME RxInv
               PROVE  EachDescriptorOnce
    OBVIOUS
  <2> DEFINE G == GivenToDevice
             F == Filled
             C == Completed
             all == G \o F \o C \o Copied \o InHand
  <2>1. /\ G \in Seq(Descs) /\ F \in Seq(Descs) /\ C \in Seq(Descs)
        /\ Len(G) = Given /\ Len(F) = Used /\ Len(C) = count
        /\ Given \in Nat /\ Used \in Nat /\ count \in Nat /\ desc_id \in Descs
    BY QueueTypes DEF RxInv, TypeOK
  <2>2. /\ Copied \in Seq(Descs) /\ InHand \in Seq(Descs)
        /\ Len(Copied) + Len(InHand) = IF Holding THEN 1 ELSE 0
        /\ Range(Copied) \cup Range(InHand) = Held
    <3>1. /\ <<>> \in Seq(Descs) /\ Len(<<>>) = 0 /\ Range(<<>>) = {}
          /\ <<desc_id>> \in Seq(Descs) /\ Len(<<desc_id>>) = 1 /\ Range(<<desc_id>>) = {desc_id}
      BY <2>1 DEF Range
    <3>2. QED
      BY <3>1 DEF Copied, InHand, Holding, Held
  <2>3. G \o F \in Seq(Descs) /\ Len(G \o F) = Len(G) + Len(F) /\ Range(G \o F) = Range(G) \cup Range(F)
    BY <2>1, ConcatDescs
  <2>4. /\ G \o F \o C \in Seq(Descs) /\ Len(G \o F \o C) = Len(G \o F) + Len(C)
        /\ Range(G \o F \o C) = Range(G \o F) \cup Range(C)
    BY <2>1, <2>3, ConcatDescs
  <2>5. /\ G \o F \o C \o Copied \in Seq(Descs)
        /\ Len(G \o F \o C \o Copied) = Len(G \o F \o C) + Len(Copied)
        /\ Range(G \o F \o C \o Copied) = Range(G \o F \o C) \cup Range(Copied)
    BY <2>2, <2>4, ConcatDescs
  <2>6. /\ all \in Seq(Descs)
        /\ Len(all) = Len(G \o F \o C \o Copied) + Len(InHand)
        /\ Range(all) = Range(G \o F \o C \o Copied) \cup Range(InHand)
    BY <2>2, <2>5, ConcatDescs
  <2>7. Len(all) = Given + Used + count + (IF Holding THEN 1 ELSE 0)
    <3>1. Len(Copied) \in Nat /\ Len(InHand) \in Nat
      BY <2>2, LenProperties
    <3>2. QED
      BY <2>1, <2>2, <2>3, <2>4, <2>5, <2>6, <3>1
  <2>8. Range(all) = Descs
    BY <2>2, <2>3, <2>4, <2>5, <2>6 DEF RxInv, CoverInv
  <2>9. {all[k] : k \in 1..Len(all)} = Descs
    BY <2>6, <2>8, RangeEquality
  <2>10. QED
    BY <2>7, <2>9 DEF RxInv, SizeInv, EachDescriptorOnce
<1>2. QED
  BY <1>1, Invariant, PTL

\* The handler never finds the completion queue full, so it never takes the branch
\* that loses a frame: for every size of queue and every width of the indices.
THEOREM NoFrameIsDropped == Spec => []NoFrameDropped
<1>1. RxInv => NoFrameDropped
  <2> SUFFICES ASSUME RxInv, rx_last_used # used_idx
               PROVE  count < queue_size
    BY DEF NoFrameDropped
  <2>1. Used # 0
    BY NoDistance DEF RxInv, TypeOK, Used
  <2>2. QED
    BY <2>1, QueueTypes, Sizes, Constants DEF RxInv
<1>2. QED
  BY <1>1, Invariant, PTL

\* net_rx_task does not sleep while a completion with payload is queued for it or the
\* device waits for buffers that were given back: the post that races its look at the
\* count is still in the semaphore when it pends.
THEOREM SleepsDrained == Spec => []SleepsOnlyWhenDrained
<1>1. RxInv => SleepsOnlyWhenDrained
  BY DEF RxInv, SleepInv, SleepsOnlyWhenDrained, Drained, ToBePosted
<1>2. QED
  BY <1>1, Invariant, PTL

-----------------------------------------------------------------------------
(***************************************************************************)
(* The receive path is a queue of frames: the descriptors in order, and    *)
(* the frames in their buffers.                                            *)
(***************************************************************************)
Payload == Frames \cup {Nothing}

FramesIn(b, s) == [k \in 1..Len(s) |-> b[s[k]]]

Order == Copied \o Completed \o Filled

LEMMA FramesInIs ==
  ASSUME NEW b \in [Descs -> Payload], NEW s \in Seq(Descs)
  PROVE  /\ FramesIn(b, s) \in Seq(Payload) /\ Len(FramesIn(b, s)) = Len(s)
         /\ \A k \in 1..Len(s) : FramesIn(b, s)[k] = b[s[k]]
<1>1. Len(s) \in Nat
  BY LenProperties
<1>2. \A k \in 1..Len(s) : b[s[k]] \in Payload
  BY ElementOfSeq
<1>3. FramesIn(b, s) \in [1..Len(s) -> Payload]
  BY <1>2 DEF FramesIn
<1>4. FramesIn(b, s) \in Seq(Payload) /\ Len(FramesIn(b, s)) = Len(s)
  BY <1>1, <1>3, SeqDef
<1>5. QED
  BY <1>4 DEF FramesIn

LEMMA FramesGrow ==
  ASSUME NEW b \in [Descs -> Payload], NEW s \in Seq(Descs), NEW d \in Descs
  PROVE  FramesIn(b, Append(s, d)) = Append(FramesIn(b, s), b[d])
<1> DEFINE r == FramesIn(b, Append(s, d))
           q == FramesIn(b, s)
<1>1. /\ Append(s, d) \in Seq(Descs) /\ Len(Append(s, d)) = Len(s) + 1
      /\ \A i \in 1..Len(s) : Append(s, d)[i] = s[i]
      /\ Append(s, d)[Len(s) + 1] = d
      /\ Len(s) \in Nat
  BY AppendProperties, LenProperties
<1>2. /\ r \in Seq(Payload) /\ Len(r) = Len(s) + 1
      /\ \A k \in 1..(Len(s) + 1) : r[k] = b[Append(s, d)[k]]
  BY <1>1, FramesInIs
<1>3. /\ q \in Seq(Payload) /\ Len(q) = Len(s)
      /\ \A k \in 1..Len(s) : q[k] = b[s[k]]
  BY FramesInIs
<1> HIDE DEF r, q
<1>4. r[Len(s) + 1] = b[d]
  BY <1>1, <1>2
<1>5. ASSUME NEW i \in 1..Len(s)
      PROVE  r[i] = q[i]
  <2>1. i \in 1..(Len(s) + 1)
    BY <1>1
  <2>2. QED
    BY <1>1, <1>2, <1>3, <2>1
<1>6. b[d] \in Payload
  OBVIOUS
<1>7. r = Append(q, b[d])
  BY <1>2, <1>3, <1>4, <1>5, <1>6, AppendIs
<1>8. QED
  BY <1>7 DEF r, q

LEMMA FramesShrink ==
  ASSUME NEW b \in [Descs -> Payload], NEW s \in Seq(Descs), s # <<>>
  PROVE  /\ FramesIn(b, s) # <<>> /\ Head(FramesIn(b, s)) = b[Head(s)]
         /\ FramesIn(b, Tail(s)) = Tail(FramesIn(b, s))
<1> DEFINE r == FramesIn(b, Tail(s))
           q == FramesIn(b, s)
<1>1. /\ Tail(s) \in Seq(Descs) /\ Len(Tail(s)) = Len(s) - 1
      /\ \A i \in 1..Len(Tail(s)) : Tail(s)[i] = s[i + 1]
      /\ Len(s) \in Nat /\ Len(s) # 0
  BY HeadTailProperties, EmptySeq
<1>2. /\ r \in Seq(Payload) /\ Len(r) = Len(s) - 1
      /\ \A k \in 1..(Len(s) - 1) : r[k] = b[Tail(s)[k]]
  BY <1>1, FramesInIs
<1>3. /\ q \in Seq(Payload) /\ Len(q) = Len(s)
      /\ \A k \in 1..Len(s) : q[k] = b[s[k]]
  BY FramesInIs
<1> HIDE DEF r, q
<1>4. q # <<>>
  BY <1>1, <1>3, EmptySeq
<1>5. Head(q) = b[Head(s)]
  <2>1. 1 \in 1..Len(s)
    BY <1>1
  <2>2. Head(q) = q[1] /\ Head(s) = s[1]
    BY <1>3, <1>4
  <2>3. QED
    BY <1>3, <2>1, <2>2
<1>6. ASSUME NEW i \in 1..Len(r)
      PROVE  r[i] = q[i + 1]
  <2>1. i \in 1..(Len(s) - 1) /\ i + 1 \in 1..Len(s)
    BY <1>1, <1>2
  <2>2. QED
    BY <1>1, <1>2, <1>3, <2>1
<1>7. Len(r) = Len(q) - 1
  BY <1>2, <1>3
<1>8. r = Tail(q)
  BY <1>2, <1>3, <1>4, <1>6, <1>7, TailIs
<1>9. QED
  BY <1>4, <1>5, <1>8 DEF r, q

LEMMA FramesStay ==
  ASSUME NEW b \in [Descs -> Payload], NEW c \in [Descs -> Payload], NEW s \in Seq(Descs),
         \A d \in Range(s) : c[d] = b[d]
  PROVE  FramesIn(c, s) = FramesIn(b, s)
<1>1. \A k \in 1..Len(s) : s[k] \in Range(s)
  BY RangeEquality
<1>2. QED
  BY <1>1 DEF FramesIn

LEMMA ConcatDescsTwice ==
  ASSUME NEW s \in Seq(Descs), NEW t \in Seq(Descs), NEW u \in Seq(Descs)
  PROVE  (s \o t) \o u = s \o (t \o u)
  BY ConcatAssociative

LEMMA AppendBehind ==
  ASSUME NEW s \in Seq(Descs), NEW t \in Seq(Descs), NEW d \in Descs
  PROVE  s \o Append(t, d) = Append(s \o t, d)
<1>1. <<d>> \in Seq(Descs) /\ s \o t \in Seq(Descs)
  BY ConcatDescs
<1>2. Append(t, d) = t \o <<d>> /\ Append(s \o t, d) = (s \o t) \o <<d>>
  BY <1>1, AppendIsConcat
<1>3. (s \o t) \o <<d>> = s \o (t \o <<d>>)
  BY <1>1, ConcatAssociative
<1>4. QED
  BY <1>2, <1>3

LEMMA HeadAndTail ==
  ASSUME NEW s \in Seq(Descs), s # <<>>
  PROVE  /\ Head(s) \in Descs /\ Tail(s) \in Seq(Descs)
         /\ <<Head(s)>> \in Seq(Descs)
         /\ s = <<Head(s)>> \o Tail(s)
<1>1. /\ Head(s) \in Descs /\ Tail(s) \in Seq(Descs) /\ Len(Tail(s)) = Len(s) - 1
      /\ \A i \in 1..Len(Tail(s)) : Tail(s)[i] = s[i + 1]
      /\ Len(s) \in Nat /\ Len(s) # 0
  BY HeadTailProperties, EmptySeq
<1>2. <<Head(s)>> \in Seq(Descs) /\ Len(<<Head(s)>>) = 1 /\ <<Head(s)>>[1] = s[1]
  BY <1>1
<1>3. /\ <<Head(s)>> \o Tail(s) \in Seq(Descs)
      /\ Len(<<Head(s)>> \o Tail(s)) = Len(s)
      /\ \A i \in 1..Len(s) : (<<Head(s)>> \o Tail(s))[i]
           = IF i <= 1 THEN <<Head(s)>>[i] ELSE Tail(s)[i - 1]
  <2>1. 1 + (Len(s) - 1) = Len(s)
    BY <1>1
  <2>2. QED
    BY <1>1, <1>2, <2>1, ConcatProperties
<1>4. ASSUME NEW i \in 1..Len(s)
      PROVE  s[i] = (<<Head(s)>> \o Tail(s))[i]
  <2>1. CASE i = 1
    BY <1>2, <1>3, <2>1
  <2>2. CASE i # 1
    <3>1. i - 1 \in 1..Len(Tail(s)) /\ (i - 1) + 1 = i /\ ~(i <= 1)
      BY <1>1, <2>2
    <3>2. QED
      BY <1>1, <1>3, <3>1
  <2>3. QED
    BY <2>1, <2>2
<1>5. QED
  BY <1>1, <1>2, <1>3, <1>4, SeqEqual

LEMMA TailOfConcat ==
  ASSUME NEW s \in Seq(Descs), NEW t \in Seq(Descs), s # <<>>
  PROVE  /\ s \o t # <<>> /\ Head(s \o t) = Head(s)
         /\ Tail(s \o t) = Tail(s) \o t
<1> DEFINE u == s \o t
           r == Tail(s) \o t
<1>1. /\ Tail(s) \in Seq(Descs) /\ Len(Tail(s)) = Len(s) - 1
      /\ \A i \in 1..Len(Tail(s)) : Tail(s)[i] = s[i + 1]
      /\ Len(s) \in Nat /\ Len(s) # 0 /\ Len(t) \in Nat
  BY HeadTailProperties, EmptySeq, LenProperties
<1>2. /\ u \in Seq(Descs) /\ Len(u) = Len(s) + Len(t)
      /\ \A i \in 1..(Len(s) + Len(t)) : u[i] = IF i <= Len(s) THEN s[i] ELSE t[i - Len(s)]
  BY ConcatProperties
<1>3. /\ r \in Seq(Descs) /\ Len(r) = Len(Tail(s)) + Len(t)
      /\ \A i \in 1..(Len(Tail(s)) + Len(t)) :
           r[i] = IF i <= Len(Tail(s)) THEN Tail(s)[i] ELSE t[i - Len(Tail(s))]
  BY <1>1, ConcatProperties
<1> HIDE DEF u, r
<1>4. u # <<>>
  BY <1>1, <1>2, EmptySeq
<1>5. Head(u) = Head(s)
  <2>1. 1 \in 1..(Len(s) + Len(t)) /\ 1 <= Len(s)
    BY <1>1
  <2>2. Head(u) = u[1] /\ Head(s) = s[1]
    BY <1>2, <1>4
  <2>3. QED
    BY <1>2, <2>1, <2>2
<1>6. Len(r) = Len(u) - 1
  BY <1>1, <1>2, <1>3
<1>7. ASSUME NEW i \in 1..Len(r)
      PROVE  r[i] = u[i + 1]
  <2>1. i + 1 \in 1..(Len(s) + Len(t)) /\ i \in 1..(Len(Tail(s)) + Len(t))
    BY <1>1, <1>3
  <2>2. CASE i <= Len(s) - 1
    <3>1. i \in 1..Len(Tail(s)) /\ i <= Len(Tail(s)) /\ i + 1 <= Len(s)
      BY <1>1, <2>2
    <3>2. QED
      BY <1>1, <1>2, <1>3, <2>1, <3>1
  <2>3. CASE ~(i <= Len(s) - 1)
    <3>1. ~(i <= Len(Tail(s))) /\ ~(i + 1 <= Len(s)) /\ i - Len(Tail(s)) = (i + 1) - Len(s)
      BY <1>1, <2>3
    <3>2. QED
      BY <1>2, <1>3, <2>1, <3>1
  <2>4. QED
    BY <2>2, <2>3
<1>8. r = Tail(u)
  BY <1>2, <1>3, <1>4, <1>6, <1>7, TailIs
<1>9. QED
  BY <1>4, <1>5, <1>8 DEF u, r

\* An entry that goes from the head of one queue to the end of the one before it.
LEMMA HandOver ==
  ASSUME NEW s \in Seq(Descs), NEW t \in Seq(Descs), t # <<>>
  PROVE  Append(s, Head(t)) \o Tail(t) = s \o t
<1>1. /\ Head(t) \in Descs /\ Tail(t) \in Seq(Descs) /\ <<Head(t)>> \in Seq(Descs)
      /\ t = <<Head(t)>> \o Tail(t)
  BY HeadAndTail
<1>2. Append(s, Head(t)) = s \o <<Head(t)>>
  BY <1>1, AppendIsConcat
<1>3. (s \o <<Head(t)>>) \o Tail(t) = s \o (<<Head(t)>> \o Tail(t))
  BY <1>1, ConcatAssociative
<1>4. QED
  BY <1>1, <1>2, <1>3

-----------------------------------------------------------------------------
LEMMA OrderIs ==
  ASSUME TypeOK
  PROVE  /\ Order \in Seq(Descs) /\ Range(Order) = InUse
         /\ Completed \o Filled \in Seq(Descs)
         /\ task # "copy" => Order = Completed \o Filled
         /\ task = "copy" => Order = <<desc_id>> \o (Completed \o Filled)
         /\ Len(Order) = (IF task = "copy" THEN 1 ELSE 0) + count + Used
<1>1. /\ Completed \in Seq(Descs) /\ Filled \in Seq(Descs) /\ desc_id \in Descs
      /\ Len(Completed) = count /\ Len(Filled) = Used /\ count \in Nat /\ Used \in Nat
  BY QueueTypes DEF TypeOK
<1>2. /\ Completed \o Filled \in Seq(Descs) /\ Len(Completed \o Filled) = count + Used
      /\ Range(Completed \o Filled) = Range(Completed) \cup Range(Filled)
  BY <1>1, ConcatDescs
<1>3. CASE task # "copy"
  <2>1. Order = Completed \o Filled
    <3>1. Copied = <<>>
      BY <1>3 DEF Copied
    <3>2. <<>> \o Completed = Completed
      BY <1>1, ConcatEmptySeq
    <3>3. QED
      BY <3>1, <3>2 DEF Order
  <2>2. InUse = Range(Completed) \cup Range(Filled)
    BY <1>3 DEF InUse
  <2>3. Len(Order) = 0 + count + Used
    BY <1>1, <1>2, <2>1
  <2>4. QED
    BY <1>2, <1>3, <2>1, <2>2, <2>3
<1>4. CASE task = "copy"
  <2>1. <<desc_id>> \in Seq(Descs) /\ Len(<<desc_id>>) = 1 /\ Range(<<desc_id>>) = {desc_id}
    BY <1>1 DEF Range
  <2>2. Order = <<desc_id>> \o (Completed \o Filled)
    <3>1. Copied = <<desc_id>>
      BY <1>4 DEF Copied
    <3>2. QED
      BY <1>1, <2>1, <3>1, ConcatAssociative DEF Order
  <2>3. /\ Order \in Seq(Descs) /\ Len(Order) = 1 + (count + Used)
        /\ Range(Order) = {desc_id} \cup (Range(Completed) \cup Range(Filled))
    BY <1>2, <2>1, <2>2, ConcatDescs
  <2>4. Range(Order) = InUse
    BY <1>4, <2>3 DEF InUse
  <2>5. Len(Order) = 1 + count + Used
    BY <1>1, <2>3
  <2>6. QED
    BY <1>2, <1>4, <2>2, <2>3, <2>4, <2>5
<1>5. QED
  BY <1>3, <1>4

LEMMA OrderIsNext == (TypeOK =>
         /\ Order \in Seq(Descs) /\ Range(Order) = InUse
         /\ Completed \o Filled \in Seq(Descs)
         /\ task # "copy" => Order = Completed \o Filled
         /\ task = "copy" => Order = <<desc_id>> \o (Completed \o Filled)
         /\ Len(Order) = (IF task = "copy" THEN 1 ELSE 0) + count + Used)'
  BY OrderIs, PTL

LEMMA ArrivedIs ==
  /\ Arrived = FramesIn(rx_buffers, Order)
  /\ Arrived' = FramesIn(rx_buffers', Order')
  BY DEF Arrived, Contents, FramesIn, Order

LEMMA BuffersAre ==
  ASSUME TypeOK
  PROVE  rx_buffers \in [Descs -> Payload]
  BY DEF TypeOK, Payload

LEMMA SameOrder ==
  ASSUME Order' = Order, rx_buffers' = rx_buffers
  PROVE  Arrived' = Arrived
  BY ArrivedIs

\* What the task reads is one of the frames in use.
LEMMA ReadingInUse ==
  ASSUME RxInv, task \in {"process", "copy"}
  PROVE  desc_id \in InUse /\ rx_buffers[desc_id] \in Frames /\ Reading # Nothing
<1>1. desc_id \in InUse
  <2>1. CASE task = "copy"
    BY <2>1 DEF InUse
  <2>2. CASE task = "process"
    <3>1. /\ count > 0 /\ g_rx_completions[head] = desc_id /\ count \in Nat /\ head \in Nat
          /\ head \in Descs /\ Completed \in Seq(Descs) /\ Len(Completed) = count
      BY <2>2, QueueTypes DEF RxInv, QueueInv, TypeOK
    <3>2. 1 \in 1..count /\ head + 1 - 1 = head /\ Slot(head) = head
      BY <3>1, SlotOfDesc
    <3>3. Completed[1] = g_rx_completions[(head + 1 - 1) % queue_size]
      BY <3>2 DEF Completed
    <3>4. Completed[1] = desc_id
      BY <3>1, <3>2, <3>3 DEF Slot
    <3>5. desc_id \in Range(Completed)
      BY <3>1, <3>2, <3>4, RangeEquality
    <3>6. QED
      BY <3>5 DEF InUse
  <2>3. QED
    BY <2>1, <2>2
<1>2. rx_buffers[desc_id] \in Frames
  BY <1>1 DEF RxInv, BufferInv
<1>3. Reading # Nothing
  BY <1>2, RxAssumption DEF Reading
<1>4. QED
  BY <1>1, <1>2, <1>3

LEMMA FillArrives ==
  ASSUME RxInv, RxInv', NEW f \in Frames, DevFill(f)
  PROVE  Fifo!Arrive(f)
<1> DEFINE d == Head(GivenToDevice)
<1>1. TypeOK /\ TypeOK' /\ SizeInv /\ CoverInv
  BY DEF RxInv
<1>2. /\ GivenToDevice # <<>> /\ Filled' = Append(Filled, d) /\ Completed' = Completed
      /\ rx_buffers' = [rx_buffers EXCEPT ![d] = f] /\ Given > 0
      /\ task' = task /\ desc_id' = desc_id
  BY <1>1, FillMoves DEF DevFill
<1>3. GivenToDevice \in Seq(Descs) /\ Completed \in Seq(Descs) /\ Filled \in Seq(Descs)
  BY <1>1, QueueTypes
<1>4. d \in Descs
  BY <1>2, <1>3, RangeSplits
<1>5. d \notin InUse
  BY <1>1, <1>2, FillsFreeBuffer DEF InUse, Held, Holding
<1> HIDE DEF d
<1>6. Order \in Seq(Descs) /\ Range(Order) = InUse
  BY <1>1, OrderIs
<1>7. Order' = Append(Order, d)
  <2>1. Copied' = Copied /\ Copied \o Completed \in Seq(Descs)
    <3>1. <<>> \in Seq(Descs) /\ <<desc_id>> \in Seq(Descs)
      BY <1>1 DEF TypeOK
    <3>2. QED
      BY <1>2, <1>3, <3>1, ConcatDescs DEF Copied
  <2>2. (Copied \o Completed) \o Append(Filled, d) = Append((Copied \o Completed) \o Filled, d)
    BY <1>3, <1>4, <2>1, AppendBehind
  <2>3. QED
    BY <1>2, <2>1, <2>2 DEF Order
<1>8. rx_buffers \in [Descs -> Payload] /\ rx_buffers' \in [Descs -> Payload]
  BY <1>1, <1>2, <1>4, BuffersAre DEF Payload
<1>9. rx_buffers'[d] = f /\ \A e \in InUse : rx_buffers'[e] = rx_buffers[e]
  <2>1. InUse \subseteq Descs
    BY <1>6, RangeOfSeq
  <2>2. QED
    BY <1>2, <1>4, <1>5, <1>8, <2>1
<1>10. Arrived' = Append(Arrived, f)
  <2>1. FramesIn(rx_buffers', Append(Order, d)) = Append(FramesIn(rx_buffers', Order), rx_buffers'[d])
    BY <1>4, <1>6, <1>8, FramesGrow
  <2>2. FramesIn(rx_buffers', Order) = FramesIn(rx_buffers, Order)
    BY <1>6, <1>8, <1>9, FramesStay
  <2>3. QED
    BY <1>7, <1>9, <2>1, <2>2, ArrivedIs
<1>11. Reading' = Reading
  <2>1. CASE task \in {"process", "copy"}
    BY <1>2, <1>9, <2>1, ReadingInUse DEF Reading
  <2>2. CASE task \notin {"process", "copy"}
    BY <1>2, <2>2 DEF Reading
  <2>3. QED
    BY <2>1, <2>2
<1>12. Len(Arrived) < queue_size
  <2>1. Len(Arrived) = Len(Order)
    BY <1>6, <1>8, ArrivedIs, FramesInIs
  <2>2. Len(Order) = (IF task = "copy" THEN 1 ELSE 0) + count + Used
    BY <1>1, OrderIs
  <2>3. /\ Given + Used + count <= queue_size
        /\ task = "copy" => Given + Used + count + 1 = queue_size
        /\ Given \in Nat /\ Used \in Nat /\ count \in Nat /\ queue_size \in Nat
    BY <1>1, Sizes, QueueTypes, Constants DEF Holding
  <2>4. QED
    BY <1>2, <2>1, <2>2, <2>3
<1>13. QED
  BY <1>10, <1>11, <1>12 DEF Fifo!Arrive

\* What the handler does is not seen.
LEMMA UsedStutters ==
  ASSUME RxInv, HandleRxUsed
  PROVE  Arrived' = Arrived /\ Reading' = Reading
<1>1. TypeOK /\ SizeInv /\ QueueInv
  BY DEF RxInv
<1>2. /\ Filled # <<>> /\ Filled' = Tail(Filled) /\ Completed' = Append(Completed, Head(Filled))
      /\ rx_buffers' = rx_buffers /\ task' = task /\ desc_id' = desc_id
  BY <1>1, UsedMoves DEF HandleRxUsed, device
<1>3. /\ Completed \in Seq(Descs) /\ Filled \in Seq(Descs)
      /\ Copied' = Copied /\ Copied \in Seq(Descs)
  <2>1. <<>> \in Seq(Descs) /\ <<desc_id>> \in Seq(Descs)
    BY <1>1 DEF TypeOK
  <2>2. QED
    BY <1>1, <1>2, <2>1, QueueTypes DEF Copied
<1>4. /\ Head(Filled) \in Descs /\ Tail(Filled) \in Seq(Descs)
      /\ Append(Completed, Head(Filled)) \in Seq(Descs)
  BY <1>2, <1>3, RangeSplits, AppendProperties
<1>5. Append(Completed, Head(Filled)) \o Tail(Filled) = Completed \o Filled
  BY <1>2, <1>3, HandOver
<1>6. (Copied \o Append(Completed, Head(Filled))) \o Tail(Filled)
        = Copied \o (Append(Completed, Head(Filled)) \o Tail(Filled))
  BY <1>3, <1>4, ConcatDescsTwice
<1>7. (Copied \o Completed) \o Filled = Copied \o (Completed \o Filled)
  BY <1>3, ConcatDescsTwice
<1>8. Order' = Order
  BY <1>2, <1>3, <1>5, <1>6, <1>7 DEF Order
<1>9. QED
  BY <1>2, <1>8, SameOrder DEF Reading

\* The oldest frame leaves: net_rx_task's way.
LEMMA ReleaseReleases ==
  ASSUME RxInv, TypeOK', ReleaseRxBuffer
  PROVE  Fifo!Release
<1>1. TypeOK /\ QueueInv
  BY DEF RxInv
<1>2. /\ Completed # <<>> /\ Completed' = Tail(Completed) /\ Filled' = Filled
      /\ rx_buffers' = rx_buffers /\ task = "process" /\ task' = "refill"
  BY <1>1, ReleaseMoves DEF ReleaseRxBuffer, TaskAt, device
<1>3. Completed \in Seq(Descs) /\ Filled \in Seq(Descs)
  BY <1>1, QueueTypes
<1>4. /\ Order \in Seq(Descs) /\ Order = Completed \o Filled
      /\ Order' = Completed' \o Filled'
  BY <1>1, <1>2, OrderIs, OrderIsNext
<1>5. Order # <<>> /\ Order' = Tail(Order)
  BY <1>2, <1>3, <1>4, TailOfConcat
<1>6. Arrived' = Tail(Arrived)
  BY <1>1, <1>2, <1>4, <1>5, ArrivedIs, BuffersAre, FramesShrink
<1>7. Reading # Nothing /\ Reading' = Nothing
  BY <1>2, ReadingInUse DEF Reading
<1>8. QED
  BY <1>6, <1>7 DEF Fifo!Release

\* The oldest frame leaves: the poller's way.
LEMMA CopyReleases ==
  ASSUME RxInv, TypeOK', PollCopy
  PROVE  Fifo!Release
<1>1. TypeOK
  BY DEF RxInv
<1>2. /\ Completed' = Completed /\ Filled' = Filled
      /\ rx_buffers' = rx_buffers /\ task = "copy" /\ task' = "refill" /\ desc_id \in Descs
  BY <1>1, StillQueues DEF PollCopy, TaskAt, device, TypeOK
<1>3. /\ Order = <<desc_id>> \o (Completed \o Filled) /\ Completed \o Filled \in Seq(Descs)
      /\ Order \in Seq(Descs) /\ Order' = Completed \o Filled
  BY <1>1, <1>2, OrderIs, OrderIsNext
<1>4. /\ <<desc_id>> \in Seq(Descs) /\ <<desc_id>> # <<>> /\ Tail(<<desc_id>>) = <<>>
  BY <1>2
<1>5. <<>> \o (Completed \o Filled) = Completed \o Filled
  BY <1>3, ConcatEmptySeq
<1>6. Order # <<>> /\ Order' = Tail(Order)
  BY <1>3, <1>4, <1>5, TailOfConcat
<1>7. Arrived' = Tail(Arrived)
  BY <1>1, <1>2, <1>3, <1>6, ArrivedIs, BuffersAre, FramesShrink
<1>8. Reading # Nothing /\ Reading' = Nothing
  BY <1>2, ReadingInUse DEF Reading
<1>9. QED
  BY <1>7, <1>8 DEF Fifo!Release

\* The task looks at the oldest frame: where it is, or taken off the queue.
LEMMA PeekReads ==
  ASSUME RxInv, PeekRxBuffer, task' = "process"
  PROVE  Fifo!Read
<1>1. TypeOK
  BY DEF RxInv
<1>2. /\ count # 0 /\ desc_id' = g_rx_completions[head] /\ task = "peek"
      /\ rx_buffers' = rx_buffers
      /\ Completed' = Completed /\ Filled' = Filled
  BY StillQueues DEF PeekRxBuffer, TaskAt, device
<1>3. Completed \in Seq(Descs) /\ Filled \in Seq(Descs) /\ count \in Nat /\ Len(Completed) = count
  BY <1>1, QueueTypes
<1>4. Completed # <<>> /\ Head(Completed) = g_rx_completions[head]
  <2>1. /\ head \in Descs /\ head \in Nat /\ g_rx_completions \in [Descs -> Descs]
    BY <1>1, QueueTypes DEF TypeOK
  <2>2. 1 \in 1..count /\ head + 1 - 1 = head /\ Slot(head) = head
    BY <1>2, <1>3, <2>1, SlotOfDesc
  <2>3. Completed[1] = g_rx_completions[(head + 1 - 1) % queue_size]
    BY <2>2 DEF Completed
  <2>4. Completed # <<>>
    BY <1>2, <1>3, EmptySeq
  <2>5. Head(Completed) = Completed[1]
    BY <1>3, <2>4
  <2>6. QED
    BY <2>2, <2>3, <2>4, <2>5 DEF Slot
<1>5. Order = Completed \o Filled /\ Order \in Seq(Descs)
  BY <1>1, <1>2, OrderIs
<1>6. Order # <<>> /\ Head(Order) = desc_id'
  BY <1>2, <1>3, <1>4, <1>5, TailOfConcat
<1>7. Arrived # <<>> /\ Head(Arrived) = rx_buffers[desc_id']
  BY <1>1, <1>5, <1>6, ArrivedIs, BuffersAre, FramesShrink
<1>8. Order' = Order
  BY <1>2 DEF Order, Copied
<1>9. Reading = Nothing /\ Reading' = rx_buffers[desc_id']
  BY <1>2 DEF Reading
<1>10. QED
  BY <1>2, <1>7, <1>8, <1>9, SameOrder DEF Fifo!Read

LEMMA TakeReads ==
  ASSUME RxInv, TypeOK', PollTake, count # 0
  PROVE  Fifo!Read
<1>1. TypeOK
  BY DEF RxInv
<1>2. /\ Completed # <<>> /\ Completed' = Tail(Completed) /\ Head(Completed) = desc_id'
      /\ Filled' = Filled /\ rx_buffers' = rx_buffers /\ task = "poll" /\ task' = "copy"
  BY <1>1, PollMoves DEF PollTake, TaskAt, device
<1>3. Completed \in Seq(Descs) /\ Filled \in Seq(Descs)
  BY <1>1, QueueTypes
<1>4. Order = Completed \o Filled /\ Order \in Seq(Descs)
  BY <1>1, <1>2, OrderIs
<1>5. Order' = <<desc_id'>> \o (Tail(Completed) \o Filled)
  BY <1>2, OrderIsNext
<1>6. /\ <<desc_id'>> \in Seq(Descs) /\ Tail(Completed) \in Seq(Descs)
      /\ Completed = <<desc_id'>> \o Tail(Completed)
  BY <1>2, <1>3, HeadAndTail
<1>7. (<<desc_id'>> \o Tail(Completed)) \o Filled = <<desc_id'>> \o (Tail(Completed) \o Filled)
  BY <1>3, <1>6, ConcatAssociative
<1>8. Order' = Order
  BY <1>4, <1>5, <1>6, <1>7
<1>9. Order # <<>> /\ Head(Order) = desc_id'
  BY <1>2, <1>3, <1>4, TailOfConcat
<1>10. Arrived # <<>> /\ Head(Arrived) = rx_buffers[desc_id']
  BY <1>1, <1>4, <1>9, ArrivedIs, BuffersAre, FramesShrink
<1>11. Reading = Nothing /\ Reading' = rx_buffers[desc_id']
  BY <1>2 DEF Reading
<1>12. QED
  BY <1>2, <1>8, <1>10, <1>11, SameOrder DEF Fifo!Read

\* The other steps are not seen.
LEMMA OthersStutter ==
  ASSUME RxInv,
         \/ Still /\ ~PollCopy /\ ~(PeekRxBuffer /\ task' = "process")
         \/ ReleaseRefill \/ ReleasePublish
  PROVE  Arrived' = Arrived /\ Reading' = Reading
<1>1. TypeOK /\ SizeInv /\ QueueInv
  BY DEF RxInv
<1>2. Completed' = Completed /\ Filled' = Filled /\ rx_buffers' = rx_buffers
  <2>1. CASE Still
    BY <2>1, StillMoves, StillQueues
  <2>2. CASE ReleaseRefill \/ ReleasePublish
    BY <1>1, <2>2, RefillMoves, PublishMoves DEF ReleaseRefill, ReleasePublish, device
  <2>3. QED
    BY <2>1, <2>2
<1>3. \/ task' = task /\ desc_id' = desc_id
      \/ task \notin {"process", "copy"} /\ task' \notin {"process", "copy"}
  <2>1. CASE Still /\ ~PollCopy /\ ~(PeekRxBuffer /\ task' = "process")
    BY <2>1 DEF Still, DevSignal, DevTxDone, DevStall, IrqEnter, HandleRxPost, IrqAck,
       HasPending, PeekRxBuffer, RxFlush, WaitRx, WaitTimeout, PollTake, OtherTaskFlush,
       TaskAt, Found, NothingFound
  <2>2. CASE ReleaseRefill \/ ReleasePublish
    BY <2>2 DEF ReleaseRefill, ReleasePublish, TaskAt
  <2>3. QED
    BY <2>1, <2>2
<1>4. Copied' = Copied
  BY <1>3 DEF Copied
<1>5. Order' = Order
  BY <1>2, <1>4 DEF Order
<1>6. Reading' = Reading
  BY <1>2, <1>3 DEF Reading
<1>7. QED
  BY <1>2, <1>5, <1>6, SameOrder

LEMMA FifoInit == Init => Fifo!Init
<1> SUFFICES ASSUME Init
             PROVE  Arrived = <<>> /\ Reading = Nothing
  BY DEF Fifo!Init
<1>1. TypeOK /\ task = "check" /\ count = 0
  BY InitInv DEF RxInv, Init
<1>2. Used = 0
  <2>1. rx_last_used = used_idx /\ rx_last_used \in Indices /\ used_idx \in Indices
    BY <1>1 DEF TypeOK, Init
  <2>2. QED
    BY <2>1, NoDistance DEF Used
<1>3. Order \in Seq(Descs) /\ Len(Order) = 0
  BY <1>1, <1>2, OrderIs
<1>4. Arrived \in Seq(Payload) /\ Len(Arrived) = 0
  BY <1>1, <1>3, ArrivedIs, BuffersAre, FramesInIs
<1>5. Arrived = <<>>
  BY <1>4, EmptySeq
<1>6. QED
  BY <1>1, <1>5 DEF Reading

LEMMA FifoNext == RxInv /\ RxInv' /\ [Next]_vars => [Fifo!Next]_<<Arrived, Reading>>
<1> SUFFICES ASSUME RxInv, RxInv', [Next]_vars
             PROVE  [Fifo!Next]_<<Arrived, Reading>>
  OBVIOUS
<1>1. TypeOK'
  BY DEF RxInv
<1>2. ASSUME NEW f \in Frames, DevFill(f)
      PROVE  [Fifo!Next]_<<Arrived, Reading>>
  BY <1>2, FillArrives DEF Fifo!Next
<1>3. CASE HandleRxUsed
  BY <1>3, UsedStutters
<1>4. CASE ReleaseRxBuffer
  BY <1>1, <1>4, ReleaseReleases DEF Fifo!Next
<1>5. CASE PollCopy
  BY <1>1, <1>5, CopyReleases DEF Fifo!Next
<1>6. CASE PeekRxBuffer /\ task' = "process"
  BY <1>6, PeekReads DEF Fifo!Next
<1>7. CASE PollTake /\ count # 0
  BY <1>1, <1>7, TakeReads DEF Fifo!Next
<1>8. CASE \/ Still /\ ~PollCopy /\ ~(PeekRxBuffer /\ task' = "process")
           \/ ReleaseRefill \/ ReleasePublish
  BY <1>8, OthersStutter
<1>9. CASE UNCHANGED vars
  BY <1>9 DEF vars, rings, device, pending, Arrived, Contents, Copied, Completed, Filled,
     Between, Reading
<1>10. QED
  BY <1>2, <1>3, <1>4, <1>5, <1>6, <1>7, <1>8, <1>9, Steps

\* The task is handed the frames in the order in which the device filled the buffers,
\* each of them once, and unchanged from when it looks at one until it has let it go:
\* the two rings, the completion queue and the interrupt between them implement RxFifo.
THEOREM FramesComeInOrder == Spec => ImplementsRxFifo
<1>1. Init => Fifo!Init
  BY FifoInit
<1>2. RxInv /\ RxInv' /\ [Next]_vars => [Fifo!Next]_<<Arrived, Reading>>
  BY FifoNext
<1>3. QED
  BY <1>1, <1>2, Invariant, PTL DEF Spec, ImplementsRxFifo, Fifo!Spec

=============================================================================
