-------------------------- MODULE UcosKernelProofs --------------------------
(***************************************************************************)
(* Proofs about UcosKernel for every set of tasks and semaphores, every    *)
(* bound, and whatever the tasks call (Unruly included).                   *)
(***************************************************************************)
EXTENDS UcosKernel, TLAPS

-----------------------------------------------------------------------------
(***************************************************************************)
(* What the operations of the two-level bitmap preserve and return.        *)
(***************************************************************************)
\* A priority and its two coordinates determine each other.
LEMMA Coordinates ==
  ASSUME NEW p \in PrioSpace
  PROVE  /\ Y(p) \in Bits
         /\ X(p) \in Bits
         /\ p = Y(p) * 8 + X(p)
  BY DEF PrioSpace, Bits, X, Y

LEMMA CoordinatesOf ==
  ASSUME NEW y \in Bits, NEW x \in Bits
  PROVE  /\ y * 8 + x \in PrioSpace
         /\ Y(y * 8 + x) = y
         /\ X(y * 8 + x) = x
  BY DEF PrioSpace, Bits, X, Y

\* The look-up table returns the lowest bit of a byte that is not zero.
LEMMA LowestBit ==
  ASSUME NEW b \in SUBSET Bits, b # {}
  PROVE  OSUnMapTbl(b) \in b /\ \A j \in b : OSUnMapTbl(b) <= j
<1>1. \E i \in b : \A j \in b : i <= j
  <2>0. CASE 0 \in b
    BY <2>0 DEF Bits
  <2>1. CASE 0 \notin b /\ 1 \in b
    BY <2>1 DEF Bits
  <2>2. CASE 0 \notin b /\ 1 \notin b /\ 2 \in b
    BY <2>2 DEF Bits
  <2>3. CASE 0 \notin b /\ 1 \notin b /\ 2 \notin b /\ 3 \in b
    BY <2>3 DEF Bits
  <2>4. CASE 0 \notin b /\ 1 \notin b /\ 2 \notin b /\ 3 \notin b /\ 4 \in b
    BY <2>4 DEF Bits
  <2>5. CASE 0 \notin b /\ 1 \notin b /\ 2 \notin b /\ 3 \notin b /\ 4 \notin b /\ 5 \in b
    BY <2>5 DEF Bits
  <2>6. CASE 0 \notin b /\ 1 \notin b /\ 2 \notin b /\ 3 \notin b /\ 4 \notin b /\ 5 \notin b /\ 6 \in b
    BY <2>6 DEF Bits
  <2>7. CASE 0 \notin b /\ 1 \notin b /\ 2 \notin b /\ 3 \notin b /\ 4 \notin b /\ 5 \notin b /\ 6 \notin b /\ 7 \in b
    BY <2>7 DEF Bits
  <2>8. PICK e \in b : e \in 0..7
    BY DEF Bits
  <2>9. QED
    BY <2>0, <2>1, <2>2, <2>3, <2>4, <2>5, <2>6, <2>7, <2>8
<1>2. QED
  BY <1>1 DEF OSUnMapTbl

LEMMA EmptyListFacts ==
  /\ EmptyList \in PrioLists
  /\ WellFormed(EmptyList)
  /\ Members(EmptyList) = {}
<1>1. EmptyList \in PrioLists /\ WellFormed(EmptyList)
  BY DEF EmptyList, PrioLists, WellFormed
<1>2. Members(EmptyList) = {}
  BY Coordinates DEF EmptyList, Members
<1>3. QED
  BY <1>1, <1>2

\* A list has a member exactly when its group byte is not zero.
LEMMA GroupIsNonEmptiness ==
  ASSUME NEW l \in PrioLists, WellFormed(l)
  PROVE  l.grp = {} <=> Members(l) = {}
<1>1. ASSUME NEW p \in Members(l) PROVE Y(p) \in l.grp
  BY <1>1, Coordinates DEF Members, WellFormed
<1>2. ASSUME NEW y \in l.grp PROVE Members(l) # {}
  <2>1. y \in Bits /\ l.tbl[y] # {} /\ l.tbl[y] \in SUBSET Bits
    BY DEF WellFormed, PrioLists
  <2>2. PICK x \in l.tbl[y] : TRUE
    BY <2>1
  <2>3. y * 8 + x \in Members(l)
    BY <2>1, <2>2, CoordinatesOf DEF Members
  <2>4. QED
    BY <2>3
<1>3. QED
  BY <1>1, <1>2

LEMMA InsertFacts ==
  ASSUME NEW l \in PrioLists, NEW p \in PrioSpace
  PROVE  /\ ListInsert(l, p) \in PrioLists
         /\ WellFormed(l) => WellFormed(ListInsert(l, p))
         /\ Members(ListInsert(l, p)) = Members(l) \cup {p}
<1> DEFINE m == ListInsert(l, p)
<1>1. /\ Y(p) \in Bits /\ X(p) \in Bits
      /\ l.grp \in SUBSET Bits /\ l.tbl \in [Bits -> SUBSET Bits]
  BY Coordinates DEF PrioLists
<1>2. /\ m.grp = l.grp \cup {Y(p)}
      /\ m.tbl = [l.tbl EXCEPT ![Y(p)] = @ \cup {X(p)}]
  BY DEF ListInsert
<1>3. m \in PrioLists
  BY <1>1 DEF ListInsert, PrioLists
<1>4. WellFormed(l) => WellFormed(m)
  BY <1>1, <1>2 DEF WellFormed
<1>5. ASSUME NEW q \in PrioSpace
      PROVE  q \in Members(m) <=> q \in Members(l) \/ q = p
  <2>1. Y(q) \in Bits /\ X(q) \in Bits
    BY Coordinates
  <2>2. q = p <=> Y(q) = Y(p) /\ X(q) = X(p)
    BY Coordinates
  <2>3. m.tbl[Y(q)] = IF Y(q) = Y(p) THEN l.tbl[Y(q)] \cup {X(p)} ELSE l.tbl[Y(q)]
    BY <1>1, <1>2, <2>1
  <2>4. QED
    BY <2>1, <2>2, <2>3 DEF Members
<1>6. Members(m) = Members(l) \cup {p}
  BY <1>5 DEF Members
<1>7. QED
  BY <1>3, <1>4, <1>6

LEMMA RemoveFacts ==
  ASSUME NEW l \in PrioLists, NEW p \in PrioSpace
  PROVE  /\ ListRemove(l, p) \in PrioLists
         /\ WellFormed(l) => WellFormed(ListRemove(l, p))
         /\ Members(ListRemove(l, p)) = Members(l) \ {p}
<1> DEFINE m == ListRemove(l, p)
           byte == l.tbl[Y(p)] \ {X(p)}
<1>1. /\ Y(p) \in Bits /\ X(p) \in Bits
      /\ l.grp \in SUBSET Bits /\ l.tbl \in [Bits -> SUBSET Bits]
  BY Coordinates DEF PrioLists
<1>2. /\ m.grp = IF byte = {} THEN l.grp \ {Y(p)} ELSE l.grp
      /\ m.tbl = [l.tbl EXCEPT ![Y(p)] = byte]
  BY DEF ListRemove
<1>3. m \in PrioLists
  <2>1. m.grp \in SUBSET Bits /\ m.tbl \in [Bits -> SUBSET Bits]
    BY <1>1, <1>2
  <2>2. QED
    BY <2>1 DEF ListRemove, PrioLists
<1>4. WellFormed(l) => WellFormed(m)
  BY <1>1, <1>2 DEF WellFormed
<1>5. ASSUME NEW q \in PrioSpace
      PROVE  q \in Members(m) <=> q \in Members(l) /\ q # p
  <2>1. Y(q) \in Bits /\ X(q) \in Bits
    BY Coordinates
  <2>2. q = p <=> Y(q) = Y(p) /\ X(q) = X(p)
    BY Coordinates
  <2>3. m.tbl[Y(q)] = IF Y(q) = Y(p) THEN byte ELSE l.tbl[Y(q)]
    BY <1>1, <1>2, <2>1
  <2>4. QED
    BY <2>1, <2>2, <2>3 DEF Members
<1>6. Members(m) = Members(l) \ {p}
  BY <1>5 DEF Members
<1>7. QED
  BY <1>3, <1>4, <1>6

\* The two table look-ups return the member with the lowest number.
THEOREM HighestFacts ==
  ASSUME NEW l \in PrioLists, WellFormed(l), Members(l) # {}
  PROVE  /\ Highest(l) \in Members(l)
         /\ \A q \in Members(l) : Highest(l) <= q
<1> DEFINE y == OSUnMapTbl(l.grp)
           x == OSUnMapTbl(l.tbl[y])
<1>1. y \in l.grp /\ \A j \in l.grp : y <= j
  BY GroupIsNonEmptiness, LowestBit DEF PrioLists
<1>2. y \in Bits /\ l.tbl[y] \in SUBSET Bits /\ l.tbl[y] # {}
  BY <1>1 DEF PrioLists, WellFormed
<1>3. x \in l.tbl[y] /\ \A j \in l.tbl[y] : x <= j
  BY <1>2, LowestBit
<1>4. x \in Bits /\ Highest(l) = y * 8 + x
  BY <1>2, <1>3 DEF Highest
<1> HIDE DEF y, x
<1>5. Highest(l) \in Members(l)
  BY <1>2, <1>3, <1>4, CoordinatesOf DEF Members
<1>6. ASSUME NEW q \in Members(l) PROVE Highest(l) <= q
  <2>1. q \in PrioSpace /\ X(q) \in l.tbl[Y(q)]
    BY DEF Members
  <2>2. Y(q) \in Bits /\ X(q) \in Bits /\ q = Y(q) * 8 + X(q)
    BY <2>1, Coordinates
  <2>3. Y(q) \in l.grp
    BY <2>1, <2>2 DEF WellFormed
  <2>4. y < Y(q) \/ (y = Y(q) /\ x <= X(q))
    BY <1>1, <1>2, <1>3, <2>1, <2>2, <2>3 DEF Bits
  <2>5. QED
    BY <1>2, <1>4, <2>2, <2>4 DEF Bits
<1>7. QED
  BY <1>5, <1>6

-----------------------------------------------------------------------------
(***************************************************************************)
(* The inductive strengthening of the type invariant, cut along the groups *)
(* of variables that the actions leave alone together.                     *)
(***************************************************************************)

\* A handler is somewhere exactly while OSIntNesting says so.
CpuInv ==
  /\ OSRunning \in {OS_FALSE, OS_TRUE}
  /\ OSIntNesting \in 0..1
  /\ OSLockNesting \in 0..LOCK_MAX
  /\ OSPrioCur \in 0..OS_LOWEST_PRIO
  /\ isr \in {"none", "tick", "device", "exit"}
  /\ OSIntNesting = IF isr = "none" THEN 0 ELSE 1

TableInv ==
  /\ OSTCBPrioTbl \in [Tasks -> {"null", "reserved", "tcb"}]
  /\ OSTCBFree \in 0..OS_MAX_TASKS
  /\ OSTCBList \in SUBSET Tasks

TcbInv ==
  /\ OSTCBStat \in [Tasks -> SUBSET {"sem", "suspend"}]
  /\ OSTCBStatPend \in [Tasks -> {"ok", "to"}]
  /\ OSTCBDly \in [Tasks -> Nat]

CountInv ==
  /\ OSEventType \in [Sems -> {"unused", "sem"}]
  /\ OSEventCnt \in [Sems -> 0..SEM_MAX]

\* The object of a service call in progress is of the kind the call needs.
CallInv ==
  /\ pc \in [Tasks -> Labels]
  /\ obj \in [Tasks -> Sems \cup Prios \cup {Nil}]
  /\ \A p \in Prios :
       /\ pc[p] \in {"pendsched", "pendret"} => obj[p] \in Sems
       /\ pc[p] \in {"reserved", "taken", "filled", "nomore"} => obj[p] \in Prios

\* The idle task is always ready, so that OS_SchedNew finds a task.
ReadyInv ==
  /\ OSRdy \in PrioLists
  /\ WellFormed(OSRdy)
  /\ OS_TASK_IDLE_PRIO \in Ready
  /\ Ready \subseteq Tasks

WaitInv ==
  /\ OSEventWait \in [Sems -> PrioLists]
  /\ \A s \in Sems : WellFormed(OSEventWait[s])
  /\ \A s \in Sems : Waiting(s) \subseteq Prios

KernelInv ==
  CpuInv /\ TableInv /\ TcbInv /\ CountInv /\ CallInv /\ ReadyInv /\ WaitInv

LEMMA KernelInvImplies == KernelInv => TypeOK /\ ListsWellFormed
  BY DEF KernelInv, CpuInv, TableInv, TcbInv, CountInv, CallInv, ReadyInv, WaitInv,
         TypeOK, ListsWellFormed

-----------------------------------------------------------------------------
LEMMA TaskFacts ==
  /\ Prios \subseteq Tasks
  /\ OS_TASK_IDLE_PRIO \in Tasks
  /\ OS_TASK_IDLE_PRIO \notin Prios
  /\ Tasks \subseteq 0..OS_LOWEST_PRIO
  /\ Tasks \subseteq PrioSpace
  BY KernelAssumption DEF Tasks, OS_TASK_IDLE_PRIO, PrioSpace

LEMMA ReadyAllFacts ==
  ASSUME NEW l \in PrioLists, NEW S \in SUBSET PrioSpace
  PROVE  /\ ReadyAll(l, S) \in PrioLists
         /\ WellFormed(l) => WellFormed(ReadyAll(l, S))
         /\ Members(ReadyAll(l, S)) = Members(l) \cup S
<1> DEFINE m == ReadyAll(l, S)
<1>1. l.grp \in SUBSET Bits /\ l.tbl \in [Bits -> SUBSET Bits]
  BY DEF PrioLists
<1>2. \A p \in S : Y(p) \in Bits /\ X(p) \in Bits
  BY Coordinates
<1>3. /\ m.grp = l.grp \cup {Y(p) : p \in S}
      /\ m.tbl = [y \in Bits |-> l.tbl[y] \cup {X(p) : p \in {q \in S : Y(q) = y}}]
  BY DEF ReadyAll
<1>4. m.grp \in SUBSET Bits /\ m.tbl \in [Bits -> SUBSET Bits]
  BY <1>1, <1>2, <1>3
<1>5. m \in PrioLists
  BY <1>4 DEF ReadyAll, PrioLists
<1>6. ASSUME WellFormed(l), NEW y \in Bits
      PROVE  y \in m.grp <=> m.tbl[y] # {}
  <2>1. m.tbl[y] = l.tbl[y] \cup {X(p) : p \in {q \in S : Y(q) = y}}
    BY <1>3
  <2>2. y \in l.grp <=> l.tbl[y] # {}
    BY <1>6 DEF WellFormed
  <2>3. QED
    BY <1>3, <2>1, <2>2
<1>7. WellFormed(l) => WellFormed(m)
  BY <1>6 DEF WellFormed
<1>8. ASSUME NEW q \in PrioSpace
      PROVE  q \in Members(m) <=> q \in Members(l) \/ q \in S
  <2>1. Y(q) \in Bits /\ X(q) \in Bits
    BY Coordinates
  <2>2. m.tbl[Y(q)] = l.tbl[Y(q)] \cup {X(p) : p \in {r \in S : Y(r) = Y(q)}}
    BY <1>3, <2>1
  <2>3. \A p \in S : Y(p) = Y(q) /\ X(p) = X(q) => p = q
    BY Coordinates
  <2>4. QED
    BY <2>2, <2>3 DEF Members
<1>9. Members(m) = Members(l) \cup S
  BY <1>8 DEF Members
<1>10. QED
  BY <1>5, <1>7, <1>9

\* OS_SchedNew always finds a ready task.
LEMMA SchedFindsTask ==
  ASSUME ReadyInv
  PROVE  /\ Highest(OSRdy) \in Ready
         /\ Highest(OSRdy) \in 0..OS_LOWEST_PRIO
         /\ \A q \in Ready : Highest(OSRdy) <= q
<1>1. /\ Highest(OSRdy) \in Ready
      /\ \A q \in Ready : Highest(OSRdy) <= q
  BY HighestFacts DEF ReadyInv, Ready
<1>2. QED
  BY <1>1, TaskFacts DEF ReadyInv

\* OS_EventTaskRdy, called with a wait list that is not empty, finds a task.
LEMMA PostFindsTask ==
  ASSUME WaitInv, NEW s \in Sems, OSEventWait[s].grp # {}
  PROVE  /\ Highest(OSEventWait[s]) \in Waiting(s)
         /\ Highest(OSEventWait[s]) \in Prios
<1>1. OSEventWait[s] \in PrioLists /\ WellFormed(OSEventWait[s])
  BY DEF WaitInv
<1>2. Members(OSEventWait[s]) # {}
  BY <1>1, GroupIsNonEmptiness
<1>3. QED
  BY <1>1, <1>2, HighestFacts DEF WaitInv, Waiting

-----------------------------------------------------------------------------
(***************************************************************************)
(* What each kind of assignment does to its group.                         *)
(***************************************************************************)
LEMMA GroupsUnchanged ==
  ASSUME KernelInv
  PROVE  /\ UNCHANGED cpuVars => CpuInv'
         /\ UNCHANGED listVars => TableInv'
         /\ UNCHANGED tcbVars => TcbInv'
         /\ UNCHANGED <<OSEventType, OSEventCnt>> => CountInv'
         /\ UNCHANGED <<pc, obj>> => CallInv'
         /\ UNCHANGED OSRdy => ReadyInv' /\ Ready' = Ready
         /\ UNCHANGED OSEventWait => WaitInv'
<1>1. UNCHANGED cpuVars => CpuInv'
  BY DEF KernelInv, CpuInv, cpuVars
<1>2. UNCHANGED listVars => TableInv'
  BY DEF KernelInv, TableInv, listVars
<1>3. UNCHANGED tcbVars => TcbInv'
  BY DEF KernelInv, TcbInv, tcbVars
<1>4. UNCHANGED <<OSEventType, OSEventCnt>> => CountInv'
  BY DEF KernelInv, CountInv
<1>5. UNCHANGED <<pc, obj>> => CallInv'
  BY DEF KernelInv, CallInv
<1>6. UNCHANGED OSRdy => ReadyInv' /\ Ready' = Ready
  BY DEF KernelInv, ReadyInv, Ready
<1>7. UNCHANGED OSEventWait => WaitInv'
  BY DEF KernelInv, WaitInv, Waiting
<1>8. QED
  BY <1>1, <1>2, <1>3, <1>4, <1>5, <1>6, <1>7

LEMMA ReadyInsert ==
  ASSUME ReadyInv, NEW p \in Tasks, OSRdy' = ListInsert(OSRdy, p)
  PROVE  ReadyInv' /\ Ready' = Ready \cup {p}
  BY InsertFacts, TaskFacts DEF ReadyInv, Ready

LEMMA ReadyRemove ==
  ASSUME ReadyInv, NEW p \in Prios, OSRdy' = ListRemove(OSRdy, p)
  PROVE  ReadyInv' /\ Ready' = Ready \ {p}
  BY RemoveFacts, TaskFacts DEF ReadyInv, Ready

LEMMA WaitInsert ==
  ASSUME WaitInv, NEW s \in Sems, NEW p \in Prios,
         OSEventWait' = [OSEventWait EXCEPT ![s] = ListInsert(@, p)]
  PROVE  /\ WaitInv'
         /\ Waiting(s)' = Waiting(s) \cup {p}
         /\ \A t \in Sems \ {s} : Waiting(t)' = Waiting(t)
<1>1. OSEventWait \in [Sems -> PrioLists] /\ p \in PrioSpace
  BY TaskFacts DEF WaitInv
<1>2. /\ OSEventWait'[s] = ListInsert(OSEventWait[s], p)
      /\ \A t \in Sems \ {s} : OSEventWait'[t] = OSEventWait[t]
  BY <1>1
<1>3. /\ OSEventWait'[s] \in PrioLists
      /\ WellFormed(OSEventWait[s])'
      /\ Waiting(s)' = Waiting(s) \cup {p}
  BY <1>1, <1>2, InsertFacts DEF WaitInv, Waiting
<1>4. \A t \in Sems \ {s} : Waiting(t)' = Waiting(t)
  BY <1>2 DEF Waiting
<1>5. OSEventWait' \in [Sems -> PrioLists]
  BY <1>1, <1>3
<1>6. \A t \in Sems : WellFormed(OSEventWait[t])'
  BY <1>2, <1>3 DEF WaitInv
<1>7. \A t \in Sems : Waiting(t)' \subseteq Prios
  BY <1>3, <1>4 DEF WaitInv
<1>8. QED
  BY <1>3, <1>4, <1>5, <1>6, <1>7 DEF WaitInv

LEMMA WaitRemove ==
  ASSUME WaitInv, NEW s \in Sems, NEW p \in Prios,
         OSEventWait' = [OSEventWait EXCEPT ![s] = ListRemove(@, p)]
  PROVE  /\ WaitInv'
         /\ Waiting(s)' = Waiting(s) \ {p}
         /\ \A t \in Sems \ {s} : Waiting(t)' = Waiting(t)
<1>1. OSEventWait \in [Sems -> PrioLists] /\ p \in PrioSpace
  BY TaskFacts DEF WaitInv
<1>2. /\ OSEventWait'[s] = ListRemove(OSEventWait[s], p)
      /\ \A t \in Sems \ {s} : OSEventWait'[t] = OSEventWait[t]
  BY <1>1
<1>3. /\ OSEventWait'[s] \in PrioLists
      /\ WellFormed(OSEventWait[s])'
      /\ Waiting(s)' = Waiting(s) \ {p}
  BY <1>1, <1>2, RemoveFacts DEF WaitInv, Waiting
<1>4. \A t \in Sems \ {s} : Waiting(t)' = Waiting(t)
  BY <1>2 DEF Waiting
<1>5. OSEventWait' \in [Sems -> PrioLists]
  BY <1>1, <1>3
<1>6. \A t \in Sems : WellFormed(OSEventWait[t])'
  BY <1>2, <1>3 DEF WaitInv
<1>7. \A t \in Sems : Waiting(t)' \subseteq Prios
  BY <1>3, <1>4 DEF WaitInv
<1>8. QED
  BY <1>3, <1>4, <1>5, <1>6, <1>7 DEF WaitInv

\* A task goes on somewhere else, its call about another object or the same.
LEMMA CallGoes ==
  ASSUME CallInv, NEW p \in Prios, NEW l \in Labels, NEW o \in Sems \cup Prios \cup {Nil},
         Goto(p, l), obj' = [obj EXCEPT ![p] = o],
         l \in {"pendsched", "pendret"} => o \in Sems,
         l \in {"reserved", "taken", "filled", "nomore"} => o \in Prios
  PROVE  CallInv'
<1>1. /\ pc \in [Tasks -> Labels]
      /\ obj \in [Tasks -> Sems \cup Prios \cup {Nil}]
      /\ p \in Tasks
      /\ Prios \subseteq Tasks
  BY TaskFacts DEF CallInv
<1>2. pc' = [pc EXCEPT ![p] = l]
  BY DEF Goto
<1>3. pc' \in [Tasks -> Labels]
  BY <1>1, <1>2
<1>4. obj' \in [Tasks -> Sems \cup Prios \cup {Nil}]
  BY <1>1
<1>5. ASSUME NEW q \in Prios
      PROVE  /\ pc'[q] \in {"pendsched", "pendret"} => obj'[q] \in Sems
             /\ pc'[q] \in {"reserved", "taken", "filled", "nomore"}
                  => obj'[q] \in Prios
  <2>1. CASE q = p
    <3>1. pc'[q] = l /\ obj'[q] = o
      BY <1>1, <1>2, <2>1
    <3>2. QED
      BY <3>1
  <2>2. CASE q # p
    <3>1. pc'[q] = pc[q] /\ obj'[q] = obj[q]
      BY <1>1, <1>2, <2>2
    <3>2. QED
      BY <3>1 DEF CallInv
  <2>3. QED
    BY <2>1, <2>2
<1>6. QED
  BY <1>3, <1>4, <1>5 DEF CallInv

LEMMA CallGoesOn ==
  ASSUME CallInv, NEW p \in Prios, NEW l \in Labels,
         Goto(p, l), UNCHANGED obj,
         l \in {"pendsched", "pendret"} => obj[p] \in Sems,
         l \in {"reserved", "taken", "filled", "nomore"} => obj[p] \in Prios
  PROVE  CallInv'
<1>1. p \in Tasks /\ obj \in [Tasks -> Sems \cup Prios \cup {Nil}]
  BY TaskFacts DEF CallInv
<1>2. obj[p] \in Sems \cup Prios \cup {Nil}
  BY <1>1
<1>3. obj' = [obj EXCEPT ![p] = obj[p]]
  BY <1>1
<1>4. QED
  BY <1>2, <1>3, CallGoes

LEMMA InitKernelInv == Init => KernelInv
<1> SUFFICES ASSUME Init PROVE KernelInv
  OBVIOUS
<1>1. ReadyInv
  BY EmptyListFacts, InsertFacts, TaskFacts DEF Init, OS_InitTaskIdle, Ready, ReadyInv
<1>2. WaitInv
  <2>1. \A s \in Sems : OSEventWait[s] = EmptyList
    BY DEF Init, OS_InitEventList
  <2>2. OSEventWait \in [Sems -> PrioLists]
    BY EmptyListFacts DEF Init, OS_InitEventList
  <2>3. QED
    BY <2>1, <2>2, EmptyListFacts DEF WaitInv, Waiting
<1>3. CpuInv
  BY KernelAssumption DEF Init, OS_InitMisc, OS_InitRdyList, CpuInv, OS_FALSE, OS_TRUE
<1>4. TableInv
  BY TaskFacts, KernelAssumption DEF Init, OS_InitTCBList, OS_InitTaskIdle,
                                       TableInv
<1>5. TcbInv
  BY DEF Init, OS_InitTCBList, TcbInv
<1>6. CountInv
  BY KernelAssumption DEF Init, OS_InitEventList, CountInv
<1>7. CallInv
  BY TaskFacts DEF Init, CallInv, Labels
<1>8. QED
  BY <1>1, <1>2, <1>3, <1>4, <1>5, <1>6, <1>7 DEF KernelInv

-----------------------------------------------------------------------------
(***************************************************************************)
(* One lemma per group of actions: boot, scheduler, semaphores, suspension *)
(* and lock, creation, interrupts.                                         *)
(***************************************************************************)
LEMMA BootKeepsInv ==
  ASSUME KernelInv
  PROVE  /\ \A p \in Prios : MainCreatesTask(p) => KernelInv'
         /\ OSStart => KernelInv'
<1>1. ASSUME NEW p \in Prios, MainCreatesTask(p) PROVE KernelInv'
  <2>1. CpuInv' /\ TcbInv' /\ CountInv' /\ CallInv' /\ WaitInv'
    BY <1>1, GroupsUnchanged DEF MainCreatesTask, eventVars
  <2>2. ReadyInv'
    BY <1>1, ReadyInsert, TaskFacts DEF MainCreatesTask, KernelInv
  <2>3. TableInv'
    BY <1>1, TaskFacts, KernelAssumption DEF MainCreatesTask, KernelInv, TableInv
  <2>4. QED
    BY <2>1, <2>2, <2>3 DEF KernelInv
<1>2. ASSUME OSStart PROVE KernelInv'
  <2>1. TableInv' /\ TcbInv' /\ CountInv' /\ CallInv' /\ ReadyInv' /\ WaitInv'
    BY <1>2, GroupsUnchanged DEF OSStart, eventVars
  <2>2. CpuInv'
    BY <1>2, SchedFindsTask DEF OSStart, KernelInv, CpuInv
  <2>3. QED
    BY <2>1, <2>2 DEF KernelInv
<1>3. QED
  BY <1>1, <1>2

\* A delay in hours, minutes, seconds and milliseconds is at least one tick,
\* and its ticks fit into 32 bits (and even into 31).
LEMMA DelayFits ==
  ASSUME NEW d \in Durations, ValidDelay(d)
  PROVE  TicksOf(d) \in 1..(256 * 3600 * OS_TICKS_PER_SEC)
<1>1. /\ d.hours \in Nat /\ d.minutes \in Nat /\ d.seconds \in Nat /\ d.ms \in Nat
      /\ d.hours =< 255 /\ d.minutes =< 59 /\ d.seconds =< 59 /\ d.ms =< 999
  BY SMT DEF Durations, ValidDelay
<1>2. d.hours > 0 \/ d.minutes > 0 \/ d.seconds > 0 \/ d.ms > 0
  BY DEF ValidDelay
<1>3. PICK h \in Nat : h = d.hours
  BY <1>1
<1>4. PICK m \in Nat : m = d.minutes
  BY <1>1
<1>5. PICK s \in Nat : s = d.seconds
  BY <1>1
<1>6. PICK k \in Nat : k = d.ms
  BY <1>1
<1>7. /\ h =< 255 /\ m =< 59 /\ s =< 59 /\ k =< 999
      /\ h > 0 \/ m > 0 \/ s > 0 \/ k > 0
  BY <1>1, <1>2, <1>3, <1>4, <1>5, <1>6
<1>8. TicksOf(d) = (h * 3600 + m * 60 + s) * 1000 + k
  <2>1. TicksOf(d) = (h * 3600 + m * 60 + s) * 1000 + (1000 * (k + 500 \div 1000)) \div 1000
    BY <1>3, <1>4, <1>5, <1>6, SMT DEF TicksOf, OS_TICKS_PER_SEC
  <2>2. (1000 * (k + 500 \div 1000)) \div 1000 = k
    BY SMT
  <2>3. QED
    BY <2>1, <2>2, SMT
<1>9. PICK n \in Nat : n = (h * 3600 + m * 60 + s) * 1000 + k
  BY SMT
<1>10. n >= 1 /\ n =< 921600000
  BY <1>7, <1>9, SMT
<1>11. 256 * 3600 * OS_TICKS_PER_SEC = 921600000
  BY SMT DEF OS_TICKS_PER_SEC
<1>12. TicksOf(d) = n
  BY <1>8, <1>9, SMT
<1>13. QED
  BY <1>10, <1>11, <1>12, SMT

LEMMA SchedulerKeepsInv ==
  ASSUME KernelInv, NEW p \in Prios
  PROVE  /\ OS_Sched(p) => KernelInv'
         /\ \A ticks \in Nat : OSTimeDly(p, ticks) => KernelInv'
<1>1. ASSUME OS_Sched(p) PROVE KernelInv'
  <2>1. TableInv' /\ TcbInv' /\ CountInv' /\ ReadyInv' /\ WaitInv'
    BY <1>1, GroupsUnchanged DEF OS_Sched, eventVars
  <2>2. CpuInv'
    BY <1>1, SchedFindsTask DEF OS_Sched, KernelInv, CpuInv
  <2>3. /\ AfterSched(pc[p]) \in {"run", "pendret"}
        /\ AfterSched(pc[p]) = "pendret" => obj[p] \in Sems
    BY <1>1 DEF OS_Sched, At, AfterSched, KernelInv, CallInv
  <2>4. CallInv'
    BY <1>1, <2>3, CallGoesOn DEF OS_Sched, KernelInv, Labels
  <2>5. QED
    BY <2>1, <2>2, <2>4 DEF KernelInv
<1>2. ASSUME NEW ticks \in Nat, OSTimeDly(p, ticks) PROVE KernelInv'
  <2>1. CpuInv' /\ TableInv' /\ CountInv' /\ WaitInv'
    BY <1>2, GroupsUnchanged DEF OSTimeDly, eventVars
  <2>2. ReadyInv'
    BY <1>2, ReadyRemove DEF OSTimeDly, KernelInv
  <2>3. TcbInv'
    BY <1>2, TaskFacts DEF OSTimeDly, KernelInv, TcbInv
  <2>4. CallInv'
    BY <1>2, CallGoesOn DEF OSTimeDly, KernelInv, Labels
  <2>5. QED
    BY <2>1, <2>2, <2>3, <2>4 DEF KernelInv
<1>3. QED
  BY <1>1, <1>2

LEMMA TakeKeepsInv ==
  ASSUME KernelInv, NEW s \in Sems, TakeToken(s)
  PROVE  KernelInv'
<1>1. CpuInv' /\ TableInv' /\ TcbInv' /\ CallInv' /\ ReadyInv' /\ WaitInv'
  BY GroupsUnchanged DEF TakeToken
<1>2. CountInv'
  BY KernelAssumption DEF TakeToken, KernelInv, CountInv
<1>3. QED
  BY <1>1, <1>2 DEF KernelInv

LEMMA SemCreateKeepsInv ==
  ASSUME KernelInv, NEW p \in Prios, NEW s \in Sems, NEW cnt \in Counts,
         OSSemCreate(p, s, cnt)
  PROVE  KernelInv'
<1>1. CpuInv' /\ TableInv' /\ TcbInv' /\ CallInv' /\ ReadyInv'
  BY GroupsUnchanged DEF OSSemCreate
<1>2. CountInv'
  BY KernelAssumption DEF OSSemCreate, KernelInv, CountInv
<1>3. WaitInv'
  <2>1. /\ OSEventWait \in [Sems -> PrioLists]
        /\ OSEventWait' = [OSEventWait EXCEPT ![s] = EmptyList]
    BY DEF OSSemCreate, KernelInv, WaitInv
  <2>2. /\ OSEventWait' \in [Sems -> PrioLists]
        /\ OSEventWait'[s] = EmptyList
        /\ \A t \in Sems \ {s} : OSEventWait'[t] = OSEventWait[t]
    BY <2>1, EmptyListFacts
  <2>3. QED
    BY <2>2, EmptyListFacts DEF KernelInv, WaitInv, Waiting
<1>4. QED
  BY <1>1, <1>2, <1>3 DEF KernelInv

LEMMA PendWaitKeepsInv ==
  ASSUME KernelInv, NEW p \in Prios, NEW s \in Sems, NEW timeout \in Ticks,
         OSSemPendWait(p, s, timeout)
  PROVE  KernelInv'
<1>1. CpuInv' /\ TableInv' /\ CountInv'
  BY GroupsUnchanged DEF OSSemPendWait
<1>2. WaitInv'
  BY WaitInsert DEF OSSemPendWait, KernelInv
<1>3. ReadyInv'
  BY ReadyRemove DEF OSSemPendWait, KernelInv
<1>4. TcbInv'
  BY TaskFacts, KernelAssumption DEF OSSemPendWait, KernelInv, TcbInv
<1>5. CallInv'
  BY CallGoes DEF OSSemPendWait, KernelInv, Labels
<1>6. QED
  BY <1>1, <1>2, <1>3, <1>4, <1>5 DEF KernelInv

LEMMA PendReturnsKeepsInv ==
  ASSUME KernelInv, NEW p \in Prios
  PROVE  /\ OSSemPendOk(p) => KernelInv'
         /\ OSSemPendTimeout(p) => KernelInv'
<1>1. ASSUME PendReturns(p)
      PROVE  /\ CpuInv' /\ TableInv' /\ CountInv' /\ ReadyInv' /\ CallInv'
             /\ OSTCBStat' \in [Tasks -> SUBSET {"sem", "suspend"}]
             /\ OSTCBDly' \in [Tasks -> Nat]
             /\ obj[p] \in Sems
  <2>1. CpuInv' /\ TableInv' /\ CountInv' /\ ReadyInv'
    BY <1>1, GroupsUnchanged DEF PendReturns
  <2>2. CallInv'
    BY <1>1, CallGoes DEF PendReturns, KernelInv, Labels
  <2>3. OSTCBStat' \in [Tasks -> SUBSET {"sem", "suspend"}]
    BY <1>1, TaskFacts DEF PendReturns, KernelInv, TcbInv
  <2>4. OSTCBDly' \in [Tasks -> Nat]
    BY <1>1 DEF PendReturns, KernelInv, TcbInv
  <2>5. obj[p] \in Sems
    BY <1>1 DEF PendReturns, At, KernelInv, CallInv
  <2>6. QED
    BY <2>1, <2>2, <2>3, <2>4, <2>5
<1>2. ASSUME OSSemPendOk(p) PROVE KernelInv'
  <2>1. WaitInv'
    BY <1>2, GroupsUnchanged DEF OSSemPendOk
  <2>2. OSTCBStatPend' \in [Tasks -> {"ok", "to"}]
    BY <1>2 DEF OSSemPendOk, KernelInv, TcbInv
  <2>3. QED
    BY <1>1, <1>2, <2>1, <2>2 DEF OSSemPendOk, KernelInv, TcbInv
<1>3. ASSUME OSSemPendTimeout(p) PROVE KernelInv'
  <2>1. WaitInv'
    BY <1>1, <1>3, WaitRemove DEF OSSemPendTimeout, KernelInv
  <2>2. OSTCBStatPend' \in [Tasks -> {"ok", "to"}]
    BY <1>3 DEF OSSemPendTimeout, KernelInv, TcbInv
  <2>3. QED
    BY <1>1, <1>3, <2>1, <2>2 DEF OSSemPendTimeout, KernelInv, TcbInv
<1>4. QED
  BY <1>2, <1>3

\* OSSemPost from a task and from a handler, except for where the task goes.
LEMMA PostKeepsInv ==
  ASSUME KernelInv, NEW s \in Sems, PostWakes(s) \/ PostCounts(s)
  PROVE  /\ CpuInv' /\ TableInv' /\ TcbInv' /\ CountInv' /\ ReadyInv' /\ WaitInv'
         /\ UNCHANGED obj
         /\ PostCounts(s) => UNCHANGED pc
<1>1. CASE PostWakes(s)
  <2> DEFINE t == Highest(OSEventWait[s])
  <2>1. t \in Prios /\ t \in Tasks
    BY <1>1, PostFindsTask, TaskFacts DEF PostWakes, KernelInv
  <2>2. CpuInv' /\ TableInv' /\ CountInv' /\ UNCHANGED obj
    BY <1>1, GroupsUnchanged DEF PostWakes, OS_EventTaskRdy
  <2>3. ReadyInv'
    <3>1. \/ OSRdy' = OSRdy
          \/ OSRdy' = ListInsert(OSRdy, t)
      BY <1>1 DEF PostWakes, OS_EventTaskRdy
    <3>2. QED
      BY <2>1, <3>1, GroupsUnchanged, ReadyInsert DEF KernelInv
  <2>4. WaitInv'
    <3>1. OSEventWait' = [OSEventWait EXCEPT ![s] = ListRemove(@, t)]
      BY <1>1 DEF PostWakes, OS_EventTaskRdy
    <3>2. QED
      BY <2>1, <3>1, WaitRemove DEF KernelInv
  <2>5. TcbInv'
    <3>1. /\ OSTCBDly' = [OSTCBDly EXCEPT ![t] = 0]
          /\ OSTCBStat' = [OSTCBStat EXCEPT ![t] = @ \ {"sem"}]
          /\ OSTCBStatPend' = [OSTCBStatPend EXCEPT ![t] = "ok"]
      BY <1>1 DEF PostWakes, OS_EventTaskRdy
    <3>2. QED
      BY <2>1, <3>1 DEF KernelInv, TcbInv
  <2>6. PostCounts(s) => UNCHANGED pc
    BY DEF PostCounts
  <2>7. QED
    BY <2>2, <2>3, <2>4, <2>5, <2>6
<1>2. CASE PostCounts(s)
  <2>1. CpuInv' /\ TableInv' /\ TcbInv' /\ ReadyInv' /\ WaitInv' /\ UNCHANGED <<pc, obj>>
    BY <1>2, GroupsUnchanged DEF PostCounts
  <2>2. CountInv'
    BY <1>2, KernelAssumption DEF PostCounts, KernelInv, CountInv
  <2>3. QED
    BY <2>1, <2>2
<1>3. QED
  BY <1>1, <1>2

LEMMA SemPostKeepsInv ==
  ASSUME KernelInv, NEW s \in Sems
  PROVE  /\ \A p \in Prios : OSSemPost(p, s) => KernelInv'
         /\ IsrPost(s) => KernelInv'
<1>1. ASSUME NEW p \in Prios, OSSemPost(p, s) PROVE KernelInv'
  <2>1. CASE PostWakes(s) /\ Goto(p, "sched")
    <3>1. CallInv'
      BY <2>1, PostKeepsInv, CallGoesOn DEF KernelInv, Labels
    <3>2. QED
      BY <2>1, <3>1, PostKeepsInv DEF KernelInv
  <2>2. CASE PostCounts(s)
    <3>1. CallInv'
      BY <2>2, PostKeepsInv, GroupsUnchanged
    <3>2. QED
      BY <2>2, <3>1, PostKeepsInv DEF KernelInv
  <2>3. QED
    BY <1>1, <2>1, <2>2 DEF OSSemPost
<1>2. ASSUME IsrPost(s) PROVE KernelInv'
  <2>1. PostWakes(s) \/ PostCounts(s)
    BY <1>2 DEF IsrPost
  <2>2. UNCHANGED <<pc, obj>>
    BY <1>2, <2>1, PostKeepsInv DEF IsrPost
  <2>3. CallInv'
    BY <2>2, GroupsUnchanged
  <2>4. QED
    BY <2>1, <2>3, PostKeepsInv DEF KernelInv
<1>3. QED
  BY <1>1, <1>2

LEMMA SuspendKeepsInv ==
  ASSUME KernelInv, NEW p \in Prios, NEW q \in Prios
  PROVE  /\ OSTaskSuspend(p, q) => KernelInv'
         /\ OSTaskResume(p, q) => KernelInv'
<1>1. ASSUME OSTaskSuspend(p, q) PROVE KernelInv'
  <2>1. CpuInv' /\ TableInv' /\ CountInv' /\ WaitInv'
    BY <1>1, GroupsUnchanged DEF OSTaskSuspend, eventVars
  <2>2. ReadyInv'
    BY <1>1, ReadyRemove DEF OSTaskSuspend, KernelInv
  <2>3. TcbInv'
    BY <1>1, TaskFacts DEF OSTaskSuspend, KernelInv, TcbInv
  <2>4. CallInv'
    BY <1>1, GroupsUnchanged, CallGoesOn DEF OSTaskSuspend, KernelInv, Labels
  <2>5. QED
    BY <2>1, <2>2, <2>3, <2>4 DEF KernelInv
<1>2. ASSUME OSTaskResume(p, q) PROVE KernelInv'
  <2>1. CpuInv' /\ TableInv' /\ CountInv' /\ WaitInv'
    BY <1>2, GroupsUnchanged DEF OSTaskResume, eventVars
  <2>2. ReadyInv'
    BY <1>2, ReadyInsert, GroupsUnchanged, TaskFacts DEF OSTaskResume, KernelInv
  <2>3. TcbInv'
    BY <1>2, TaskFacts DEF OSTaskResume, KernelInv, TcbInv
  <2>4. CallInv'
    BY <1>2, GroupsUnchanged, CallGoesOn DEF OSTaskResume, KernelInv, Labels
  <2>5. QED
    BY <2>1, <2>2, <2>3, <2>4 DEF KernelInv
<1>3. QED
  BY <1>1, <1>2

LEMMA LockKeepsInv ==
  ASSUME KernelInv, NEW p \in Prios
  PROVE  /\ OSSchedLock(p) => KernelInv'
         /\ OSSchedUnlock(p) => KernelInv'
<1>1. ASSUME OSSchedLock(p) PROVE KernelInv'
  <2>1. TableInv' /\ TcbInv' /\ CountInv' /\ CallInv' /\ ReadyInv' /\ WaitInv'
    BY <1>1, GroupsUnchanged DEF OSSchedLock, eventVars
  <2>2. CpuInv'
    BY <1>1, KernelAssumption DEF OSSchedLock, KernelInv, CpuInv
  <2>3. QED
    BY <2>1, <2>2 DEF KernelInv
<1>2. ASSUME OSSchedUnlock(p) PROVE KernelInv'
  <2>1. TableInv' /\ TcbInv' /\ CountInv' /\ ReadyInv' /\ WaitInv'
    BY <1>2, GroupsUnchanged DEF OSSchedUnlock, eventVars
  <2>2. CpuInv'
    BY <1>2, KernelAssumption DEF OSSchedUnlock, KernelInv, CpuInv
  <2>3. CallInv'
    BY <1>2, GroupsUnchanged, CallGoesOn DEF OSSchedUnlock, KernelInv, Labels
  <2>4. QED
    BY <2>1, <2>2, <2>3 DEF KernelInv
<1>3. QED
  BY <1>1, <1>2

LEMMA CreateKeepsInv ==
  ASSUME KernelInv, NEW p \in Prios
  PROVE  /\ \A q \in Prios : OSTaskCreateReserve(p, q) => KernelInv'
         /\ OS_TCBInitTake(p) => KernelInv'
         /\ OS_TCBInitFill(p) => KernelInv'
         /\ OS_TCBInitLink(p) => KernelInv'
         /\ OSTaskCreateFails(p) => KernelInv'
<1>1. ASSUME NEW q \in Prios, OSTaskCreateReserve(p, q) PROVE KernelInv'
  <2>1. CpuInv' /\ TcbInv' /\ CountInv' /\ ReadyInv' /\ WaitInv'
    BY <1>1, GroupsUnchanged DEF OSTaskCreateReserve, eventVars
  <2>2. TableInv'
    BY <1>1, TaskFacts DEF OSTaskCreateReserve, KernelInv, TableInv
  <2>3. CallInv'
    BY <1>1, CallGoes DEF OSTaskCreateReserve, KernelInv, Labels
  <2>4. QED
    BY <2>1, <2>2, <2>3 DEF KernelInv
<1>2. ASSUME OS_TCBInitTake(p) PROVE KernelInv'
  <2>1. CpuInv' /\ TcbInv' /\ CountInv' /\ ReadyInv' /\ WaitInv'
    BY <1>2, GroupsUnchanged DEF OS_TCBInitTake, eventVars
  <2>2. TableInv'
    BY <1>2, KernelAssumption DEF OS_TCBInitTake, KernelInv, TableInv
  <2>3. obj[p] \in Prios
    BY <1>2 DEF OS_TCBInitTake, At, KernelInv, CallInv
  <2>4. CallInv'
    BY <1>2, <2>3, CallGoesOn DEF OS_TCBInitTake, KernelInv, Labels
  <2>5. QED
    BY <2>1, <2>2, <2>4 DEF KernelInv
<1>3. ASSUME OS_TCBInitFill(p) PROVE KernelInv'
  <2>1. CpuInv' /\ CountInv' /\ ReadyInv' /\ WaitInv'
    BY <1>3, GroupsUnchanged DEF OS_TCBInitFill, eventVars
  <2>2. obj[p] \in Prios /\ obj[p] \in Tasks
    BY <1>3, TaskFacts DEF OS_TCBInitFill, At, KernelInv, CallInv
  <2>3. TableInv'
    BY <1>3, <2>2 DEF OS_TCBInitFill, KernelInv, TableInv
  <2>4. TcbInv'
    BY <1>3, <2>2 DEF OS_TCBInitFill, KernelInv, TcbInv
  <2>5. CallInv'
    BY <1>3, <2>2, CallGoesOn DEF OS_TCBInitFill, KernelInv, Labels
  <2>6. QED
    BY <2>1, <2>3, <2>4, <2>5 DEF KernelInv
<1>4. ASSUME OS_TCBInitLink(p) PROVE KernelInv'
  <2>1. CpuInv' /\ TcbInv' /\ CountInv' /\ WaitInv'
    BY <1>4, GroupsUnchanged DEF OS_TCBInitLink, eventVars
  <2>2. obj[p] \in Tasks
    BY <1>4, TaskFacts DEF OS_TCBInitLink, At, KernelInv, CallInv
  <2>3. TableInv'
    BY <1>4, <2>2 DEF OS_TCBInitLink, KernelInv, TableInv
  <2>4. ReadyInv'
    BY <1>4, <2>2, ReadyInsert DEF OS_TCBInitLink, KernelInv
  <2>5. CallInv'
    BY <1>4, CallGoes DEF OS_TCBInitLink, KernelInv, Labels
  <2>6. QED
    BY <2>1, <2>3, <2>4, <2>5 DEF KernelInv
<1>5. ASSUME OSTaskCreateFails(p) PROVE KernelInv'
  <2>1. CpuInv' /\ TcbInv' /\ CountInv' /\ ReadyInv' /\ WaitInv'
    BY <1>5, GroupsUnchanged DEF OSTaskCreateFails, eventVars
  <2>2. TableInv'
    BY <1>5 DEF OSTaskCreateFails, KernelInv, TableInv
  <2>3. CallInv'
    BY <1>5, CallGoes DEF OSTaskCreateFails, KernelInv, Labels
  <2>4. QED
    BY <2>1, <2>2, <2>3 DEF KernelInv
<1>6. QED
  BY <1>1, <1>2, <1>3, <1>4, <1>5

LEMMA TickKeepsInv ==
  ASSUME KernelInv, OSTimeTick
  PROVE  KernelInv'
<1>1. TableInv' /\ CountInv' /\ CallInv' /\ WaitInv'
  BY GroupsUnchanged DEF OSTimeTick, eventVars
<1>2. CpuInv'
  BY DEF OSTimeTick, KernelInv, CpuInv
<1>3. TcbInv'
  <2>1. OSTCBDly' \in [Tasks -> Nat]
    BY DEF OSTimeTick, KernelInv, TcbInv
  <2>2. OSTCBStatPend' \in [Tasks -> {"ok", "to"}]
    BY DEF OSTimeTick, KernelInv, TcbInv
  <2>3. OSTCBStat' \in [Tasks -> SUBSET {"sem", "suspend"}]
    BY DEF OSTimeTick, KernelInv, TcbInv
  <2>4. QED
    BY <2>1, <2>2, <2>3 DEF TcbInv
<1>4. ReadyInv'
  <2> DEFINE S == {p \in Expiring : "suspend" \notin OSTCBStat[p]}
  <2>1. S \subseteq Tasks /\ S \in SUBSET PrioSpace
    BY TaskFacts DEF Expiring, KernelInv, TableInv
  <2>2. OSRdy' = ReadyAll(OSRdy, S) /\ OSRdy \in PrioLists
    BY DEF OSTimeTick, KernelInv, ReadyInv
  <2> HIDE DEF S
  <2>3. QED
    BY <2>1, <2>2, ReadyAllFacts DEF KernelInv, ReadyInv, Ready
<1>5. QED
  BY <1>1, <1>2, <1>3, <1>4 DEF KernelInv

LEMMA IrqKeepsInv ==
  ASSUME KernelInv
  PROVE  /\ \A source \in {"tick", "device"} : IrqEnter(source) => KernelInv'
         /\ OSIntExit => KernelInv'
<1>1. ASSUME NEW source \in {"tick", "device"}, IrqEnter(source) PROVE KernelInv'
  <2>1. TableInv' /\ TcbInv' /\ CountInv' /\ CallInv' /\ ReadyInv' /\ WaitInv'
    BY <1>1, GroupsUnchanged DEF IrqEnter, eventVars
  <2>2. CpuInv'
    BY <1>1 DEF IrqEnter, KernelInv, CpuInv
  <2>3. QED
    BY <2>1, <2>2 DEF KernelInv
<1>2. ASSUME OSIntExit PROVE KernelInv'
  <2>1. TableInv' /\ TcbInv' /\ CountInv' /\ CallInv' /\ ReadyInv' /\ WaitInv'
    BY <1>2, GroupsUnchanged DEF OSIntExit, eventVars
  <2>2. CpuInv'
    BY <1>2, SchedFindsTask DEF OSIntExit, KernelInv, CpuInv
  <2>3. QED
    BY <2>1, <2>2 DEF KernelInv
<1>3. QED
  BY <1>1, <1>2

-----------------------------------------------------------------------------
LEMMA NextKeepsInv == KernelInv /\ [Next]_vars => KernelInv'
<1> SUFFICES ASSUME KernelInv, [Next]_vars PROVE KernelInv'
  OBVIOUS
<1>1. CASE UNCHANGED vars
  <2>1. UNCHANGED cpuVars /\ UNCHANGED listVars /\ UNCHANGED tcbVars
        /\ UNCHANGED <<OSEventType, OSEventCnt>> /\ UNCHANGED <<pc, obj>>
        /\ UNCHANGED OSRdy /\ UNCHANGED OSEventWait
    BY <1>1 DEF vars, eventVars
  <2>2. QED
    BY <2>1, GroupsUnchanged DEF KernelInv
<1>2. ASSUME NEW p \in Prios, MainCreatesTask(p) PROVE KernelInv'
  BY <1>2, BootKeepsInv
<1>3. CASE OSStart
  BY <1>3, BootKeepsInv
<1>4. ASSUME NEW p \in Prios, ServiceStep(p) PROVE KernelInv'
  BY <1>4, SchedulerKeepsInv, PendReturnsKeepsInv, CreateKeepsInv DEF ServiceStep
<1>5. ASSUME NEW p \in Prios, CallStep(p) PROVE KernelInv'
  <2>1. ASSUME NEW s \in Sems, OSSemAccept(p, s) \/ OSSemPendTake(p, s)
        PROVE  KernelInv'
    BY <2>1, TakeKeepsInv DEF OSSemAccept, OSSemPendTake
  <2>2. ASSUME NEW ticks \in Ticks, OSTimeDly(p, ticks) PROVE KernelInv'
    BY <2>2, SchedulerKeepsInv, KernelAssumption
  <2>3. ASSUME NEW d \in Delays, OSTimeDlyHMSM(p, d) PROVE KernelInv'
    <3>1. TicksOf(d) \in Nat
      BY <2>3, DelayFits, KernelAssumption DEF OSTimeDlyHMSM
    <3>2. QED
      BY <2>3, <3>1, SchedulerKeepsInv DEF OSTimeDlyHMSM
  <2>4. QED
    BY <1>5, <2>1, <2>2, <2>3, SemCreateKeepsInv, PendWaitKeepsInv,
       SemPostKeepsInv, SuspendKeepsInv, LockKeepsInv, CreateKeepsInv
    DEF CallStep
<1>6. ASSUME NEW source \in {"tick", "device"}, IrqEnter(source) PROVE KernelInv'
  BY <1>6, IrqKeepsInv
<1>7. CASE HandlerStep
  BY <1>7, TickKeepsInv, SemPostKeepsInv, IrqKeepsInv DEF HandlerStep
<1>8. QED
  BY <1>1, <1>2, <1>3, <1>4, <1>5, <1>6, <1>7 DEF Next

THEOREM Invariance == Spec => []KernelInv
<1>1. QED
  BY InitKernelInv, NextKeepsInv, PTL DEF Spec

\* No counter leaves its width, and every service finds its variables as it
\* expects them, whatever the tasks call.
THEOREM TypeCorrect == Spec => []TypeOK
<1>1. KernelInv => TypeOK
  BY KernelInvImplies
<1>2. QED
  BY <1>1, Invariance, PTL

\* The group bytes never go stale.
THEOREM ListsStayWellFormed == Spec => []ListsWellFormed
<1>1. KernelInv => ListsWellFormed
  BY KernelInvImplies
<1>2. QED
  BY <1>1, Invariance, PTL

-----------------------------------------------------------------------------
(***************************************************************************)
(* HighestRuns.  A step either goes on in the same task without making any *)
(* task ready, or leaves the task before OS_Sched, or is in a handler, or  *)
(* chooses the highest-priority ready task itself.                         *)
(***************************************************************************)
LEMMA GoesOn ==
  ASSUME KernelInv, HighestRuns, ~AtSched(OSPrioCur),
         UNCHANGED <<OSRunning, OSIntNesting, OSPrioCur>>,
         OSLockNesting' = 0 => OSLockNesting = 0,
         Ready' \subseteq Ready, OSPrioCur \in Ready => OSPrioCur \in Ready'
  PROVE  HighestRuns'
  BY DEF HighestRuns

LEMMA Reschedules ==
  ASSUME KernelInv, NEW p \in Prios, OSPrioCur = p, UNCHANGED OSPrioCur,
         Goto(p, "sched") \/ Goto(p, "pendsched")
  PROVE  HighestRuns'
<1>1. pc' \in [Tasks -> Labels] /\ pc'[p] \in {"sched", "pendsched"}
  BY TaskFacts DEF KernelInv, CallInv, Goto, Labels
<1>2. AtSched(OSPrioCur)'
  BY <1>1 DEF AtSched
<1>3. QED
  BY <1>2 DEF HighestRuns

LEMMA Chooses ==
  ASSUME KernelInv, UNCHANGED <<OSRdy, OSLockNesting>>,
         OSLockNesting = 0 => OSPrioCur' = Highest(OSRdy)
  PROVE  HighestRuns'
<1>1. Ready' = Ready
  BY DEF Ready
<1>2. QED
  BY <1>1, SchedFindsTask DEF KernelInv, HighestRuns

LEMMA InHandler ==
  ASSUME OSIntNesting' # 0 \/ OSRunning' = OS_FALSE
  PROVE  HighestRuns'
  BY DEF HighestRuns, OS_FALSE, OS_TRUE

LEMMA ServiceKeepsHighest ==
  ASSUME KernelInv, HighestRuns, NEW p \in Prios, ServiceStep(p)
  PROVE  HighestRuns'
<1>1. CASE OS_Sched(p)
  BY <1>1, Chooses DEF OS_Sched
<1>2. ASSUME At(p, "pendret") \/ At(p, "reserved") \/ At(p, "taken") \/ At(p, "nomore"),
             UNCHANGED cpuVars, UNCHANGED OSRdy
      PROVE  HighestRuns'
  <2>1. ~AtSched(OSPrioCur)
    BY <1>2 DEF At, AtSched
  <2>2. Ready' = Ready
    BY <1>2 DEF Ready
  <2>3. QED
    BY <1>2, <2>1, <2>2, GoesOn DEF cpuVars
<1>3. CASE OSSemPendOk(p) \/ OSSemPendTimeout(p)
  BY <1>2, <1>3 DEF OSSemPendOk, OSSemPendTimeout, PendReturns
<1>4. CASE OS_TCBInitTake(p)
  BY <1>2, <1>4 DEF OS_TCBInitTake
<1>5. CASE OS_TCBInitFill(p)
  BY <1>2, <1>5 DEF OS_TCBInitFill
<1>6. CASE OS_TCBInitLink(p)
  BY <1>6, Reschedules DEF OS_TCBInitLink, At, cpuVars
<1>7. CASE OSTaskCreateFails(p)
  BY <1>2, <1>7 DEF OSTaskCreateFails
<1>8. QED
  BY <1>1, <1>3, <1>4, <1>5, <1>6, <1>7 DEF ServiceStep

LEMMA CallKeepsHighest ==
  ASSUME KernelInv, HighestRuns, NEW p \in Prios, CallStep(p)
  PROVE  HighestRuns'
<1>1. At(p, "run")
  BY DEF CallStep, OSTimeDlyHMSM, OSTimeDly, OSSemCreate, OSSemAccept,
         OSSemPendTake, OSSemPendWait, OSSemPost, OSTaskSuspend, OSTaskResume, OSSchedLock, OSSchedUnlock,
         OSTaskCreateReserve, InCode
<1>2. OSPrioCur = p /\ ~AtSched(OSPrioCur)
  BY <1>1 DEF At, AtSched
<1>3. ASSUME UNCHANGED cpuVars, UNCHANGED OSRdy
      PROVE  HighestRuns'
  <2>1. Ready' = Ready
    BY <1>3 DEF Ready
  <2>2. QED
    BY <1>2, <1>3, <2>1, GoesOn DEF cpuVars
<1>4. ASSUME NEW ticks, OSTimeDly(p, ticks) PROVE HighestRuns'
  BY <1>2, <1>4, Reschedules DEF OSTimeDly, cpuVars
<1>5. ASSUME NEW s \in Sems, NEW cnt \in Counts, OSSemCreate(p, s, cnt)
      PROVE  HighestRuns'
  BY <1>3, <1>5 DEF OSSemCreate
<1>6. ASSUME NEW s \in Sems, OSSemAccept(p, s) \/ OSSemPendTake(p, s)
      PROVE  HighestRuns'
  BY <1>3, <1>6 DEF OSSemAccept, OSSemPendTake, TakeToken
<1>7. ASSUME NEW s \in Sems, NEW timeout \in Ticks, OSSemPendWait(p, s, timeout)
      PROVE  HighestRuns'
  BY <1>2, <1>7, Reschedules DEF OSSemPendWait, cpuVars
<1>8. ASSUME NEW s \in Sems, OSSemPost(p, s) PROVE HighestRuns'
  <2>1. CASE PostWakes(s) /\ Goto(p, "sched")
    BY <1>2, <2>1, Reschedules DEF PostWakes, OS_EventTaskRdy, cpuVars
  <2>2. CASE PostCounts(s)
    BY <1>3, <2>2 DEF PostCounts
  <2>3. QED
    BY <1>8, <2>1, <2>2 DEF OSSemPost
<1>9. ASSUME NEW q \in Prios, OSTaskSuspend(p, q) PROVE HighestRuns'
  <2>1. CASE q = p
    BY <1>2, <1>9, <2>1, Reschedules DEF OSTaskSuspend, cpuVars
  <2>2. CASE q # p
    <3>1. Ready' = Ready \ {q}
      BY <1>9, ReadyRemove DEF OSTaskSuspend, KernelInv
    <3>2. QED
      BY <1>2, <1>9, <2>2, <3>1, GoesOn DEF OSTaskSuspend, cpuVars
  <2>3. QED
    BY <2>1, <2>2
<1>10. ASSUME NEW q \in Prios, OSTaskResume(p, q) PROVE HighestRuns'
  <2>1. UNCHANGED cpuVars
    BY <1>10 DEF OSTaskResume
  <2>2. Goto(p, "sched") \/ UNCHANGED OSRdy
    BY <1>10 DEF OSTaskResume
  <2>3. QED
    BY <1>2, <1>3, <2>1, <2>2, Reschedules DEF cpuVars
<1>11. CASE OSSchedLock(p)
  <2>1. Ready' = Ready
    BY <1>11 DEF OSSchedLock, Ready
  <2>2. OSLockNesting' # 0
    BY <1>11, KernelAssumption DEF OSSchedLock, KernelInv, CpuInv
  <2>3. QED
    BY <2>2 DEF HighestRuns
<1>12. CASE OSSchedUnlock(p)
  <2>1. CASE OSLockNesting = 1
    BY <1>2, <1>12, <2>1, Reschedules DEF OSSchedUnlock
  <2>2. CASE OSLockNesting # 1
    <3>1. OSLockNesting' # 0
      BY <1>12, <2>2, KernelAssumption DEF OSSchedUnlock, KernelInv, CpuInv
    <3>2. QED
      BY <3>1 DEF HighestRuns
  <2>3. QED
    BY <2>1, <2>2
<1>13. ASSUME NEW q \in Prios, OSTaskCreateReserve(p, q) PROVE HighestRuns'
  BY <1>3, <1>13 DEF OSTaskCreateReserve
<1>14. QED
  BY <1>4, <1>5, <1>6, <1>7, <1>8, <1>9, <1>10, <1>11, <1>12, <1>13 DEF CallStep, OSTimeDlyHMSM

LEMMA NextKeepsHighest == KernelInv /\ HighestRuns /\ [Next]_vars => HighestRuns'
<1> SUFFICES ASSUME KernelInv, HighestRuns, [Next]_vars PROVE HighestRuns'
  OBVIOUS
<1>1. CASE UNCHANGED vars
  BY <1>1 DEF vars, cpuVars, HighestRuns, AtSched, Ready
<1>2. ASSUME NEW p \in Prios, MainCreatesTask(p) PROVE HighestRuns'
  BY <1>2, InHandler DEF MainCreatesTask, cpuVars
<1>3. CASE OSStart
  BY <1>3, Chooses DEF OSStart
<1>4. ASSUME NEW p \in Prios, ServiceStep(p) PROVE HighestRuns'
  BY <1>4, ServiceKeepsHighest
<1>5. ASSUME NEW p \in Prios, CallStep(p) PROVE HighestRuns'
  BY <1>5, CallKeepsHighest
<1>6. ASSUME NEW source \in {"tick", "device"}, IrqEnter(source) PROVE HighestRuns'
  BY <1>6, InHandler DEF IrqEnter
<1>7. CASE HandlerStep
  <2>1. CASE OSTimeTick
    <3>1. OSIntNesting' # 0
      BY <2>1 DEF OSTimeTick, KernelInv, CpuInv
    <3>2. QED
      BY <3>1, InHandler
  <2>2. ASSUME NEW s \in Sems, IsrPost(s) PROVE HighestRuns'
    <3>1. UNCHANGED cpuVars /\ isr = "device"
      BY <2>2 DEF IsrPost, PostWakes, OS_EventTaskRdy, PostCounts
    <3>2. OSIntNesting' # 0
      BY <3>1 DEF cpuVars, KernelInv, CpuInv
    <3>3. QED
      BY <3>2, InHandler
  <2>3. CASE OSIntExit
    <3>1. OSIntNesting = 1
      BY <2>3 DEF OSIntExit, KernelInv, CpuInv
    <3>2. QED
      BY <2>3, <3>1, Chooses DEF OSIntExit
  <2>4. QED
    BY <1>7, <2>1, <2>2, <2>3 DEF HandlerStep
<1>8. QED
  BY <1>1, <1>2, <1>3, <1>4, <1>5, <1>6, <1>7 DEF Next

\* No service and no interrupt forgets to give the processor to a task with a
\* higher priority that it has made ready.
THEOREM HighestAlwaysRuns == Spec => []HighestRuns
<1>1. Init => HighestRuns
  BY DEF Init, OS_InitMisc, HighestRuns, OS_FALSE, OS_TRUE
<1>2. QED
  BY <1>1, Invariance, NextKeepsHighest, PTL DEF Spec

-----------------------------------------------------------------------------
(***************************************************************************)
(* NoTokenBesideWaiter.  A post counts only when the group byte is zero,   *)
(* which means that nobody waits because the list is well formed; a task   *)
(* starts to wait only when the count is zero.                             *)
(***************************************************************************)
LEMMA SemUntouched ==
  ASSUME NoTokenBesideWaiter, UNCHANGED <<OSEventCnt, OSEventWait>>
  PROVE  NoTokenBesideWaiter'
  BY DEF NoTokenBesideWaiter, Waiting

LEMMA TakeKeepsNoToken ==
  ASSUME KernelInv, NoTokenBesideWaiter, NEW s \in Sems, TakeToken(s)
  PROVE  NoTokenBesideWaiter'
<1>1. \A t \in Sems : Waiting(t)' = Waiting(t)
  BY DEF TakeToken, Waiting
<1>2. /\ OSEventCnt \in [Sems -> 0..SEM_MAX]
      /\ OSEventCnt[s] > 0
      /\ OSEventCnt' = [OSEventCnt EXCEPT ![s] = @ - 1]
  BY DEF TakeToken, KernelInv, CountInv
<1>3. \A t \in Sems : OSEventCnt'[t] > 0 => OSEventCnt[t] > 0
  BY <1>2
<1>4. QED
  BY <1>1, <1>3 DEF NoTokenBesideWaiter

LEMMA PostKeepsNoToken ==
  ASSUME KernelInv, NoTokenBesideWaiter, NEW s \in Sems, PostWakes(s) \/ PostCounts(s)
  PROVE  NoTokenBesideWaiter'
<1>1. CASE PostWakes(s)
  <2> DEFINE t == Highest(OSEventWait[s])
  <2>1. t \in Prios
    BY <1>1, PostFindsTask DEF PostWakes, KernelInv
  <2>2. /\ OSEventWait' = [OSEventWait EXCEPT ![s] = ListRemove(@, t)]
        /\ OSEventCnt' = OSEventCnt
    BY <1>1 DEF PostWakes, OS_EventTaskRdy
  <2>3. \A u \in Sems : Waiting(u)' \subseteq Waiting(u)
    BY <2>1, <2>2, WaitRemove DEF KernelInv
  <2>4. QED
    BY <2>2, <2>3 DEF NoTokenBesideWaiter
<1>2. CASE PostCounts(s)
  <2>1. /\ OSEventWait[s] \in PrioLists
        /\ WellFormed(OSEventWait[s])
        /\ OSEventWait[s].grp = {}
    BY <1>2 DEF PostCounts, KernelInv, WaitInv
  <2>2. Waiting(s) = {}
    BY <2>1, GroupIsNonEmptiness DEF Waiting
  <2>3. \A t \in Sems : Waiting(t)' = Waiting(t)
    BY <1>2 DEF PostCounts, Waiting
  <2>4. \A t \in Sems \ {s} : OSEventCnt'[t] = OSEventCnt[t]
    BY <1>2 DEF PostCounts, KernelInv, CountInv
  <2>5. QED
    BY <2>2, <2>3, <2>4 DEF NoTokenBesideWaiter
<1>3. QED
  BY <1>1, <1>2

LEMMA CallKeepsNoToken ==
  ASSUME KernelInv, NoTokenBesideWaiter, NEW p \in Prios, CallStep(p)
  PROVE  NoTokenBesideWaiter'
<1>1. ASSUME NEW s \in Sems, NEW cnt \in Counts, OSSemCreate(p, s, cnt)
      PROVE  NoTokenBesideWaiter'
  <2>1. OSEventWait'[s] = EmptyList
    BY <1>1 DEF OSSemCreate, KernelInv, WaitInv
  <2>2. Waiting(s)' = {}
    BY <2>1, EmptyListFacts DEF Waiting
  <2>3. \A t \in Sems \ {s} : /\ Waiting(t)' = Waiting(t)
                              /\ OSEventCnt'[t] = OSEventCnt[t]
    BY <1>1 DEF OSSemCreate, KernelInv, WaitInv, CountInv, Waiting
  <2>4. QED
    BY <2>2, <2>3 DEF NoTokenBesideWaiter
<1>2. ASSUME NEW s \in Sems, OSSemAccept(p, s) \/ OSSemPendTake(p, s)
      PROVE  NoTokenBesideWaiter'
  BY <1>2, TakeKeepsNoToken DEF OSSemAccept, OSSemPendTake
<1>3. ASSUME NEW s \in Sems, NEW timeout \in Ticks, OSSemPendWait(p, s, timeout)
      PROVE  NoTokenBesideWaiter'
  <2>1. \A t \in Sems \ {s} : Waiting(t)' = Waiting(t)
    BY <1>3, WaitInsert DEF OSSemPendWait, KernelInv
  <2>2. OSEventCnt' = OSEventCnt /\ OSEventCnt[s] = 0
    BY <1>3 DEF OSSemPendWait
  <2>3. QED
    BY <2>1, <2>2 DEF NoTokenBesideWaiter
<1>4. ASSUME NEW s \in Sems, OSSemPost(p, s) PROVE NoTokenBesideWaiter'
  BY <1>4, PostKeepsNoToken DEF OSSemPost
<1>5. ASSUME UNCHANGED eventVars PROVE NoTokenBesideWaiter'
  BY <1>5, SemUntouched DEF eventVars
<1>6. ASSUME \/ \E ticks : OSTimeDly(p, ticks)
             \/ \E q \in Prios : OSTaskSuspend(p, q) \/ OSTaskResume(p, q)
                                 \/ OSTaskCreateReserve(p, q)
             \/ OSSchedLock(p) \/ OSSchedUnlock(p)
      PROVE  UNCHANGED eventVars
  BY <1>6 DEF OSTimeDly, OSTaskSuspend, OSTaskResume, OSTaskCreateReserve,
              OSSchedLock, OSSchedUnlock
<1>7. QED
  BY <1>1, <1>2, <1>3, <1>4, <1>5, <1>6 DEF CallStep, OSTimeDlyHMSM

LEMMA NextKeepsNoToken ==
  KernelInv /\ NoTokenBesideWaiter /\ [Next]_vars => NoTokenBesideWaiter'
<1> SUFFICES ASSUME KernelInv, NoTokenBesideWaiter, [Next]_vars
             PROVE  NoTokenBesideWaiter'
  OBVIOUS
<1>1. ASSUME UNCHANGED eventVars PROVE NoTokenBesideWaiter'
  BY <1>1, SemUntouched DEF eventVars
<1>2. CASE UNCHANGED vars
  BY <1>1, <1>2 DEF vars
<1>3. ASSUME NEW p \in Prios, MainCreatesTask(p) PROVE NoTokenBesideWaiter'
  BY <1>1, <1>3 DEF MainCreatesTask
<1>4. CASE OSStart
  BY <1>1, <1>4 DEF OSStart
<1>5. ASSUME NEW p \in Prios, ServiceStep(p) PROVE NoTokenBesideWaiter'
  <2>1. CASE OSSemPendTimeout(p)
    <3>1. obj[p] \in Sems
      BY <2>1 DEF OSSemPendTimeout, PendReturns, At, KernelInv, CallInv
    <3>2. /\ OSEventWait' = [OSEventWait EXCEPT ![obj[p]] = ListRemove(@, p)]
          /\ OSEventCnt' = OSEventCnt
      BY <2>1 DEF OSSemPendTimeout, PendReturns
    <3>3. \A s \in Sems : Waiting(s)' \subseteq Waiting(s)
      BY <3>1, <3>2, WaitRemove DEF KernelInv
    <3>4. QED
      BY <3>2, <3>3 DEF NoTokenBesideWaiter
  <2>2. CASE OSSemPendOk(p)
    BY <2>2, SemUntouched DEF OSSemPendOk, PendReturns
  <2>3. QED
    BY <1>1, <1>5, <2>1, <2>2
    DEF ServiceStep, OS_Sched, OS_TCBInitTake, OS_TCBInitFill, OS_TCBInitLink,
        OSTaskCreateFails
<1>6. ASSUME NEW p \in Prios, CallStep(p) PROVE NoTokenBesideWaiter'
  BY <1>6, CallKeepsNoToken
<1>7. ASSUME NEW source \in {"tick", "device"}, IrqEnter(source)
      PROVE  NoTokenBesideWaiter'
  BY <1>1, <1>7 DEF IrqEnter
<1>8. CASE HandlerStep
  <2>1. ASSUME NEW s \in Sems, IsrPost(s) PROVE NoTokenBesideWaiter'
    BY <2>1, PostKeepsNoToken DEF IsrPost
  <2>2. QED
    BY <1>1, <1>8, <2>1 DEF HandlerStep, OSTimeTick, OSIntExit
<1>9. QED
  BY <1>2, <1>3, <1>4, <1>5, <1>6, <1>7, <1>8 DEF Next

\* No post is lost on a task that waits, timed out or not.
THEOREM NoPostIsLost == Spec => []NoTokenBesideWaiter
<1>1. Init => NoTokenBesideWaiter
  BY DEF Init, OS_InitEventList, NoTokenBesideWaiter
<1>2. QED
  BY <1>1, Invariance, NextKeepsNoToken, PTL DEF Spec

=============================================================================
