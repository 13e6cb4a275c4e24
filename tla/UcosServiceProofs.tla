------------------------- MODULE UcosServiceProofs -------------------------
(***************************************************************************)
(* Proofs about UcosKernel that relate the tables of the kernel to what    *)
(* the tasks are doing: creation is exclusive whatever the tasks call; the *)
(* ready list and the wait lists say what holds a task back as long as the *)
(* tasks take none of the liberties of Unruly; and then the semaphores     *)
(* implement CountingSemaphore.                                            *)
(***************************************************************************)
EXTENDS UcosKernelProofs, FiniteSetTheorems

-----------------------------------------------------------------------------
(***************************************************************************)
(* Creation.  A task that executes OSTaskCreate owns a priority from its   *)
(* reservation to the moment the new TCB is linked; OSTCBPrioTbl tells the *)
(* first part of that time from the second.                                *)
(***************************************************************************)
Reserving(p) == pc[p] \in {"reserved", "taken", "nomore"}
Creating(p) == Reserving(p) \/ pc[p] = "filled"

\* The creators that hold a TCB which is not linked yet.
Holders == {p \in Prios : pc[p] \in {"taken", "filled"}}

LinkedInTable == \A q \in OSTCBList : OSTCBPrioTbl[q] = "tcb"

ReservedByCreators ==
  \A q \in Prios : OSTCBPrioTbl[q] = "reserved" <=>
                     \E p \in Prios : Reserving(p) /\ obj[p] = q

FilledNotLinked ==
  \A p \in Prios : pc[p] = "filled" => /\ OSTCBPrioTbl[obj[p]] = "tcb"
                                       /\ obj[p] \notin OSTCBList

CreatorsDiffer ==
  \A p, r \in Prios : p # r /\ Creating(p) /\ Creating(r) => obj[p] # obj[r]

\* Only a creator's object is a priority.
PriosAreCreated == \A p \in Prios : obj[p] \in Prios => Creating(p)

NoTCBIsLost ==
  OSTCBFree + Cardinality(OSTCBList) + Cardinality(Holders) = OS_MAX_TASKS + 1

CreationInv ==
  /\ LinkedInTable
  /\ ReservedByCreators
  /\ FilledNotLinked
  /\ CreatorsDiffer
  /\ PriosAreCreated
  /\ NoTCBIsLost

-----------------------------------------------------------------------------
LEMMA FiniteTasks ==
  /\ IsFiniteSet(Prios)
  /\ \A S \in SUBSET Tasks : IsFiniteSet(S)
<1>1. IsFiniteSet(0..OS_LOWEST_PRIO)
  BY FS_Interval, KernelAssumption
<1>2. Tasks \subseteq 0..OS_LOWEST_PRIO /\ Prios \subseteq Tasks
  BY TaskFacts
<1>3. QED
  BY <1>1, <1>2, FS_Subset

\* The cardinalities that NoTCBIsLost adds up are natural numbers.
LEMMA Summands ==
  ASSUME KernelInv
  PROVE  /\ IsFiniteSet(OSTCBList) /\ Cardinality(OSTCBList) \in Nat
         /\ IsFiniteSet(Holders) /\ Cardinality(Holders) \in Nat
         /\ OSTCBFree \in Nat
         /\ OS_MAX_TASKS \in Nat
<1>1. OSTCBList \subseteq Tasks /\ Holders \subseteq Prios /\ OSTCBFree \in Nat
  BY KernelAssumption DEF KernelInv, TableInv, Holders
<1>2. IsFiniteSet(OSTCBList) /\ IsFiniteSet(Holders)
  BY <1>1, FiniteTasks, FS_Subset
<1>3. QED
  BY <1>1, <1>2, FS_CardinalityType, KernelAssumption

LEMMA InitCreationInv == Init => CreationInv
<1> SUFFICES ASSUME Init PROVE CreationInv
  OBVIOUS
<1>1. /\ OSTCBList = {OS_TASK_IDLE_PRIO}
      /\ OSTCBPrioTbl = [p \in Tasks |-> IF p = OS_TASK_IDLE_PRIO THEN "tcb" ELSE "null"]
      /\ OSTCBFree = OS_MAX_TASKS
      /\ pc = [p \in Tasks |-> "run"]
      /\ obj = [p \in Tasks |-> Nil]
  BY DEF Init, OS_InitTaskIdle, OS_InitTCBList
<1>2. \A p \in Prios : pc[p] = "run" /\ obj[p] = Nil /\ OSTCBPrioTbl[p] = "null"
  BY <1>1, TaskFacts
<1>3. LinkedInTable
  BY <1>1, TaskFacts DEF LinkedInTable
<1>4. ReservedByCreators /\ FilledNotLinked /\ CreatorsDiffer
  BY <1>2 DEF ReservedByCreators, FilledNotLinked, CreatorsDiffer, Reserving, Creating
<1>5. PriosAreCreated
  BY <1>2, KernelAssumption DEF PriosAreCreated
<1>6. NoTCBIsLost
  <2>1. Holders = {}
    BY <1>2 DEF Holders
  <2>2. Cardinality(OSTCBList) = 1 /\ Cardinality(Holders) = 0
    BY <1>1, <2>1, FS_Singleton, FS_EmptySet
  <2>3. QED
    BY <1>1, <2>2, KernelAssumption DEF NoTCBIsLost
<1>7. QED
  BY <1>3, <1>4, <1>5, <1>6 DEF CreationInv

\* A step of a task that creates nothing before and after it.
LEMMA CreationUntouched ==
  ASSUME KernelInv, CreationInv, UNCHANGED listVars, NEW p \in Prios,
         ~Creating(p), ~Creating(p)', obj'[p] \notin Prios,
         \A q \in Prios \ {p} : pc'[q] = pc[q] /\ obj'[q] = obj[q]
  PROVE  CreationInv'
<1>1. \A q \in Prios : /\ Reserving(q)' = Reserving(q)
                       /\ Creating(q)' = Creating(q)
                       /\ Creating(q) => obj'[q] = obj[q]
                       /\ pc'[q] = "filled" <=> pc[q] = "filled"
  BY DEF Reserving, Creating
<1>2. LinkedInTable' /\ CreatorsDiffer' /\ FilledNotLinked'
  BY <1>1 DEF CreationInv, LinkedInTable, CreatorsDiffer, FilledNotLinked, listVars, Creating
<1>3. ReservedByCreators'
  BY <1>1 DEF CreationInv, ReservedByCreators, listVars, Creating
<1>4. PriosAreCreated'
  BY <1>1 DEF CreationInv, PriosAreCreated
<1>5. NoTCBIsLost'
  <2>1. Holders' = Holders
    BY DEF Holders, Creating, Reserving
  <2>2. QED
    BY <2>1 DEF CreationInv, NoTCBIsLost, listVars
<1>6. QED
  BY <1>2, <1>3, <1>4, <1>5 DEF CreationInv

LEMMA NobodyGoes ==
  ASSUME KernelInv, CreationInv, UNCHANGED listVars, UNCHANGED <<pc, obj>>
  PROVE  CreationInv'
<1>1. Holders' = Holders
  BY DEF Holders
<1>2. QED
  BY <1>1 DEF CreationInv, LinkedInTable, ReservedByCreators, FilledNotLinked,
     CreatorsDiffer, PriosAreCreated, NoTCBIsLost, listVars, Reserving, Creating

\* The same, for a task that goes on where nothing is created.
Elsewhere == {"run", "sched", "pendsched", "pendret"}

LEMMA GoesElsewhere ==
  ASSUME KernelInv, CreationInv, UNCHANGED listVars, NEW p \in Prios,
         NEW l \in Elsewhere, pc[p] \in Elsewhere,
         Goto(p, l) \/ UNCHANGED pc,
         UNCHANGED obj \/ \E o \in Sems \cup {Nil} : obj' = [obj EXCEPT ![p] = o]
  PROVE  CreationInv'
<1>1. /\ pc \in [Tasks -> Labels] /\ obj \in [Tasks -> Sems \cup Prios \cup {Nil}]
      /\ Prios \subseteq Tasks
  BY TaskFacts DEF KernelInv, CallInv
<1>2. /\ pc'[p] \in Elsewhere
      /\ \A q \in Prios \ {p} : pc'[q] = pc[q]
  BY <1>1 DEF Goto
<1>3. ~Creating(p) /\ ~Creating(p)'
  BY <1>2 DEF Elsewhere, Creating, Reserving
<1>4. obj[p] \notin Prios
  BY <1>3 DEF CreationInv, PriosAreCreated
<1>5. obj'[p] \notin Prios /\ \A q \in Prios \ {p} : obj'[q] = obj[q]
  BY <1>1, <1>4, KernelAssumption
<1>6. QED
  BY <1>2, <1>3, <1>5, CreationUntouched

LEMMA MainKeepsCreation ==
  ASSUME KernelInv, CreationInv, NEW p \in Prios, MainCreatesTask(p)
  PROVE  CreationInv'
<1>1. /\ OSTCBPrioTbl[p] = "null" /\ OSTCBFree > 0
      /\ OSTCBFree' = OSTCBFree - 1
      /\ OSTCBPrioTbl' = [OSTCBPrioTbl EXCEPT ![p] = "tcb"]
      /\ OSTCBList' = OSTCBList \cup {p}
      /\ UNCHANGED <<pc, obj>>
  BY DEF MainCreatesTask
<1>2. OSTCBPrioTbl \in [Tasks -> {"null", "reserved", "tcb"}]
  BY DEF KernelInv, TableInv
<1>3. p \notin OSTCBList
  BY <1>1 DEF CreationInv, LinkedInTable
<1>4. \A r \in Prios : Creating(r) => obj[r] # p
  BY <1>1 DEF CreationInv, ReservedByCreators, FilledNotLinked, Creating
<1>5. \A q \in Tasks : q # p => OSTCBPrioTbl'[q] = OSTCBPrioTbl[q]
  BY <1>1, <1>2
<1>6. OSTCBPrioTbl'[p] = "tcb"
  BY <1>1, <1>2, TaskFacts
<1>7. LinkedInTable'
  BY <1>1, <1>5, <1>6 DEF CreationInv, LinkedInTable, KernelInv, TableInv
<1>8. ReservedByCreators'
  BY <1>1, <1>4, <1>5, <1>6, TaskFacts DEF CreationInv, ReservedByCreators, Creating, Reserving
<1>9. FilledNotLinked'
  BY <1>1, <1>4, <1>5, <1>6, TaskFacts
  DEF CreationInv, FilledNotLinked, Creating, KernelInv, CallInv
<1>10. CreatorsDiffer' /\ PriosAreCreated'
  BY <1>1 DEF CreationInv, CreatorsDiffer, PriosAreCreated, Creating, Reserving
<1>11. NoTCBIsLost'
  <2>1. Cardinality(OSTCBList') = Cardinality(OSTCBList) + 1
    BY <1>1, <1>3, Summands, FS_AddElement
  <2>2. Holders' = Holders
    BY <1>1 DEF Holders
  <2>3. QED
    BY <1>1, <2>1, <2>2, Summands DEF CreationInv, NoTCBIsLost
<1>12. QED
  BY <1>7, <1>8, <1>9, <1>10, <1>11 DEF CreationInv

-----------------------------------------------------------------------------
(***************************************************************************)
(* One lemma per critical section of OSTaskCreate.                         *)
(***************************************************************************)
LEMMA ReserveKeepsCreation ==
  ASSUME KernelInv, CreationInv, NEW p \in Prios, NEW q \in Prios,
         OSTaskCreateReserve(p, q)
  PROVE  CreationInv'
<1>1. /\ pc[p] = "run"
      /\ OSTCBPrioTbl[q] = "null"
      /\ UNCHANGED <<OSTCBFree, OSTCBList>>
  BY DEF OSTaskCreateReserve, InCode, At
<1>2. /\ OSTCBPrioTbl'[q] = "reserved"
      /\ \A r \in Tasks \ {q} : OSTCBPrioTbl'[r] = OSTCBPrioTbl[r]
  BY TaskFacts DEF OSTaskCreateReserve, KernelInv, TableInv
<1>3. /\ pc'[p] = "reserved" /\ obj'[p] = q
      /\ \A r \in Prios \ {p} : pc'[r] = pc[r] /\ obj'[r] = obj[r]
  BY TaskFacts DEF OSTaskCreateReserve, Goto, KernelInv, CallInv
<1>4. q \notin OSTCBList
  BY <1>1 DEF CreationInv, LinkedInTable
<1>5. \A r \in Prios : Creating(r) => obj[r] # q
  BY <1>1 DEF CreationInv, ReservedByCreators, FilledNotLinked, Creating
<1>6. ~Creating(p) /\ Reserving(p)' /\ Creating(p)'
  BY <1>1, <1>3 DEF Creating, Reserving
<1>7. \A r \in Prios \ {p} : Creating(r)' = Creating(r) /\ Reserving(r)' = Reserving(r)
  BY <1>3 DEF Creating, Reserving
<1>8. LinkedInTable'
  BY <1>1, <1>2, <1>4 DEF CreationInv, LinkedInTable, KernelInv, TableInv
<1>9. ReservedByCreators'
  <2>1. ASSUME NEW r \in Prios, r # q
        PROVE  (OSTCBPrioTbl[r] = "reserved")'
                 <=> \E c \in Prios : Reserving(c)' /\ obj'[c] = r
    <3>1. OSTCBPrioTbl'[r] = OSTCBPrioTbl[r]
      BY <1>2, <2>1, TaskFacts
    <3>2. \A c \in Prios : Reserving(c)' /\ obj'[c] = r <=> Reserving(c) /\ obj[c] = r
      BY <1>3, <1>6, <1>7, <2>1 DEF Creating
    <3>3. QED
      BY <3>1, <3>2 DEF CreationInv, ReservedByCreators
  <2>2. QED
    BY <1>2, <1>3, <1>6, <2>1 DEF ReservedByCreators
<1>10. FilledNotLinked'
  <2>1. ASSUME NEW r \in Prios, pc'[r] = "filled"
        PROVE  OSTCBPrioTbl'[obj'[r]] = "tcb" /\ obj'[r] \notin OSTCBList'
    <3>1. r # p /\ pc[r] = "filled" /\ obj'[r] = obj[r]
      BY <1>3, <2>1
    <3>2. obj[r] \in Tasks /\ obj[r] # q
      BY <1>5, <3>1, TaskFacts DEF Creating, KernelInv, CallInv
    <3>3. QED
      BY <1>1, <1>2, <3>1, <3>2 DEF CreationInv, FilledNotLinked
  <2>2. QED
    BY <2>1 DEF FilledNotLinked
<1>11. CreatorsDiffer'
  BY <1>3, <1>5, <1>7 DEF CreationInv, CreatorsDiffer
<1>12. PriosAreCreated'
  BY <1>3, <1>6, <1>7 DEF CreationInv, PriosAreCreated
<1>13. NoTCBIsLost'
  <2>1. Holders' = Holders
    BY <1>1, <1>3 DEF Holders
  <2>2. QED
    BY <1>1, <2>1 DEF CreationInv, NoTCBIsLost
<1>14. QED
  BY <1>8, <1>9, <1>10, <1>11, <1>12, <1>13 DEF CreationInv

LEMMA TakeKeepsCreation ==
  ASSUME KernelInv, CreationInv, NEW p \in Prios, OS_TCBInitTake(p)
  PROVE  CreationInv'
<1>1. pc[p] = "reserved" /\ UNCHANGED <<OSTCBPrioTbl, OSTCBList, obj>>
  BY DEF OS_TCBInitTake, At
<1>2. /\ pc'[p] \in {"taken", "nomore"}
      /\ \A r \in Prios \ {p} : pc'[r] = pc[r]
  BY TaskFacts DEF OS_TCBInitTake, Goto, KernelInv, CallInv
<1>3. \A r \in Prios : /\ Creating(r)' = Creating(r)
                       /\ Reserving(r)' = Reserving(r)
                       /\ pc'[r] = "filled" <=> pc[r] = "filled"
  BY <1>1, <1>2 DEF Creating, Reserving
<1>4. LinkedInTable' /\ FilledNotLinked' /\ CreatorsDiffer'
  BY <1>1, <1>3 DEF CreationInv, LinkedInTable, FilledNotLinked, CreatorsDiffer
<1>5. ReservedByCreators' /\ PriosAreCreated'
  BY <1>1, <1>3 DEF CreationInv, ReservedByCreators, PriosAreCreated
<1>6. NoTCBIsLost'
  <2>1. p \notin Holders
    BY <1>1 DEF Holders
  <2>2. CASE OSTCBFree > 0
    <3>1. pc'[p] = "taken" /\ OSTCBFree' = OSTCBFree - 1
      BY <2>2, TaskFacts DEF OS_TCBInitTake, Goto, KernelInv, CallInv
    <3>2. Holders' = Holders \cup {p}
      BY <1>2, <3>1 DEF Holders
    <3>3. Cardinality(Holders') = Cardinality(Holders) + 1
      BY <2>1, <3>2, Summands, FS_AddElement
    <3>4. QED
      BY <1>1, <3>1, <3>3, Summands DEF CreationInv, NoTCBIsLost
  <2>3. CASE ~(OSTCBFree > 0)
    <3>1. pc'[p] = "nomore" /\ OSTCBFree' = OSTCBFree
      BY <2>3, TaskFacts DEF OS_TCBInitTake, Goto, KernelInv, CallInv
    <3>2. Holders' = Holders
      BY <1>1, <1>2, <3>1 DEF Holders
    <3>3. QED
      BY <1>1, <3>1, <3>2 DEF CreationInv, NoTCBIsLost
  <2>4. QED
    BY <2>2, <2>3
<1>7. QED
  BY <1>4, <1>5, <1>6 DEF CreationInv

LEMMA FillKeepsCreation ==
  ASSUME KernelInv, CreationInv, NEW p \in Prios, OS_TCBInitFill(p)
  PROVE  CreationInv'
<1> DEFINE q == obj[p]
<1>1. /\ pc[p] = "taken" /\ q \in Prios /\ q \in Tasks
      /\ UNCHANGED <<OSTCBFree, OSTCBList, obj>>
  BY TaskFacts DEF OS_TCBInitFill, At, KernelInv, CallInv
<1>2. /\ OSTCBPrioTbl'[q] = "tcb"
      /\ \A r \in Tasks \ {q} : OSTCBPrioTbl'[r] = OSTCBPrioTbl[r]
  BY <1>1 DEF OS_TCBInitFill, KernelInv, TableInv
<1>3. /\ pc'[p] = "filled"
      /\ \A r \in Prios \ {p} : pc'[r] = pc[r]
  BY TaskFacts DEF OS_TCBInitFill, Goto, KernelInv, CallInv
<1>4. OSTCBPrioTbl[q] = "reserved" /\ q \notin OSTCBList
  BY <1>1 DEF CreationInv, ReservedByCreators, LinkedInTable, Reserving
<1>5. \A r \in Prios \ {p} : Creating(r) => obj[r] # q
  BY <1>1 DEF CreationInv, CreatorsDiffer, Creating, Reserving
<1>6. \A r \in Prios \ {p} : Reserving(r)' = Reserving(r)
  BY <1>3 DEF Reserving
<1>7. \A r \in Prios : Creating(r)' = Creating(r)
  BY <1>1, <1>3 DEF Creating, Reserving
<1>8. ~Reserving(p)'
  BY <1>3 DEF Reserving
<1>9. LinkedInTable'
  BY <1>1, <1>2 DEF CreationInv, LinkedInTable, KernelInv, TableInv
<1>10. ReservedByCreators'
  <2>1. ASSUME NEW r \in Prios, r # q
        PROVE  (OSTCBPrioTbl[r] = "reserved")'
                 <=> \E c \in Prios : Reserving(c)' /\ obj'[c] = r
    <3>1. OSTCBPrioTbl'[r] = OSTCBPrioTbl[r]
      BY <1>2, <2>1, TaskFacts
    <3>2. \A c \in Prios : Reserving(c)' /\ obj'[c] = r <=> Reserving(c) /\ obj[c] = r
      BY <1>1, <1>6, <1>8, <2>1
    <3>3. QED
      BY <3>1, <3>2 DEF CreationInv, ReservedByCreators
  <2>2. ~\E c \in Prios : Reserving(c)' /\ obj'[c] = q
    BY <1>1, <1>5, <1>6, <1>8 DEF Creating
  <2>3. QED
    BY <1>2, <2>1, <2>2 DEF ReservedByCreators
<1>11. FilledNotLinked'
  <2>1. ASSUME NEW r \in Prios \ {p}, pc'[r] = "filled"
        PROVE  OSTCBPrioTbl'[obj'[r]] = "tcb" /\ obj'[r] \notin OSTCBList'
    <3>1. pc[r] = "filled" /\ obj'[r] = obj[r]
      BY <1>1, <1>3, <2>1
    <3>2. obj[r] \in Tasks /\ obj[r] # q
      BY <1>5, <3>1, TaskFacts DEF Creating, KernelInv, CallInv
    <3>3. QED
      BY <1>1, <1>2, <3>1, <3>2 DEF CreationInv, FilledNotLinked
  <2>2. QED
    BY <1>1, <1>2, <1>4, <2>1 DEF FilledNotLinked
<1>12. CreatorsDiffer' /\ PriosAreCreated'
  BY <1>1, <1>7 DEF CreationInv, CreatorsDiffer, PriosAreCreated
<1>13. NoTCBIsLost'
  <2>1. Holders' = Holders
    BY <1>1, <1>3 DEF Holders
  <2>2. QED
    BY <1>1, <2>1 DEF CreationInv, NoTCBIsLost
<1>14. QED
  BY <1>9, <1>10, <1>11, <1>12, <1>13 DEF CreationInv

LEMMA LinkKeepsCreation ==
  ASSUME KernelInv, CreationInv, NEW p \in Prios, OS_TCBInitLink(p)
  PROVE  CreationInv'
<1> DEFINE q == obj[p]
<1>1. /\ pc[p] = "filled" /\ q \in Prios /\ q \in Tasks
      /\ UNCHANGED <<OSTCBFree, OSTCBPrioTbl>>
      /\ OSTCBList' = OSTCBList \cup {q}
  BY TaskFacts DEF OS_TCBInitLink, At, KernelInv, CallInv
<1>2. /\ pc'[p] = "sched" /\ obj'[p] = Nil
      /\ \A r \in Prios \ {p} : pc'[r] = pc[r] /\ obj'[r] = obj[r]
  BY TaskFacts DEF OS_TCBInitLink, Goto, KernelInv, CallInv
<1>3. OSTCBPrioTbl[q] = "tcb" /\ q \notin OSTCBList
  BY <1>1 DEF CreationInv, FilledNotLinked
<1>4. \A r \in Prios \ {p} : Creating(r) => obj[r] # q
  BY <1>1 DEF CreationInv, CreatorsDiffer, Creating
<1>5. \A r \in Prios \ {p} : Creating(r)' = Creating(r) /\ Reserving(r)' = Reserving(r)
  BY <1>2 DEF Creating, Reserving
<1>6. ~Creating(p)' /\ ~Reserving(p)' /\ ~Reserving(p)
  BY <1>1, <1>2 DEF Creating, Reserving
<1>7. LinkedInTable'
  BY <1>1, <1>3 DEF CreationInv, LinkedInTable
<1>8. ReservedByCreators'
  BY <1>1, <1>2, <1>5, <1>6 DEF CreationInv, ReservedByCreators
<1>9. FilledNotLinked'
  BY <1>1, <1>2, <1>4 DEF CreationInv, FilledNotLinked, Creating
<1>10. CreatorsDiffer'
  BY <1>2, <1>5, <1>6 DEF CreationInv, CreatorsDiffer
<1>11. PriosAreCreated'
  BY <1>2, <1>5, KernelAssumption DEF CreationInv, PriosAreCreated
<1>12. NoTCBIsLost'
  <2>1. Cardinality(OSTCBList') = Cardinality(OSTCBList) + 1
    BY <1>1, <1>3, Summands, FS_AddElement
  <2>2. p \in Holders /\ Holders' = Holders \ {p}
    BY <1>1, <1>2 DEF Holders
  <2>3. Cardinality(Holders') = Cardinality(Holders) - 1
    BY <2>2, Summands, FS_RemoveElement
  <2>4. QED
    BY <1>1, <2>1, <2>3, Summands DEF CreationInv, NoTCBIsLost
<1>13. QED
  BY <1>7, <1>8, <1>9, <1>10, <1>11, <1>12 DEF CreationInv

LEMMA FailsKeepsCreation ==
  ASSUME KernelInv, CreationInv, NEW p \in Prios, OSTaskCreateFails(p)
  PROVE  CreationInv'
<1> DEFINE q == obj[p]
<1>1. /\ pc[p] = "nomore" /\ q \in Prios /\ q \in Tasks
      /\ UNCHANGED <<OSTCBFree, OSTCBList>>
  BY TaskFacts DEF OSTaskCreateFails, At, KernelInv, CallInv
<1>2. /\ OSTCBPrioTbl'[q] = "null"
      /\ \A r \in Tasks \ {q} : OSTCBPrioTbl'[r] = OSTCBPrioTbl[r]
  BY <1>1 DEF OSTaskCreateFails, KernelInv, TableInv
<1>3. /\ pc'[p] = "run" /\ obj'[p] = Nil
      /\ \A r \in Prios \ {p} : pc'[r] = pc[r] /\ obj'[r] = obj[r]
  BY TaskFacts DEF OSTaskCreateFails, Goto, KernelInv, CallInv
<1>4. OSTCBPrioTbl[q] = "reserved" /\ q \notin OSTCBList
  BY <1>1 DEF CreationInv, ReservedByCreators, LinkedInTable, Reserving
<1>5. \A r \in Prios \ {p} : Creating(r) => obj[r] # q
  BY <1>1 DEF CreationInv, CreatorsDiffer, Creating, Reserving
<1>6. \A r \in Prios \ {p} : Creating(r)' = Creating(r) /\ Reserving(r)' = Reserving(r)
  BY <1>3 DEF Creating, Reserving
<1>7. ~Creating(p)' /\ ~Reserving(p)'
  BY <1>3 DEF Creating, Reserving
<1>8. LinkedInTable'
  BY <1>1, <1>2, <1>4 DEF CreationInv, LinkedInTable, KernelInv, TableInv
<1>9. ReservedByCreators'
  <2>1. ASSUME NEW r \in Prios, r # q
        PROVE  (OSTCBPrioTbl[r] = "reserved")'
                 <=> \E c \in Prios : Reserving(c)' /\ obj'[c] = r
    <3>1. OSTCBPrioTbl'[r] = OSTCBPrioTbl[r]
      BY <1>2, <2>1, TaskFacts
    <3>2. \A c \in Prios : Reserving(c)' /\ obj'[c] = r <=> Reserving(c) /\ obj[c] = r
      BY <1>3, <1>6, <1>7, <2>1
    <3>3. QED
      BY <3>1, <3>2 DEF CreationInv, ReservedByCreators
  <2>2. ~\E c \in Prios : Reserving(c)' /\ obj'[c] = q
    BY <1>3, <1>5, <1>6, <1>7 DEF Creating
  <2>3. QED
    BY <1>2, <2>1, <2>2 DEF ReservedByCreators
<1>10. FilledNotLinked'
  <2>1. ASSUME NEW r \in Prios, pc'[r] = "filled"
        PROVE  OSTCBPrioTbl'[obj'[r]] = "tcb" /\ obj'[r] \notin OSTCBList'
    <3>1. r # p /\ pc[r] = "filled" /\ obj'[r] = obj[r]
      BY <1>3, <2>1
    <3>2. obj[r] \in Tasks /\ obj[r] # q
      BY <1>5, <3>1, TaskFacts DEF Creating, KernelInv, CallInv
    <3>3. QED
      BY <1>1, <1>2, <3>1, <3>2 DEF CreationInv, FilledNotLinked
  <2>2. QED
    BY <2>1 DEF FilledNotLinked
<1>11. CreatorsDiffer'
  BY <1>3, <1>6, <1>7 DEF CreationInv, CreatorsDiffer
<1>12. PriosAreCreated'
  BY <1>3, <1>6, KernelAssumption DEF CreationInv, PriosAreCreated
<1>13. NoTCBIsLost'
  <2>1. Holders' = Holders
    BY <1>1, <1>3 DEF Holders
  <2>2. QED
    BY <1>1, <2>1 DEF CreationInv, NoTCBIsLost
<1>14. QED
  BY <1>8, <1>9, <1>10, <1>11, <1>12, <1>13 DEF CreationInv

-----------------------------------------------------------------------------
LEMMA ServiceKeepsCreation ==
  ASSUME KernelInv, CreationInv, NEW p \in Prios, ServiceStep(p)
  PROVE  CreationInv'
<1>1. CASE OS_Sched(p)
  <2>1. AfterSched(pc[p]) \in Elsewhere /\ pc[p] \in Elsewhere
    BY <1>1 DEF OS_Sched, At, AfterSched, Elsewhere
  <2>2. QED
    BY <1>1, <2>1, GoesElsewhere DEF OS_Sched
<1>2. CASE PendReturns(p)
  BY <1>2, GoesElsewhere DEF PendReturns, At, Elsewhere
<1>3. CASE OSSemPendOk(p) \/ OSSemPendTimeout(p)
  BY <1>2, <1>3 DEF OSSemPendOk, OSSemPendTimeout
<1>4. QED
  BY <1>1, <1>3, TakeKeepsCreation, FillKeepsCreation, LinkKeepsCreation,
     FailsKeepsCreation DEF ServiceStep

LEMMA CallKeepsCreation ==
  ASSUME KernelInv, CreationInv, NEW p \in Prios, CallStep(p)
  PROVE  CreationInv'
<1>1. pc[p] = "run"
  BY DEF CallStep, OSTimeDlyHMSM, OSTimeDly, OSSemCreate, OSSemAccept, OSSemPendTake,
         OSSemPendWait, OSSemPost, OSTaskSuspend, OSTaskResume, OSSchedLock,
         OSSchedUnlock, OSTaskCreateReserve, InCode, At
<1>2. pc[p] \in Elsewhere /\ "sched" \in Elsewhere /\ "pendsched" \in Elsewhere
  BY <1>1 DEF Elsewhere
<1>3. ASSUME UNCHANGED listVars, Goto(p, "sched") \/ UNCHANGED pc, UNCHANGED obj
      PROVE  CreationInv'
  BY <1>2, <1>3, GoesElsewhere
<1>4. ASSUME NEW ticks, OSTimeDly(p, ticks) PROVE CreationInv'
  BY <1>3, <1>4 DEF OSTimeDly
<1>5. ASSUME NEW s \in Sems, NEW cnt \in Counts, OSSemCreate(p, s, cnt)
      PROVE  CreationInv'
  BY <1>3, <1>5 DEF OSSemCreate
<1>6. ASSUME NEW s \in Sems, OSSemAccept(p, s) \/ OSSemPendTake(p, s)
      PROVE  CreationInv'
  BY <1>3, <1>6 DEF OSSemAccept, OSSemPendTake, TakeToken
<1>7. ASSUME NEW s \in Sems, NEW timeout \in Ticks, OSSemPendWait(p, s, timeout)
      PROVE  CreationInv'
  BY <1>2, <1>7, GoesElsewhere DEF OSSemPendWait
<1>8. ASSUME NEW s \in Sems, OSSemPost(p, s) PROVE CreationInv'
  BY <1>3, <1>8 DEF OSSemPost, PostWakes, OS_EventTaskRdy, PostCounts
<1>9. ASSUME NEW q \in Prios, OSTaskSuspend(p, q) \/ OSTaskResume(p, q)
      PROVE  CreationInv'
  BY <1>3, <1>9 DEF OSTaskSuspend, OSTaskResume
<1>10. ASSUME OSSchedLock(p) \/ OSSchedUnlock(p) PROVE CreationInv'
  BY <1>3, <1>10 DEF OSSchedLock, OSSchedUnlock
<1>11. QED
  BY <1>4, <1>5, <1>6, <1>7, <1>8, <1>9, <1>10, ReserveKeepsCreation
  DEF CallStep, OSTimeDlyHMSM

LEMMA NextKeepsCreation == KernelInv /\ CreationInv /\ [Next]_vars => CreationInv'
<1> SUFFICES ASSUME KernelInv, CreationInv, [Next]_vars PROVE CreationInv'
  OBVIOUS
<1>1. CASE UNCHANGED vars
  BY <1>1, NobodyGoes DEF vars
<1>2. ASSUME NEW p \in Prios, MainCreatesTask(p) PROVE CreationInv'
  BY <1>2, MainKeepsCreation
<1>3. CASE OSStart
  BY <1>3, NobodyGoes DEF OSStart
<1>4. ASSUME NEW p \in Prios, ServiceStep(p) PROVE CreationInv'
  BY <1>4, ServiceKeepsCreation
<1>5. ASSUME NEW p \in Prios, CallStep(p) PROVE CreationInv'
  BY <1>5, CallKeepsCreation
<1>6. ASSUME NEW source \in {"tick", "device"}, IrqEnter(source) PROVE CreationInv'
  BY <1>6, NobodyGoes DEF IrqEnter
<1>7. CASE HandlerStep
  <2>1. ASSUME NEW s \in Sems, IsrPost(s) PROVE CreationInv'
    BY <2>1, NobodyGoes DEF IsrPost, PostWakes, OS_EventTaskRdy, PostCounts
  <2>2. CASE OSTimeTick \/ OSIntExit
    BY <2>2, NobodyGoes DEF OSTimeTick, OSIntExit
  <2>3. QED
    BY <1>7, <2>1, <2>2 DEF HandlerStep
<1>8. QED
  BY <1>1, <1>2, <1>3, <1>4, <1>5, <1>6, <1>7 DEF Next

\* However creations interleave with each other, with interrupts and with any
\* other service, a priority has one creator at a time, a reservation that
\* finds no TCB is given back, and no TCB is lost or linked twice.
THEOREM CreationStaysExclusive == Spec => []CreationIsExclusive
<1>1. KernelInv /\ CreationInv => CreationIsExclusive
  <2> SUFFICES ASSUME KernelInv, CreationInv PROVE CreationIsExclusive
    OBVIOUS
  <2>1. \A q \in Prios :
          OSTCBPrioTbl[q] = "reserved" <=>
            \E p \in Prios : pc[p] \in {"reserved", "taken", "nomore"} /\ obj[p] = q
    BY DEF CreationInv, ReservedByCreators, Reserving
  <2>2. \A p, r \in Prios : (p # r /\ obj[p] \in Prios) => obj[p] # obj[r]
    BY DEF CreationInv, PriosAreCreated, CreatorsDiffer
  <2>3. OSTCBFree + Cardinality(OSTCBList)
          + Cardinality({p \in Prios : pc[p] \in {"taken", "filled"}}) = OS_MAX_TASKS + 1
    BY DEF CreationInv, NoTCBIsLost, Holders
  <2>4. QED
    BY <2>1, <2>2, <2>3 DEF CreationIsExclusive
<1>2. QED
  BY <1>1, InitCreationInv, Invariance, NextKeepsCreation, PTL DEF Spec

-----------------------------------------------------------------------------
(***************************************************************************)
(* The ready list and the wait lists, for tasks that take none of the      *)
(* liberties of Unruly.  What has to be carried along is when a TCB may be *)
(* touched at all, and who can be inside OSSemPend.                        *)
(***************************************************************************)

\* A TCB that is not linked is as OS_TCBInit leaves it, and its task has
\* called nothing; the task that has the processor is linked.
LinkInv ==
  /\ \A p \in Tasks \ OSTCBList : OSTCBStat[p] = {} /\ OSTCBDly[p] = 0
  /\ \A p \in Prios : pc[p] # "run" => p \in OSTCBList
  /\ OSRunning = OS_TRUE => OSPrioCur \in OSTCBList

\* The scheduler lock keeps the processor for nobody who is in OSSemPend, and
\* before OSStart nothing is locked or interrupted.
LockInv ==
  /\ OSRunning = OS_FALSE => OSLockNesting = 0 /\ isr = "none"
  /\ \A p \in Prios : OSPrioCur = p /\ Pends(p) => OSLockNesting = 0

\* A wait that has timed out has no ticks left, and nobody waits for an event
\* control block that is free.
WaitEndInv ==
  /\ \A p \in Prios : Pends(p) /\ OSTCBStatPend[p] = "to" => OSTCBDly[p] = 0
  /\ \A s \in Sems : OSEventType[s] = "unused" => Waiting(s) = {}

ListInv == LinkInv /\ LockInv /\ WaitEndInv /\ ReadyIffNothingHolds /\ WaitsIffNoToken

\* What holds before a step of a disciplined application.
OrderlyInv == KernelInv /\ HighestRuns /\ CreationInv /\ ListInv

LEMMA InitListInv == Init => ListInv
<1> SUFFICES ASSUME Init PROVE ListInv
  OBVIOUS
<1>1. \A p \in Tasks : OSTCBStat[p] = {} /\ OSTCBDly[p] = 0 /\ pc[p] = "run"
  BY DEF Init, OS_InitTCBList
<1>2. \A s \in Sems : Waiting(s) = {}
  BY EmptyListFacts DEF Init, OS_InitEventList, Waiting
<1>3. Ready = {OS_TASK_IDLE_PRIO} /\ OSTCBList = {OS_TASK_IDLE_PRIO}
  BY EmptyListFacts, InsertFacts, TaskFacts DEF Init, OS_InitTaskIdle, Ready
<1>4. LinkInv
  <2>1. OSRunning # OS_TRUE
    BY DEF Init, OS_InitMisc, OS_FALSE, OS_TRUE
  <2>2. QED
    BY <1>1, <2>1, TaskFacts DEF LinkInv
<1>5. LockInv
  BY <1>1, TaskFacts DEF LockInv, Init, OS_InitMisc, Pends
<1>6. WaitEndInv
  BY <1>1, <1>2, TaskFacts DEF WaitEndInv, Pends
<1>7. ReadyIffNothingHolds
  BY <1>1, <1>3 DEF ReadyIffNothingHolds
<1>8. WaitsIffNoToken
  BY <1>1, <1>2, TaskFacts DEF WaitsIffNoToken, Pends
<1>9. QED
  BY <1>4, <1>5, <1>6, <1>7, <1>8 DEF ListInv

-----------------------------------------------------------------------------
(***************************************************************************)
(* What a step leaves alone keeps its part of the invariant.               *)
(***************************************************************************)

\* Where a task of the application stands after a Goto.
LEMMA GotoFacts ==
  ASSUME KernelInv, NEW p \in Prios, NEW l, Goto(p, l)
  PROVE  pc'[p] = l /\ \A q \in Tasks \ {p} : pc'[q] = pc[q]
  BY TaskFacts DEF KernelInv, CallInv, Goto

\* The task that executes is linked; inside OSSemPend it is ready as well.
LEMMA RunnerFacts ==
  ASSUME OrderlyInv, NEW p \in Prios, NEW l, At(p, l)
  PROVE  /\ p \in OSTCBList
         /\ l = "pendret" => p \in Ready /\ OSTCBStat[p] = {} /\ OSTCBDly[p] = 0
<1>1. p \in OSTCBList
  BY DEF OrderlyInv, ListInv, LinkInv, At
<1>2. CASE l = "pendret"
  <2>1. OSLockNesting = 0
    BY <1>2 DEF OrderlyInv, ListInv, LockInv, Pends, At
  <2>2. p \in Ready
    BY <1>2, <2>1 DEF OrderlyInv, HighestRuns, At, AtSched
  <2>3. QED
    BY <1>1, <2>2, TaskFacts DEF OrderlyInv, ListInv, ReadyIffNothingHolds
<1>3. QED
  BY <1>1, <1>2

LEMMA LinkKept ==
  ASSUME OrderlyInv, OSTCBList \subseteq OSTCBList',
         UNCHANGED <<OSRunning, OSPrioCur>>,
         \A p \in Tasks \ OSTCBList : OSTCBStat'[p] = {} /\ OSTCBDly'[p] = 0,
         \A p \in Prios : pc'[p] # "run" => p \in OSTCBList
  PROVE  LinkInv'
  BY DEF OrderlyInv, ListInv, LinkInv

LEMMA LockKept ==
  ASSUME OrderlyInv, UNCHANGED <<OSRunning, OSLockNesting, OSPrioCur>>,
         UNCHANGED isr \/ isr' = "none" \/ OSRunning = OS_TRUE,
         \A p \in Prios : Pends(p)' => Pends(p) \/ OSLockNesting = 0
  PROVE  LockInv'
  BY DEF OrderlyInv, ListInv, LockInv, OS_FALSE, OS_TRUE

LEMMA WaitEndKept ==
  ASSUME OrderlyInv, UNCHANGED OSEventType,
         \A s \in Sems : Waiting(s)' \subseteq Waiting(s),
         \A p \in Prios : Pends(p)' =>
           Pends(p) /\ UNCHANGED <<OSTCBStatPend[p], OSTCBDly[p]>>
  PROVE  WaitEndInv'
  BY DEF OrderlyInv, ListInv, WaitEndInv

LEMMA ReadyKept ==
  ASSUME OrderlyInv, UNCHANGED <<OSRdy, OSTCBList, OSTCBStat, OSTCBDly>>
  PROVE  ReadyIffNothingHolds'
  BY DEF OrderlyInv, ListInv, ReadyIffNothingHolds, Ready

LEMMA WaitsKept ==
  ASSUME OrderlyInv, UNCHANGED OSEventWait,
         \A p \in Prios : Pends(p)' = Pends(p),
         \A p \in Prios : Pends(p) =>
           /\ UNCHANGED <<obj[p], OSTCBStatPend[p]>>
           /\ "sem" \in OSTCBStat'[p] <=> "sem" \in OSTCBStat[p]
  PROVE  WaitsIffNoToken'
<1>1. \A s \in Sems : Waiting(s)' = Waiting(s)
  BY DEF Waiting
<1>2. QED
  BY <1>1 DEF OrderlyInv, ListInv, WaitsIffNoToken

-----------------------------------------------------------------------------
(***************************************************************************)
(* Boot, the scheduler and interrupts: the processor changes hands.        *)
(***************************************************************************)
LEMMA MainKeepsLists ==
  ASSUME OrderlyInv, NEW p \in Prios, MainCreatesTask(p)
  PROVE  ListInv'
<1>1. p \notin OSTCBList
  BY DEF MainCreatesTask, OrderlyInv, CreationInv, LinkedInTable
<1>2. OSTCBStat[p] = {} /\ OSTCBDly[p] = 0
  BY <1>1, TaskFacts DEF OrderlyInv, ListInv, LinkInv
<1>3. Ready' = Ready \cup {p} /\ OSTCBList' = OSTCBList \cup {p}
  BY ReadyInsert, TaskFacts DEF MainCreatesTask, OrderlyInv, KernelInv
<1>4. UNCHANGED cpuVars /\ UNCHANGED tcbVars /\ UNCHANGED eventVars /\ UNCHANGED <<pc, obj>>
  BY DEF MainCreatesTask
<1>5. LinkInv' /\ LockInv'
  BY <1>3, <1>4 DEF OrderlyInv, ListInv, LinkInv, LockInv, Pends, cpuVars, tcbVars
<1>6. WaitEndInv' /\ WaitsIffNoToken'
  BY <1>4 DEF OrderlyInv, ListInv, WaitEndInv, WaitsIffNoToken, Pends, Waiting,
              tcbVars, eventVars
<1>7. ReadyIffNothingHolds'
  BY <1>2, <1>3, <1>4 DEF OrderlyInv, ListInv, ReadyIffNothingHolds, tcbVars
<1>8. QED
  BY <1>5, <1>6, <1>7 DEF ListInv

\* The task that OS_SchedNew finds is linked and executes where it stands.
LEMMA DispatchKeepsLists ==
  ASSUME OrderlyInv, UNCHANGED <<OSRdy, listVars, tcbVars, eventVars, obj>>,
         OSRunning' = OS_TRUE, UNCHANGED OSLockNesting,
         \/ UNCHANGED OSPrioCur
         \/ OSLockNesting = 0 /\ OSPrioCur' = Highest(OSRdy),
         \A p \in Prios : Pends(p)' = Pends(p),
         \A p \in Prios : pc'[p] # "run" => p \in OSTCBList,
         OSRunning = OS_TRUE \/ OSPrioCur' = Highest(OSRdy)
  PROVE  ListInv'
<1>1. /\ UNCHANGED <<OSTCBList, OSTCBStat, OSTCBStatPend, OSTCBDly, OSEventType, OSEventWait>>
      /\ Ready' = Ready
      /\ \A s \in Sems : Waiting(s)' = Waiting(s)
  BY DEF listVars, tcbVars, eventVars, Ready, Waiting
<1>2. Highest(OSRdy) \in OSTCBList
  BY SchedFindsTask, TaskFacts DEF OrderlyInv, KernelInv, ReadyInv, ListInv, ReadyIffNothingHolds
<1>3. LinkInv'
  BY <1>1, <1>2 DEF OrderlyInv, ListInv, LinkInv
<1>4. LockInv'
  BY <1>1 DEF OrderlyInv, ListInv, LockInv, OS_TRUE, OS_FALSE
<1>5. WaitEndInv'
  BY <1>1 DEF OrderlyInv, ListInv, WaitEndInv
<1>6. ReadyIffNothingHolds' /\ WaitsIffNoToken'
  BY <1>1, ReadyKept, WaitsKept
<1>7. QED
  BY <1>3, <1>4, <1>5, <1>6 DEF ListInv

LEMMA SchedKeepsLists ==
  ASSUME OrderlyInv, NEW p \in Prios, OS_Sched(p)
  PROVE  ListInv'
<1>1. At(p, pc[p]) /\ AtSched(p)
  BY DEF OS_Sched, At, AtSched
<1>2. p \in OSTCBList
  BY <1>1, RunnerFacts
<1>3. pc'[p] = AfterSched(pc[p]) /\ \A q \in Tasks \ {p} : pc'[q] = pc[q]
  BY GotoFacts DEF OS_Sched, OrderlyInv
<1>4. \A q \in Prios : Pends(q)' = Pends(q)
  BY <1>1, <1>3, TaskFacts DEF AtSched, Pends, AfterSched
<1>5. \A q \in Prios : pc'[q] # "run" => q \in OSTCBList
  BY <1>2, <1>3, TaskFacts DEF OrderlyInv, ListInv, LinkInv
<1>6. OSRunning = OS_TRUE /\ OSRunning' = OS_TRUE
  BY DEF OS_Sched, At
<1>7. QED
  BY <1>4, <1>5, <1>6, DispatchKeepsLists DEF OS_Sched

LEMMA InterruptsKeepLists ==
  ASSUME OrderlyInv
  PROVE  /\ OSStart => ListInv'
         /\ \A source \in {"tick", "device"} : IrqEnter(source) => ListInv'
         /\ OSIntExit => ListInv'
<1>1. \A q \in Prios : pc[q] # "run" => q \in OSTCBList
  BY DEF OrderlyInv, ListInv, LinkInv
<1>2. UNCHANGED pc => \A q \in Prios : Pends(q)' = Pends(q)
  BY DEF Pends
<1>3. CASE OSStart
  <2>1. OSLockNesting = 0
    BY <1>3 DEF OSStart, OrderlyInv, ListInv, LockInv
  <2>2. QED
    BY <1>1, <1>2, <1>3, <2>1, DispatchKeepsLists DEF OSStart
<1>4. ASSUME NEW source \in {"tick", "device"}, IrqEnter(source) PROVE ListInv'
  BY <1>1, <1>2, <1>4, DispatchKeepsLists DEF IrqEnter
<1>5. CASE OSIntExit
  <2>1. \/ UNCHANGED OSPrioCur
        \/ OSLockNesting = 0 /\ OSPrioCur' = Highest(OSRdy)
    BY <1>5 DEF OSIntExit
  <2>2. OSRunning = OS_TRUE
    BY <1>5 DEF OSIntExit, OrderlyInv, ListInv, LockInv, KernelInv, CpuInv
  <2>3. QED
    BY <1>1, <1>2, <1>5, <2>1, <2>2, DispatchKeepsLists DEF OSIntExit
<1>6. QED
  BY <1>3, <1>4, <1>5

-----------------------------------------------------------------------------
(***************************************************************************)
(* Services that only count, lock or create.                               *)
(***************************************************************************)

\* A step after which the TCBs and all lists are as before, and which ends in
\* no part of OSSemPend.
LEMMA QuietStep ==
  ASSUME OrderlyInv, NEW p \in Prios, NEW l, At(p, l), ~Pends(p),
         UNCHANGED <<OSRunning, OSPrioCur, isr>>,
         UNCHANGED <<OSRdy, OSTCBList, tcbVars, OSEventType, OSEventWait>>,
         UNCHANGED pc \/ \E m \in Labels \ {"pendsched", "pendret"} : Goto(p, m),
         \A q \in Prios \ {p} : UNCHANGED obj[q]
  PROVE  ListInv'
<1>1. p \in OSTCBList /\ OSRunning = OS_TRUE
  BY RunnerFacts DEF At
<1>2. /\ \A q \in Prios : Pends(q)' = Pends(q)
      /\ \A q \in Prios \ {p} : pc'[q] = pc[q]
  <2>1. CASE UNCHANGED pc
    BY <2>1 DEF Pends
  <2>2. ASSUME NEW m \in Labels \ {"pendsched", "pendret"}, Goto(p, m)
        PROVE  /\ \A q \in Prios : Pends(q)' = Pends(q)
               /\ \A q \in Prios \ {p} : pc'[q] = pc[q]
    <3>1. pc'[p] = m /\ \A q \in Tasks \ {p} : pc'[q] = pc[q]
      BY <2>2, GotoFacts DEF OrderlyInv
    <3>2. \A q \in Prios \ {p} : pc'[q] = pc[q]
      BY <3>1, TaskFacts
    <3>3. ~Pends(p)'
      BY <2>2, <3>1 DEF Pends
    <3>4. QED
      BY <3>2, <3>3 DEF Pends
  <2>3. QED
    BY <2>1, <2>2
<1>3. LinkInv'
  BY <1>1, <1>2, LinkKept DEF tcbVars, OrderlyInv, ListInv, LinkInv
<1>4. LockInv'
  BY <1>1, <1>2 DEF OrderlyInv, ListInv, LockInv, At, OS_FALSE, OS_TRUE
<1>5. WaitEndInv'
  BY <1>2, WaitEndKept DEF tcbVars, Waiting
<1>6. ReadyIffNothingHolds' /\ WaitsIffNoToken'
  BY <1>2, ReadyKept, WaitsKept DEF tcbVars
<1>7. QED
  BY <1>3, <1>4, <1>5, <1>6 DEF ListInv

LEMMA CountsKeepLists ==
  ASSUME OrderlyInv, NEW s \in Sems, TakeToken(s) \/ PostCounts(s)
  PROVE  ListInv'
<1>1. /\ UNCHANGED <<cpuVars, OSRdy, listVars, tcbVars, OSEventType, OSEventWait, pc, obj>>
  BY DEF TakeToken, PostCounts
<1>2. QED
  BY <1>1 DEF OrderlyInv, ListInv, LinkInv, LockInv, WaitEndInv, ReadyIffNothingHolds,
     WaitsIffNoToken, Pends, Waiting, Ready, cpuVars, listVars, tcbVars

LEMMA SemCreateKeepsLists ==
  ASSUME OrderlyInv, NEW p \in Prios, NEW s \in Sems, NEW cnt \in Counts,
         OSSemCreate(p, s, cnt)
  PROVE  ListInv'
<1>1. UNCHANGED <<cpuVars, OSRdy, listVars, tcbVars, pc, obj>>
  BY DEF OSSemCreate
<1>2. LinkInv' /\ LockInv' /\ ReadyIffNothingHolds'
  BY <1>1 DEF OrderlyInv, ListInv, LinkInv, LockInv, ReadyIffNothingHolds,
     Pends, Ready, cpuVars, listVars, tcbVars
<1>3. Waiting(s) = {}
  BY DEF OSSemCreate, OrderlyInv, ListInv, WaitEndInv
<1>4. /\ OSEventWait'[s] = EmptyList /\ OSEventType'[s] = "sem"
      /\ \A t \in Sems \ {s} : /\ OSEventWait'[t] = OSEventWait[t]
                               /\ OSEventType'[t] = OSEventType[t]
  BY DEF OSSemCreate, OrderlyInv, KernelInv, WaitInv, CountInv
<1>5. \A t \in Sems : Waiting(t)' = Waiting(t)
  BY <1>3, <1>4, EmptyListFacts DEF Waiting
<1>6. WaitEndInv'
  BY <1>1, <1>4, <1>5 DEF OrderlyInv, ListInv, WaitEndInv, Pends, tcbVars
<1>7. WaitsIffNoToken'
  BY <1>1, <1>5 DEF OrderlyInv, ListInv, WaitsIffNoToken, Pends, tcbVars
<1>8. QED
  BY <1>2, <1>6, <1>7 DEF ListInv

LEMMA LockKeepsLists ==
  ASSUME OrderlyInv, NEW p \in Prios, OSSchedLock(p) \/ OSSchedUnlock(p)
  PROVE  ListInv'
<1>1. At(p, "run") /\ ~Pends(p)
  BY DEF OSSchedLock, OSSchedUnlock, InCode, At, Pends
<1>2. UNCHANGED <<OSRunning, OSPrioCur, isr>>
      /\ UNCHANGED <<OSRdy, OSTCBList, tcbVars, OSEventType, OSEventWait, obj>>
  BY DEF OSSchedLock, OSSchedUnlock, listVars, eventVars
<1>3. UNCHANGED pc \/ Goto(p, "sched")
  BY DEF OSSchedLock, OSSchedUnlock
<1>4. "sched" \in Labels \ {"pendsched", "pendret"}
  BY DEF Labels
<1>5. QED
  BY <1>1, <1>2, <1>3, <1>4, QuietStep

\* The sections of OSTaskCreate before the TCB is linked.  The fields that
\* OS_TCBInit sets are those of a TCB that is not linked.
LEMMA CreateKeepsLists ==
  ASSUME OrderlyInv, NEW p \in Prios
  PROVE  /\ \A q \in Prios : OSTaskCreateReserve(p, q) => ListInv'
         /\ OS_TCBInitTake(p) => ListInv'
         /\ OSTaskCreateFails(p) => ListInv'
         /\ OS_TCBInitFill(p) => ListInv'
<1>1. {"run", "reserved", "taken", "nomore", "filled"} \subseteq Labels \ {"pendsched", "pendret"}
  BY DEF Labels
<1>2. ASSUME NEW q \in Prios, OSTaskCreateReserve(p, q) PROVE ListInv'
  <2>1. At(p, "run") /\ ~Pends(p)
    BY <1>2 DEF OSTaskCreateReserve, InCode, At, Pends
  <2>2. \A r \in Prios \ {p} : UNCHANGED obj[r]
    BY <1>2 DEF OSTaskCreateReserve, OrderlyInv, KernelInv, CallInv
  <2>3. QED
    BY <1>1, <1>2, <2>1, <2>2, QuietStep DEF OSTaskCreateReserve, cpuVars, eventVars
<1>3. CASE OS_TCBInitTake(p)
  <2>1. At(p, "reserved") /\ ~Pends(p)
    BY <1>3 DEF OS_TCBInitTake, At, Pends
  <2>2. QED
    BY <1>1, <1>3, <2>1, QuietStep DEF OS_TCBInitTake, cpuVars, eventVars
<1>4. CASE OSTaskCreateFails(p)
  <2>1. At(p, "nomore") /\ ~Pends(p)
    BY <1>4 DEF OSTaskCreateFails, At, Pends
  <2>2. \A r \in Prios \ {p} : UNCHANGED obj[r]
    BY <1>4 DEF OSTaskCreateFails, OrderlyInv, KernelInv, CallInv
  <2>3. QED
    BY <1>1, <1>4, <2>1, <2>2, QuietStep DEF OSTaskCreateFails, cpuVars, eventVars
<1>5. CASE OS_TCBInitFill(p)
  <2> DEFINE q == obj[p]
  <2>1. At(p, "taken") /\ ~Pends(p) /\ q \in Prios /\ q \in Tasks
    BY <1>5, TaskFacts DEF OS_TCBInitFill, At, Pends, OrderlyInv, KernelInv, CallInv
  <2>2. q \notin OSTCBList
    BY <2>1 DEF At, OrderlyInv, CreationInv, ReservedByCreators, LinkedInTable, Reserving
  <2>3. OSTCBStat[q] = {} /\ OSTCBDly[q] = 0 /\ pc[q] = "run"
    BY <2>1, <2>2 DEF OrderlyInv, ListInv, LinkInv
  <2>4. OSTCBStat' = OSTCBStat /\ OSTCBDly' = OSTCBDly
    BY <1>5, <2>1, <2>3 DEF OS_TCBInitFill, OrderlyInv, KernelInv, TcbInv
  <2>5. \A r \in Prios \ {q} : UNCHANGED OSTCBStatPend[r]
    BY <1>5, <2>1, TaskFacts DEF OS_TCBInitFill, OrderlyInv, KernelInv, TcbInv
  <2>6. /\ UNCHANGED <<OSRunning, OSLockNesting, OSPrioCur, isr>>
        /\ UNCHANGED <<OSRdy, OSTCBList, OSEventType, OSEventWait, obj>>
    BY <1>5 DEF OS_TCBInitFill, cpuVars, eventVars
  <2>7. /\ pc'[p] = "filled"
        /\ \A r \in Tasks \ {p} : pc'[r] = pc[r]
        /\ p \in OSTCBList
    BY <1>5, <2>1, GotoFacts, RunnerFacts DEF OS_TCBInitFill, OrderlyInv
  <2>8. \A r \in Prios : Pends(r)' = Pends(r)
    BY <2>1, <2>7, TaskFacts DEF Pends
  <2>9. ~Pends(q)
    BY <2>3 DEF Pends
  <2>10. LinkInv' /\ LockInv'
    BY <2>4, <2>6, <2>7, <2>8, TaskFacts, LinkKept, LockKept DEF OrderlyInv, ListInv, LinkInv
  <2>11. WaitEndInv'
    BY <2>4, <2>5, <2>6, <2>8, <2>9, WaitEndKept DEF Waiting
  <2>12. ReadyIffNothingHolds'
    BY <2>4, <2>6, ReadyKept
  <2>13. WaitsIffNoToken'
    BY <2>4, <2>5, <2>6, <2>8, <2>9, WaitsKept
  <2>14. QED
    BY <2>10, <2>11, <2>12, <2>13 DEF ListInv
<1>6. QED
  BY <1>2, <1>3, <1>4, <1>5

LEMMA LinkKeepsLists ==
  ASSUME OrderlyInv, NEW p \in Prios, OS_TCBInitLink(p)
  PROVE  ListInv'
<1> DEFINE q == obj[p]
<1>1. At(p, "filled") /\ q \in Prios /\ q \in Tasks
  BY TaskFacts DEF OS_TCBInitLink, At, OrderlyInv, KernelInv, CallInv
<1>2. q \notin OSTCBList
  BY <1>1 DEF At, OrderlyInv, CreationInv, FilledNotLinked
<1>3. OSTCBStat[q] = {} /\ OSTCBDly[q] = 0
  BY <1>1, <1>2 DEF OrderlyInv, ListInv, LinkInv
<1>4. Ready' = Ready \cup {q} /\ OSTCBList' = OSTCBList \cup {q}
  BY <1>1, ReadyInsert DEF OS_TCBInitLink, OrderlyInv, KernelInv
<1>5. /\ pc'[p] = "sched"
      /\ \A r \in Tasks \ {p} : pc'[r] = pc[r]
      /\ p \in OSTCBList
  BY <1>1, GotoFacts, RunnerFacts DEF OS_TCBInitLink, OrderlyInv
<1>6. \A r \in Prios \ {p} : UNCHANGED obj[r]
  BY DEF OS_TCBInitLink, OrderlyInv, KernelInv, CallInv
<1>7. /\ \A r \in Prios : Pends(r)' = Pends(r)
      /\ ~Pends(p)
  BY <1>1, <1>5, TaskFacts DEF Pends, At
<1>8. /\ UNCHANGED <<OSRunning, OSLockNesting, OSPrioCur, isr>>
      /\ UNCHANGED <<OSTCBStat, OSTCBStatPend, OSTCBDly, OSEventType, OSEventWait>>
  BY DEF OS_TCBInitLink, cpuVars, tcbVars, eventVars
<1>9. LinkInv' /\ LockInv'
  BY <1>4, <1>5, <1>7, <1>8, TaskFacts, LinkKept, LockKept DEF OrderlyInv, ListInv, LinkInv
<1>10. WaitEndInv'
  BY <1>7, <1>8, WaitEndKept DEF Waiting
<1>11. ReadyIffNothingHolds'
  BY <1>3, <1>4, <1>8 DEF OrderlyInv, ListInv, ReadyIffNothingHolds
<1>12. WaitsIffNoToken'
  BY <1>6, <1>7, <1>8, WaitsKept
<1>13. QED
  BY <1>9, <1>10, <1>11, <1>12 DEF ListInv

-----------------------------------------------------------------------------
(***************************************************************************)
(* Services and the tick that hold tasks back or let them go.  Each step   *)
(* is described task by task; the invariant follows from the descriptions. *)
(***************************************************************************)
LEMMA DelayKeepsLists ==
  ASSUME OrderlyInv, NEW p \in Prios, NEW ticks \in Nat, OSTimeDly(p, ticks)
  PROVE  ListInv'
<1>1. At(p, "run") /\ ~Pends(p) /\ p \in OSTCBList /\ ticks > 0
  BY RunnerFacts DEF OSTimeDly, InCode, At, Pends
<1>2. Ready' = Ready \ {p}
  BY ReadyRemove DEF OSTimeDly, OrderlyInv, KernelInv
<1>3. /\ OSTCBDly'[p] = ticks
      /\ \A q \in Tasks \ {p} : OSTCBDly'[q] = OSTCBDly[q]
  BY TaskFacts DEF OSTimeDly, OrderlyInv, KernelInv, TcbInv
<1>4. /\ UNCHANGED <<OSRunning, OSLockNesting, OSPrioCur, isr>>
      /\ UNCHANGED <<OSTCBList, OSTCBStat, OSTCBStatPend, OSEventType, OSEventWait, obj>>
  BY DEF OSTimeDly, cpuVars, listVars, eventVars
<1>5. /\ pc'[p] = "sched"
      /\ \A q \in Tasks \ {p} : pc'[q] = pc[q]
  BY GotoFacts DEF OSTimeDly, OrderlyInv
<1>6. \A q \in Prios : Pends(q)' = Pends(q)
  BY <1>1, <1>5, TaskFacts DEF Pends
<1>7. LinkInv'
  BY <1>1, <1>3, <1>4, <1>5, TaskFacts, LinkKept DEF OrderlyInv, ListInv, LinkInv
<1>8. LockInv'
  BY <1>4, <1>6, LockKept
<1>9. WaitEndInv'
  BY <1>1, <1>3, <1>4, <1>6, TaskFacts, WaitEndKept DEF Waiting
<1>10. ReadyIffNothingHolds'
  BY <1>1, <1>2, <1>3, <1>4 DEF OrderlyInv, ListInv, ReadyIffNothingHolds
<1>11. WaitsIffNoToken'
  BY <1>4, <1>6, WaitsKept
<1>12. QED
  BY <1>7, <1>8, <1>9, <1>10, <1>11 DEF ListInv

LEMMA PendWaitKeepsLists ==
  ASSUME Unruly = {}, OrderlyInv, NEW p \in Prios, NEW s \in Sems, NEW timeout \in Ticks,
         OSSemPendWait(p, s, timeout)
  PROVE  ListInv'
<1>1. At(p, "run") /\ ~Pends(p) /\ p \in OSTCBList /\ OSLockNesting = 0
  BY RunnerFacts DEF OSSemPendWait, InCode, At, Pends
<1>2. Ready' = Ready \ {p}
  BY ReadyRemove DEF OSSemPendWait, OrderlyInv, KernelInv
<1>3. /\ Waiting(s)' = Waiting(s) \cup {p}
      /\ \A t \in Sems \ {s} : Waiting(t)' = Waiting(t)
  BY WaitInsert DEF OSSemPendWait, OrderlyInv, KernelInv
<1>4. /\ "sem" \in OSTCBStat'[p] /\ OSTCBStatPend'[p] = "ok" /\ obj'[p] = s
      /\ \A q \in Tasks \ {p} : /\ OSTCBStat'[q] = OSTCBStat[q]
                                /\ OSTCBStatPend'[q] = OSTCBStatPend[q]
                                /\ OSTCBDly'[q] = OSTCBDly[q]
                                /\ obj'[q] = obj[q]
  BY TaskFacts DEF OSSemPendWait, OrderlyInv, KernelInv, TcbInv, CallInv
<1>5. /\ UNCHANGED <<OSRunning, OSLockNesting, OSPrioCur, isr>>
      /\ UNCHANGED <<OSTCBList, OSEventType>>
      /\ OSEventType[s] = "sem"
  BY DEF OSSemPendWait, cpuVars, listVars
<1>6. /\ pc'[p] = "pendsched"
      /\ \A q \in Tasks \ {p} : pc'[q] = pc[q]
  BY GotoFacts DEF OSSemPendWait, OrderlyInv
<1>7. Pends(p)' /\ \A q \in Prios \ {p} : Pends(q)' = Pends(q)
  BY <1>6, TaskFacts DEF Pends
<1>8. LinkInv'
  BY <1>1, <1>4, <1>5, <1>6, TaskFacts, LinkKept DEF OrderlyInv, ListInv, LinkInv
<1>9. LockInv'
  BY <1>1, <1>5, LockKept
<1>10. WaitEndInv'
  BY <1>3, <1>4, <1>5, <1>7, TaskFacts DEF OrderlyInv, ListInv, WaitEndInv
<1>11. ReadyIffNothingHolds'
  BY <1>2, <1>4, <1>5 DEF OrderlyInv, ListInv, ReadyIffNothingHolds
<1>12. WaitsIffNoToken'
  <2>1. \A t \in Sems : p \notin Waiting(t)
    BY <1>1 DEF OrderlyInv, ListInv, WaitsIffNoToken
  <2>2. \A t \in Sems : p \in Waiting(t)' <=> obj'[p] = t
    BY <1>3, <1>4, <2>1
  <2>3. \A q \in Prios \ {p}, t \in Sems : q \in Waiting(t)' <=> q \in Waiting(t)
    BY <1>3
  <2>4. \A q \in Prios \ {p} : q \in Tasks
    BY TaskFacts
  <2>5. QED
    BY <1>4, <1>7, <2>2, <2>3, <2>4 DEF OrderlyInv, ListInv, WaitsIffNoToken
<1>13. QED
  BY <1>8, <1>9, <1>10, <1>11, <1>12 DEF ListInv

\* Back from OS_Sched the task is ready, so nothing is left in its TCB but
\* how the wait has ended.
LEMMA PendReturnsKeepsLists ==
  ASSUME OrderlyInv, NEW p \in Prios, OSSemPendOk(p) \/ OSSemPendTimeout(p)
  PROVE  ListInv'
<1>1. At(p, "pendret") /\ PendReturns(p)
  BY DEF OSSemPendOk, OSSemPendTimeout, PendReturns
<1> PICK s \in Sems : obj[p] = s
  BY <1>1 DEF At, OrderlyInv, KernelInv, CallInv
<1>2. p \in OSTCBList /\ OSTCBStat[p] = {} /\ Pends(p) /\ obj[p] = s
  BY <1>1, RunnerFacts DEF At, Pends
<1>3. /\ UNCHANGED <<OSRunning, OSLockNesting, OSPrioCur, isr>>
      /\ UNCHANGED <<OSRdy, OSTCBList, OSTCBDly, OSEventType>>
  BY <1>1 DEF PendReturns, cpuVars, listVars
<1>4. OSTCBStat' = OSTCBStat
  BY <1>1, <1>2 DEF PendReturns, OrderlyInv, KernelInv, TcbInv
<1>5. \A q \in Prios \ {p} : UNCHANGED <<OSTCBStatPend[q], obj[q]>>
  <2>1. \A q \in Prios \ {p} : UNCHANGED obj[q]
    BY <1>1 DEF PendReturns, OrderlyInv, KernelInv, CallInv
  <2>2. \A q \in Prios \ {p} : UNCHANGED OSTCBStatPend[q]
    <3>1. UNCHANGED OSTCBStatPend \/ OSTCBStatPend' = [OSTCBStatPend EXCEPT ![p] = "ok"]
      BY DEF OSSemPendOk, OSSemPendTimeout
    <3>2. OSTCBStatPend \in [Tasks -> {"ok", "to"}]
      BY DEF OrderlyInv, KernelInv, TcbInv
    <3>3. ASSUME NEW q \in Prios \ {p} PROVE OSTCBStatPend'[q] = OSTCBStatPend[q]
      <4>1. q \in Tasks /\ q # p
        BY TaskFacts
      <4>2. QED
        BY <3>1, <3>2, <4>1
    <3>4. QED
      BY <3>3
  <2>3. QED
    BY <2>1, <2>2
<1>6. /\ pc'[p] = "run"
      /\ \A q \in Tasks \ {p} : pc'[q] = pc[q]
  BY <1>1, GotoFacts DEF PendReturns, OrderlyInv
<1>7. ~Pends(p)' /\ \A q \in Prios \ {p} : Pends(q)' = Pends(q)
  BY <1>6, TaskFacts DEF Pends
<1>8. /\ p \notin Waiting(s)'
      /\ \A t \in Sems, q \in Prios \ {p} : q \in Waiting(t)' <=> q \in Waiting(t)
      /\ \A t \in Sems : Waiting(t)' \subseteq Waiting(t)
  <2>1. CASE OSSemPendOk(p)
    <3>1. \A t \in Sems : Waiting(t)' = Waiting(t)
      BY <2>1 DEF OSSemPendOk, Waiting
    <3>2. p \notin Waiting(s)
      BY <1>2, <2>1 DEF OSSemPendOk, OrderlyInv, ListInv, WaitsIffNoToken
    <3>3. QED
      BY <1>2, <3>1, <3>2
  <2>2. CASE OSSemPendTimeout(p)
    <3>1. /\ Waiting(s)' = Waiting(s) \ {p}
          /\ \A t \in Sems \ {s} : Waiting(t)' = Waiting(t)
      BY <1>2, <2>2, WaitRemove DEF OSSemPendTimeout, OrderlyInv, KernelInv
    <3>2. QED
      BY <3>1
  <2>3. QED
    BY <2>1, <2>2
<1>9. \A t \in Sems : p \notin Waiting(t)'
  BY <1>2, <1>8 DEF OrderlyInv, ListInv, WaitsIffNoToken
<1>10. LinkInv'
  BY <1>2, <1>3, <1>4, <1>6, TaskFacts, LinkKept DEF OrderlyInv, ListInv, LinkInv
<1>11. LockInv'
  BY <1>3, <1>7, LockKept
<1>12. WaitEndInv'
  BY <1>3, <1>5, <1>7, <1>8, WaitEndKept
<1>13. ReadyIffNothingHolds'
  BY <1>3, <1>4, ReadyKept
<1>14. WaitsIffNoToken'
  BY <1>4, <1>5, <1>7, <1>8, <1>9 DEF OrderlyInv, ListInv, WaitsIffNoToken
<1>15. QED
  BY <1>10, <1>11, <1>12, <1>13, <1>14 DEF ListInv

\* OSSemPost hands the token to a task that waits, from a task p that goes on
\* to OS_Sched or from a handler.
LEMMA WakeKeepsLists ==
  ASSUME OrderlyInv, NEW s \in Sems, PostWakes(s),
         \/ UNCHANGED pc
         \/ \E p \in Prios : At(p, "run") /\ Goto(p, "sched")
  PROVE  ListInv'
<1> DEFINE t == Highest(OSEventWait[s])
<1>1. t \in Prios /\ t \in Tasks /\ t \in Waiting(s)
  BY PostFindsTask, TaskFacts DEF PostWakes, OrderlyInv, KernelInv
<1>2. Pends(t) /\ obj[t] = s /\ t \in OSTCBList
  BY <1>1 DEF OrderlyInv, ListInv, WaitsIffNoToken, LinkInv, Pends
<1>3. /\ OSTCBDly'[t] = 0 /\ OSTCBStatPend'[t] = "ok"
      /\ OSTCBStat'[t] = OSTCBStat[t] \ {"sem"}
      /\ \A q \in Tasks \ {t} : /\ OSTCBStat'[q] = OSTCBStat[q]
                                /\ OSTCBStatPend'[q] = OSTCBStatPend[q]
                                /\ OSTCBDly'[q] = OSTCBDly[q]
  BY <1>1 DEF PostWakes, OS_EventTaskRdy, OrderlyInv, KernelInv, TcbInv
<1>4. /\ Waiting(s)' = Waiting(s) \ {t}
      /\ \A u \in Sems \ {s} : Waiting(u)' = Waiting(u)
  <2>1. OSEventWait' = [OSEventWait EXCEPT ![s] = ListRemove(@, t)]
    BY DEF PostWakes, OS_EventTaskRdy
  <2>2. QED
    BY <1>1, <2>1, WaitRemove DEF OrderlyInv, KernelInv
<1>5. Ready' = IF "suspend" \in OSTCBStat[t] THEN Ready ELSE Ready \cup {t}
  <2>1. OSRdy' = IF "suspend" \in OSTCBStat[t] THEN OSRdy ELSE ListInsert(OSRdy, t)
    BY DEF PostWakes, OS_EventTaskRdy
  <2>2. QED
    BY <1>1, <2>1, ReadyInsert, GroupsUnchanged DEF OrderlyInv, KernelInv
<1>6. /\ UNCHANGED <<OSRunning, OSLockNesting, OSPrioCur, isr>>
      /\ UNCHANGED <<OSTCBList, OSEventType, obj>>
  BY DEF PostWakes, OS_EventTaskRdy, cpuVars, listVars
<1>7. /\ \A q \in Prios : Pends(q)' = Pends(q)
      /\ \A q \in Prios : pc'[q] # "run" => q \in OSTCBList
  <2>1. CASE UNCHANGED pc
    BY <2>1 DEF Pends, OrderlyInv, ListInv, LinkInv
  <2>2. ASSUME NEW p \in Prios, At(p, "run"), Goto(p, "sched")
        PROVE  /\ \A q \in Prios : Pends(q)' = Pends(q)
               /\ \A q \in Prios : pc'[q] # "run" => q \in OSTCBList
    <3>1. /\ pc'[p] = "sched" /\ pc[p] = "run" /\ p \in OSTCBList
          /\ \A q \in Tasks \ {p} : pc'[q] = pc[q]
      BY <2>2, GotoFacts, RunnerFacts DEF OrderlyInv, At
    <3>2. \A q \in Prios : q = p \/ pc'[q] = pc[q]
      BY <3>1, TaskFacts
    <3>3. QED
      BY <3>1, <3>2 DEF Pends, OrderlyInv, ListInv, LinkInv
  <2>3. QED
    BY <2>1, <2>2
<1>8. LinkInv'
  BY <1>2, <1>3, <1>6, <1>7, LinkKept DEF OrderlyInv, ListInv, LinkInv
<1>9. LockInv'
  BY <1>6, <1>7, LockKept
<1>10. WaitEndInv'
  BY <1>3, <1>4, <1>6, <1>7, TaskFacts DEF OrderlyInv, ListInv, WaitEndInv
<1>11. ReadyIffNothingHolds'
  <2>1. OSTCBStat[t] \in SUBSET {"sem", "suspend"}
    BY <1>1 DEF OrderlyInv, KernelInv, TcbInv
  <2>2. "suspend" \in OSTCBStat[t] => t \notin Ready
    BY <1>1 DEF OrderlyInv, ListInv, ReadyIffNothingHolds
  <2>3. t \in Ready' <=> OSTCBStat'[t] = {}
    BY <1>3, <1>5, <2>1, <2>2
  <2>4. \A q \in Tasks \ {t} : q \in Ready' <=> q \in Ready
    BY <1>5
  <2>5. QED
    BY <1>2, <1>3, <1>6, <2>3, <2>4 DEF OrderlyInv, ListInv, ReadyIffNothingHolds
<1>12. WaitsIffNoToken'
  BY <1>2, <1>3, <1>4, <1>6, <1>7, TaskFacts DEF OrderlyInv, ListInv, WaitsIffNoToken
<1>13. QED
  BY <1>8, <1>9, <1>10, <1>11, <1>12 DEF ListInv

\* After a step of p from its own code to OS_Sched, or without a Goto, the
\* same tasks are in OSSemPend and only linked tasks are inside a service.
LEMMA CallerFacts ==
  ASSUME OrderlyInv, NEW p \in Prios, At(p, "run"), Goto(p, "sched") \/ UNCHANGED pc
  PROVE  /\ \A q \in Prios : Pends(q)' = Pends(q)
         /\ \A q \in Prios : pc'[q] # "run" => q \in OSTCBList
<1>1. p \in OSTCBList /\ pc[p] = "run"
  BY RunnerFacts DEF At
<1>2. CASE UNCHANGED pc
  BY <1>2 DEF Pends, OrderlyInv, ListInv, LinkInv
<1>3. CASE Goto(p, "sched")
  <2>1. pc'[p] = "sched" /\ \A q \in Prios \ {p} : pc'[q] = pc[q]
    BY <1>3, GotoFacts, TaskFacts DEF OrderlyInv
  <2>2. \A q \in Prios : Pends(q)' = Pends(q)
    BY <1>1, <2>1 DEF Pends
  <2>3. \A q \in Prios : pc'[q] # "run" => q \in OSTCBList
    BY <1>1, <2>1 DEF OrderlyInv, ListInv, LinkInv
  <2>4. QED
    BY <2>2, <2>3
<1>4. QED
  BY <1>2, <1>3

LEMMA SuspendKeepsLists ==
  ASSUME Unruly = {}, OrderlyInv, NEW p \in Prios, NEW q \in Prios, OSTaskSuspend(p, q)
  PROVE  ListInv'
<1>1. At(p, "run") /\ q \in OSTCBList /\ q \in Tasks
  BY TaskFacts DEF OSTaskSuspend, InCode
<1>2. Ready' = Ready \ {q}
  BY ReadyRemove DEF OSTaskSuspend, OrderlyInv, KernelInv
<1>3. /\ OSTCBStat'[q] = OSTCBStat[q] \cup {"suspend"}
      /\ \A r \in Tasks \ {q} : OSTCBStat'[r] = OSTCBStat[r]
  BY <1>1 DEF OSTaskSuspend, OrderlyInv, KernelInv, TcbInv
<1>4. /\ UNCHANGED <<OSRunning, OSLockNesting, OSPrioCur, isr>>
      /\ UNCHANGED <<OSTCBList, OSTCBStatPend, OSTCBDly, OSEventType, OSEventWait, obj>>
  BY DEF OSTaskSuspend, cpuVars, listVars, eventVars
<1>5. Goto(p, "sched") \/ UNCHANGED pc
  BY DEF OSTaskSuspend
<1>6. /\ \A r \in Prios : Pends(r)' = Pends(r)
      /\ \A r \in Prios : pc'[r] # "run" => r \in OSTCBList
  BY <1>1, <1>5, CallerFacts
<1>7. LinkInv'
  BY <1>1, <1>3, <1>4, <1>6, LinkKept DEF OrderlyInv, ListInv, LinkInv
<1>8. LockInv'
  BY <1>4, <1>6, LockKept
<1>9. WaitEndInv'
  BY <1>4, <1>6, WaitEndKept DEF Waiting
<1>10. ReadyIffNothingHolds'
  BY <1>1, <1>2, <1>3, <1>4 DEF OrderlyInv, ListInv, ReadyIffNothingHolds
<1>11. WaitsIffNoToken'
  <2>1. \A r \in Prios : "sem" \in OSTCBStat'[r] <=> "sem" \in OSTCBStat[r]
    BY <1>3, TaskFacts
  <2>2. QED
    BY <1>4, <1>6, <2>1, WaitsKept
<1>12. QED
  BY <1>7, <1>8, <1>9, <1>10, <1>11 DEF ListInv

\* A task that is suspended is linked, so OSTaskResume never puts a task into
\* the ready list whose creation is not complete.
LEMMA ResumeKeepsLists ==
  ASSUME OrderlyInv, NEW p \in Prios, NEW q \in Prios, OSTaskResume(p, q)
  PROVE  ListInv'
<1>1. At(p, "run") /\ q \in Tasks /\ "suspend" \in OSTCBStat[q]
  BY TaskFacts DEF OSTaskResume, InCode
<1>2. q \in OSTCBList /\ q \notin Ready
  BY <1>1 DEF OrderlyInv, ListInv, LinkInv, ReadyIffNothingHolds
<1>3. /\ OSTCBStat'[q] = OSTCBStat[q] \ {"suspend"}
      /\ \A r \in Tasks \ {q} : OSTCBStat'[r] = OSTCBStat[r]
  BY <1>1 DEF OSTaskResume, OrderlyInv, KernelInv, TcbInv
<1>4. Ready' = IF "sem" \notin OSTCBStat[q] /\ OSTCBDly[q] = 0
                 THEN Ready \cup {q} ELSE Ready
  BY <1>1, ReadyInsert, GroupsUnchanged DEF OSTaskResume, OrderlyInv, KernelInv
<1>5. /\ UNCHANGED <<OSRunning, OSLockNesting, OSPrioCur, isr>>
      /\ UNCHANGED <<OSTCBList, OSTCBStatPend, OSTCBDly, OSEventType, OSEventWait, obj>>
  BY DEF OSTaskResume, cpuVars, listVars, eventVars
<1>6. Goto(p, "sched") \/ UNCHANGED pc
  BY DEF OSTaskResume
<1>7. /\ \A r \in Prios : Pends(r)' = Pends(r)
      /\ \A r \in Prios : pc'[r] # "run" => r \in OSTCBList
  BY <1>1, <1>6, CallerFacts
<1>8. LinkInv'
  BY <1>2, <1>3, <1>5, <1>7, LinkKept DEF OrderlyInv, ListInv, LinkInv
<1>9. LockInv'
  BY <1>5, <1>7, LockKept
<1>10. WaitEndInv'
  BY <1>5, <1>7, WaitEndKept DEF Waiting
<1>11. ReadyIffNothingHolds'
  <2>1. OSTCBStat[q] \in SUBSET {"sem", "suspend"}
    BY <1>1 DEF OrderlyInv, KernelInv, TcbInv
  <2>2. q \in Ready' <=> OSTCBStat'[q] = {} /\ OSTCBDly[q] = 0
    BY <1>2, <1>3, <1>4, <2>1
  <2>3. \A r \in Tasks \ {q} : r \in Ready' <=> r \in Ready
    BY <1>4
  <2>4. QED
    BY <1>2, <1>3, <1>5, <2>2, <2>3 DEF OrderlyInv, ListInv, ReadyIffNothingHolds
<1>12. WaitsIffNoToken'
  <2>1. \A r \in Prios : "sem" \in OSTCBStat'[r] <=> "sem" \in OSTCBStat[r]
    BY <1>3, TaskFacts
  <2>2. QED
    BY <1>5, <1>7, <2>1, WaitsKept
<1>13. QED
  BY <1>8, <1>9, <1>10, <1>11, <1>12 DEF ListInv

LEMMA TickKeepsLists ==
  ASSUME OrderlyInv, OSTimeTick
  PROVE  ListInv'
<1> DEFINE visited == OSTCBList \ {OS_TASK_IDLE_PRIO}
<1>1. /\ UNCHANGED <<OSRunning, OSLockNesting, OSPrioCur>>
      /\ UNCHANGED <<OSTCBList, OSEventType, OSEventWait, pc, obj>>
      /\ OSRunning = OS_TRUE
  BY DEF OSTimeTick, listVars, eventVars, OrderlyInv, ListInv, LockInv, KernelInv, CpuInv
<1>2. \A p \in Tasks : OSTCBDly[p] \in Nat /\ OSTCBStat[p] \in SUBSET {"sem", "suspend"}
  BY DEF OrderlyInv, KernelInv, TcbInv
<1>3. \A p \in Tasks :
        /\ OSTCBDly'[p] = IF p \in visited /\ OSTCBDly[p] > 0
                            THEN OSTCBDly[p] - 1 ELSE OSTCBDly[p]
        /\ OSTCBStatPend'[p] = IF p \notin Expiring THEN OSTCBStatPend[p]
                               ELSE IF "sem" \in OSTCBStat[p] THEN "to" ELSE "ok"
        /\ OSTCBStat'[p] = IF p \in Expiring THEN OSTCBStat[p] \ {"sem"} ELSE OSTCBStat[p]
  BY DEF OSTimeTick
<1>4. \A p : p \in Expiring <=> p \in visited /\ OSTCBDly[p] = 1
  BY DEF Expiring
<1> HIDE DEF visited
<1>4a. ASSUME NEW p \in Tasks
      PROVE  /\ p \in Expiring => OSTCBDly[p] = 1 /\ OSTCBDly'[p] = 0
             /\ p \notin Expiring => (OSTCBDly'[p] = 0 <=> OSTCBDly[p] = 0)
  <2>1. PICK n \in Nat : OSTCBDly[p] = n
    BY <1>2
  <2>2. CASE p \in visited /\ n > 0
    <3>1. OSTCBDly'[p] = n - 1
      BY <1>3, <2>1, <2>2
    <3>2. QED
      BY <1>4, <2>1, <2>2, <3>1
  <2>3. CASE ~(p \in visited /\ n > 0)
    <3>1. OSTCBDly'[p] = n
      BY <1>3, <2>1, <2>3
    <3>2. QED
      BY <1>4, <2>1, <2>3, <3>1
  <2>4. QED
    BY <2>2, <2>3
<1>5. \A p \in Tasks : p \in Ready' <=> \/ p \in Ready
                                        \/ p \in Expiring /\ "suspend" \notin OSTCBStat[p]
  <2> DEFINE S == {p \in Expiring : "suspend" \notin OSTCBStat[p]}
  <2>1. S \in SUBSET PrioSpace
    BY TaskFacts DEF Expiring, OrderlyInv, KernelInv, TableInv
  <2>2. OSRdy' = ReadyAll(OSRdy, S) /\ OSRdy \in PrioLists
    BY DEF OSTimeTick, OrderlyInv, KernelInv, ReadyInv
  <2> HIDE DEF S
  <2>3. Ready' = Ready \cup S
    BY <2>1, <2>2, ReadyAllFacts DEF Ready
  <2>4. QED
    BY <2>3 DEF S
<1>6. /\ \A p \in Prios : Pends(p)' = Pends(p)
      /\ \A s \in Sems : Waiting(s)' = Waiting(s)
  BY <1>1 DEF Pends, Waiting
<1>7. LinkInv'
  <2>1. \A p \in Tasks \ OSTCBList : OSTCBStat'[p] = {} /\ OSTCBDly'[p] = 0
    BY <1>3, <1>4 DEF visited, OrderlyInv, ListInv, LinkInv
  <2>2. QED
    BY <1>1, <2>1, LinkKept DEF OrderlyInv, ListInv, LinkInv
<1>8. LockInv'
  BY <1>1, <1>6, LockKept
<1>9. WaitEndInv'
  <2>1. ASSUME NEW p \in Prios, Pends(p), OSTCBStatPend'[p] = "to"
        PROVE  OSTCBDly'[p] = 0
    <3>1. p \in Tasks
      BY TaskFacts
    <3>2. CASE p \in Expiring
      BY <1>4a, <3>1, <3>2
    <3>3. CASE p \notin Expiring
      <4>1. OSTCBDly[p] = 0
        BY <1>3, <2>1, <3>1, <3>3 DEF OrderlyInv, ListInv, WaitEndInv
      <4>2. QED
        BY <1>4a, <3>1, <3>3, <4>1
    <3>4. QED
      BY <3>2, <3>3
  <2>2. \A s \in Sems : OSEventType'[s] = "unused" => Waiting(s)' = {}
    BY <1>1, <1>6 DEF OrderlyInv, ListInv, WaitEndInv
  <2>3. QED
    BY <1>6, <2>1, <2>2 DEF WaitEndInv
<1>10. ReadyIffNothingHolds'
  <2>1. ASSUME NEW p \in Tasks
        PROVE  p \in Ready' <=> /\ p \in OSTCBList'
                                /\ OSTCBStat'[p] = {}
                                /\ OSTCBDly'[p] = 0
    <3>1. p \in Ready <=> p \in OSTCBList /\ OSTCBStat[p] = {} /\ OSTCBDly[p] = 0
      BY DEF OrderlyInv, ListInv, ReadyIffNothingHolds
    <3>2. CASE p \in Expiring
      <4>1. p \in OSTCBList /\ p \notin Ready /\ OSTCBDly'[p] = 0
        BY <1>4a, <1>4, <3>1, <3>2 DEF visited
      <4>2. OSTCBStat'[p] = {} <=> "suspend" \notin OSTCBStat[p]
        BY <1>2, <1>3, <3>2
      <4>3. QED
        BY <1>1, <1>5, <3>2, <4>1, <4>2
    <3>3. CASE p \notin Expiring
      <4>1. OSTCBStat'[p] = OSTCBStat[p] /\ (p \in Ready' <=> p \in Ready)
        BY <1>3, <1>5, <3>3
      <4>2. OSTCBDly'[p] = 0 <=> OSTCBDly[p] = 0
        BY <1>4a, <3>3
      <4>3. QED
        BY <1>1, <3>1, <4>1, <4>2
    <3>4. QED
      BY <3>2, <3>3
  <2>2. QED
    BY <2>1 DEF ReadyIffNothingHolds
<1>11. WaitsIffNoToken'
  <2>1. ASSUME NEW p \in Prios, Pends(p)
        PROVE  "sem" \in OSTCBStat'[p] \/ OSTCBStatPend'[p] = "to"
                 <=> "sem" \in OSTCBStat[p] \/ OSTCBStatPend[p] = "to"
    <3>1. p \in Tasks
      BY TaskFacts
    <3>2. CASE p \in Expiring
      <4>1. OSTCBStatPend[p] # "to"
        BY <1>4, <2>1, <3>2 DEF OrderlyInv, ListInv, WaitEndInv
      <4>2. QED
        BY <1>3, <3>1, <3>2, <4>1
    <3>3. CASE p \notin Expiring
      BY <1>3, <3>1, <3>3
    <3>4. QED
      BY <3>2, <3>3
  <2>2. QED
    BY <1>1, <1>6, <2>1 DEF OrderlyInv, ListInv, WaitsIffNoToken
<1>12. QED
  BY <1>7, <1>8, <1>9, <1>10, <1>11 DEF ListInv

-----------------------------------------------------------------------------
LEMMA ServiceKeepsLists ==
  ASSUME OrderlyInv, NEW p \in Prios, ServiceStep(p)
  PROVE  ListInv'
  BY SchedKeepsLists, PendReturnsKeepsLists, CreateKeepsLists, LinkKeepsLists
  DEF ServiceStep

LEMMA CallKeepsLists ==
  ASSUME Unruly = {}, OrderlyInv, NEW p \in Prios, CallStep(p)
  PROVE  ListInv'
<1>1. ASSUME NEW ticks \in Ticks, OSTimeDly(p, ticks) PROVE ListInv'
  BY <1>1, DelayKeepsLists, KernelAssumption
<1>2. ASSUME NEW d \in Delays, OSTimeDlyHMSM(p, d) PROVE ListInv'
  <2>1. TicksOf(d) \in Nat
    BY <1>2, DelayFits, KernelAssumption DEF OSTimeDlyHMSM
  <2>2. QED
    BY <1>2, <2>1, DelayKeepsLists DEF OSTimeDlyHMSM
<1>3. ASSUME NEW s \in Sems, OSSemAccept(p, s) \/ OSSemPendTake(p, s) PROVE ListInv'
  BY <1>3, CountsKeepLists DEF OSSemAccept, OSSemPendTake
<1>4. ASSUME NEW s \in Sems, OSSemPost(p, s) PROVE ListInv'
  BY <1>4, WakeKeepsLists, CountsKeepLists DEF OSSemPost, InCode
<1>5. QED
  BY <1>1, <1>2, <1>3, <1>4, SemCreateKeepsLists, PendWaitKeepsLists, SuspendKeepsLists,
     ResumeKeepsLists, LockKeepsLists, CreateKeepsLists
  DEF CallStep

LEMMA NextKeepsLists == Unruly = {} /\ OrderlyInv /\ [Next]_vars => ListInv'
<1> SUFFICES ASSUME Unruly = {}, OrderlyInv, [Next]_vars PROVE ListInv'
  OBVIOUS
<1>1. CASE UNCHANGED vars
  BY <1>1 DEF vars, cpuVars, listVars, tcbVars, eventVars, OrderlyInv, ListInv, LinkInv,
              LockInv, WaitEndInv, ReadyIffNothingHolds, WaitsIffNoToken, Pends, Waiting, Ready
<1>2. ASSUME NEW p \in Prios, MainCreatesTask(p) PROVE ListInv'
  BY <1>2, MainKeepsLists
<1>3. CASE OSStart
  BY <1>3, InterruptsKeepLists
<1>4. ASSUME NEW p \in Prios, ServiceStep(p) PROVE ListInv'
  BY <1>4, ServiceKeepsLists
<1>5. ASSUME NEW p \in Prios, CallStep(p) PROVE ListInv'
  BY <1>5, CallKeepsLists
<1>6. ASSUME NEW source \in {"tick", "device"}, IrqEnter(source) PROVE ListInv'
  BY <1>6, InterruptsKeepLists
<1>7. CASE HandlerStep
  <2>1. ASSUME NEW s \in Sems, IsrPost(s) PROVE ListInv'
    BY <2>1, WakeKeepsLists, CountsKeepLists DEF IsrPost
  <2>2. QED
    BY <1>7, <2>1, TickKeepsLists, InterruptsKeepLists DEF HandlerStep
<1>8. QED
  BY <1>1, <1>2, <1>3, <1>4, <1>5, <1>6, <1>7 DEF Next

LEMMA OrderIsInvariant ==
  ASSUME Unruly = {}
  PROVE  Spec => []OrderlyInv
<1>1. Init => OrderlyInv
  <2>1. Init => HighestRuns
    BY DEF Init, OS_InitMisc, HighestRuns, OS_FALSE, OS_TRUE
  <2>2. QED
    BY <2>1, InitKernelInv, InitCreationInv, InitListInv DEF OrderlyInv
<1>2. OrderlyInv /\ [Next]_vars => OrderlyInv'
  BY NextKeepsInv, NextKeepsHighest, NextKeepsCreation, NextKeepsLists DEF OrderlyInv
<1>3. QED
  BY <1>1, <1>2, PTL DEF Spec

\* Suspension, semaphores, delays and their timeouts never disagree with the
\* ready list, whatever the order in which services and ticks lift them.
THEOREM ReadyListIsExact ==
  ASSUME Unruly = {}
  PROVE  Spec => []ReadyIffNothingHolds
<1>1. OrderlyInv => ReadyIffNothingHolds
  BY DEF OrderlyInv, ListInv
<1>2. QED
  BY <1>1, OrderIsInvariant, PTL

\* A pend that returns OS_ERR_NONE was given a token, and the task is in no
\* wait list any more, also when the token came after the timeout.
THEOREM WaitListsAreExact ==
  ASSUME Unruly = {}
  PROVE  Spec => []WaitsIffNoToken
<1>1. OrderlyInv => WaitsIffNoToken
  BY DEF OrderlyInv, ListInv
<1>2. QED
  BY <1>1, OrderIsInvariant, PTL

-----------------------------------------------------------------------------
(***************************************************************************)
(* The semaphores implement CountingSemaphore.                             *)
(***************************************************************************)
InPend == {"pendsched", "pendret"}

\* What the steps below need of the invariant.
LEMMA PendFacts ==
  ASSUME OrderlyInv
  PROVE  /\ \A p \in Prios : Pends(p) => obj[p] \in Sems
         /\ \A s \in Sems : Waiting(s) \subseteq Prios
         /\ \A p \in Prios, s \in Sems : p \in Waiting(s) => Pends(p) /\ obj[p] = s
         /\ Nil \notin Sems
  BY KernelAssumption
  DEF OrderlyInv, KernelInv, CallInv, WaitInv, ListInv, WaitsIffNoToken, Pends

\* The clients of the abstract semaphore that wait are the tasks in its wait list.
LEMMA QueueIsWaitList ==
  ASSUME OrderlyInv, NEW s \in Sems
  PROVE  Semaphore!Queue(s) = Waiting(s)
  BY PendFacts DEF Semaphore!Queue, Asked, Handed

\* What a task asks for changes only where OSSemPend begins and ends.
LEMMA AskedKept ==
  ASSUME \A p \in Prios : Pends(p)' = Pends(p) /\ (Pends(p) => obj'[p] = obj[p])
  PROVE  Asked' = Asked
  BY DEF Asked

LEMMA HandedKept ==
  ASSUME OrderlyInv, \A s \in Sems : Waiting(s)' = Waiting(s),
         \A p \in Prios : Pends(p)' = Pends(p) /\ (Pends(p) => obj'[p] = obj[p])
  PROVE  Handed' = Handed
  BY PendFacts DEF Handed

LEMMA Untouched ==
  ASSUME OrderlyInv, UNCHANGED eventVars,
         \A p \in Prios : Pends(p)' = Pends(p) /\ (Pends(p) => obj'[p] = obj[p])
  PROVE  UNCHANGED <<Tokens, Asked, Handed>>
<1>1. Tokens' = Tokens
  BY DEF Tokens, eventVars
<1>2. \A s \in Sems : Waiting(s)' = Waiting(s)
  BY DEF Waiting, eventVars
<1>3. QED
  BY <1>1, <1>2, AskedKept, HandedKept

\* A step of a task outside OSSemPend.
LEMMA OutsideKept ==
  ASSUME OrderlyInv, NEW p \in Prios, NEW l, ~Pends(p), l \notin InPend,
         Goto(p, l) \/ UNCHANGED pc, \A q \in Prios \ {p} : obj'[q] = obj[q]
  PROVE  \A q \in Prios : Pends(q)' = Pends(q) /\ (Pends(q) => obj'[q] = obj[q])
<1>1. /\ pc'[p] = l \/ pc'[p] = pc[p]
      /\ \A q \in Prios \ {p} : pc'[q] = pc[q]
  BY GotoFacts, TaskFacts DEF OrderlyInv
<1>2. QED
  BY <1>1 DEF Pends, InPend

LEMMA OutsideIsUntouched ==
  ASSUME OrderlyInv, NEW p \in Prios, NEW l, ~Pends(p), l \notin InPend,
         Goto(p, l) \/ UNCHANGED pc, \A q \in Prios \ {p} : obj'[q] = obj[q],
         UNCHANGED eventVars
  PROVE  UNCHANGED <<Tokens, Asked, Handed>>
  BY OutsideKept, Untouched

LEMMA CreateIsCreate ==
  ASSUME OrderlyInv, NEW p \in Prios, NEW s \in Sems, NEW n \in Counts, OSSemCreate(p, s, n)
  PROVE  Semaphore!Create(s, n)
<1>1. /\ OSEventType[s] = "unused" /\ OSEventType' = [OSEventType EXCEPT ![s] = "sem"]
      /\ OSEventCnt' = [OSEventCnt EXCEPT ![s] = n]
      /\ OSEventWait' = [OSEventWait EXCEPT ![s] = EmptyList] /\ UNCHANGED <<pc, obj>>
  BY DEF OSSemCreate
<1>2. Tokens[s] = Nil /\ Tokens' = [Tokens EXCEPT ![s] = n]
  BY <1>1 DEF Tokens, OrderlyInv, KernelInv, CountInv
<1>3. \A t \in Sems : Waiting(t)' = Waiting(t)
  BY <1>1, EmptyListFacts DEF Waiting, OrderlyInv, ListInv, WaitEndInv, KernelInv, WaitInv
<1>4. \A q \in Prios : Pends(q)' = Pends(q) /\ obj'[q] = obj[q]
  BY <1>1 DEF Pends
<1>5. QED
  BY <1>2, <1>3, <1>4, AskedKept, HandedKept DEF Semaphore!Create

LEMMA TakeIsTake ==
  ASSUME OrderlyInv, NEW s \in Sems, TakeToken(s)
  PROVE  Semaphore!Take(s)
<1>1. /\ OSEventType[s] = "sem" /\ OSEventCnt[s] > 0
      /\ OSEventCnt' = [OSEventCnt EXCEPT ![s] = OSEventCnt[s] - 1]
      /\ UNCHANGED <<OSEventType, OSEventWait, pc, obj>>
  BY DEF TakeToken
<1>2. OSEventCnt[s] \in 1..SEM_MAX
  BY <1>1, KernelAssumption DEF OrderlyInv, KernelInv, CountInv
<1>3. Tokens[s] \in 1..SEM_MAX /\ Tokens' = [Tokens EXCEPT ![s] = Tokens[s] - 1]
  BY <1>1, <1>2 DEF Tokens, OrderlyInv, KernelInv, CountInv
<1>4. \A q \in Prios : Pends(q)' = Pends(q) /\ obj'[q] = obj[q]
  BY <1>1 DEF Pends
<1>5. \A t \in Sems : Waiting(t)' = Waiting(t)
  BY <1>1 DEF Waiting
<1>6. QED
  BY <1>3, <1>4, <1>5, AskedKept, HandedKept DEF Semaphore!Take

LEMMA PostCountsIsKeep ==
  ASSUME OrderlyInv, NEW s \in Sems, PostCounts(s)
  PROVE  Semaphore!Keep(s)
<1>1. /\ OSEventType[s] = "sem" /\ OSEventCnt[s] < SEM_MAX /\ OSEventWait[s].grp = {}
      /\ OSEventCnt' = [OSEventCnt EXCEPT ![s] = OSEventCnt[s] + 1]
      /\ UNCHANGED <<OSEventType, OSEventWait, pc, obj>>
  BY DEF PostCounts
<1>2. OSEventCnt[s] \in 0..(SEM_MAX - 1)
  BY <1>1, KernelAssumption DEF OrderlyInv, KernelInv, CountInv
<1>3. Tokens[s] \in 0..(SEM_MAX - 1) /\ Tokens' = [Tokens EXCEPT ![s] = Tokens[s] + 1]
  BY <1>1, <1>2 DEF Tokens, OrderlyInv, KernelInv, CountInv
<1>4. Semaphore!Queue(s) = {}
  BY <1>1, QueueIsWaitList, GroupIsNonEmptiness DEF Waiting, OrderlyInv, KernelInv, WaitInv
<1>5. \A q \in Prios : Pends(q)' = Pends(q) /\ obj'[q] = obj[q]
  BY <1>1 DEF Pends
<1>6. \A t \in Sems : Waiting(t)' = Waiting(t)
  BY <1>1 DEF Waiting
<1>7. QED
  BY <1>3, <1>4, <1>5, <1>6, AskedKept, HandedKept DEF Semaphore!Keep

\* OS_EventTaskRdy: the task that leaves the wait list is the one that the abstract
\* semaphore hands the token to, whether it has timed out, is suspended or neither.
LEMMA PostWakesIsHandOver ==
  ASSUME OrderlyInv, NEW s \in Sems, PostWakes(s),
         \A p \in Prios : Pends(p)' = Pends(p)
  PROVE  Semaphore!HandOver(s)
<1> DEFINE t == Highest(OSEventWait[s])
<1>1. /\ OSEventWait[s].grp # {}
      /\ OSEventWait' = [OSEventWait EXCEPT ![s] = ListRemove(@, t)]
      /\ UNCHANGED <<OSEventType, OSEventCnt, obj>>
  BY DEF PostWakes, OS_EventTaskRdy
<1>2. t \in Waiting(s) /\ t \in Prios
  BY <1>1, PostFindsTask DEF OrderlyInv, KernelInv
<1>3. \A q \in Waiting(s) : t <= q
  <2>1. OSEventWait[s] \in PrioLists /\ WellFormed(OSEventWait[s])
    BY DEF OrderlyInv, KernelInv, WaitInv
  <2>2. QED
    BY <1>2, <2>1, HighestFacts DEF Waiting
<1> HIDE DEF t
<1>4. Waiting(s)' = Waiting(s) \ {t} /\ \A u \in Sems \ {s} : Waiting(u)' = Waiting(u)
  BY <1>1, <1>2, WaitRemove DEF OrderlyInv, KernelInv
<1>5. Pends(t) /\ obj[t] = s
  BY <1>2, PendFacts
<1>6. Handed' = Handed \cup {t}
  BY <1>1, <1>2, <1>4, <1>5, PendFacts DEF Handed
<1>7. Asked' = Asked /\ Tokens' = Tokens
  BY <1>1, AskedKept DEF Tokens
<1>8. QED
  BY <1>2, <1>3, <1>6, <1>7, QueueIsWaitList DEF Semaphore!HandOver

LEMMA WaitIsWait ==
  ASSUME OrderlyInv, NEW p \in Prios, NEW s \in Sems, NEW timeout, OSSemPendWait(p, s, timeout)
  PROVE  Semaphore!Wait(p, s)
<1>1. /\ pc[p] = "run" /\ Goto(p, "pendsched") /\ obj' = [obj EXCEPT ![p] = s]
      /\ OSEventType[s] = "sem" /\ OSEventCnt[s] = 0
      /\ OSEventWait' = [OSEventWait EXCEPT ![s] = ListInsert(@, p)]
      /\ UNCHANGED <<OSEventType, OSEventCnt>>
  BY DEF OSSemPendWait, InCode, At
<1>2. /\ ~Pends(p) /\ Pends(p)'
      /\ \A q \in Prios \ {p} : Pends(q)' = Pends(q)
  BY <1>1, GotoFacts, TaskFacts DEF OrderlyInv, Pends
<1>3. obj'[p] = s /\ \A q \in Prios \ {p} : obj'[q] = obj[q]
  BY <1>1, TaskFacts DEF OrderlyInv, KernelInv, CallInv
<1>4. Waiting(s)' = Waiting(s) \cup {p} /\ \A u \in Sems \ {s} : Waiting(u)' = Waiting(u)
  BY <1>1, WaitInsert DEF OrderlyInv, KernelInv
<1>5. Asked[p] = Nil /\ Asked' = [Asked EXCEPT ![p] = s]
  BY <1>2, <1>3 DEF Asked
<1>6. Handed' = Handed
  BY <1>2, <1>3, <1>4, PendFacts DEF Handed
<1>7. Tokens[s] = 0 /\ Tokens' = Tokens
  BY <1>1 DEF Tokens
<1>8. QED
  BY <1>5, <1>6, <1>7 DEF Semaphore!Wait

\* OSSemPend comes back.
LEMMA ReturnsIsLeave ==
  ASSUME OrderlyInv, NEW p \in Prios, PendReturns(p)
  PROVE  /\ Semaphore!Leave(p)
         /\ Pends(p) /\ obj[p] \in Sems /\ ~Pends(p)'
         /\ \A q \in Prios \ {p} : Pends(q)' = Pends(q) /\ obj'[q] = obj[q]
<1>1. /\ pc[p] = "pendret" /\ Goto(p, "run") /\ obj' = [obj EXCEPT ![p] = Nil]
      /\ UNCHANGED <<OSEventType, OSEventCnt>>
  BY DEF PendReturns, At
<1>2. /\ Pends(p) /\ ~Pends(p)'
      /\ \A q \in Prios \ {p} : Pends(q)' = Pends(q)
  BY <1>1, GotoFacts, TaskFacts DEF OrderlyInv, Pends
<1>3. obj[p] \in Sems /\ \A q \in Prios \ {p} : obj'[q] = obj[q]
  BY <1>1, <1>2, PendFacts, TaskFacts DEF OrderlyInv, KernelInv, CallInv
<1>4. Asked[p] # Nil /\ Asked' = [Asked EXCEPT ![p] = Nil]
  BY <1>2, <1>3, PendFacts DEF Asked
<1>5. Tokens' = Tokens
  BY <1>1 DEF Tokens
<1>6. QED
  BY <1>2, <1>3, <1>4, <1>5 DEF Semaphore!Leave

\* A pend that finds OS_STAT_PEND_OK was handed a token, and one that finds OS_STAT_PEND_TO
\* was not.
LEMMA OkIsSucceed ==
  ASSUME OrderlyInv, NEW p \in Prios, OSSemPendOk(p)
  PROVE  Semaphore!Succeed(p)
<1>1. PendReturns(p) /\ At(p, "pendret") /\ OSTCBStatPend[p] = "ok" /\ UNCHANGED OSEventWait
  BY DEF OSSemPendOk, PendReturns
<1>2. OSTCBStat[p] = {}
  BY <1>1, RunnerFacts
<1>3. p \notin Waiting(obj[p])
  BY <1>1, <1>2, ReturnsIsLeave DEF OrderlyInv, ListInv, WaitsIffNoToken
<1>4. p \in Handed /\ Handed' = Handed \ {p}
  BY <1>1, <1>3, ReturnsIsLeave DEF Handed, Waiting
<1>5. QED
  BY <1>1, <1>4, ReturnsIsLeave DEF Semaphore!Succeed

LEMMA TimeoutIsGiveUp ==
  ASSUME OrderlyInv, NEW p \in Prios, OSSemPendTimeout(p)
  PROVE  Semaphore!GiveUp(p)
<1>1. /\ PendReturns(p) /\ OSTCBStatPend[p] = "to"
      /\ OSEventWait' = [OSEventWait EXCEPT ![obj[p]] = ListRemove(@, p)]
  BY DEF OSSemPendTimeout
<1>2. /\ Semaphore!Leave(p)
      /\ Pends(p) /\ obj[p] \in Sems /\ ~Pends(p)'
      /\ \A q \in Prios \ {p} : Pends(q)' = Pends(q) /\ obj'[q] = obj[q]
  BY <1>1, ReturnsIsLeave
<1>3. p \in Waiting(obj[p])
  BY <1>1, <1>2 DEF OrderlyInv, ListInv, WaitsIffNoToken
<1>4. \A s \in Sems : Waiting(s)' \cup {p} = Waiting(s) \cup {p}
  BY <1>1, <1>2, WaitRemove DEF OrderlyInv, KernelInv
<1>5. p \notin Handed /\ Handed' = Handed
  BY <1>2, <1>3, <1>4, PendFacts DEF Handed
<1>6. QED
  BY <1>2, <1>5 DEF Semaphore!GiveUp

LEMMA SimulationOfService ==
  ASSUME OrderlyInv, NEW p \in Prios, ServiceStep(p)
  PROVE  Semaphore!Next \/ UNCHANGED <<Tokens, Asked, Handed>>
<1>1. CASE OS_Sched(p)
  <2>1. /\ pc[p] \in {"sched", "pendsched"} /\ Goto(p, AfterSched(pc[p]))
        /\ UNCHANGED eventVars /\ UNCHANGED obj
    BY <1>1 DEF OS_Sched, At
  <2>2. \A q \in Prios : Pends(q)' = Pends(q)
    BY <2>1, GotoFacts, TaskFacts DEF OrderlyInv, Pends, AfterSched
  <2>3. QED
    BY <2>1, <2>2, Untouched
<1>2. CASE OSSemPendOk(p)
  BY <1>2, OkIsSucceed DEF Semaphore!Next
<1>3. CASE OSSemPendTimeout(p)
  BY <1>3, TimeoutIsGiveUp DEF Semaphore!Next
<1>4. CASE \/ OS_TCBInitTake(p) \/ OS_TCBInitFill(p)
           \/ OS_TCBInitLink(p) \/ OSTaskCreateFails(p)
  <2>1. ~Pends(p) /\ UNCHANGED eventVars
    BY <1>4 DEF OS_TCBInitTake, OS_TCBInitFill, OS_TCBInitLink, OSTaskCreateFails, At, Pends
  <2>2. \E l \in {"taken", "nomore", "filled", "sched", "run"} : Goto(p, l)
    BY <1>4 DEF OS_TCBInitTake, OS_TCBInitFill, OS_TCBInitLink, OSTaskCreateFails
  <2>3. \A q \in Prios \ {p} : obj'[q] = obj[q]
    BY <1>4, TaskFacts DEF OS_TCBInitTake, OS_TCBInitFill, OS_TCBInitLink, OSTaskCreateFails,
       OrderlyInv, KernelInv, CallInv
  <2>4. QED
    BY <2>1, <2>2, <2>3, OutsideIsUntouched DEF InPend
<1>5. QED
  BY <1>1, <1>2, <1>3, <1>4 DEF ServiceStep

LEMMA SimulationOfPost ==
  ASSUME OrderlyInv, NEW p \in Prios, NEW s \in Sems, OSSemPost(p, s)
  PROVE  Semaphore!Keep(s) \/ Semaphore!HandOver(s)
<1>1. At(p, "run")
  BY DEF OSSemPost, InCode
<1>2. CASE PostWakes(s) /\ Goto(p, "sched")
  BY <1>1, <1>2, CallerFacts, PostWakesIsHandOver
<1>3. CASE PostCounts(s)
  BY <1>3, PostCountsIsKeep
<1>4. QED
  BY <1>2, <1>3 DEF OSSemPost

LEMMA SimulationOfCall ==
  ASSUME OrderlyInv, NEW p \in Prios, CallStep(p)
  PROVE  Semaphore!Next \/ UNCHANGED <<Tokens, Asked, Handed>>
<1>1. ASSUME NEW s \in Sems, OSSemPost(p, s)
      PROVE  Semaphore!Next
  BY <1>1, SimulationOfPost DEF Semaphore!Next
<1>2. ASSUME NEW s \in Sems, OSSemAccept(p, s) \/ OSSemPendTake(p, s)
      PROVE  Semaphore!Next
  BY <1>2, TakeIsTake DEF OSSemAccept, OSSemPendTake, Semaphore!Next
<1>3. ASSUME NEW s \in Sems, NEW timeout \in Ticks, OSSemPendWait(p, s, timeout)
      PROVE  Semaphore!Next
  BY <1>3, WaitIsWait DEF Semaphore!Next
<1>4. ASSUME NEW s \in Sems, NEW n \in Counts, OSSemCreate(p, s, n)
      PROVE  Semaphore!Next
  BY <1>4, CreateIsCreate DEF Semaphore!Next
<1>5. ASSUME NEW q \in Prios, OSTaskCreateReserve(p, q)
      PROVE  UNCHANGED <<Tokens, Asked, Handed>>
  <2>1. ~Pends(p) /\ Goto(p, "reserved") /\ UNCHANGED eventVars
    BY <1>5 DEF OSTaskCreateReserve, InCode, At, Pends
  <2>2. \A r \in Prios \ {p} : obj'[r] = obj[r]
    BY <1>5, TaskFacts DEF OSTaskCreateReserve, OrderlyInv, KernelInv, CallInv
  <2>3. QED
    BY <2>1, <2>2, OutsideIsUntouched DEF InPend
<1>6. ASSUME NEW ticks, OSTimeDly(p, ticks)
      PROVE  UNCHANGED <<Tokens, Asked, Handed>>
  <2>1. ~Pends(p) /\ Goto(p, "sched") /\ UNCHANGED eventVars /\ UNCHANGED obj
    BY <1>6 DEF OSTimeDly, InCode, At, Pends
  <2>2. QED
    BY <2>1, OutsideIsUntouched DEF InPend
<1>7. ASSUME NEW q \in Prios, OSTaskSuspend(p, q) \/ OSTaskResume(p, q)
      PROVE  UNCHANGED <<Tokens, Asked, Handed>>
  <2>1. ~Pends(p) /\ (Goto(p, "sched") \/ UNCHANGED pc) /\ UNCHANGED eventVars /\ UNCHANGED obj
    BY <1>7 DEF OSTaskSuspend, OSTaskResume, InCode, At, Pends
  <2>2. QED
    BY <2>1, OutsideIsUntouched DEF InPend
<1>8. CASE OSSchedLock(p) \/ OSSchedUnlock(p)
  <2>1. ~Pends(p) /\ (Goto(p, "sched") \/ UNCHANGED pc) /\ UNCHANGED eventVars /\ UNCHANGED obj
    BY <1>8 DEF OSSchedLock, OSSchedUnlock, InCode, At, Pends
  <2>2. QED
    BY <2>1, OutsideIsUntouched DEF InPend
<1>9. QED
  BY <1>1, <1>2, <1>3, <1>4, <1>5, <1>6, <1>7, <1>8 DEF CallStep, OSTimeDlyHMSM

LEMMA Simulation ==
  ASSUME OrderlyInv, [Next]_vars
  PROVE  [Semaphore!Next]_<<Tokens, Asked, Handed>>
<1>1. ASSUME UNCHANGED <<eventVars, pc, obj>>
      PROVE  UNCHANGED <<Tokens, Asked, Handed>>
  BY <1>1, Untouched DEF Pends
<1>2. CASE UNCHANGED vars
  BY <1>1, <1>2 DEF vars
<1>3. CASE (\E p \in Prios : MainCreatesTask(p)) \/ OSStart
           \/ (\E source \in {"tick", "device"} : IrqEnter(source))
           \/ OSTimeTick \/ OSIntExit
  BY <1>1, <1>3 DEF MainCreatesTask, OSStart, IrqEnter, OSTimeTick, OSIntExit
<1>4. ASSUME NEW s \in Sems, IsrPost(s)
      PROVE  Semaphore!Next
  <2>1. CASE PostWakes(s) /\ UNCHANGED pc
    BY <2>1, PostWakesIsHandOver DEF Pends, Semaphore!Next
  <2>2. CASE PostCounts(s)
    BY <2>2, PostCountsIsKeep DEF Semaphore!Next
  <2>3. QED
    BY <1>4, <2>1, <2>2 DEF IsrPost
<1>5. ASSUME NEW p \in Prios, ServiceStep(p) \/ CallStep(p)
      PROVE  Semaphore!Next \/ UNCHANGED <<Tokens, Asked, Handed>>
  BY <1>5, SimulationOfService, SimulationOfCall
<1>6. QED
  BY <1>2, <1>3, <1>4, <1>5 DEF Next, HandlerStep

\* As long as tasks take no liberties, the kernel's semaphores are counting semaphores: a
\* token goes to the waiter with the highest priority, a pend succeeds only with a token
\* that was posted for it, and one that times out takes none with it.
THEOREM SemaphoresCount ==
  ASSUME Unruly = {}
  PROVE  Spec => ImplementsSemaphore
<1>1. Init => Semaphore!Init
  <2>1. ASSUME Init
        PROVE  Tokens = [s \in Sems |-> Nil] /\ \A p \in Prios : ~Pends(p)
    BY <2>1, TaskFacts DEF Init, OS_InitEventList, Tokens, Pends
  <2>2. QED
    BY <2>1 DEF Semaphore!Init, Asked, Handed
<1>2. OrderlyInv /\ [Next]_vars => [Semaphore!Next]_<<Tokens, Asked, Handed>>
  BY Simulation
<1>3. QED
  BY <1>1, <1>2, OrderIsInvariant, PTL
  DEF Spec, ImplementsSemaphore, Semaphore!Spec, Semaphore!svars

=============================================================================
