----------------------------- MODULE UcosKernel -----------------------------
(***************************************************************************)
(* The uC/OS-II kernel as it is configured and ported in this repository:  *)
(* a preemptive priority scheduler for one core, with delays, counting     *)
(* semaphores, suspension, the scheduler lock, task creation and the       *)
(* interrupt path of the ARMv8-A port.                                     *)
(*                                                                         *)
(* A task is identified by its priority.  A critical section masks         *)
(* interrupts, and only the task OSPrioCur executes, so each critical      *)
(* section is one step; what can happen between two of them is an          *)
(* interrupt, and through it a switch to another task.  pc[p] says where   *)
(* task p will go on when it next executes.                                *)
(***************************************************************************)
EXTENDS Integers, FiniteSets, PrioList

CONSTANTS
  Prios,           \* the priorities of the application's tasks
  OS_LOWEST_PRIO,  \* the priority of the idle task
  OS_MAX_TASKS,    \* how many TCBs the application can use
  Sems,            \* the event control blocks
  SEM_MAX,         \* the largest count of a semaphore (0xFFFF in the code)
  LOCK_MAX,        \* the largest lock nesting (255 in the code)
  Ticks,           \* the delays and timeouts tasks ask for, in ticks
  Delays,          \* the delays they ask for in hours, minutes, ...
  Counts,          \* the initial counts of the semaphores created
  Calls,           \* the services the tasks of this instance call
  Unruly,          \* the liberties they take, see below
  Nil              \* no object

Services == {"dly", "pend", "accept", "post", "suspend", "resume", "lock",
             "create", "semcreate"}

(***************************************************************************)
(* Two uses of the services that the code accepts and cannot handle.       *)
(* "pend_locked": OSSemPend with the scheduler locked.                     *)
(* "suspend_early": OSTaskSuspend of a task whose OSTaskCreate has stored  *)
(* the TCB in OSTCBPrioTbl and not yet linked it.                          *)
(***************************************************************************)
Liberties == {"pend_locked", "suspend_early"}

OS_FALSE == 0
OS_TRUE == 1

\* The arguments of OSTimeDlyHMSM, three INT8U and an INT16U.
Durations ==
  {d \in [{"hours", "minutes", "seconds", "ms"} -> Nat] :
     d.hours =< 255 /\ d.minutes =< 255 /\ d.seconds =< 255 /\ d.ms =< 65535}

OS_TASK_IDLE_PRIO == OS_LOWEST_PRIO
Tasks == Prios \cup {OS_TASK_IDLE_PRIO}

ASSUME KernelAssumption ==
  /\ OS_LOWEST_PRIO \in 1..63
  /\ Prios \subseteq 0..(OS_LOWEST_PRIO - 1)
  /\ OS_MAX_TASKS \in Nat
  /\ SEM_MAX \in Nat \ {0}
  /\ LOCK_MAX \in Nat \ {0}
  /\ Ticks \subseteq Nat
  /\ Delays \subseteq Durations
  /\ Counts \subseteq 0..SEM_MAX
  /\ Calls \subseteq Services
  /\ Unruly \subseteq Liberties
  /\ Nil \notin Sems \cup Prios
  /\ Sems \cap Prios = {}

VARIABLES
  OSRunning,       \* has OSStart been called?
  OSIntNesting,    \* depth of interrupt handlers
  OSLockNesting,   \* depth of OSSchedLock
  OSPrioCur,       \* the task that has the processor
  OSRdy,           \* OSRdyGrp and OSRdyTbl
  OSTCBPrioTbl,    \* [Tasks -> {"null", "reserved", "tcb"}]
  OSTCBFree,       \* the length of OSTCBFreeList
  OSTCBList,       \* the tasks whose TCB is linked
  OSTCBStat,       \* the flags OS_STAT_SEM and OS_STAT_SUSPEND of a task
  OSTCBStatPend,   \* how its last wait ended
  OSTCBDly,        \* ticks left of its delay or timeout
  OSEventType,     \* [Sems -> {"unused", "sem"}]
  OSEventCnt,      \* the count of a semaphore
  OSEventWait,     \* its OSEventGrp and OSEventTbl
  pc,              \* where each task goes on
  obj,             \* the semaphore or priority its service call is about
  isr              \* where the interrupt handler is

cpuVars   == <<OSRunning, OSIntNesting, OSLockNesting, OSPrioCur, isr>>
tcbVars   == <<OSTCBStat, OSTCBStatPend, OSTCBDly>>
listVars  == <<OSTCBPrioTbl, OSTCBFree, OSTCBList>>
eventVars == <<OSEventType, OSEventCnt, OSEventWait>>
vars == <<cpuVars, OSRdy, listVars, tcbVars, eventVars, pc, obj>>

(***************************************************************************)
(* "run": in the task's own code.  "sched": before the critical section of *)
(* OS_Sched.  "pendsched": the same, called from OSSemPend; "pendret":     *)
(* OS_Sched has returned to OSSemPend.  The last four are OSTaskCreate:    *)
(* priority reserved, TCB taken, OSTCBPrioTbl filled, no TCB left.         *)
(***************************************************************************)
Labels == {"run", "sched", "pendsched", "pendret",
           "reserved", "taken", "filled", "nomore"}

Ready == Members(OSRdy)
Waiting(s) == Members(OSEventWait[s])

OS_InitMisc ==
  /\ OSIntNesting = 0
  /\ OSLockNesting = 0
  /\ OSRunning = OS_FALSE

\* The ready list is emptied too: OS_InitTaskIdle says what is in it next.
OS_InitRdyList == OSPrioCur = 0

\* All TCBs are in the free list, and one of them is the idle task's, which
\* OS_MAX_TASKS does not count.
OS_InitTCBList ==
  /\ OSTCBFree = OS_MAX_TASKS
  /\ OSTCBStat = [p \in Tasks |-> {}]
  /\ OSTCBStatPend = [p \in Tasks |-> "ok"]
  /\ OSTCBDly = [p \in Tasks |-> 0]

OS_InitEventList ==
  /\ OSEventType = [s \in Sems |-> "unused"]
  /\ OSEventCnt = [s \in Sems |-> 0]
  /\ OSEventWait = [s \in Sems |-> EmptyList]

\* The idle task is created into lists that are empty.
OS_InitTaskIdle ==
  /\ OSRdy = ListInsert(EmptyList, OS_TASK_IDLE_PRIO)
  /\ OSTCBPrioTbl = [p \in Tasks |-> IF p = OS_TASK_IDLE_PRIO THEN "tcb" ELSE "null"]
  /\ OSTCBList = {OS_TASK_IDLE_PRIO}

\* After OSInit: the idle task exists and is ready, nothing else does.
Init ==
  /\ OS_InitMisc
  /\ OS_InitRdyList
  /\ OS_InitTCBList
  /\ OS_InitEventList
  /\ OS_InitTaskIdle
  /\ isr = "none"
  /\ pc = [p \in Tasks |-> "run"]
  /\ obj = [p \in Tasks |-> Nil]

-----------------------------------------------------------------------------
(***************************************************************************)
(* Before multitasking: main() creates tasks and calls OSStart.  No        *)
(* interrupt source is enabled yet and no other task runs, so a whole      *)
(* OSTaskCreate is one step.                                               *)
(***************************************************************************)
MainCreatesTask(p) ==
  /\ OSRunning = OS_FALSE
  /\ OSTCBPrioTbl[p] = "null"
  /\ OSTCBFree > 0
  /\ OSTCBFree' = OSTCBFree - 1
  /\ OSTCBPrioTbl' = [OSTCBPrioTbl EXCEPT ![p] = "tcb"]
  /\ OSTCBList' = OSTCBList \cup {p}
  /\ OSRdy' = ListInsert(OSRdy, p)
  /\ UNCHANGED <<cpuVars, tcbVars, eventVars, pc, obj>>

OSStart ==
  /\ OSRunning = OS_FALSE
  /\ OSRunning' = OS_TRUE
  /\ OSPrioCur' = Highest(OSRdy)
  /\ UNCHANGED <<OSIntNesting, OSLockNesting, isr, OSRdy, listVars, tcbVars,
                 eventVars, pc, obj>>

-----------------------------------------------------------------------------
(***************************************************************************)
(* A step of task p.  The idle task calls no service.                      *)
(***************************************************************************)
At(p, label) ==
  /\ OSRunning = OS_TRUE
  /\ OSIntNesting = 0
  /\ OSPrioCur = p
  /\ pc[p] = label

Goto(p, label) == pc' = [pc EXCEPT ![p] = label]

InCode(p, service) == service \in Calls /\ At(p, "run")

\* Where OS_Sched returns to.
AfterSched(label) == IF label = "pendsched" THEN "pendret" ELSE "run"

\* OS_Sched: give the processor to the highest-priority ready task.
OS_Sched(p) ==
  /\ \/ At(p, "sched")
     \/ At(p, "pendsched")
  /\ OSPrioCur' = IF OSLockNesting = 0 THEN Highest(OSRdy) ELSE OSPrioCur
  /\ Goto(p, AfterSched(pc[p]))
  /\ UNCHANGED <<OSRunning, OSIntNesting, OSLockNesting, isr, OSRdy, listVars,
                 tcbVars, eventVars, obj>>

\* With the scheduler locked, or for no ticks, OSTimeDly returns at once.
OSTimeDly(p, ticks) ==
  /\ InCode(p, "dly")
  /\ OSLockNesting = 0
  /\ ticks > 0
  /\ OSRdy' = ListRemove(OSRdy, p)
  /\ OSTCBDly' = [OSTCBDly EXCEPT ![p] = ticks]
  /\ Goto(p, "sched")
  /\ UNCHANGED <<cpuVars, listVars, OSTCBStat, OSTCBStatPend, eventVars, obj>>

\* The arguments that OSTimeDlyHMSM accepts ...
ValidDelay(d) ==
  /\ d.hours > 0 \/ d.minutes > 0 \/ d.seconds > 0 \/ d.ms > 0
  /\ d.minutes =< 59
  /\ d.seconds =< 59
  /\ d.ms =< 999

\* ... and their ticks, rounded: half a tick is 500 / OS_TICKS_PER_SEC ms.
OS_TICKS_PER_SEC == 1000
TicksOf(d) ==
  (d.hours * 3600 + d.minutes * 60 + d.seconds) * OS_TICKS_PER_SEC
    + (OS_TICKS_PER_SEC * (d.ms + 500 \div OS_TICKS_PER_SEC)) \div 1000

\* It also refuses where OSTimeDly would do nothing.
OSTimeDlyHMSM(p, d) == ValidDelay(d) /\ OSTimeDly(p, TicksOf(d))

-----------------------------------------------------------------------------
(***************************************************************************)
(* Semaphores.                                                             *)
(***************************************************************************)

\* The control block is taken off the free list in a critical section and
\* filled in before any other task knows its address.
OSSemCreate(p, s, cnt) ==
  /\ InCode(p, "semcreate")
  /\ OSEventType[s] = "unused"
  /\ OSEventType' = [OSEventType EXCEPT ![s] = "sem"]
  /\ OSEventCnt' = [OSEventCnt EXCEPT ![s] = cnt]
  /\ OSEventWait' = [OSEventWait EXCEPT ![s] = EmptyList]
  /\ UNCHANGED <<cpuVars, OSRdy, listVars, tcbVars, pc, obj>>

\* Take a token that is there.
TakeToken(s) ==
  /\ OSEventType[s] = "sem"
  /\ OSEventCnt[s] > 0
  /\ OSEventCnt' = [OSEventCnt EXCEPT ![s] = @ - 1]
  /\ UNCHANGED <<cpuVars, OSRdy, listVars, tcbVars, OSEventType, OSEventWait,
                 pc, obj>>

OSSemAccept(p, s) == InCode(p, "accept") /\ TakeToken(s)

OSSemPendTake(p, s) == InCode(p, "pend") /\ TakeToken(s)

\* No token: wait for one, at most timeout ticks (for ever if it is 0).
\* OSSemPend does not look at OSLockNesting.
OSSemPendWait(p, s, timeout) ==
  /\ InCode(p, "pend")
  /\ OSLockNesting = 0 \/ "pend_locked" \in Unruly
  /\ OSEventType[s] = "sem"
  /\ OSEventCnt[s] = 0
  /\ OSTCBStat' = [OSTCBStat EXCEPT ![p] = @ \cup {"sem"}]
  /\ OSTCBStatPend' = [OSTCBStatPend EXCEPT ![p] = "ok"]
  /\ OSTCBDly' = [OSTCBDly EXCEPT ![p] = timeout]
  /\ OSEventWait' = [OSEventWait EXCEPT ![s] = ListInsert(@, p)]
  /\ OSRdy' = ListRemove(OSRdy, p)
  /\ Goto(p, "pendsched")
  /\ obj' = [obj EXCEPT ![p] = s]
  /\ UNCHANGED <<cpuVars, listVars, OSEventType, OSEventCnt>>

PendReturns(p) ==
  /\ At(p, "pendret")
  /\ OSTCBStat' = [OSTCBStat EXCEPT ![p] = @ \ {"sem"}]
  /\ Goto(p, "run")
  /\ obj' = [obj EXCEPT ![p] = Nil]
  /\ UNCHANGED <<cpuVars, OSRdy, listVars, OSTCBDly, OSEventType, OSEventCnt>>

\* OSSemPend returns OS_ERR_NONE: the caller believes it has a token.
OSSemPendOk(p) ==
  /\ OSTCBStatPend[p] = "ok"
  /\ PendReturns(p)
  /\ UNCHANGED <<OSTCBStatPend, OSEventWait>>

\* Fault: OS_EventTaskRemove is not called.
OSSemPendTimeoutStays(p) ==
  /\ OSTCBStatPend[p] = "to"
  /\ PendReturns(p)
  /\ OSTCBStatPend' = [OSTCBStatPend EXCEPT ![p] = "ok"]
  /\ UNCHANGED OSEventWait

\* OSSemPend returns OS_ERR_TIMEOUT; only now is the task taken off the
\* wait list.
OSSemPendTimeout(p) ==
  /\ OSTCBStatPend[p] = "to"
  /\ PendReturns(p)
  /\ OSTCBStatPend' = [OSTCBStatPend EXCEPT ![p] = "ok"]
  /\ OSEventWait' = [OSEventWait EXCEPT ![obj[p]] = ListRemove(@, p)]

\* Fault: the waiter with the lowest priority is chosen.
OS_EventTaskRdyLowest(s) ==
  LET t == CHOOSE p \in Waiting(s) : \A q \in Waiting(s) : q <= p IN
  /\ OSTCBDly' = [OSTCBDly EXCEPT ![t] = 0]
  /\ OSTCBStat' = [OSTCBStat EXCEPT ![t] = @ \ {"sem"}]
  /\ OSTCBStatPend' = [OSTCBStatPend EXCEPT ![t] = "ok"]
  /\ OSRdy' = IF "suspend" \in OSTCBStat[t] THEN OSRdy ELSE ListInsert(OSRdy, t)
  /\ OSEventWait' = [OSEventWait EXCEPT ![s] = ListRemove(@, t)]
  /\ UNCHANGED <<cpuVars, listVars, OSEventType, OSEventCnt, obj>>

\* Hand the token to the first task in the wait list, which may have timed
\* out already and not run since.
OS_EventTaskRdy(s) ==
  LET t == Highest(OSEventWait[s]) IN
  /\ OSTCBDly' = [OSTCBDly EXCEPT ![t] = 0]
  /\ OSTCBStat' = [OSTCBStat EXCEPT ![t] = @ \ {"sem"}]
  /\ OSTCBStatPend' = [OSTCBStatPend EXCEPT ![t] = "ok"]
  /\ OSRdy' = IF "suspend" \in OSTCBStat[t] THEN OSRdy ELSE ListInsert(OSRdy, t)
  /\ OSEventWait' = [OSEventWait EXCEPT ![s] = ListRemove(@, t)]
  /\ UNCHANGED <<cpuVars, listVars, OSEventType, OSEventCnt, obj>>

PostWakes(s) ==
  /\ OSEventType[s] = "sem"
  /\ OSEventWait[s].grp # {}
  /\ OS_EventTaskRdy(s)

\* Fault: no test for a full semaphore.
PostCountsOver(s) ==
  /\ OSEventType[s] = "sem"
  /\ OSEventWait[s].grp = {}
  /\ OSEventCnt' = [OSEventCnt EXCEPT ![s] = @ + 1]
  /\ UNCHANGED <<cpuVars, OSRdy, listVars, tcbVars, OSEventType, OSEventWait,
                 pc, obj>>

\* Fault: the first byte of the wait list is tested instead of the group.
PostCountsFirstByte(s) ==
  /\ OSEventType[s] = "sem"
  /\ OSEventWait[s].tbl[0] = {}
  /\ OSEventCnt[s] < SEM_MAX
  /\ OSEventCnt' = [OSEventCnt EXCEPT ![s] = @ + 1]
  /\ UNCHANGED <<cpuVars, OSRdy, listVars, tcbVars, OSEventType, OSEventWait,
                 pc, obj>>

\* A full semaphore stays as it is and OSSemPost returns OS_ERR_SEM_OVF.
PostCounts(s) ==
  /\ OSEventType[s] = "sem"
  /\ OSEventWait[s].grp = {}
  /\ OSEventCnt[s] < SEM_MAX
  /\ OSEventCnt' = [OSEventCnt EXCEPT ![s] = @ + 1]
  /\ UNCHANGED <<cpuVars, OSRdy, listVars, tcbVars, OSEventType, OSEventWait,
                 pc, obj>>

OSSemPost(p, s) ==
  /\ InCode(p, "post")
  /\ \/ PostWakes(s) /\ Goto(p, "sched")
     \/ PostCounts(s)

-----------------------------------------------------------------------------
(***************************************************************************)
(* Suspension and the scheduler lock.                                      *)
(***************************************************************************)
OSTaskSuspend(p, q) ==
  /\ InCode(p, "suspend")
  /\ OSTCBPrioTbl[q] = "tcb"
  /\ q \in OSTCBList \/ "suspend_early" \in Unruly
  /\ OSRdy' = ListRemove(OSRdy, q)
  /\ OSTCBStat' = [OSTCBStat EXCEPT ![q] = @ \cup {"suspend"}]
  /\ IF q = p THEN Goto(p, "sched") ELSE UNCHANGED pc
  /\ UNCHANGED <<cpuVars, listVars, OSTCBStatPend, OSTCBDly, eventVars, obj>>

\* Fault: the delay that is left is forgotten.
OSTaskResumeEarly(p, q) ==
  /\ InCode(p, "resume")
  /\ OSTCBPrioTbl[q] = "tcb"
  /\ "suspend" \in OSTCBStat[q]
  /\ OSTCBStat' = [OSTCBStat EXCEPT ![q] = @ \ {"suspend"}]
  /\ IF "sem" \notin OSTCBStat[q]
       THEN OSRdy' = ListInsert(OSRdy, q) /\ Goto(p, "sched")
       ELSE UNCHANGED <<OSRdy, pc>>
  /\ UNCHANGED <<cpuVars, listVars, OSTCBStatPend, OSTCBDly, eventVars, obj>>

OSTaskResume(p, q) ==
  /\ InCode(p, "resume")
  /\ OSTCBPrioTbl[q] = "tcb"
  /\ "suspend" \in OSTCBStat[q]
  /\ OSTCBStat' = [OSTCBStat EXCEPT ![q] = @ \ {"suspend"}]
  /\ IF "sem" \notin OSTCBStat[q] /\ OSTCBDly[q] = 0
       THEN OSRdy' = ListInsert(OSRdy, q) /\ Goto(p, "sched")
       ELSE UNCHANGED <<OSRdy, pc>>
  /\ UNCHANGED <<cpuVars, listVars, OSTCBStatPend, OSTCBDly, eventVars, obj>>

OSSchedLock(p) ==
  /\ InCode(p, "lock")
  /\ OSLockNesting < LOCK_MAX
  /\ OSLockNesting' = OSLockNesting + 1
  /\ UNCHANGED <<OSRunning, OSIntNesting, OSPrioCur, isr, OSRdy, listVars,
                 tcbVars, eventVars, pc, obj>>

\* Fault: the last unlock does not reschedule.
OSSchedUnlockStays(p) ==
  /\ InCode(p, "lock")
  /\ OSLockNesting > 0
  /\ OSLockNesting' = OSLockNesting - 1
  /\ UNCHANGED <<OSRunning, OSIntNesting, OSPrioCur, isr, OSRdy, listVars,
                 tcbVars, eventVars, pc, obj>>

OSSchedUnlock(p) ==
  /\ InCode(p, "lock")
  /\ OSLockNesting > 0
  /\ OSLockNesting' = OSLockNesting - 1
  /\ IF OSLockNesting = 1 THEN Goto(p, "sched") ELSE UNCHANGED pc
  /\ UNCHANGED <<OSRunning, OSIntNesting, OSPrioCur, isr, OSRdy, listVars,
                 tcbVars, eventVars, obj>>

-----------------------------------------------------------------------------
(***************************************************************************)
(* OSTaskCreate(q) called by task p: four critical sections, or three when *)
(* no TCB is left.                                                         *)
(***************************************************************************)
\* Fault: the priority is tested but not reserved.
OSTaskCreateUnreserved(p, q) ==
  /\ InCode(p, "create")
  /\ OSTCBPrioTbl[q] = "null"
  /\ obj' = [obj EXCEPT ![p] = q]
  /\ Goto(p, "reserved")
  /\ UNCHANGED <<cpuVars, OSRdy, listVars, tcbVars, eventVars>>

OSTaskCreateReserve(p, q) ==
  /\ InCode(p, "create")
  /\ OSTCBPrioTbl[q] = "null"
  /\ OSTCBPrioTbl' = [OSTCBPrioTbl EXCEPT ![q] = "reserved"]
  /\ obj' = [obj EXCEPT ![p] = q]
  /\ Goto(p, "reserved")
  /\ UNCHANGED <<cpuVars, OSRdy, OSTCBFree, OSTCBList, tcbVars, eventVars>>

OS_TCBInitTake(p) ==
  /\ At(p, "reserved")
  /\ IF OSTCBFree > 0
       THEN OSTCBFree' = OSTCBFree - 1 /\ Goto(p, "taken")
       ELSE Goto(p, "nomore") /\ UNCHANGED OSTCBFree
  /\ UNCHANGED <<cpuVars, OSRdy, OSTCBPrioTbl, OSTCBList, tcbVars, eventVars, obj>>

\* The fields of the new TCB are set before its address is published.
OS_TCBInitFill(p) ==
  /\ At(p, "taken")
  /\ OSTCBPrioTbl' = [OSTCBPrioTbl EXCEPT ![obj[p]] = "tcb"]
  /\ OSTCBStat' = [OSTCBStat EXCEPT ![obj[p]] = {}]
  /\ OSTCBStatPend' = [OSTCBStatPend EXCEPT ![obj[p]] = "ok"]
  /\ OSTCBDly' = [OSTCBDly EXCEPT ![obj[p]] = 0]
  /\ Goto(p, "filled")
  /\ UNCHANGED <<cpuVars, OSRdy, OSTCBFree, OSTCBList, eventVars, obj>>

OS_TCBInitLink(p) ==
  /\ At(p, "filled")
  /\ OSTCBList' = OSTCBList \cup {obj[p]}
  /\ OSRdy' = ListInsert(OSRdy, obj[p])
  /\ obj' = [obj EXCEPT ![p] = Nil]
  /\ Goto(p, "sched")
  /\ UNCHANGED <<cpuVars, OSTCBPrioTbl, OSTCBFree, tcbVars, eventVars>>

OSTaskCreateFails(p) ==
  /\ At(p, "nomore")
  /\ OSTCBPrioTbl' = [OSTCBPrioTbl EXCEPT ![obj[p]] = "null"]
  /\ obj' = [obj EXCEPT ![p] = Nil]
  /\ Goto(p, "run")
  /\ UNCHANGED <<cpuVars, OSRdy, OSTCBFree, OSTCBList, tcbVars, eventVars>>

-----------------------------------------------------------------------------
(***************************************************************************)
(* Interrupts.  The handler runs with interrupts masked from the exception *)
(* to the ERET, so handlers do not nest and no task executes meanwhile.    *)
(***************************************************************************)
IrqEnter(source) ==
  /\ OSRunning = OS_TRUE
  /\ OSIntNesting = 0
  /\ OSIntNesting' = OSIntNesting + 1
  /\ isr' = source
  /\ UNCHANGED <<OSRunning, OSLockNesting, OSPrioCur, OSRdy, listVars, tcbVars,
                 eventVars, pc, obj>>

\* Fault: a task that waits for a semaphore never runs out of time.
ExpiringDelays ==
  {p \in OSTCBList \ {OS_TASK_IDLE_PRIO} : OSTCBDly[p] = 1 /\ "sem" \notin OSTCBStat[p]}

\* The tasks OSTimeTick visits (the idle task, created first, is the last of
\* the list and ends the walk) and those whose delay it ends.
Expiring == {p \in OSTCBList \ {OS_TASK_IDLE_PRIO} : OSTCBDly[p] = 1}

ReadyAll(l, S) ==
  [grp |-> l.grp \cup {Y(p) : p \in S},
   tbl |-> [y \in Bits |-> l.tbl[y] \cup {X(p) : p \in {q \in S : Y(q) = y}}]]

OSTimeTick ==
  /\ isr = "tick"
  /\ OSTCBDly' = [p \in Tasks |->
       IF p \in OSTCBList \ {OS_TASK_IDLE_PRIO} /\ OSTCBDly[p] > 0
       THEN OSTCBDly[p] - 1 ELSE OSTCBDly[p]]
  /\ OSTCBStatPend' = [p \in Tasks |->
       IF p \notin Expiring THEN OSTCBStatPend[p]
       ELSE IF "sem" \in OSTCBStat[p] THEN "to" ELSE "ok"]
  /\ OSTCBStat' = [p \in Tasks |->
       IF p \in Expiring THEN OSTCBStat[p] \ {"sem"} ELSE OSTCBStat[p]]
  /\ OSRdy' = ReadyAll(OSRdy, {p \in Expiring : "suspend" \notin OSTCBStat[p]})
  /\ isr' = "exit"
  /\ UNCHANGED <<OSRunning, OSIntNesting, OSLockNesting, OSPrioCur, listVars,
                 eventVars, pc, obj>>

\* A device handler posts; OS_Sched, called by OSSemPost, does nothing here.
IsrPost(s) ==
  /\ isr = "device"
  /\ \/ PostWakes(s) /\ UNCHANGED pc
     \/ PostCounts(s)

OSIntExit ==
  /\ isr \in {"device", "exit"}
  /\ OSIntNesting' = OSIntNesting - 1
  /\ OSPrioCur' = IF OSIntNesting = 1 /\ OSLockNesting = 0
                    THEN Highest(OSRdy) ELSE OSPrioCur
  /\ isr' = "none"
  /\ UNCHANGED <<OSRunning, OSLockNesting, OSRdy, listVars, tcbVars, eventVars,
                 pc, obj>>

-----------------------------------------------------------------------------
\* What task p does inside the kernel once it has called it.
ServiceStep(p) ==
  \/ OS_Sched(p)
  \/ OSSemPendOk(p)
  \/ OSSemPendTimeout(p)
  \/ OS_TCBInitTake(p)
  \/ OS_TCBInitFill(p)
  \/ OS_TCBInitLink(p)
  \/ OSTaskCreateFails(p)

\* What task p may ask of the kernel.
CallStep(p) ==
  \/ \E ticks \in Ticks : OSTimeDly(p, ticks)
  \/ \E d \in Delays : OSTimeDlyHMSM(p, d)
  \/ \E s \in Sems, cnt \in Counts : OSSemCreate(p, s, cnt)
  \/ \E s \in Sems : OSSemAccept(p, s)
  \/ \E s \in Sems : OSSemPendTake(p, s)
  \/ \E s \in Sems, timeout \in Ticks : OSSemPendWait(p, s, timeout)
  \/ \E s \in Sems : OSSemPost(p, s)
  \/ \E q \in Prios : OSTaskSuspend(p, q)
  \/ \E q \in Prios : OSTaskResume(p, q)
  \/ OSSchedLock(p)
  \/ OSSchedUnlock(p)
  \/ \E q \in Prios : OSTaskCreateReserve(p, q)

HandlerStep ==
  \/ OSTimeTick
  \/ \E s \in Sems : IsrPost(s)
  \/ OSIntExit

Next ==
  \/ \E p \in Prios : MainCreatesTask(p)
  \/ OSStart
  \/ \E p \in Prios : ServiceStep(p)
  \/ \E p \in Prios : CallStep(p)
  \/ \E source \in {"tick", "device"} : IrqEnter(source)
  \/ HandlerStep

Spec == Init /\ [][Next]_vars

(***************************************************************************)
(* Fairness.  A handler runs to its end.  The timer interrupt is edge-     *)
(* triggered: it stays pending until its handler is entered, and it has    *)
(* the lowest interrupt number of the enabled sources, so it is taken if   *)
(* interrupts are let in again and again, whatever the devices do.         *)
(* Interrupts leave some time to the tasks: a task inside a service call   *)
(* that gets the processor again and again goes on with it.  A task need   *)
(* not call anything, so there is no fairness on CallStep.                 *)
(***************************************************************************)
Fairness ==
  /\ \A p \in Prios : SF_vars(ServiceStep(p))
  /\ WF_vars(OSTimeTick)
  /\ WF_vars(OSIntExit)
  /\ SF_vars(IrqEnter("tick"))

FairSpec == Spec /\ Fairness

-----------------------------------------------------------------------------
(***************************************************************************)
(* Properties.                                                             *)
(***************************************************************************)

\* The type invariant: in particular no counter leaves its width.
TypeOK ==
  /\ OSRunning \in {OS_FALSE, OS_TRUE}
  /\ OSIntNesting \in 0..1
  /\ OSLockNesting \in 0..LOCK_MAX
  /\ OSPrioCur \in 0..OS_LOWEST_PRIO
  /\ isr \in {"none", "tick", "device", "exit"}
  /\ OSRdy \in PrioLists
  /\ OSTCBPrioTbl \in [Tasks -> {"null", "reserved", "tcb"}]
  /\ OSTCBFree \in 0..OS_MAX_TASKS
  /\ OSTCBList \in SUBSET Tasks
  /\ OSTCBStat \in [Tasks -> SUBSET {"sem", "suspend"}]
  /\ OSTCBStatPend \in [Tasks -> {"ok", "to"}]
  /\ OSTCBDly \in [Tasks -> Nat]
  /\ OSEventType \in [Sems -> {"unused", "sem"}]
  /\ OSEventCnt \in [Sems -> 0..SEM_MAX]
  /\ OSEventWait \in [Sems -> PrioLists]
  /\ pc \in [Tasks -> Labels]
  /\ obj \in [Tasks -> Sems \cup Prios \cup {Nil}]

\* The group byte of the ready list and of every wait list says which bytes
\* of the table are not zero, after any sequence of services and interrupts:
\* a stale bit would make OS_SchedNew dispatch a task that is not ready.
ListsWellFormed ==
  /\ WellFormed(OSRdy)
  /\ \A s \in Sems : WellFormed(OSEventWait[s])

Pends(p) == pc[p] \in {"pendsched", "pendret"}
AtSched(p) == pc[p] \in {"sched", "pendsched"}

\* Whenever a task executes its own code or the rest of a service with the
\* scheduler unlocked, no ready task has a higher priority: no path that makes
\* a task ready, from a task or from an interrupt, forgets to reschedule.
HighestRuns ==
  (OSRunning = OS_TRUE /\ OSIntNesting = 0 /\ OSLockNesting = 0 /\ ~AtSched(OSPrioCur))
    => /\ OSPrioCur \in Ready
       /\ \A p \in Ready : OSPrioCur <= p

\* A semaphore never holds a token while a task waits for it, so no post is
\* lost on a waiter and no waiter sleeps beside a token.
NoTokenBesideWaiter ==
  \A s \in Sems : OSEventCnt[s] > 0 => Waiting(s) = {}

\* A task is in the ready list exactly when nothing holds it back: not
\* suspended, not waiting for a semaphore, no delay left.  The three conditions
\* are lifted by different services and by the tick, in any order.
ReadyIffNothingHolds ==
  \A p \in Tasks :
    p \in Ready <=> /\ p \in OSTCBList
                    /\ OSTCBStat[p] = {}
                    /\ OSTCBDly[p] = 0

\* A task is in a wait list exactly while its OSSemPend has neither been given
\* a token nor removed it after a timeout; so a pend that finds
\* OSTCBStatPend = OS_STAT_PEND_OK owns a token, and a task that timed out but
\* has not run yet can still be given one.
WaitsIffNoToken ==
  \A p \in Prios, s \in Sems :
    p \in Waiting(s) <=> /\ Pends(p)
                         /\ obj[p] = s
                         /\ "sem" \in OSTCBStat[p] \/ OSTCBStatPend[p] = "to"

\* However creations interleave, a priority is reserved for exactly one
\* creator, a reservation is given back when no TCB is left, and no TCB is lost.
CreationIsExclusive ==
  /\ \A q \in Prios :
       OSTCBPrioTbl[q] = "reserved" <=>
         \E p \in Prios : pc[p] \in {"reserved", "taken", "nomore"} /\ obj[p] = q
  /\ \A p, r \in Prios :
       (p # r /\ obj[p] \in Prios) => obj[p] # obj[r]
  /\ OSTCBFree + Cardinality(OSTCBList)
       + Cardinality({p \in Prios : pc[p] \in {"taken", "filled"}}) = OS_MAX_TASKS + 1

\* The highest-priority task always comes back from a delay or from a pend with
\* a timeout, whatever the others do and whatever interrupts come, unless it is
\* suspended meanwhile or the scheduler is locked.
Highest_Prio == OSUnMapTbl(Prios)

TimedWaitEnds ==
  OSTCBDly[Highest_Prio] > 0 ~>
    \/ OSPrioCur = Highest_Prio /\ pc[Highest_Prio] = "run"
    \/ "suspend" \in OSTCBStat[Highest_Prio]
    \/ OSLockNesting > 0

(***************************************************************************)
(* What tasks may rely on: the semaphores are counting semaphores.         *)
(***************************************************************************)
Tokens == [s \in Sems |-> IF OSEventType[s] = "sem" THEN OSEventCnt[s] ELSE Nil]
Asked == [p \in Prios |-> IF Pends(p) THEN obj[p] ELSE Nil]
Handed == {p \in Prios : Pends(p) /\ p \notin Waiting(obj[p])}

Semaphore == INSTANCE CountingSemaphore WITH
  Clients <- Prios, MaxCount <- SEM_MAX, count <- Tokens, waitsFor <- Asked, granted <- Handed

\* Every step of the kernel is a step of a counting semaphore or changes
\* nothing of it: a pend succeeds only with a token that was posted for it, and
\* a post wakes the waiter with the highest priority.
ImplementsSemaphore == Semaphore!Spec

=============================================================================
