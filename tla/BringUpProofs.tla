---------------------------- MODULE BringUpProofs ----------------------------
(***************************************************************************)
(* Proofs about BringUp for every set of slots and of their contents, and  *)
(* for both kinds of timer interrupt.                                      *)
(***************************************************************************)
EXTENDS BringUp, FiniteSetTheorems, SequenceTheorems, WellFoundedInduction, TLAPS

-----------------------------------------------------------------------------
(***************************************************************************)
(* The inductive invariant, in parts: the tasks, the processor, the        *)
(* interrupt controller, the timer and the devices.                        *)
(***************************************************************************)
Delaying == {"loop", "sched", "switch", "leave"}
BeforeTimer == {"vect", "srcen", "mask"}
Initialising == {"queues", "status", "driver_ok", "vect", "srcen", "count"}
Labels == Delaying \cup BeforeTimer \cup {"load", "unmask", "scan"} \cup Initialising

TaskInv ==
  /\ main \in {"gic_init", "daifclr", "OSStart", "gone"}
  /\ pc \in [Tasks -> Labels]
  /\ pc[TASK_A_PRIO] \in BeforeTimer \cup {"load", "unmask"} \cup Delaying
  /\ pc[TASK_B_PRIO] \in {"scan"} \cup Initialising \cup Delaying
  /\ pc[OS_TASK_IDLE_PRIO] \in {"loop", "count"}
  /\ ready \subseteq Tasks /\ OS_TASK_IDLE_PRIO \in ready
  /\ main # "gone" => pc[TASK_A_PRIO] = "vect" /\ pc[TASK_B_PRIO] = "scan"

\* An interrupt from its acknowledgement to its end, and those of the timer.
Ticking == {"tick", "mask", "load", "unmask"}
Serving == {"handler", "virtio_net", "eoi"} \cup Ticking

IsrInv ==
  /\ isr \in {"none", "acknowledge", "exit"} \cup Serving
  /\ isr \in Serving => int_id \in Sources
  /\ isr \in Ticking => int_id = TIMER_INTERRUPT_ID
  /\ isr # "none" => main = "gone"

\* Where a task is with interrupts masked.
Inside(p) == pc[p] \in {"switch", "leave"} \/ (p = OS_TASK_IDLE_PRIO /\ pc[p] = "count")

\* Every frame is its task's, with interrupts enabled; and whoever is inside a critical
\* section has found them enabled, except the handlers.
CpuInv ==
  /\ OSTCBCur \in Tasks \cup {NULL} /\ (OSTCBCur = NULL <=> main # "gone")
  /\ frame = [p \in Tasks |-> OSTaskStkInit(p)]
  /\ cpu_sr \in [Tasks \cup {Except} -> BOOLEAN] /\ cpu_sr[Except] = TRUE
  /\ \A p \in Tasks : Inside(p) => cpu_sr[p] = FALSE
  /\ OSIntNesting = IF isr = "none" THEN 0 ELSE 1
  /\ masked \in BOOLEAN
  /\ main # "gone" => regs = Boot /\ sp = Boot
  /\ isr # "none" => masked /\ regs = OSTCBCur /\ sp = Except
  /\ isr = "none" /\ main = "gone" =>
       regs = OSTCBCur /\ sp = OSTCBCur /\ (masked => Inside(OSTCBCur))

\* The devices' interrupts are level-triggered and enabled after their handler is there.
GicInv ==
  /\ level \in {Spis, Sources}
  /\ enabled \subseteq Sources /\ active \subseteq Sources
  /\ latched \subseteq {TIMER_INTERRUPT_ID} \ level
  /\ bsp_int_vect_tbl \in [Sources -> {"NULL", "tick", "virtio_net"}]
  /\ pc[TASK_A_PRIO] # "vect" => bsp_int_vect_tbl[TIMER_INTERRUPT_ID] = "tick"
  /\ main # "gone" => enabled \subseteq {TIMER_INTERRUPT_ID}
  /\ \A id \in Spis : bsp_int_vect_tbl[id] # "tick"
  /\ \A id \in enabled \cap Spis :
       /\ bsp_int_vect_tbl[id] = "virtio_net"
       /\ \E k \in DeviceOf(id) : g_devices[k].driver_ok
  /\ isr = "handler" => IsHandled(int_id)

\* The timer's interrupt is being served.
Served == int_id = TIMER_INTERRUPT_ID /\ isr \in {"handler"} \cup Ticking

\* The deadline that has passed is counted already, or is the one of the reset.
OldDeadline == pc[TASK_A_PRIO] \in BeforeTimer \cup {"load"} \/ isr \in {"mask", "load"}

TimerInv ==
  /\ timer \in [enable : BOOLEAN, imask : BOOLEAN, passed : BOOLEAN]
  /\ timer.enable <=> pc[TASK_A_PRIO] \notin BeforeTimer
  /\ timer.imask <=> pc[TASK_A_PRIO] \in {"load", "unmask"} \/ isr \in {"load", "unmask"}
  /\ IF OldDeadline THEN timer.passed /\ unticked = 0
     ELSE unticked = IF timer.passed THEN 1 ELSE 0
  /\ Served => pc[TASK_A_PRIO] \in Delaying
  /\ Served /\ isr \in {"handler", "tick", "mask"} => timer.passed
  /\ TIMER_INTERRUPT_ID \in latched => TimerLine(timer) # {} /\ ~Served
  /\ TimerLine(timer) # {} =>
       \/ TIMER_INTERRUPT_ID \in level \cup latched
       \/ Served /\ isr \in {"handler", "tick", "mask"}

DeviceInv ==
  /\ interrupt_status \subseteq driver_ok_status /\ driver_ok_status \subseteq Slots
  /\ all \in BOOLEAN
  /\ g_devices \in Seq([slot : Slots, driver_ok : BOOLEAN])
  /\ g_device_count \in 0..Places
  /\ Len(g_devices) \in g_device_count..(g_device_count + 1)
  /\ pc[TASK_B_PRIO] = "scan" => Len(g_devices) = g_device_count
  /\ pc[TASK_B_PRIO] \in Initialising =>
       Len(g_devices) = g_device_count + 1 /\ g_device_count < Places
  /\ pc[TASK_B_PRIO] \in {"vect", "srcen", "count"} => g_devices[This].driver_ok
  /\ pc[TASK_B_PRIO] = "srcen" => bsp_int_vect_tbl[IrqOf(g_devices[This].slot)] = "virtio_net"

\* The k-th device is in the k-th slot that virtio_net_scan finds, or there is none and it
\* is in the first slot; and it is a network device if it is counted.
SearchInv ==
  /\ \A k \in 1..Len(g_devices) :
       \/ g_devices[k].slot \in virtio_net_scan(k - 1)
       \/ k = 1 /\ virtio_net_scan(0) = {} /\ g_devices[k].slot = 1
  /\ \A k \in 1..g_device_count : slot_content[g_devices[k].slot] = "net"
  /\ pc[TASK_B_PRIO] \in Initialising \ {"queues"} => slot_content[g_devices[This].slot] = "net"
  /\ pc[TASK_B_PRIO] \in Delaying =>
       \/ Len(g_devices) = g_device_count
          /\ (g_device_count = Places \/ virtio_net_scan(g_device_count) = {})
       \/ Len(g_devices) = g_device_count + 1 /\ slot_content[g_devices[This].slot] # "net"

BringUpInv ==
  TaskInv /\ IsrInv /\ CpuInv /\ GicInv /\ TimerInv /\ DeviceInv /\ SearchInv

-----------------------------------------------------------------------------
(***************************************************************************)
(* Facts about the constants.                                              *)
(***************************************************************************)
LEMMA TheTasks ==
  /\ TASK_A_PRIO \in Tasks /\ TASK_B_PRIO \in Tasks /\ OS_TASK_IDLE_PRIO \in Tasks
  /\ TASK_A_PRIO \in Nat /\ TASK_B_PRIO \in Nat /\ OS_TASK_IDLE_PRIO \in Nat
  /\ TASK_A_PRIO # TASK_B_PRIO
  /\ TASK_A_PRIO # OS_TASK_IDLE_PRIO /\ TASK_B_PRIO # OS_TASK_IDLE_PRIO
  /\ \A p \in Tasks : p \in {TASK_A_PRIO, TASK_B_PRIO, OS_TASK_IDLE_PRIO}
  /\ Boot \notin Tasks /\ Except \notin Tasks /\ NULL \notin Tasks /\ Boot # Except
<1>1. /\ TASK_A_PRIO \in Tasks /\ TASK_B_PRIO \in Tasks /\ OS_TASK_IDLE_PRIO \in Tasks
      /\ \A p \in Tasks : p \in {TASK_A_PRIO, TASK_B_PRIO, OS_TASK_IDLE_PRIO}
  BY BringUpAssumption
<1>2. TASK_A_PRIO \in Nat /\ TASK_B_PRIO \in Nat /\ OS_TASK_IDLE_PRIO \in Nat
  BY <1>1, PortAssumption
<1>3. /\ TASK_A_PRIO # TASK_B_PRIO
      /\ TASK_A_PRIO # OS_TASK_IDLE_PRIO /\ TASK_B_PRIO # OS_TASK_IDLE_PRIO
  BY <1>2, BringUpAssumption
<1>4. Boot \notin Tasks /\ Except \notin Tasks /\ NULL \notin Tasks /\ Boot # Except
  BY PortAssumption
<1>5. QED
  BY <1>1, <1>2, <1>3, <1>4

LEMMA TheSources ==
  /\ TIMER_INTERRUPT_ID \in Sources /\ TIMER_INTERRUPT_ID \notin Spis
  /\ Spis \subseteq Sources
  /\ \A id \in Sources : id \in Nat /\ id < MAX_INTERRUPTS /\ id < GIC_SPURIOUS_BASE
  /\ \A id \in Spis : id >= 32
  /\ \A s \in Slots : s \in Nat /\ IrqOf(s) \in Spis
  BY GicAssumption, BringUpAssumption
  DEF Sources, TIMER_INTERRUPT_ID, MAX_INTERRUPTS, GIC_SPURIOUS_BASE, IrqOf

\* OS_SchedNew finds the least of the ready tasks, since the idle task is one.
LEMMA HighestIsReady ==
  ASSUME ready \subseteq Tasks, OS_TASK_IDLE_PRIO \in ready
  PROVE  Highest \in ready
<1>1. \E p \in ready : \A q \in ready : p <= q
  <2>1. CASE TASK_A_PRIO \in ready
    BY <2>1, TheTasks, BringUpAssumption
  <2>2. CASE TASK_A_PRIO \notin ready /\ TASK_B_PRIO \in ready
    BY <2>2, TheTasks, BringUpAssumption
  <2>3. CASE TASK_A_PRIO \notin ready /\ TASK_B_PRIO \notin ready
    BY <2>3, TheTasks, BringUpAssumption
  <2>4. QED
    BY <2>1, <2>2, <2>3
<1>2. QED
  BY <1>1 DEF Highest

-----------------------------------------------------------------------------
(***************************************************************************)
(* The initial states.                                                     *)
(***************************************************************************)
LEMMA InitBringUpInv == Init => BringUpInv
<1> SUFFICES ASSUME Init PROVE BringUpInv
  OBVIOUS
<1> USE TheTasks, TheSources
<1>1. TaskInv /\ IsrInv
  BY DEF Init, TaskInv, IsrInv, Labels, BeforeTimer, Initialising, Delaying, Serving, Ticking
<1>2. CpuInv
  BY DEF Init, PortInit, CpuInv, Inside
<1>3. GicInv
  BY DEF Init, GicReset, GicInv
<1>4. TimerInv
  BY DEF Init, GicReset, TimerInv, TimerLine, Served, Ticking, OldDeadline, BeforeTimer
<1>5. DeviceInv
  BY BringUpAssumption
  DEF Init, DeviceInv, Places, Initialising
<1>6. SearchInv
  BY DEF Init, SearchInv, Initialising, Delaying
<1>7. QED
  BY <1>1, <1>2, <1>3, <1>4, <1>5, <1>6 DEF BringUpInv

-----------------------------------------------------------------------------
(***************************************************************************)
(* Each step keeps each part of the invariant.                             *)
(***************************************************************************)
LEMMA TaskInvKept ==
  ASSUME BringUpInv, Next
  PROVE  TaskInv'
<1> USE TheTasks DEF BringUpInv, TaskInv
<1>1. CASE UNCHANGED tasks
  BY <1>1 DEF tasks
<1>2. CASE Start
  BY <1>2 DEF Start, MainGicInit, MainUnmask, MainStart
<1>3. CASE TaskA
  BY <1>3 DEF TaskA, AVect, ASrcEn, AStartsTimer, At, Goto, AfterWrite, ReloadSteps, Labels,
              BeforeTimer, Delaying, Initialising
<1>4. CASE TaskB
  BY <1>4 DEF TaskB, BScanEnds, BInitDevice, BQueues, BStatus, BDriverOk, BVect, BSrcEn, BCount,
              BAt, At, Goto, Labels, BeforeTimer, Delaying, Initialising
<1>5. CASE Idle
  BY <1>5 DEF Idle, IdleEnters, IdleLeaves, At, Goto, Labels, BeforeTimer, Delaying, Initialising
<1>6. ASSUME NEW p \in Tasks, Delay(p) \/ Sched(p)
      PROVE  TaskInv'
  BY <1>6 DEF Delay, Sched, SchedEnter, SchedSwitch, SchedLeave, At, Goto, Labels, BeforeTimer,
              Delaying, Initialising
<1>7. CASE Tick
  BY <1>7 DEF Tick
<1>8. QED
  BY <1>1, <1>2, <1>3, <1>4, <1>5, <1>6, <1>7
  DEF Next, TimerExpires, DeviceRaises, TakeIrq, Dispatch, Acknowledge, HandlerCalled, TickReload,
      VirtioNet, EndInterrupt, LeaveIrq

LEMMA IsrInvKept ==
  ASSUME BringUpInv, Next
  PROVE  IsrInv'
<1> USE TheSources DEF BringUpInv, IsrInv, TaskInv, Serving, Ticking
<1>1. CASE UNCHANGED <<main, dispatch>>
  BY <1>1 DEF dispatch
<1>2. CASE Start
  BY <1>2 DEF Start, MainGicInit, MainUnmask, MainStart, dispatch
<1>3. CASE TakeIrq
  <2>1. CASE main # "gone"
    <3>1. TimerLine(timer) = {} /\ enabled \subseteq {TIMER_INTERRUPT_ID}
      BY <2>1 DEF TimerLine, TimerInv, GicInv, BeforeTimer
    <3>2. latched = {}
      BY <3>1 DEF TimerInv, GicInv
    <3>3. TIMER_INTERRUPT_ID \notin Asserted
      BY <3>1 DEF Asserted, DeviceInv
    <3>4. Signalled(Asserted) = {}
      BY <3>1, <3>2, <3>3 DEF Signalled
    <3>5. QED
      BY <1>3, <3>4 DEF TakeIrq
  <2>2. QED
    BY <1>3, <2>1 DEF TakeIrq, IsrGoto, tasks
<1>4. ASSUME NEW id \in Sources \cup {GIC_SPURIOUS_BASE + 3}, Acknowledge(id)
      PROVE  IsrInv'
  BY <1>4 DEF Acknowledge, tasks, GIC_SPURIOUS_BASE
<1>5. CASE HandlerCalled
  <2>1. int_id \in Sources /\ BSP_IntHandler(int_id) = bsp_int_vect_tbl[int_id]
    BY <1>5 DEF HandlerCalled, BSP_IntHandler
  <2>2. bsp_int_vect_tbl[int_id] = "tick" => int_id = TIMER_INTERRUPT_ID
    BY <2>1 DEF GicInv, Sources
  <2>3. QED
    BY <1>5, <2>1, <2>2 DEF HandlerCalled, IsHandled, IsrGoto, tasks
<1>6. ASSUME NEW step \in ReloadSteps, TickReload(step)
      PROVE  IsrInv'
  BY <1>6 DEF TickReload, ReloadSteps, AfterWrite, IsrGoto, tasks
<1>7. CASE Tick \/ VirtioNet \/ EndInterrupt \/ LeaveIrq
  BY <1>7 DEF Tick, VirtioNet, EndInterrupt, LeaveIrq, IsrGoto, tasks
<1>8. QED
  BY <1>1, <1>2, <1>3, <1>4, <1>5, <1>6, <1>7
  DEF Next, TaskA, TaskB, Idle, Sched, Dispatch, TimerExpires, DeviceRaises, AVect, ASrcEn,
      AStartsTimer, BScanEnds, BInitDevice, BQueues, BStatus, BDriverOk, BVect, BSrcEn, BCount,
      IdleEnters, IdleLeaves, Delay, SchedEnter, SchedSwitch, SchedLeave, tasks

\* What the parts say of the processor when a task runs, and when a handler does.
LEMMA CpuInvKept ==
  ASSUME BringUpInv, Next
  PROVE  CpuInv'
<1> USE TheTasks DEF BringUpInv, TaskInv, IsrInv, CpuInv
<1>1. CASE UNCHANGED <<portVars, main, pc>> /\ (isr' = isr \/ (isr # "none" /\ isr' # "none"))
  BY <1>1 DEF portVars, Inside
<1>2. CASE Start
  <2>1. CASE MainGicInit \/ MainUnmask
    BY <1>2, <2>1 DEF MainGicInit, MainUnmask, portVars, dispatch, Inside
  <2>2. CASE MainStart
    BY <1>2, <2>2, HighestIsReady
    DEF MainStart, OSStartHighRdy, Restore, OSTaskStkInit, dispatch, Inside
  <2>3. QED
    BY <1>2, <2>1, <2>2 DEF Start
<1>3. CASE TaskA
  BY <1>3 DEF TaskA, AVect, ASrcEn, AStartsTimer, At, Goto, AfterWrite, ReloadSteps, portVars,
              dispatch, Inside, BeforeTimer
<1>4. CASE TaskB
  BY <1>4 DEF TaskB, BScanEnds, BInitDevice, BQueues, BStatus, BDriverOk, BVect, BSrcEn, BCount,
              BAt, At, Goto, portVars, dispatch, Inside
<1>5. CASE Idle
  BY <1>5 DEF Idle, IdleEnters, IdleLeaves, At, Goto, OS_ENTER_CRITICAL, OS_EXIT_CRITICAL,
              dispatch, Inside
<1>6. ASSUME NEW p \in Tasks, Delay(p) \/ SchedEnter(p) \/ SchedLeave(p)
      PROVE  CpuInv'
  <2>1. isr = "none" /\ main = "gone" /\ OSTCBCur = p
    BY <1>6 DEF Delay, SchedEnter, SchedLeave, At
  <2>2. CASE Delay(p)
    BY <2>1, <2>2 DEF Delay, At, Goto, portVars, dispatch, Inside
  <2>3. CASE SchedEnter(p)
    BY <2>1, <2>3 DEF SchedEnter, At, Goto, OS_ENTER_CRITICAL, dispatch, Inside
  <2>4. CASE SchedLeave(p)
    BY <2>1, <2>4 DEF SchedLeave, At, Goto, OS_EXIT_CRITICAL, dispatch, Inside
  <2>5. QED
    BY <1>6, <2>2, <2>3, <2>4
<1>7. ASSUME NEW p \in Tasks, SchedSwitch(p)
      PROVE  CpuInv'
  <2>1. OSTCBCur = p /\ regs = p /\ sp = p /\ Highest \in Tasks /\ pc[p] = "switch"
    BY <1>7, HighestIsReady DEF SchedSwitch, At
  <2>2. frame' = frame /\ cpu_sr' = cpu_sr
    BY <1>7, <2>1 DEF SchedSwitch, OSCtxSw, OSTaskStkInit, portVars
  <2>3. \A q \in Tasks : Inside(q)' <=> Inside(q)
    BY <1>7, <2>1 DEF SchedSwitch, Goto, Inside
  <2>4. CASE Highest # p
    BY <1>7, <2>1, <2>2, <2>3, <2>4
    DEF SchedSwitch, At, OSCtxSw, Restore, OSTaskStkInit, dispatch
  <2>5. CASE Highest = p
    BY <1>7, <2>1, <2>2, <2>3, <2>5 DEF SchedSwitch, At, portVars, dispatch
  <2>6. QED
    BY <2>4, <2>5
<1>8. CASE TakeIrq
  <2>1. isr = "none" /\ main = "gone" /\ OSTCBCur \in Tasks
    BY <1>8, IsrInvKept DEF TakeIrq, IsrGoto, IrqEntry, tasks, Serving, Ticking
  <2>2. frame' = frame
    BY <1>8, <2>1 DEF TakeIrq, IrqEntry, OSTaskStkInit
  <2>3. QED
    BY <1>8, <2>1, <2>2 DEF TakeIrq, IrqEntry, IsrGoto, tasks, Inside
<1>9. CASE HandlerCalled \/ Tick \/ VirtioNet
  BY <1>9 DEF HandlerCalled, Tick, VirtioNet, OS_ENTER_CRITICAL, OS_EXIT_CRITICAL, IsrGoto,
              portVars, tasks, Inside, Serving, IsHandled
<1>10. CASE LeaveIrq
  <2>1. OSTCBCur' = Highest /\ Highest \in Tasks /\ main = "gone"
    BY <1>10, HighestIsReady DEF LeaveIrq, IrqExit
  <2>2. regs' = Highest /\ sp' = Highest /\ masked' = FALSE
    BY <1>10, <2>1 DEF LeaveIrq, IrqExit, Restore, OSTaskStkInit
  <2>3. OSIntNesting' = 0 /\ frame' = frame /\ cpu_sr' = cpu_sr
    BY <1>10 DEF LeaveIrq, IrqExit
  <2>4. QED
    BY <1>10, <2>1, <2>2, <2>3 DEF LeaveIrq, IsrGoto, tasks, Inside
<1>11. QED
  BY <1>1, <1>2, <1>3, <1>4, <1>5, <1>6, <1>7, <1>8, <1>9, <1>10
  DEF Next, Sched, Dispatch, TimerExpires, DeviceRaises, Acknowledge, TickReload, EndInterrupt,
      IsrGoto, AfterWrite, ReloadSteps, tasks, dispatch

\* A change of the timer's line only latches the timer's interrupt, if it is
\* edge-triggered; and the lines of the devices latch nothing.
LEMMA OnlyTimerLatched ==
  ASSUME GicInv, NEW before, NEW after, Lines(before, after),
         after \ before \subseteq {TIMER_INTERRUPT_ID} \cup Spis
  PROVE  /\ latched' \subseteq {TIMER_INTERRUPT_ID} \ level
         /\ UNCHANGED <<level, enabled, active, bsp_int_vect_tbl>>
  BY TheSources DEF GicInv, Lines

\* Whatever is signalled to the processor has a handler that does something.
LEMMA SignalledIsHandled ==
  ASSUME BringUpInv, NEW id \in Signalled(Asserted)
  PROVE  id \in Sources /\ IsHandled(id)
<1> USE TheSources DEF BringUpInv
<1>1. id \in enabled /\ (id \in latched \/ id \in Asserted)
  BY DEF Signalled
<1>2. id \in Sources /\ BSP_IntHandler(id) = bsp_int_vect_tbl[id]
  BY <1>1 DEF GicInv, BSP_IntHandler
<1>3. CASE id = TIMER_INTERRUPT_ID
  <2>1. TimerLine(timer) # {}
    BY <1>1, <1>3 DEF Asserted, TimerInv, DeviceInv
  <2>2. pc[TASK_A_PRIO] # "vect"
    BY <2>1 DEF TimerLine, TimerInv, BeforeTimer
  <2>3. QED
    BY <1>2, <1>3, <2>2 DEF GicInv, IsHandled
<1>4. CASE id \in Spis
  BY <1>1, <1>2, <1>4 DEF GicInv, IsHandled
<1>5. QED
  BY <1>2, <1>3, <1>4 DEF Sources

LEMMA ThisDevice ==
  ASSUME DeviceInv, pc[TASK_B_PRIO] \in Initialising
  PROVE  /\ This \in 1..Len(g_devices) /\ This = g_device_count + 1
         /\ g_devices[This] \in [slot : Slots, driver_ok : BOOLEAN]
         /\ g_devices[This].slot \in Slots
<1>1. Len(g_devices) = g_device_count + 1 /\ g_device_count \in Nat
  BY DEF DeviceInv
<1>2. This \in 1..Len(g_devices) /\ This = g_device_count + 1
  BY <1>1 DEF This
<1>3. g_devices[This] \in [slot : Slots, driver_ok : BOOLEAN]
  BY <1>2, ElementOfSeq DEF DeviceInv
<1>4. QED
  BY <1>2, <1>3

\* The devices that are there stay there, and stay ready.
DevicesStay ==
  \A id \in Spis : (\E k \in DeviceOf(id) : g_devices[k].driver_ok)
                    => (\E k \in DeviceOf(id) : g_devices[k].driver_ok)'

LEMMA TaskBKeepsDevices ==
  ASSUME BringUpInv, TaskB
  PROVE  DevicesStay
<1> USE TheTasks DEF BringUpInv, DeviceInv
<1>1. CASE UNCHANGED g_devices
  BY <1>1 DEF DevicesStay, DeviceOf
<1>2. CASE BInitDevice
  <2>1. PICK d : g_devices' = Append(g_devices, d)
    BY <1>2 DEF BInitDevice
  <2>2. /\ Len(g_devices') = Len(g_devices) + 1
        /\ \A k \in 1..Len(g_devices) : g_devices'[k] = g_devices[k]
    BY <2>1
  <2>3. QED
    BY <2>2 DEF DevicesStay, DeviceOf
<1>3. CASE BDriverOk
  <2>1. Len(g_devices') = Len(g_devices)
    BY <1>3 DEF BDriverOk
  <2>2. \A k \in 1..Len(g_devices) :
          /\ g_devices'[k].slot = g_devices[k].slot
          /\ g_devices[k].driver_ok => g_devices'[k].driver_ok
    BY <1>3 DEF BDriverOk
  <2>3. QED
    BY <2>1, <2>2 DEF DevicesStay, DeviceOf
<1>4. QED
  BY <1>1, <1>2, <1>3 DEF TaskB, BScanEnds, BQueues, BStatus, BVect, BSrcEn, BCount, driver

\* The handler of an enabled source is there before it is enabled.
LEMMA GicInvKept ==
  ASSUME BringUpInv, Next
  PROVE  GicInv'
<1> USE TheTasks, TheSources DEF BringUpInv, TaskInv, IsrInv
<1> DEFINE Ready(id) == \E k \in DeviceOf(id) : g_devices[k].driver_ok
<1>1. CASE UNCHANGED <<gicVars, main, pc, dispatch, g_devices>>
  BY <1>1 DEF GicInv, gicVars, dispatch, DeviceOf, IsHandled, BSP_IntHandler
<1>2. ASSUME NEW before, NEW after, Lines(before, after),
             after \ before \subseteq {TIMER_INTERRUPT_ID} \cup Spis,
             pc[TASK_A_PRIO] # "vect" \/ pc' = pc, main' = main, g_devices' = g_devices,
             isr' = "handler" => isr = "handler", int_id' = int_id
      PROVE  GicInv'
  BY <1>2, OnlyTimerLatched DEF GicInv, DeviceOf, IsHandled, BSP_IntHandler
<1>3. CASE TimerExpires
  BY <1>2, <1>3 DEF TimerExpires, TimerLine, tasks, dispatch, driver
<1>4. ASSUME NEW s \in Slots, DeviceRaises(s)
      PROVE  GicInv'
  BY <1>2, <1>4 DEF DeviceRaises, tasks, dispatch, driver
<1>5. CASE Start
  BY <1>5 DEF Start, MainGicInit, gic_init, MainUnmask, MainStart, gicVars, dispatch, driver,
              DeviceOf, GicInv
<1>6. CASE AVect
  <2>1. \A id \in Spis : bsp_int_vect_tbl'[id] = bsp_int_vect_tbl[id]
    BY <1>6 DEF AVect, BSP_IntVectSet, GicInv
  <2>2. QED
    BY <1>6, <2>1 DEF AVect, BSP_IntVectSet, At, driver, dispatch, DeviceOf, GicInv
<1>7. CASE ASrcEn
  BY <1>7 DEF ASrcEn, At, Goto, BSP_IntSrcEn, TIMER_INTERRUPT_ID, driver, dispatch, DeviceOf,
              GicInv
<1>8. ASSUME NEW step \in ReloadSteps, AStartsTimer(step)
      PROVE  GicInv'
  BY <1>2, <1>8 DEF AStartsTimer, At, TimerWrite, TimerLine, driver, dispatch, ReloadSteps
<1>9. CASE TaskB
  <2>1. DevicesStay /\ isr = "none" /\ isr' = "none" /\ main = "gone" /\ main' = "gone"
    BY <1>9, TaskBKeepsDevices
    DEF TaskB, BScanEnds, BInitDevice, BQueues, BStatus, BDriverOk, BVect, BSrcEn, BCount,
        BAt, At, dispatch
  <2>2. pc'[TASK_A_PRIO] = pc[TASK_A_PRIO]
    BY <1>9 DEF TaskB, BScanEnds, BInitDevice, BQueues, BStatus, BDriverOk, BVect, BSrcEn, BCount,
        Goto
  <2>3. CASE UNCHANGED gicVars
    BY <2>1, <2>2, <2>3 DEF gicVars, GicInv, DevicesStay
  <2>4. CASE BVect
    <3>1. IrqOf(g_devices[This].slot) \in Spis
      BY <2>4, ThisDevice DEF BVect, BAt, At, Initialising
    <3>2. QED
      BY <2>1, <2>2, <2>4, <3>1 DEF BVect, BSP_IntVectSet, GicInv, DevicesStay
  <2>5. CASE BSrcEn
    <3>1. pc[TASK_B_PRIO] = "srcen"
      BY <2>5 DEF BSrcEn, BAt, At
    <3>2. This \in 1..Len(g_devices) /\ g_devices[This].slot \in Slots
      BY <3>1, ThisDevice DEF Initialising
    <3>3. IrqOf(g_devices[This].slot) \in Spis /\ This \in DeviceOf(IrqOf(g_devices[This].slot))
      BY <3>2 DEF DeviceOf
    <3>4. QED
      BY <2>1, <2>2, <2>5, <3>1, <3>3 DEF BSrcEn, BSP_IntSrcEn, GicInv, DeviceInv, DevicesStay
  <2>6. QED
    BY <1>9, <2>3, <2>4, <2>5 DEF TaskB, BScanEnds, BInitDevice, BQueues, BStatus, BDriverOk, BCount
<1>10. CASE Idle
  BY <1>10 DEF Idle, IdleEnters, IdleLeaves, At, Goto, gicVars, dispatch, driver, DeviceOf, GicInv
<1>11. ASSUME NEW p \in Tasks, Delay(p) \/ Sched(p)
       PROVE  GicInv'
  BY <1>11 DEF Delay, Sched, SchedEnter, SchedSwitch, SchedLeave, At, Goto, gicVars, dispatch,
               driver, DeviceOf, GicInv
<1>12. ASSUME NEW id \in Sources \cup {GIC_SPURIOUS_BASE + 3}, Acknowledge(id)
       PROVE  GicInv'
  <2>1. isr' = "handler" => id \in Signalled(Asserted)
    BY <1>12 DEF Acknowledge, gic_acknowledge, GIC_SPURIOUS_BASE
  <2>2. isr' = "handler" => IsHandled(id)'
    BY <1>12, <2>1, SignalledIsHandled
    DEF Acknowledge, gic_acknowledge, gicVars, driver, IsHandled, BSP_IntHandler, DeviceOf
  <2>3. int_id' = id
    BY <1>12 DEF Acknowledge
  <2>4. /\ latched' \subseteq latched /\ active' \subseteq Sources
        /\ UNCHANGED <<level, enabled, bsp_int_vect_tbl, main, pc, g_devices>>
    BY <1>12 DEF Acknowledge, gic_acknowledge, gicVars, tasks, driver, GicInv, Signalled
  <2>5. (isr = "handler" => IsHandled(int_id))'
    BY <2>2, <2>3 DEF IsHandled
  <2>6. QED
    BY <2>4, <2>5 DEF DeviceOf, GicInv
<1>13. CASE TakeIrq \/ HandlerCalled \/ Tick \/ VirtioNet \/ EndInterrupt \/ LeaveIrq
  <2>1. isr' # "handler"
    BY <1>13 DEF TakeIrq, HandlerCalled, Tick, VirtioNet, EndInterrupt, LeaveIrq, IsrGoto,
                 IsHandled
  <2>2. QED
    BY <1>13, <2>1
    DEF TakeIrq, HandlerCalled, Tick, VirtioNet, EndInterrupt, gic_end_interrupt, LeaveIrq,
        gicVars, tasks, driver, DeviceOf, GicInv
<1>14. ASSUME NEW step \in ReloadSteps, TickReload(step)
       PROVE  GicInv'
  BY <1>2, <1>14
  DEF TickReload, TimerWrite, TimerLine, IsrGoto, tasks, driver, ReloadSteps, AfterWrite
<1>15. QED
  BY <1>3, <1>4, <1>5, <1>6, <1>7, <1>8, <1>9, <1>10, <1>11, <1>12, <1>13, <1>14
  DEF Next, TaskA, Dispatch

\* One tick for each deadline, and no line that stays up unnoticed.
LEMMA TimerInvKept ==
  ASSUME BringUpInv, Next
  PROVE  TimerInv'
<1> USE TheTasks, TheSources DEF BringUpInv, TaskInv, IsrInv
<1> DEFINE a == pc[TASK_A_PRIO]
<1>1. ASSUME UNCHANGED <<clock, level, latched>>,
             a' = a \/ (a \in BeforeTimer /\ a' \in BeforeTimer) \/ (a \in Delaying /\ a' \in Delaying),
             \/ UNCHANGED dispatch
             \/ isr \notin Ticking \cup {"handler"} /\ isr' \notin Ticking \cup {"handler"}
      PROVE  TimerInv'
  BY <1>1 DEF TimerInv, TimerLine, clock, dispatch, Served, OldDeadline, Ticking, BeforeTimer,
              Delaying
<1>2. CASE TimerExpires
  <2>1. /\ ~OldDeadline /\ timer.enable /\ ~timer.passed /\ unticked = 0
        /\ timer \in [enable : BOOLEAN, imask : BOOLEAN, passed : BOOLEAN]
    BY <1>2 DEF TimerExpires, TimerInv
  <2>2. /\ timer' \in [enable : BOOLEAN, imask : BOOLEAN, passed : BOOLEAN]
        /\ timer'.enable = timer.enable /\ timer'.imask = timer.imask /\ timer'.passed
        /\ unticked' = 1
    <3>1. timer' = [timer EXCEPT !.passed = TRUE] /\ unticked' = 0 + 1
      BY <1>2, <2>1 DEF TimerExpires
    <3>2. timer' \in [enable : BOOLEAN, imask : BOOLEAN, passed : BOOLEAN]
      BY <2>1, <3>1
    <3>3. timer'.enable = timer.enable /\ timer'.imask = timer.imask
      BY <2>1, <3>1
    <3>4. timer'.passed
      BY <2>1, <3>1
    <3>5. QED
      BY <3>1, <3>2, <3>3, <3>4
  <2>3. UNCHANGED <<pc, isr, int_id, level>> /\ TimerLine(timer) = {}
    BY <1>2, <2>1 DEF TimerExpires, Lines, TimerLine, tasks, dispatch
  <2>4. latched' = latched \cup (TimerLine(timer') \ level)
    BY <1>2, <2>3 DEF TimerExpires, Lines
  <2>5. Served => isr \in {"load", "unmask"}
    BY <2>1 DEF TimerInv, Served, Ticking
  <2>6. QED
    BY <2>1, <2>2, <2>3, <2>4, <2>5 DEF TimerInv, TimerLine, Served, OldDeadline
<1>3. ASSUME NEW s \in Slots, DeviceRaises(s)
      PROVE  TimerInv'
  BY <1>1, <1>3 DEF DeviceRaises, Lines, GicInv, tasks
<1>4. CASE Start \/ TaskB \/ Idle
  BY <1>1, <1>4
  DEF Start, MainGicInit, gic_init, MainUnmask, MainStart, TaskB, BScanEnds, BInitDevice, BQueues,
      BStatus, BDriverOk, BVect, BSP_IntVectSet, BSrcEn, BSP_IntSrcEn, BCount, Idle, IdleEnters,
      IdleLeaves, Goto, gicVars
<1>5. CASE AVect \/ ASrcEn
  BY <1>1, <1>5 DEF AVect, BSP_IntVectSet, ASrcEn, BSP_IntSrcEn, At, Goto, BeforeTimer
<1>6. ASSUME NEW step \in ReloadSteps, AStartsTimer(step)
      PROVE  TimerInv'
  BY <1>6
  DEF AStartsTimer, At, Goto, TimerWrite, AfterWrite, ReloadSteps, TimerInv, TimerLine, Lines,
      Served, OldDeadline, Ticking, BeforeTimer, Delaying, dispatch
<1>7. ASSUME NEW p \in Tasks, Delay(p) \/ Sched(p)
      PROVE  TimerInv'
  BY <1>1, <1>7
  DEF Delay, Sched, SchedEnter, SchedSwitch, SchedLeave, At, Goto, gicVars, Delaying
<1>8. CASE TakeIrq \/ VirtioNet \/ EndInterrupt \/ LeaveIrq
  BY <1>1, <1>8
  DEF TakeIrq, VirtioNet, EndInterrupt, gic_end_interrupt, LeaveIrq, IrqEntry, IsrGoto, tasks,
      gicVars, CpuInv, Ticking
<1>9. ASSUME NEW id \in Sources \cup {GIC_SPURIOUS_BASE + 3}, Acknowledge(id)
      PROVE  TimerInv'
  <2>1. CASE id = TIMER_INTERRUPT_ID /\ id \in Signalled(Asserted)
    <3>1. TimerLine(timer) # {}
      BY <2>1 DEF Signalled, Asserted, TimerInv, DeviceInv
    <3>2. timer.enable /\ timer.passed /\ ~timer.imask
      BY <3>1 DEF TimerLine
    <3>3. a \in Delaying
      BY <3>2 DEF TimerInv
    <3>4. latched' = latched \ {TIMER_INTERRUPT_ID} /\ isr' = "handler"
      BY <1>9, <2>1 DEF Acknowledge, gic_acknowledge, gicVars, GicInv, GIC_SPURIOUS_BASE,
                        TIMER_INTERRUPT_ID
    <3>5. QED
      BY <1>9, <2>1, <3>2, <3>3, <3>4
      DEF Acknowledge, gic_acknowledge, gicVars, tasks, clock, TimerInv, TimerLine, Served, OldDeadline,
          Ticking, BeforeTimer, Delaying
  <2>2. CASE id # TIMER_INTERRUPT_ID \/ id \notin Signalled(Asserted)
    <3>1. UNCHANGED <<level, latched, clock, pc>> /\ isr = "acknowledge" /\ int_id' = id
      BY <1>9, <2>2 DEF Acknowledge, gic_acknowledge, gicVars, GicInv, tasks
    <3>2. ~Served'
      BY <1>9, <2>2, <3>1 DEF Acknowledge, gic_acknowledge, Served, GIC_SPURIOUS_BASE,
                              TIMER_INTERRUPT_ID
    <3>3. isr' \in {"handler", "exit"}
      BY <1>9 DEF Acknowledge
    <3>4. QED
      BY <3>1, <3>2, <3>3 DEF TimerInv, TimerLine, Served, OldDeadline, Ticking, clock
  <2>3. QED
    BY <2>1, <2>2
<1>10. CASE HandlerCalled
  <2>1. int_id = TIMER_INTERRUPT_ID => isr' = "tick"
    BY <1>10 DEF HandlerCalled, IsHandled, BSP_IntHandler, IsrGoto, TimerInv, Served, GicInv,
                 Delaying, MAX_INTERRUPTS, TIMER_INTERRUPT_ID
  <2>2. int_id # TIMER_INTERRUPT_ID => isr' \in {"virtio_net", "eoi"}
    BY <1>10, IsrInvKept DEF HandlerCalled, IsHandled, IsrGoto, Ticking
  <2>3. QED
    BY <1>10, <2>1, <2>2
    DEF HandlerCalled, IsrGoto, gicVars, tasks, clock, TimerInv, TimerLine, Served, OldDeadline,
        Ticking
<1>11. CASE Tick
  BY <1>11
  DEF Tick, IsrGoto, gicVars, TimerInv, TimerLine, Served, OldDeadline, Ticking, BeforeTimer,
      Delaying
<1>12. ASSUME NEW step \in ReloadSteps, TickReload(step)
       PROVE  TimerInv'
  BY <1>12
  DEF TickReload, TimerWrite, AfterWrite, ReloadSteps, IsrGoto, tasks, TimerInv, TimerLine, Lines,
      Served, OldDeadline, Ticking, BeforeTimer, Delaying
<1>13. QED
  BY <1>2, <1>3, <1>4, <1>5, <1>6, <1>7, <1>8, <1>9, <1>10, <1>11, <1>12
  DEF Next, TaskA, Dispatch

\* A slot that virtio_net_scan finds, or the one that virtio_net_init falls back on.
LEMMA CandidatesAreSlots == Candidates \subseteq Slots
  BY BringUpAssumption DEF Candidates, virtio_net_scan, Found

LEMMA DeviceInvKept ==
  ASSUME BringUpInv, Next
  PROVE  DeviceInv'
<1> USE TheTasks, TheSources DEF BringUpInv, TaskInv
<1> DEFINE b == pc[TASK_B_PRIO]
<1>1. ASSUME UNCHANGED <<driver, driver_ok_status>>, interrupt_status' \subseteq driver_ok_status,
             b' = b \/ (b \in Delaying /\ b' \in Delaying),
             b # "srcen" \/ \A id \in Spis : bsp_int_vect_tbl'[id] = bsp_int_vect_tbl[id]
      PROVE  DeviceInv'
  <2>1. UNCHANGED <<all, g_devices, g_device_count, This, Places>>
    BY <1>1 DEF driver, This, Places
  <2>2. b' = "srcen" => IrqOf(g_devices[This].slot) \in Spis /\ b = "srcen"
    BY <1>1, ThisDevice DEF Delaying, Initialising
  <2>3. QED
    BY <1>1, <2>1, <2>2 DEF DeviceInv, Delaying, Initialising
<1>2. CASE TimerExpires \/ Start \/ ASrcEn \/ TakeIrq \/ Idle
  BY <1>1, <1>2
  DEF DeviceInv, TimerExpires, Lines, Start, MainGicInit, gic_init, MainUnmask, MainStart, gicVars,
      ASrcEn, BSP_IntSrcEn, TakeIrq, Idle, IdleEnters, IdleLeaves, At, Goto, tasks, devices
<1>3. CASE AVect
  <2>1. \A id \in Spis : bsp_int_vect_tbl'[id] = bsp_int_vect_tbl[id]
    BY <1>3 DEF AVect, BSP_IntVectSet, GicInv
  <2>2. QED
    BY <1>1, <1>3, <2>1 DEF DeviceInv, AVect, Goto, devices
<1>4. ASSUME NEW s \in Slots, DeviceRaises(s)
      PROVE  DeviceInv'
  BY <1>1, <1>4 DEF DeviceInv, DeviceRaises, Lines, tasks
<1>5. ASSUME NEW step \in ReloadSteps, AStartsTimer(step) \/ TickReload(step)
      PROVE  DeviceInv'
  BY <1>1, <1>5 DEF DeviceInv, AStartsTimer, TickReload, TimerWrite, Lines, Goto, tasks, devices
<1>6. ASSUME NEW p \in Tasks, Delay(p) \/ Sched(p)
      PROVE  DeviceInv'
  BY <1>1, <1>6
  DEF DeviceInv, Delay, Sched, SchedEnter, SchedSwitch, SchedLeave, At, Goto, gicVars, devices,
      Delaying
<1>7. ASSUME NEW id \in Sources \cup {GIC_SPURIOUS_BASE + 3}, Acknowledge(id)
      PROVE  DeviceInv'
  BY <1>1, <1>7 DEF DeviceInv, Acknowledge, gic_acknowledge, gicVars, tasks, devices
<1>8. CASE HandlerCalled \/ Tick \/ VirtioNet \/ EndInterrupt \/ LeaveIrq
  BY <1>1, <1>8
  DEF DeviceInv, HandlerCalled, Tick, VirtioNet, EndInterrupt, gic_end_interrupt, LeaveIrq,
      gicVars, tasks, devices
<1>9. CASE TaskB
  <2>1. UNCHANGED all /\ Places' = Places /\ Places \in Nat
    BY <1>9, BringUpAssumption
    DEF TaskB, BScanEnds, BInitDevice, BQueues, BStatus, BDriverOk, BVect, BSrcEn, BCount, driver,
        Places
  <2>2. CASE BScanEnds \/ BQueues
    BY <2>1, <2>2
    DEF BScanEnds, BQueues, BAt, At, Goto, driver, devices, DeviceInv, This, Initialising
  <2>3. CASE BInitDevice
    <3>1. PICK s \in Slots : g_devices' = Append(g_devices, [slot |-> s, driver_ok |-> FALSE])
      BY <2>3, CandidatesAreSlots DEF BInitDevice
    <3>2. g_devices' \in Seq([slot : Slots, driver_ok : BOOLEAN])
          /\ Len(g_devices') = Len(g_devices) + 1
      BY <3>1, AppendProperties DEF DeviceInv
    <3>3. QED
      BY <2>1, <2>3, <3>2 DEF BInitDevice, BAt, At, Goto, devices, DeviceInv, Initialising
  <2>4. CASE BStatus
    BY <2>1, <2>4, ThisDevice
    DEF BStatus, BAt, At, Goto, driver, DeviceInv, This, Initialising
  <2>5. CASE BDriverOk
    <3>1. This \in 1..Len(g_devices) /\ g_devices[This] \in [slot : Slots, driver_ok : BOOLEAN]
      BY <2>5, ThisDevice DEF BDriverOk, BAt, At, Initialising
    <3>2. g_devices' = [g_devices EXCEPT ![This] = [g_devices[This] EXCEPT !.driver_ok = TRUE]]
      BY <2>5 DEF BDriverOk
    <3>3. DEFINE d == [g_devices[This] EXCEPT !.driver_ok = TRUE]
    <3>4. d \in [slot : Slots, driver_ok : BOOLEAN] /\ d.driver_ok
      BY <3>1
    <3>5. g_devices \in Seq([slot : Slots, driver_ok : BOOLEAN])
      BY DEF DeviceInv
    <3> HIDE DEF d
    <3>6. /\ g_devices' \in Seq([slot : Slots, driver_ok : BOOLEAN])
          /\ Len(g_devices') = Len(g_devices)
          /\ g_devices'[This].driver_ok
      <4>1. g_devices' = [g_devices EXCEPT ![This] = d]
        BY <3>2 DEF d
      <4>2. /\ g_devices' \in Seq([slot : Slots, driver_ok : BOOLEAN])
            /\ Len(g_devices') = Len(g_devices) /\ g_devices'[This] = d
        BY <3>1, <3>4, <3>5, <4>1, ExceptSeq
      <4>3. QED
        BY <3>4, <4>2
    <3>7. QED
      BY <2>1, <2>5, <3>6 DEF BDriverOk, BAt, At, Goto, devices, DeviceInv, This, Initialising
  <2>6. CASE BVect
    <3>1. IrqOf(g_devices[This].slot) \in Spis
      BY <2>6, ThisDevice DEF BVect, BAt, At, Initialising
    <3>2. bsp_int_vect_tbl'[IrqOf(g_devices[This].slot)] = "virtio_net" /\ UNCHANGED This
      BY <2>6, <3>1 DEF BVect, BSP_IntVectSet, driver, This, GicInv
    <3>3. QED
      BY <2>1, <2>6, <3>2 DEF BVect, BAt, At, Goto, driver, devices, DeviceInv, This, Initialising
  <2>7. CASE BSrcEn
    BY <2>1, <2>7 DEF BSrcEn, BAt, At, Goto, driver, devices, DeviceInv, This, Initialising
  <2>8. CASE BCount
    BY <2>1, <2>8 DEF BCount, BAt, At, Goto, devices, DeviceInv, This, Initialising
  <2>9. QED
    BY <1>9, <2>2, <2>3, <2>4, <2>5, <2>6, <2>7, <2>8 DEF TaskB
<1>10. QED
  BY <1>2, <1>3, <1>4, <1>5, <1>6, <1>7, <1>8, <1>9 DEF Next, TaskA, Dispatch

\* The slots do not change, nor what virtio_net_scan finds.
LEMMA SlotsStay ==
  ASSUME Next
  PROVE  slot_content' = slot_content /\ \A i : virtio_net_scan(i)' = virtio_net_scan(i)
<1>1. slot_content' = slot_content
  BY DEF Next, TimerExpires, DeviceRaises, Start, MainGicInit, MainUnmask, MainStart, TaskA, AVect,
         ASrcEn, AStartsTimer, TaskB, BScanEnds, BInitDevice, BQueues, BStatus, BDriverOk, BVect,
         BSrcEn, BCount, Idle, IdleEnters, IdleLeaves, Delay, Sched, SchedEnter, SchedSwitch,
         SchedLeave, TakeIrq, Dispatch, Acknowledge, HandlerCalled, Tick, TickReload, VirtioNet,
         EndInterrupt, LeaveIrq, devices
<1>2. QED
  BY <1>1 DEF virtio_net_scan, Found

\* Outside the search nothing of the driver changes, and the search does not begin again.
LEMMA OnlyTaskBSearches ==
  ASSUME BringUpInv, Next, ~TaskB
  PROVE  /\ UNCHANGED driver
         /\ \/ pc'[TASK_B_PRIO] = pc[TASK_B_PRIO]
            \/ pc[TASK_B_PRIO] \in Delaying /\ pc'[TASK_B_PRIO] \in Delaying
<1> USE TheTasks DEF BringUpInv, TaskInv
<1>1. UNCHANGED driver
  BY DEF Next, TimerExpires, DeviceRaises, Start, MainGicInit, MainUnmask, MainStart, TaskA, AVect,
         ASrcEn, AStartsTimer, Idle, IdleEnters, IdleLeaves, Delay, Sched, SchedEnter, SchedSwitch,
         SchedLeave, TakeIrq, Dispatch, Acknowledge, HandlerCalled, Tick, TickReload, VirtioNet,
         EndInterrupt, LeaveIrq
<1>2. CASE UNCHANGED pc
  BY <1>1, <1>2
<1>3. CASE TaskA \/ Idle
  BY <1>1, <1>3 DEF TaskA, AVect, ASrcEn, AStartsTimer, Idle, IdleEnters, IdleLeaves, Goto
<1>4. ASSUME NEW p \in Tasks, Delay(p) \/ Sched(p)
      PROVE  \/ pc'[TASK_B_PRIO] = pc[TASK_B_PRIO]
             \/ pc[TASK_B_PRIO] \in Delaying /\ pc'[TASK_B_PRIO] \in Delaying
  BY <1>4 DEF Delay, Sched, SchedEnter, SchedSwitch, SchedLeave, At, Goto, Delaying
<1>5. QED
  BY <1>1, <1>2, <1>3, <1>4
  DEF Next, TimerExpires, DeviceRaises, Start, MainGicInit, MainUnmask, MainStart, TakeIrq,
      Dispatch, Acknowledge, HandlerCalled, Tick, TickReload, VirtioNet, EndInterrupt, LeaveIrq,
      tasks

LEMMA SearchInvKept ==
  ASSUME BringUpInv, Next
  PROVE  SearchInv'
<1> DEFINE b == pc[TASK_B_PRIO]
<1>1. Len(g_devices) \in Nat /\ g_device_count \in Nat
  BY BringUpAssumption DEF BringUpInv, DeviceInv, Places
<1>2. ASSUME UNCHANGED driver, b' = b \/ (b \in Delaying /\ b' \in Delaying)
      PROVE  SearchInv'
  <2>1. UNCHANGED <<g_devices, g_device_count, This, Places>>
    BY <1>2 DEF driver, This, Places
  <2>2. b' \in Delaying => b \in Delaying
    BY <1>2
  <2>3. b' \in Initialising \ {"queues"} => b \in Initialising \ {"queues"}
    BY <1>2 DEF Delaying, Initialising
  <2>4. QED
    BY <2>1, <2>2, <2>3, SlotsStay DEF BringUpInv, SearchInv
<1>3. CASE ~TaskB
  <2>1. UNCHANGED driver /\ (b' = b \/ (b \in Delaying /\ b' \in Delaying))
    BY <1>3, OnlyTaskBSearches
  <2>2. QED
    BY <1>2, <2>1
<1> USE TheTasks, SlotsStay DEF BringUpInv, TaskInv
<1>4. CASE BScanEnds
  BY <1>1, <1>4 DEF BScanEnds, BAt, At, Goto, driver, DeviceInv, SearchInv, This, Places, Candidates,
              Delaying, Initialising
<1>5. CASE BInitDevice
  <2>1. PICK s \in Candidates : g_devices' = Append(g_devices, [slot |-> s, driver_ok |-> FALSE])
    BY <1>5 DEF BInitDevice
  <2>2. Len(g_devices) = g_device_count /\ b' = "queues" /\ UNCHANGED <<all, g_device_count>>
    BY <1>5 DEF BInitDevice, BAt, At, Goto, DeviceInv
  <2>3. s \in Slots
    BY CandidatesAreSlots
  <2>4. /\ Len(g_devices') = Len(g_devices) + 1
        /\ \A k \in 1..Len(g_devices) : g_devices'[k] = g_devices[k]
        /\ g_devices'[Len(g_devices) + 1].slot = s
    BY <2>1, <2>3, AppendProperties DEF DeviceInv
  <2>5. \/ s \in virtio_net_scan((Len(g_devices) + 1) - 1)
        \/ Len(g_devices) + 1 = 1 /\ virtio_net_scan(0) = {} /\ s = 1
    BY <1>1, <1>5, <2>2 DEF BInitDevice, Candidates, Places
  <2>6. QED
    BY <1>1, <2>2, <2>4, <2>5 DEF SearchInv, Initialising, Delaying
<1>6. CASE BQueues
  BY <1>1, <1>6, ThisDevice
  DEF BQueues, BAt, At, Goto, driver, DeviceInv, SearchInv, This, Places, Delaying, Initialising
<1>7. CASE BStatus \/ BVect \/ BSrcEn
  BY <1>1, <1>7
  DEF BStatus, BVect, BSrcEn, BAt, At, Goto, driver, SearchInv, This, Delaying, Initialising
<1>8. CASE BDriverOk
  <2>1. Len(g_devices') = Len(g_devices) /\ UNCHANGED <<all, g_device_count>>
        /\ b = "driver_ok" /\ b' = "vect"
    BY <1>8 DEF BDriverOk, BAt, At, Goto
  <2>2. \A k \in 1..Len(g_devices) : g_devices'[k].slot = g_devices[k].slot
    BY <1>8 DEF BDriverOk
  <2>3. This \in 1..Len(g_devices) /\ This' = This /\ This = g_device_count + 1
    BY <2>1, ThisDevice DEF This, Initialising
  <2>4. \A k \in 1..g_device_count : k \in 1..Len(g_devices)
    BY <1>1, <2>3
  <2>5. QED
    BY <1>1, <2>1, <2>2, <2>3, <2>4 DEF SearchInv, Delaying, Initialising
<1>9. CASE BCount
  BY <1>1, <1>9, ThisDevice
  DEF BCount, BAt, At, Goto, SearchInv, This, Delaying, Initialising
<1>10. QED
  BY <1>3, <1>4, <1>5, <1>6, <1>7, <1>8, <1>9 DEF TaskB

\* The invariant holds throughout.
LEMMA NextKeepsBringUpInv == BringUpInv /\ [Next]_vars => BringUpInv'
<1>1. ASSUME BringUpInv, Next
      PROVE  BringUpInv'
  BY <1>1, TaskInvKept, IsrInvKept, CpuInvKept, GicInvKept, TimerInvKept, DeviceInvKept,
     SearchInvKept
  DEF BringUpInv
<1>2. CASE UNCHANGED vars
  <2> USE <1>2 DEF vars, gicVars, portVars, tasks, dispatch, clock, devices, driver
  <2>1. TaskInv' = TaskInv /\ IsrInv' = IsrInv
    BY DEF TaskInv, IsrInv
  <2>2. CpuInv' = CpuInv
    BY DEF CpuInv, Inside
  <2>3. GicInv' = GicInv
    BY DEF GicInv, IsHandled, BSP_IntHandler, DeviceOf
  <2>4. TimerInv' = TimerInv
    BY DEF TimerInv, TimerLine, Served, OldDeadline
  <2>5. DeviceInv' = DeviceInv
    BY DEF DeviceInv, Places, This
  <2>6. SearchInv' = SearchInv
    BY DEF SearchInv, Places, This, virtio_net_scan, Found
  <2>7. QED
    BY <2>1, <2>2, <2>3, <2>4, <2>5, <2>6 DEF BringUpInv
<1>3. QED
  BY <1>1, <1>2

LEMMA BringUpInvariant == Spec => []BringUpInv
  BY InitBringUpInv, NextKeepsBringUpInv, PTL DEF Spec

-----------------------------------------------------------------------------
(***************************************************************************)
(* What follows from it.                                                   *)
(***************************************************************************)

\* Every variable keeps its type, and interrupt handlers never nest, although each of
\* them enters and leaves a critical section.
THEOREM TypeCorrect == Spec => []TypeOK
<1>1. BringUpInv => TypeOK
  <2> SUFFICES ASSUME BringUpInv PROVE TypeOK
    OBVIOUS
  <2> USE DEF BringUpInv
  <2>1. /\ enabled \subseteq Sources /\ latched \subseteq Sources /\ active \subseteq Sources
        /\ bsp_int_vect_tbl \in [Sources -> {"NULL", "tick", "virtio_net"}]
    BY TheSources DEF GicInv
  <2>2. frame \in [Tasks -> [regs : Tasks, stack : Tasks, masked : BOOLEAN]]
    BY DEF CpuInv, OSTaskStkInit
  <2>3. regs \in Tasks \cup {Boot} /\ sp \in Stacks
    <3>1. CASE main # "gone"
      BY <3>1 DEF CpuInv, Stacks
    <3>2. CASE main = "gone"
      BY <3>2 DEF CpuInv, Stacks
    <3>3. QED
      BY <3>1, <3>2
  <2>4. QED
    BY <2>1, <2>2, <2>3 DEF TaskInv, CpuInv, TimerInv, DeviceInv, TypeOK
<1>2. QED
  BY <1>1, BringUpInvariant, PTL

\* Whatever interrupts it and however it lost the processor, a task continues with its own
\* registers, on its own stack and with interrupts enabled unless it is in a critical section.
THEOREM ContextStaysOwn == Spec => []ContextIsOwn
<1>1. BringUpInv => ContextIsOwn
  BY DEF BringUpInv, TaskInv, IsrInv, CpuInv, ContextIsOwn, Inside
<1>2. QED
  BY <1>1, BringUpInvariant, PTL

\* BSP_IntVectSet and driver_ok come before BSP_IntSrcEn, so that no interrupt is taken
\* that nobody would serve.
THEOREM EnabledStaysHandled == Spec => []EnabledIsHandled
<1>1. BringUpInv => EnabledIsHandled
  BY DEF BringUpInv, GicInv, EnabledIsHandled
<1>2. QED
  BY <1>1, BringUpInvariant, PTL

\* No deadline of the timer is counted twice, and none is lost.
THEOREM OneTickPerDeadline == Spec => []TickPerDeadline
<1>1. BringUpInv => TickPerDeadline
  BY DEF BringUpInv, TimerInv, TickPerDeadline
<1>2. QED
  BY <1>1, BringUpInvariant, PTL

\* A raised line of an enabled interrupt is never forgotten, whether the timer's interrupt
\* is level- or edge-triggered.
THEOREM LinesAreServed == Spec => []NoLineForgotten
<1>1. BringUpInv => NoLineForgotten
  <2> SUFFICES ASSUME BringUpInv, NEW id \in Asserted \cap enabled
               PROVE  \/ id \in level \cup latched
                      \/ int_id = id /\ isr \in {"handler", "tick", "mask"}
    BY DEF NoLineForgotten
  <2>1. CASE id \in TimerLine(timer)
    BY <2>1 DEF BringUpInv, TimerInv, TimerLine, Served
  <2>2. CASE id \notin TimerLine(timer)
    <3>1. id \in Spis
      BY <2>2, TheSources DEF Asserted, BringUpInv, DeviceInv
    <3>2. QED
      BY <3>1, TheSources DEF BringUpInv, GicInv
  <2>3. QED
    BY <2>1, <2>2
<1>2. QED
  BY <1>1, BringUpInvariant, PTL

-----------------------------------------------------------------------------
(***************************************************************************)
(* The search for the devices.  virtio_net_scan counts the candidates      *)
(* before a slot; the counts are those of an enumeration.                  *)
(***************************************************************************)
Before(s) == {t \in Found : t < s}
Rank(s) == Cardinality(Before(s))

LEMMA Least ==
  ASSUME NEW T, T \subseteq Nat, T # {}
  PROVE  \E x \in T : \A y \in T : x <= y
<1>1. PICK x \in T : \A y \in T : <<y, x>> \notin OpToRel(<, Nat)
  BY NatLessThanWellFounded, WFMin
<1>2. \A y \in T : ~(y < x)
  BY <1>1 DEF OpToRel
<1>3. QED
  BY <1>2

\* The slots have interrupts, and there are finitely many of these.
LEMMA SlotsAreFinite == IsFiniteSet(Slots) /\ Slots \subseteq Nat
<1>1. Slots \subseteq 1..MAX_INTERRUPTS
  BY TheSources, BringUpAssumption DEF IrqOf, MAX_INTERRUPTS, Sources
<1>2. MAX_INTERRUPTS \in Int
  BY DEF MAX_INTERRUPTS
<1>3. IsFiniteSet(1..MAX_INTERRUPTS)
  BY <1>2, FS_Interval
<1>4. Slots \in SUBSET (1..MAX_INTERRUPTS)
  BY <1>1
<1>5. IsFiniteSet(Slots)
  BY <1>3, <1>4, FS_Subset
<1>6. QED
  BY <1>5, BringUpAssumption

LEMMA RankType ==
  ASSUME NEW s \in Slots
  PROVE  Rank(s) \in Nat /\ IsFiniteSet(Before(s))
<1>1. Before(s) \subseteq Slots
  BY DEF Before, Found
<1>2. QED
  BY <1>1, SlotsAreFinite, FS_Subset, FS_CardinalityType DEF Rank

\* A later slot has more candidates before it than an earlier candidate.
LEMMA RankGrows ==
  ASSUME NEW s \in Found, NEW t \in Slots, s < t
  PROVE  Rank(s) < Rank(t)
<1>1. s \in Slots /\ s \in Nat /\ t \in Nat
  BY SlotsAreFinite DEF Found
<1>2. Before(s) \subseteq Before(t) /\ s \in Before(t) /\ s \notin Before(s)
  <2>1. \A r \in Found : r \in Nat
    BY SlotsAreFinite DEF Found
  <2>2. \A r \in Found : r < s => r < t
    BY <1>1, <2>1
  <2>3. Before(s) \subseteq Before(t)
    BY <2>2 DEF Before
  <2>4. ~(s < s)
    BY <1>1
  <2>5. s \in Before(t) /\ s \notin Before(s)
    BY <2>4 DEF Before
  <2>6. QED
    BY <2>3, <2>5
<1>3. /\ IsFiniteSet(Before(t)) /\ Cardinality(Before(s)) <= Cardinality(Before(t))
      /\ Cardinality(Before(s)) # Cardinality(Before(t))
  BY <1>2, RankType, FS_Subset
<1>4. QED
  BY <1>1, <1>3, RankType DEF Rank

\* Two candidates of the same rank are one.
LEMMA RankIsOwn ==
  ASSUME NEW s \in Found, NEW t \in Found, Rank(s) = Rank(t)
  PROVE  s = t
<1>1. s \in Slots /\ t \in Slots /\ s \in Nat /\ t \in Nat
  BY SlotsAreFinite DEF Found
<1>2. ~(s < t) /\ ~(t < s)
  BY <1>1, RankGrows, RankType
<1>3. QED
  BY <1>1, <1>2

\* No rank is left out.
LEMMA EveryRankFound ==
  ASSUME NEW n \in Nat, NEW u \in Found, Rank(u) >= n
  PROVE  virtio_net_scan(n) # {}
<1> DEFINE T == {t \in Found : Rank(t) >= n}
<1>1. \A t \in Found : t \in Slots /\ t \in Nat /\ Rank(t) \in Nat
  BY SlotsAreFinite, RankType DEF Found
<1>2. PICK m \in T : \A t \in T : m <= t
  BY <1>1, Least
<1>3. m \in Found /\ m \in Slots /\ m \in Nat /\ Rank(m) \in Nat /\ Rank(m) >= n
  BY <1>1, <1>2
<1> DEFINE f == [t \in Before(m) |-> Rank(t)]
<1>4. \A t \in Before(m) : t \in Found /\ Rank(t) \in 0..(n - 1)
  <2> SUFFICES ASSUME NEW t \in Before(m) PROVE t \in Found /\ Rank(t) \in 0..(n - 1)
    OBVIOUS
  <2>1. t \in Found /\ t < m
    BY DEF Before
  <2>2. t \notin T
    BY <1>1, <1>2, <1>3, <2>1
  <2>3. QED
    BY <1>1, <2>1, <2>2
<1>5. f \in Injection(Before(m), 0..(n - 1))
  BY <1>4, RankIsOwn DEF Injection, IsInjective
<1>6. IsFiniteSet(0..(n - 1)) /\ Cardinality(0..(n - 1)) = n
  BY FS_Interval
<1>7. Rank(m) <= n
  BY <1>5, <1>6, FS_Injection DEF Rank
<1>8. Rank(m) = n
  BY <1>3, <1>7
<1>9. QED
  BY <1>3, <1>8 DEF virtio_net_scan, Rank, Before

\* The devices in use are exactly the network devices before the first empty slot, as many
\* as there is room for: none is skipped, and none is counted that is not there.
THEOREM SearchFindsDevices == Spec => []DevicesFound
<1>1. BringUpInv => DevicesFound
  <2> DEFINE n == g_device_count
             slot(k) == g_devices[k].slot
             D == {s \in Found : Rank(s) < n}
  <2> SUFFICES ASSUME BringUpInv, pc[TASK_B_PRIO] \in Delaying
               PROVE  {slot(k) : k \in 1..n}
                        = {s \in Leading : Cardinality({t \in Leading : t < s}) < Places}
    BY DEF DevicesFound, Delaying
  <2>1. n \in Nat /\ Places \in Nat /\ n <= Places /\ Len(g_devices) \in n..(n + 1)
    BY BringUpAssumption DEF BringUpInv, DeviceInv, Places
  <2>2. \A s \in Found : s \in Slots /\ s \in Nat /\ Rank(s) \in Nat
    BY SlotsAreFinite, RankType DEF Found
  <2>3. \A i : \A s \in virtio_net_scan(i) : s \in Found /\ Rank(s) = i
    BY DEF virtio_net_scan, Rank, Before
  <2>4. \A k \in 1..n : slot(k) \in virtio_net_scan(k - 1) /\ slot_content[slot(k)] = "net"
    <3> SUFFICES ASSUME NEW k \in 1..n
                 PROVE  slot(k) \in virtio_net_scan(k - 1) /\ slot_content[slot(k)] = "net"
      OBVIOUS
    <3>1. /\ slot_content[slot(k)] = "net"
          /\ \/ slot(k) \in virtio_net_scan(k - 1)
             \/ virtio_net_scan(0) = {} /\ slot(k) = 1
      BY <2>1 DEF BringUpInv, SearchInv
    <3>2. CASE virtio_net_scan(0) = {} /\ slot(k) = 1
      <4>1. 1 \in Found
        BY <3>1, <3>2, BringUpAssumption DEF Found
      <4>2. QED
        BY <2>2, <3>2, <4>1, EveryRankFound
    <3>3. QED
      BY <3>1, <3>2
  <2>5. \A s \in D : slot(Rank(s) + 1) = s /\ Rank(s) + 1 \in 1..n
    <3> SUFFICES ASSUME NEW s \in D
                 PROVE  slot(Rank(s) + 1) = s /\ Rank(s) + 1 \in 1..n
      OBVIOUS
    <3>1. Rank(s) + 1 \in 1..n /\ (Rank(s) + 1) - 1 = Rank(s)
      BY <2>1, <2>2
    <3>2. slot(Rank(s) + 1) \in virtio_net_scan(Rank(s))
      BY <2>4, <3>1
    <3>3. QED
      BY <2>3, <3>1, <3>2, RankIsOwn
  <2>6. {slot(k) : k \in 1..n} = D
    <3>1. \A k \in 1..n : slot(k) \in D
      BY <2>1, <2>3, <2>4
    <3>2. QED
      BY <2>5, <3>1
  <2>7. \A s \in D : s \in Leading
    <3> SUFFICES ASSUME NEW s \in D PROVE s \in Leading
      OBVIOUS
    <3>1. \A t \in D : slot_content[t] = "net"
      BY <2>4, <2>5
    <3>2. ASSUME NEW t \in Slots, t < s, slot_content[t] = "empty"
          PROVE  FALSE
      <4>1. t \in Found
        BY <3>2 DEF Found
      <4>2. t \in D
        BY <2>1, <2>2, <3>2, <4>1, RankGrows
      <4>3. QED
        BY <3>1, <3>2, <4>2
    <3>3. QED
      BY <2>2, <3>1, <3>2 DEF Leading
  <2>8. \A s \in Leading : s \in Found /\ {t \in Leading : t < s} = Before(s)
    <3> SUFFICES ASSUME NEW s \in Leading
                 PROVE  s \in Found /\ {t \in Leading : t < s} = Before(s)
      OBVIOUS
    <3>1. Leading \subseteq Found
      BY DEF Leading, Found
    <3>2. \A t \in Before(s) : t \in Leading
      BY SlotsAreFinite DEF Before, Leading, Found
    <3>3. QED
      BY <3>1, <3>2 DEF Before
  <2>9. \A s \in Leading : Rank(s) < Places => Rank(s) < n
    <3> SUFFICES ASSUME NEW s \in Leading, Rank(s) < Places, Rank(s) >= n
                 PROVE  FALSE
      BY <2>1, <2>2, <2>8
    <3>1. s \in Found /\ s \in Nat /\ Rank(s) \in Nat
      BY <2>2, <2>8
    <3>2. virtio_net_scan(n) # {}
      BY <2>1, <3>1, EveryRankFound
    <3>3. Len(g_devices) = n + 1 /\ slot_content[slot(n + 1)] # "net"
      BY <2>1, <3>1, <3>2 DEF BringUpInv, SearchInv, This
    <3>4. \/ slot(n + 1) \in virtio_net_scan(n)
          \/ n = 0 /\ virtio_net_scan(0) = {}
      BY <2>1, <3>3 DEF BringUpInv, SearchInv
    <3>5. slot(n + 1) \in Found /\ Rank(slot(n + 1)) = n
      BY <2>3, <3>2, <3>4
    <3>6. slot_content[slot(n + 1)] = "empty" /\ slot(n + 1) \in Slots
      BY <3>3, <3>5 DEF Found
    <3>7. ~(slot(n + 1) < s) /\ slot(n + 1) # s
      BY <3>3, <3>6 DEF Leading
    <3>8. ~(s < slot(n + 1))
      BY <2>1, <3>1, <3>5, <3>6, RankGrows
    <3>9. slot(n + 1) \in Nat
      BY <2>2, <3>5
    <3>10. QED
      BY <3>1, <3>7, <3>8, <3>9
  <2>10. D = {s \in Leading : Rank(s) < Places}
    BY <2>1, <2>2, <2>7, <2>8, <2>9
  <2>11. \A s \in Leading : Cardinality({t \in Leading : t < s}) = Rank(s)
    BY <2>8 DEF Rank
  <2>12. QED
    BY <2>6, <2>10, <2>11
<1>2. QED
  BY <1>1, BringUpInvariant, PTL

=============================================================================
