------------------------------- MODULE BringUp -------------------------------
(***************************************************************************)
(* From reset to the running system, and every interrupt on the way:       *)
(* main, the two start-up tasks (task A starts the tick timer, task B      *)
(* finds and initialises the network devices), the tick timer, the         *)
(* devices' interrupt lines and the dispatch of interrupts.                *)
(*                                                                         *)
(* Of the kernel only the ready list matters here; which delays a tick     *)
(* ends is left open.                                                      *)
(***************************************************************************)
EXTENDS Gic, CpuPort, Sequences

CONSTANTS
  TASK_A_PRIO, TASK_B_PRIO, OS_TASK_IDLE_PRIO,
  VIRTIO_NET_MAX_DEVICES,
  Slots,             \* the slots that virtio_net_scan looks at, in order, from 1
  Contents           \* what each slot may hold: "net", "other" or "empty"

IrqOf(slot) == 47 + slot

ASSUME BringUpAssumption ==
  /\ Tasks = {TASK_A_PRIO, TASK_B_PRIO, OS_TASK_IDLE_PRIO}
  /\ TASK_A_PRIO < TASK_B_PRIO /\ TASK_B_PRIO < OS_TASK_IDLE_PRIO
  /\ 1 \in Slots /\ Slots \subseteq Nat \ {0} /\ Spis = {IrqOf(s) : s \in Slots}
  /\ VIRTIO_NET_MAX_DEVICES \in Nat \ {0}

VARIABLES
  main,              \* where main is
  pc,                \* where each task is
  ready,             \* the ready list
  isr, int_id,       \* where irq_dispatch is, and for which interrupt
  timer,             \* CNTV_CTL and whether the deadline has passed
  unticked,          \* deadlines that have passed without an OSTimeTick
  all,               \* whether the program calls virtio_net_init_all or virtio_net_init
  slot_content,      \* of each slot
  driver_ok_status,  \* the devices that have been told DRIVER_OK
  interrupt_status,  \* the devices that raise their line
  g_devices,         \* slot and driver_ok of the devices initialised so far
  g_device_count

tasks == <<main, pc, ready>>
dispatch == <<isr, int_id>>
clock == <<timer, unticked>>
devices == <<slot_content, driver_ok_status, interrupt_status>>
driver == <<all, g_devices, g_device_count>>
vars == <<gicVars, portVars, tasks, dispatch, clock, devices, driver>>

Init ==
  /\ GicReset
  /\ PortInit
  /\ main = "gic_init"
  /\ pc = [p \in Tasks |-> IF p = TASK_A_PRIO THEN "vect"
                           ELSE IF p = TASK_B_PRIO THEN "scan" ELSE "loop"]
  /\ ready = Tasks
  /\ isr = "none" /\ int_id = 0
  /\ timer = [enable |-> FALSE, imask |-> FALSE, passed |-> TRUE]
  /\ unticked = 0
  /\ slot_content \in [Slots -> Contents]
  /\ driver_ok_status = {} /\ interrupt_status = {}
  /\ all \in BOOLEAN
  /\ g_devices = <<>>
  /\ g_device_count = 0

Highest == CHOOSE p \in ready : \A q \in ready : p <= q

-----------------------------------------------------------------------------
(***************************************************************************)
(* Interrupt lines.                                                        *)
(***************************************************************************)
TimerLine(t) == IF t.enable /\ t.passed /\ ~t.imask THEN {TIMER_INTERRUPT_ID} ELSE {}

Asserted == TimerLine(timer) \cup {IrqOf(s) : s \in interrupt_status}

\* The deadline passes; CNTV_CTL.ISTATUS stays set until the next one is written.  (The
\* one that is there after a reset has passed.)
TimerExpires ==
  /\ timer.enable /\ ~timer.passed
  /\ timer' = [timer EXCEPT !.passed = TRUE]
  /\ unticked' = unticked + 1
  /\ Lines(TimerLine(timer), TimerLine(timer'))
  /\ UNCHANGED <<portVars, tasks, dispatch, devices, driver>>

DeviceRaises(s) ==
  /\ s \in driver_ok_status \ interrupt_status
  /\ interrupt_status' = interrupt_status \cup {s}
  /\ Lines({}, {IrqOf(s)})
  /\ UNCHANGED <<portVars, tasks, dispatch, clock, slot_content, driver_ok_status, driver>>

\* Fault: the interrupt is not masked while the deadline is written.
TimerWriteUnmasked(step) ==
  /\ timer' = IF step = "load" THEN [timer EXCEPT !.passed = FALSE]
              ELSE [timer EXCEPT !.enable = TRUE, !.imask = FALSE]
  /\ Lines(TimerLine(timer), TimerLine(timer'))

\* BSP_OS_VirtTimerReload: mask, write the deadline, unmask.
TimerWrite(step) ==
  /\ timer' = CASE step = "mask" -> [timer EXCEPT !.enable = TRUE, !.imask = TRUE]
                [] step = "load" -> [timer EXCEPT !.passed = FALSE]
                [] step = "unmask" -> [timer EXCEPT !.imask = FALSE]
  /\ Lines(TimerLine(timer), TimerLine(timer'))

AfterWrite(step) == IF step = "mask" THEN "load" ELSE "unmask"

-----------------------------------------------------------------------------
(***************************************************************************)
(* main.                                                                   *)
(***************************************************************************)
MainGicInit ==
  /\ main = "gic_init"
  /\ gic_init
  /\ main' = "daifclr"
  /\ UNCHANGED <<portVars, pc, ready, dispatch, clock, devices, driver>>

\* OSInit and the creation of the tasks change nothing that an interrupt sees.
MainUnmask ==
  /\ main = "daifclr"
  /\ masked' = FALSE
  /\ main' = "OSStart"
  /\ UNCHANGED <<gicVars, regs, sp, frame, OSTCBCur, OSIntNesting, cpu_sr, pc, ready,
                 dispatch, clock, devices, driver>>

MainStart ==
  /\ main = "OSStart" /\ isr = "none"
  /\ OSStartHighRdy(Highest)
  /\ main' = "gone"
  /\ UNCHANGED <<gicVars, pc, ready, dispatch, clock, devices, driver>>

-----------------------------------------------------------------------------
(***************************************************************************)
(* The tasks.                                                              *)
(***************************************************************************)
At(p, label) == main = "gone" /\ isr = "none" /\ OSTCBCur = p /\ pc[p] = label

Goto(p, label) == pc' = [pc EXCEPT ![p] = label]

AVect ==
  /\ At(TASK_A_PRIO, "vect")
  /\ BSP_IntVectSet(TIMER_INTERRUPT_ID, "tick")
  /\ Goto(TASK_A_PRIO, "srcen")
  /\ UNCHANGED <<portVars, main, ready, dispatch, clock, devices, driver>>

ASrcEn ==
  /\ At(TASK_A_PRIO, "srcen")
  /\ BSP_IntSrcEn(TIMER_INTERRUPT_ID)
  /\ Goto(TASK_A_PRIO, "mask")
  /\ UNCHANGED <<portVars, main, ready, dispatch, clock, devices, driver>>

\* BSP_OS_TmrTickInit.
AStartsTimer(step) ==
  /\ At(TASK_A_PRIO, step)
  /\ TimerWrite(step)
  /\ Goto(TASK_A_PRIO, IF step = "unmask" THEN "loop" ELSE AfterWrite(step))
  /\ UNCHANGED <<portVars, main, ready, dispatch, unticked, devices, driver>>

\* A task delays itself.  OSTimeDly takes it off the ready list, and OS_Sched switches
\* with interrupts masked.
Delay(p) ==
  /\ p # OS_TASK_IDLE_PRIO
  /\ At(p, "loop")
  /\ ready' = ready \ {p}
  /\ Goto(p, "sched")
  /\ UNCHANGED <<gicVars, portVars, main, dispatch, clock, devices, driver>>

SchedEnter(p) ==
  /\ At(p, "sched")
  /\ OS_ENTER_CRITICAL(p)
  /\ Goto(p, "switch")
  /\ UNCHANGED <<gicVars, main, ready, dispatch, clock, devices, driver>>

SchedSwitch(p) ==
  /\ At(p, "switch")
  /\ IF Highest # p THEN OSCtxSw(Highest) ELSE UNCHANGED portVars
  /\ Goto(p, "leave")
  /\ UNCHANGED <<gicVars, main, ready, dispatch, clock, devices, driver>>

SchedLeave(p) ==
  /\ At(p, "leave")
  /\ OS_EXIT_CRITICAL(p)
  /\ Goto(p, "loop")
  /\ UNCHANGED <<gicVars, main, ready, dispatch, clock, devices, driver>>

\* OS_TaskIdle counts inside a critical section.
IdleEnters ==
  /\ At(OS_TASK_IDLE_PRIO, "loop")
  /\ OS_ENTER_CRITICAL(OS_TASK_IDLE_PRIO)
  /\ Goto(OS_TASK_IDLE_PRIO, "count")
  /\ UNCHANGED <<gicVars, main, ready, dispatch, clock, devices, driver>>

IdleLeaves ==
  /\ At(OS_TASK_IDLE_PRIO, "count")
  /\ OS_EXIT_CRITICAL(OS_TASK_IDLE_PRIO)
  /\ Goto(OS_TASK_IDLE_PRIO, "loop")
  /\ UNCHANGED <<gicVars, main, ready, dispatch, clock, devices, driver>>

-----------------------------------------------------------------------------
(***************************************************************************)
(* virtio_net_init_all or virtio_net_init, on task B.                      *)
(***************************************************************************)
Found == {s \in Slots : slot_content[s] \in {"net", "empty"}}

\* Fault: the slots of other devices are counted.
ScanBySlot(index) == {s \in Found : Cardinality({t \in Slots : t < s}) = index}

\* virtio_net_scan: the slot with so many others of its kind before it.
virtio_net_scan(index) == {s \in Found : Cardinality({t \in Found : t < s}) = index}

BAt(label) == At(TASK_B_PRIO, label)
This == Len(g_devices)

\* virtio_net_init wants one device.
Places == IF all THEN VIRTIO_NET_MAX_DEVICES ELSE 1

\* virtio_net_init falls back on the first slot when it finds nothing.
Candidates ==
  LET found == virtio_net_scan(g_device_count)
  IN IF found = {} /\ ~all THEN {1} ELSE found

\* Nothing more is found, or all places are taken: the task goes on.
BScanEnds ==
  /\ BAt("scan")
  /\ g_device_count = Places \/ Candidates = {}
  /\ Goto(TASK_B_PRIO, "loop")
  /\ UNCHANGED <<gicVars, portVars, main, ready, dispatch, clock, devices, driver>>

\* The device's record is filled and the device is reset.
BInitDevice ==
  /\ BAt("scan")
  /\ g_device_count < Places
  /\ \E s \in Candidates :
       g_devices' = Append(g_devices, [slot |-> s, driver_ok |-> FALSE])
  /\ Goto(TASK_B_PRIO, "queues")
  /\ UNCHANGED <<gicVars, portVars, main, ready, dispatch, clock, devices, all, g_device_count>>

\* A device of another kind is refused, virtio_net_configure_queue finds no queue in an
\* empty slot, and the search ends.
BQueues ==
  /\ BAt("queues")
  /\ Goto(TASK_B_PRIO, IF slot_content[g_devices[This].slot] = "net" THEN "status" ELSE "loop")
  /\ UNCHANGED <<gicVars, portVars, main, ready, dispatch, clock, devices, driver>>

\* VIRTIO_STATUS_DRIVER_OK: the device may work from now on.
BStatus ==
  /\ BAt("status")
  /\ driver_ok_status' = driver_ok_status \cup {g_devices[This].slot}
  /\ Goto(TASK_B_PRIO, "driver_ok")
  /\ UNCHANGED <<gicVars, portVars, main, ready, dispatch, clock, slot_content,
                 interrupt_status, driver>>

BDriverOk ==
  /\ BAt("driver_ok")
  /\ g_devices' = [g_devices EXCEPT ![This].driver_ok = TRUE]
  /\ Goto(TASK_B_PRIO, "vect")
  /\ UNCHANGED <<gicVars, portVars, main, ready, dispatch, clock, devices, all, g_device_count>>

BVect ==
  /\ BAt("vect")
  /\ BSP_IntVectSet(IrqOf(g_devices[This].slot), "virtio_net")
  /\ Goto(TASK_B_PRIO, "srcen")
  /\ UNCHANGED <<portVars, main, ready, dispatch, clock, devices, driver>>

BSrcEn ==
  /\ BAt("srcen")
  /\ BSP_IntSrcEn(IrqOf(g_devices[This].slot))
  /\ Goto(TASK_B_PRIO, "count")
  /\ UNCHANGED <<portVars, main, ready, dispatch, clock, devices, driver>>

BCount ==
  /\ BAt("count")
  /\ g_device_count' = g_device_count + 1
  /\ Goto(TASK_B_PRIO, "scan")
  /\ UNCHANGED <<gicVars, portVars, main, ready, dispatch, clock, devices, all, g_devices>>

-----------------------------------------------------------------------------
(***************************************************************************)
(* OS_CPU_ARM_ExceptIrqHndlr and irq_dispatch.                             *)
(***************************************************************************)
IsrGoto(label) == isr' = label /\ UNCHANGED int_id

TakeIrq ==
  /\ Signalled(Asserted) # {}
  /\ IrqEntry
  /\ IsrGoto("acknowledge")
  /\ UNCHANGED <<gicVars, tasks, clock, devices, driver>>

Acknowledge(id) ==
  /\ isr = "acknowledge"
  /\ gic_acknowledge(Asserted, id)
  /\ int_id' = id
  /\ isr' = IF id >= GIC_SPURIOUS_BASE THEN "exit" ELSE "handler"
  /\ UNCHANGED <<portVars, tasks, clock, devices, driver>>

\* Fault: only the devices that are counted already.
DeviceOfCounted(id) == {k \in 1..g_device_count : IrqOf(g_devices[k].slot) = id}

\* The device that virtio_net_interrupt_handler finds for an interrupt.
DeviceOf(id) == {k \in 1..Len(g_devices) : IrqOf(g_devices[k].slot) = id}

IsHandled(id) ==
  \/ BSP_IntHandler(id) = "tick"
  \/ BSP_IntHandler(id) = "virtio_net" /\ \E k \in DeviceOf(id) : g_devices[k].driver_ok

\* An interrupt without a handler, or without a device that is ready, is only ended.
HandlerCalled ==
  /\ isr = "handler"
  /\ IF IsHandled(int_id)
       THEN OS_ENTER_CRITICAL(Except) /\ IsrGoto(BSP_IntHandler(int_id))
       ELSE UNCHANGED portVars /\ IsrGoto("eoi")
  /\ UNCHANGED <<gicVars, tasks, clock, devices, driver>>

\* BSP_OS_TmrTickHandler: OSTimeTick ends the delays of some tasks.
Tick ==
  /\ isr = "tick"
  /\ \E woken \in SUBSET Tasks : ready' = ready \cup woken
  /\ unticked' = unticked - 1
  /\ OS_EXIT_CRITICAL(Except)
  /\ IsrGoto("mask")
  /\ UNCHANGED <<gicVars, main, pc, timer, devices, driver>>

\* Fault: the deadline that has passed stays.
TickReloadNothing(step) ==
  /\ isr = step
  /\ IsrGoto("eoi")
  /\ UNCHANGED <<gicVars, portVars, tasks, clock, devices, driver>>

TickReload(step) ==
  /\ isr = step
  /\ TimerWrite(step)
  /\ IsrGoto(IF step = "unmask" THEN "eoi" ELSE AfterWrite(step))
  /\ UNCHANGED <<portVars, tasks, unticked, devices, driver>>

\* virtio_net_interrupt_handler posts rx_sem and acknowledges the device.
VirtioNet ==
  /\ isr = "virtio_net"
  /\ interrupt_status' = interrupt_status \ {g_devices[k].slot : k \in DeviceOf(int_id)}
  /\ OS_EXIT_CRITICAL(Except)
  /\ IsrGoto("eoi")
  /\ UNCHANGED <<gicVars, tasks, clock, slot_content, driver_ok_status, driver>>

EndInterrupt ==
  /\ isr = "eoi"
  /\ gic_end_interrupt(int_id)
  /\ IsrGoto("exit")
  /\ UNCHANGED <<portVars, tasks, clock, devices, driver>>

\* OSIntExit and the return to a task.
LeaveIrq ==
  /\ isr = "exit"
  /\ IrqExit(Highest)
  /\ IsrGoto("none")
  /\ UNCHANGED <<gicVars, tasks, clock, devices, driver>>

-----------------------------------------------------------------------------
Start == MainGicInit \/ MainUnmask \/ MainStart

ReloadSteps == {"mask", "load", "unmask"}

TaskA == AVect \/ ASrcEn \/ \E step \in ReloadSteps : AStartsTimer(step)

TaskB ==
  \/ BScanEnds \/ BInitDevice \/ BQueues \/ BStatus \/ BDriverOk
  \/ BVect \/ BSrcEn \/ BCount

Idle == IdleEnters \/ IdleLeaves

Sched(p) == SchedEnter(p) \/ SchedSwitch(p) \/ SchedLeave(p)

Dispatch ==
  \/ \E id \in Sources \cup {GIC_SPURIOUS_BASE + 3} : Acknowledge(id)
  \/ HandlerCalled \/ Tick
  \/ \E step \in ReloadSteps : TickReload(step)
  \/ VirtioNet \/ EndInterrupt \/ LeaveIrq

Next ==
  \/ TimerExpires \/ \E s \in Slots : DeviceRaises(s)
  \/ Start \/ TaskA \/ TaskB \/ Idle
  \/ \E p \in Tasks : Delay(p) \/ Sched(p)
  \/ TakeIrq \/ Dispatch

Spec == Init /\ [][Next]_vars

-----------------------------------------------------------------------------
(***************************************************************************)
(* Properties.                                                             *)
(***************************************************************************)

\* Every variable has its type; in particular handlers do not nest, although each of
\* them leaves a critical section.
TypeOK ==
  /\ enabled \subseteq Sources /\ latched \subseteq Sources /\ active \subseteq Sources
  /\ bsp_int_vect_tbl \in [Sources -> {"NULL", "tick", "virtio_net"}]
  /\ masked \in BOOLEAN
  /\ regs \in Tasks \cup {Boot} /\ sp \in Stacks
  /\ frame \in [Tasks -> [regs : Tasks, stack : Tasks, masked : BOOLEAN]]
  /\ OSTCBCur \in Tasks \cup {NULL}
  /\ OSIntNesting = IF isr = "none" THEN 0 ELSE 1
  /\ ready \subseteq Tasks /\ all \in BOOLEAN
  /\ timer \in [enable : BOOLEAN, imask : BOOLEAN, passed : BOOLEAN]
  /\ interrupt_status \subseteq driver_ok_status /\ driver_ok_status \subseteq Slots
  /\ Len(g_devices) \in g_device_count..(g_device_count + 1)
  /\ g_device_count \in 0..Places

\* No interrupt comes before there is a task to save; and a task always continues with
\* its own registers on its own stack, whichever way it lost the processor, and with
\* interrupts enabled unless it is inside OS_Sched or, the idle task, counts.
ContextIsOwn ==
  IF isr # "none" THEN OSTCBCur # NULL
  ELSE main = "gone" =>
    /\ regs = OSTCBCur /\ sp = OSTCBCur
    /\ masked => \/ pc[OSTCBCur] \in {"switch", "leave"}
                 \/ OSTCBCur = OS_TASK_IDLE_PRIO /\ pc[OSTCBCur] = "count"

\* An interrupt that is taken has a handler, and its device is ready: otherwise a
\* level-triggered line would stay up and no task would ever run again.
EnabledIsHandled == isr = "handler" => IsHandled(int_id)

\* There is one OSTimeTick for each deadline of the timer, during the start too.
TickPerDeadline == unticked \in 0..1 /\ (unticked = 1 => timer.passed)

\* The network devices before the first empty slot.
Leading == {s \in Slots : slot_content[s] = "net"
                           /\ \A t \in Slots : t < s => slot_content[t] # "empty"}

\* When the search has ended, the devices in use are those, in their order, as many as
\* there is room for.
DevicesFound ==
  pc[TASK_B_PRIO] \in {"loop", "sched", "switch", "leave"} =>
    {g_devices[k].slot : k \in 1..g_device_count} =
      {s \in Leading : Cardinality({t \in Leading : t < s}) < Places}

\* A line that is raised is signalled, or will be when the active interrupt has ended,
\* unless its handler is about to lower it; also that of an edge-triggered timer whose
\* deadline passes during the reload.  Otherwise the ticks would stop for ever.
NoLineForgotten ==
  \A id \in Asserted \cap enabled :
    \/ id \in level \cup latched
    \/ int_id = id /\ isr \in {"handler", "tick", "mask"}

=============================================================================
