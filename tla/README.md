# A TLA+ development of the uC/OS-II ARM64 gateway

This directory specifies the program in `../src`: uC/OS-II on one ARMv8-A core
of QEMU's `virt` board, with a VirtIO network driver and a small NAT gateway as
its application. The specifications are written from the C and assembly code;
each definition and the lines it models are listed under "map" in
`PROJECT.json`. TLC checks the modules on the small instances of the `.cfg`
files; TLAPS proves the theorems of the eight `*Proofs` modules for every value of
the constants.

Paths below are relative to the repository; `ucosii/`, `bsp/` and `port/` stand
for `src/ucosii/source/`, `src/bsp/` and `src/port/`.

## 1. Inventory

### Components

| Component | State | Operations | What makes it correct |
|---|---|---|---|
| Scheduler core (`ucosii/os_core.c`) | `OSRdyGrp/OSRdyTbl`, `OSPrioCur`, `OSIntNesting`, `OSLockNesting`, TCB tables and lists | `OSInit`, `OSStart`, `OS_Sched`, `OSIntEnter/Exit`, `OSTimeTick`, `OSSchedLock/Unlock`, event wait lists, `OS_TCBInit` | the highest ready task runs; the group byte agrees with the table; TCBs are neither shared nor lost |
| Tasks (`os_task.c`) | status and priority table entry of a TCB | `OSTaskCreate`, `OSTaskSuspend`, `OSTaskResume` | a task is ready exactly when no wait, delay or suspension holds it |
| Time (`os_time.c`) | `OSTCBDly`, `OSTime` | `OSTimeDly`, `OSTimeDlyHMSM`, the tick | a delay or timeout ends |
| Semaphores (`os_sem.c`) | count, wait list | `OSSemCreate`, `Accept`, `Pend`, `Post` | no token lost, invented or left beside a waiter |
| ARMv8-A port (`port/os_cpu_a.S`, `os_cpu_c.c`) | frames, stack in use, interrupt mask, `OSTCBCur` | `OSTaskStkInit`, `OSStartHighRdy`, `OSCtxSw`, interrupt entry and exit, `OSIntCtxSw`, critical sections | a task continues with its own context, whichever way it lost the processor |
| GIC, timer, dispatch (`bsp/gic.c`, `bsp_os.c`, `bsp_int.c`, `src/src/irq.c`) | enabled, pending, active interrupts, handler table, timer registers | `gic_init`, enable, acknowledge, dispatch, end of interrupt, timer reload | every interrupt is handled; no tick is lost or counted twice; handlers do not nest |
| Start-up (`src/src/main.c`) | - | `main`, the two start-up tasks | no interrupt before there is a task to save |
| VirtIO discovery (`bsp/virtio_net.c`) | device table, `g_device_count` | `virtio_net_scan`, `init_device`, `init_all`, `init` | the devices in use are the right ones, each with a handler before it interrupts |
| VirtIO receive path (`bsp/virtio_net.c`) | avail and used ring, completion queue, `rx_sem`, `g_rx_global_sem` | interrupt handler, `has_pending`, `peek`, `release`, `flush`, `wait`, `poll_frame_dev`, `wait_rx_any` | frames arrive once and in order, buffers are conserved, the task does not sleep beside a frame |
| VirtIO transmit path (`bsp/virtio_net.c`) | avail and used ring, `tx_last_used`, `tx_batch_count` | `send_frame_dev`, `tx_flush_dev` | an accepted frame goes out once, unchanged; no buffer is reused early; no frame stays behind |
| NAT table (`bsp/nat.c`) | 64 entries, two hash tables, the next port | `nat_translate_outbound`, `_inbound`, `nat_cleanup_expired` | an open session has one entry and one port; replies find it; it expires in time |
| ARP cache (`bsp/nat.c`) | 32 entries | `arp_cache_add`, `_lookup` (`_cleanup` has no caller) | a lookup answers with what was learned for that address |
| Network demo (`src/src/net_demo.c`) | peer addresses, frames under way | receive loop, `net_demo_process_frame`, main loop | replies reach the host that asked; nothing of the LAN shows outside; frames go to the right link address; a retry gets through |
| UART, MMU, caches, library, tests, reference port | - | pure I/O, attributes, or not part of the program | - |

### How they interact

* `main` initialises the GIC, unmasks interrupts, creates the two start-up tasks and
  starts the kernel. Task A (priority 3) installs the tick handler and starts the
  timer; task B (4) searches for the devices, initialises them and becomes the main
  loop of the network demo.
* An interrupt saves the frame of the current task, goes through the GIC and the
  handler table to its handler, and leaves through `OSIntExit`, which may switch to
  another task. The timer's handler calls `OSTimeTick`, which ends delays and timeouts.
* The interrupt handler of a VirtIO device moves entries of the used ring into a
  completion queue and posts `rx_sem`; `net_rx_task` pends on it, reads the frame
  in place, gives the buffer back and flushes.
* `net_rx_task` exists once per device (LAN priority 5, WAN 6). Each call of
  `net_demo_process_frame` may learn into the ARP cache, translate in the NAT
  table and send on the other device. `net_demo_run` (priority 4) sends ARP
  requests and pings and cleans the NAT table once a second.
* So three tasks of different priority share the transmit queues, and two or
  three of them the NAT table and the ARP cache, with no semaphore and no
  critical section. The rule that keeps most of it together is priority: a task
  is interrupted only by a higher one, which runs its calls to the end.

### What is hard

Interrupts between any two critical sections of a service; a post that meets a
waiter already timed out or suspended; a task made ready while the scheduler is
locked or a handler runs; the frame that an interrupt saves and the one it restores
belonging to different tasks; interrupts that come before their handler or their
task exists; a deadline that passes while the timer is reloaded; free-running
16-bit indices beside indices modulo the queue size; a device that runs in parallel
and is signalled and notified over edge-like registers; notifications suppressed in
batches; tables shared without critical sections; entries that expire while they are
being used. `PROJECT.json` lists each under "hazards" with its line and the properties
that would catch it.

## 2. Modules

| Module | Models | Abstract specification |
|---|---|---|
| `PrioList` | a bit table with its group byte: insert, remove, look up the least | - |
| `UcosKernel` | the kernel: scheduler, tasks, time, semaphores, interrupts | `CountingSemaphore` |
| `CpuPort` | the frames, the mask and the context switches of the ARMv8-A port | - |
| `Gic` | the interrupt controller and the handler table | - |
| `BringUp` | reset, start-up, timer, devices, dispatch; extends `Gic` and `CpuPort` | - |
| `VirtioNetRx` | device, interrupt handler and reader of one interface | `RxFifo` |
| `VirtioNetTx` | device and sending tasks of one interface | `TxFifo` |
| `Nat` | the NAT table with its three tasks and the clock | `NatSessions` |
| `ArpCache` | the ARP cache with its receive tasks and the clock | `ArpBindings` |
| `Gateway` | the network demo, with the NAT table and the ARP cache that its tasks share | - |
| `UcosKernelProofs`, `UcosServiceProofs` | theorems about `PrioList` and `UcosKernel` | |
| `BringUpProofs`, `VirtioNetRxProofs`, `VirtioNetTxProofs`, `NatProofs`, `ArpCacheProofs`, `GatewayProofs` | theorems about the module of the name | |
| `MC...` | the constants of the instances TLC checks | |

**UcosKernel.** A task is identified by its priority, as in uC/OS-II. One step is
one critical section (interrupts masked), since only then can nothing else
happen; between two steps of a task the action `IrqEnter` may come, and through
`OSIntExit` a switch to another task. `pc[p]` holds where a preempted task goes
on: before `OS_Sched`'s own critical section, back in `OSSemPend`, or between the
four critical sections of `OSTaskCreate`/`OS_TCBInit`. `IsrPost` is a post from a
handler; handlers do not nest because IRQs stay masked in them (`BringUp` shows
that). A task may call any service with any argument of the instance, except two
uses that the code accepts and cannot handle, which the constant `Unruly` switches
on: a pend with the scheduler locked, and a suspension of a task whose TCB is
published and not yet linked. The run leaves them out; the theorems of section 4 that do
not assume `Unruly = {}` hold with them too. `TicksOf` is the conversion of `OSTimeDlyHMSM`, with
its rounding and its limits. `OSTime` itself is in `Nat`: nothing in the kernel reads it.

**CpuPort, Gic, BringUp.** Registers are abstracted to whose they are, and a frame to
whose registers and stack it holds and whether interrupts were masked. `Gic` gives
each source a line, a latch if it is edge-triggered, and one active interrupt at a
time. `BringUp` lets interrupts come at every step from reset on, with the timer's
registers written one by one. Of the kernel only the ready list matters there, so
which delays a tick ends is left open, and so is the trigger type of the timer's
interrupt: `gic_init` makes it edge-triggered, and under KVM it is level-triggered
whatever is written. Feature negotiation, which succeeds or ends the search, and the
ring addresses are not told apart; an empty slot is a device without queues. `all` chooses
between the two ways in: `virtio_net_init_all`, which the demo calls, and
`virtio_net_init` of the test programs, which takes one device and falls back on the first
slot when the search finds none.

**VirtioNetRx.** The device's steps interleave with everything; the handler
excludes the task but not the device, so each look at `used->idx` is a step.
The reader is either `net_rx_task`, which reads a frame in place and flushes after the
burst, or a task that polls as the test programs do (`virtio_net_poll_frame_dev` copies
the frame, `virtio_net_wait_rx_any` sleeps with a timeout). `OtherTaskFlush` is the
receive task of the other interface, which notifies both devices. `Runts` are frames
that leave no payload after the VirtIO header. `interrupt_status` is bit 0, which the
device sets and `INTERRUPT_ACK` clears; transmit completions set it too.

**VirtioNetTx.** `send_frame_dev` has no critical section, so a step is one access
to shared data; `tx_batch_count++` is a load and a store. Tasks have fixed
priorities: a task steps only while those above it sleep. `Flushers` are the
tasks that call `tx_flush_dev` before they sleep.

**Nat.** `nat_cleanup_expired` is called by the task of the highest priority and so
is one step, between any two steps of the others. The writes of a new entry
(active; session and port; time; timeout; buckets) are separate steps. An inbound
call steps only while no outbound call is under way. Addresses are model values;
the hash of a session is that of its LAN port.

**ArpCache.** Addresses are copied byte by byte: an IP address half written equals
no other, a link address has two halves. `learned` is a history variable.

**Gateway.** The two receive tasks and the main loop, with the priorities that decide
who may run between whose steps. A frame is a record of the fields that decisions and
translations read: protocol, kind, source, destination, and the port that translation
changes. Which sessions are open follows `NatSessions` (`Table == INSTANCE NatSessions`),
which `Nat` implements. The main loop does not touch the ARP cache, and its cleanup only
closes sessions, so a table call of the LAN task is one step. The WAN task's are not,
because the LAN task and the cleanup come in between:

* `arp_cache_add` is `ChooseEntry`, `ClaimEntry`, `WriteIp` and two steps of `WriteMac`.
  `claimed` is the host whose entry is overwritten: a free entry that the WAN task has
  chosen may be taken by the LAN task before it is marked, and from `WriteIp` on the
  LAN task finds the new address with the old link address, or half of the new one.
* `nat_translate_inbound` is `FindSession`, `CopyLanIp` and `CopyLanPort`. `found` is the
  entry that was found: its session may be closed meanwhile, and the entry be given to
  another (`found.state`), whose address and port are then the ones that are copied. The
  search may fail although the session is open, as `Nat` shows it may.

There are no more hosts than ARP entries, so none is evicted, and every host keeps its link
address. `IsInboundAgain` is the second WAN branch of `net_demo_process_frame`
(`src/src/net_demo.c:693-815`); it asks for the address that an earlier branch has already
excluded. Replies to the gateway's own pings (`PingId`) come in like any others and
belong to no session. `asked` and `requests` are history.

## 3. Runs

All passing runs explore their whole state space. Where time is bounded the
module stops at `LastTick`, so the runs of `Nat` and `ArpCache` do not check for
deadlock; the others do.

| Run | Instance | What it shows |
|---|---|---|
| `kernel_services` | 3 priorities, TCBs for 2 tasks, 2 semaphores, every service, fairness | `ListsWellFormed`, `HighestRuns`: the bit tables agree and the highest ready task runs. `NoTokenBesideWaiter`: no post is lost. `CreationIsExclusive`: creators share no TCB, though the list runs empty. `ReadyIffNothingHolds`: a task is ready exactly when no wait, delay or suspension holds it. `WaitsIffNoToken`: a task is in a wait list exactly from its pend to the token, the suspension aside. `ImplementsSemaphore`: the semaphores implement `CountingSemaphore`: tokens conserved, handed to the highest waiter, a timeout takes none along. `TimedWaitEnds`: the highest-priority task comes back from every delay and timed pend |
| `rx_fifo` | 2 buffers, indices modulo 4, frames with and without payload, either reader, fairness | descriptors are conserved and in one place each; the branch that drops a frame is never taken; the task does not sleep beside a frame, nor the device beside an unannounced buffer; every completed buffer comes back; the path implements `RxFifo` |
| `tx_fifo` | 4 slots, batch of 3, one sender that flushes, fairness | no early reuse, the batch counter covers what the host has not seen, nothing is left behind, the front frame is sent, the path implements `TxFifo` |
| `nat_sessions` | 3 LAN sessions, 2 entries, 3 ports, 2 buckets, 3 ticks | a session keeps its one entry and port whatever the hash tables lose; entries expire in their time. `CollisionsLoseNoReply`: no step of a translation makes the reverse lookup of an open session fail (a cleanup does: `nat_lost_reply`) |
| `arp_one_task` | one device, 2 slots, 3 IP addresses, 2 link addresses | the cache implements `ArpBindings`, evicts the oldest, answers with what was learned |
| `gateway` | 2 LAN hosts with a session each (one UDP, one ICMP) for 1 entry, one server, fairness | `OnlyRepliesComeIn`: a packet is let in from the WAN only if the LAN has sent one of its protocol to the host it comes from, and it goes to the host and port of the session that was found while that stays open. `LanIsHidden`: what leaves on the WAN has the gateway's address and a port of the table. `RightLinkAddress`: no frame goes to a half-copied or foreign link address, except a packet for a host whose ARP entry the WAN task is writing at that moment. `RetryGetsThrough`: a host that repeats its TCP or UDP packet gets it forwarded while its session stays open |
| `bring_up` | 3 slots with any contents, 2 places for devices (one for `virtio_net_init`), either timer type | `ContextIsOwn`: no interrupt before there is a task, each task continues with its own registers, stack and mask. `EnabledIsHandled`: an interrupt that is taken has a handler and a ready device. `TickPerDeadline`, `NoLineForgotten`: one tick for each deadline, no line left up unnoticed. `DevicesFound`: the devices in use are the network devices before the first empty slot |

Each property of a passing run has a mutant of the code (the definitions marked
`Fault` in the modules) that breaks it under the same configuration.

### Disagreements found

Each of these runs checks one property and ends in a counterexample.

* `rx_lost_interrupt` (`bsp/virtio_net.c:1139`): `INTERRUPT_ACK` is written after the
  used ring was scanned. A frame completed and signalled in between loses its
  interrupt and is not looked for until another interrupt comes.
* `tx_uncounted` (`bsp/virtio_net.c:746`): `tx_batch_count` is "frames queued but host
  not yet notified" (`bsp/virtio_net.c:120`). When the main loop sends while it has preempted a receive
  task inside send or flush, the frame is queued, the host not notified, and the
  counter 0, so that later flushes do nothing.
* `nat_cleanup_race` (`bsp/nat.c:158`): a cleanup between `active = true` and the time
  and timeout of a new entry removes it; the call still returns 0.
* `nat_lost_reply` (`bsp/nat.c:646`): `nat_hash_remove` "only removes if the hash bucket
  points to an entry with this port" (`bsp/nat.c:640`), and an entry whose bucket was
  overwritten "can still be found via linear search fallback" (`:627`, also `:613`). It
  empties the bucket without looking at it, and an empty bucket ends the reverse
  search before the linear one: the replies to an open session are dropped because
  another session was removed. The counterexample is the shortest one, in which the
  removed entry is half made and has port 0; two sessions whose ports share a bucket, one of
  which expires, do as well.
* `arp_wrong_mac` (`bsp/nat.c:520`): the LAN task looks up an address between the WAN
  task's writes of the IP and the link address, and is answered with the link
  address of the slot's previous owner.

Met while modelling, and not given a run of their own, because no document promises
otherwise, because the program does not exercise them today, or because a passing run
states exactly what is left of the promise:

* a task suspended between the two critical sections of `OS_TCBInit` is made ready
  nevertheless (`ucosii/os_core.c:2142`);
* a pend with the scheduler locked returns `OS_ERR_NONE` without a token
  (`ucosii/os_sem.c:94`);
* a receive completion without payload stays at the head of the completion queue
  and blocks those behind it (`src/src/net_demo.c:883`);
* frames of a task that never flushes wait for the 16th (`bsp/virtio_net.c:744`), as
  those of the main loop and the test programs do until a receive task flushes;
* two senders may choose one transmit slot (`bsp/virtio_net.c:739`), so `FilledIsFree`
  and `ImplementsTxFifo` hold only for serialised sends, which is what `tx_fifo`
  states;
* the port counter wraps without looking at ports in use (`bsp/nat.c:444`);
* an inbound call may use an entry that a cleanup has removed and a new session
  taken (`bsp/nat.c:199`): the reply then goes to the host of the other session, and not to
  "the original LAN address" of `bsp/nat.h:131`. `Gateway` has this behaviour, and
  `OnlyRepliesComeIn` states what is left: the packet is one that the LAN has provoked, it
  goes to a host and a port that have asked for something, and to the asker itself
  if the session that was found stayed open;
* while the WAN task adds the first ARP entry of a host, packets for that host go to zeros,
  to half an address or to the former owner of the entry (`bsp/nat.c:519`). `arp_wrong_mac`
  is the counterexample; in `Gateway` it is the one exception of `RightLinkAddress`;
* at the wrap of `OSTime` entries expire at once (`bsp/nat.c:221`), and the ARP
  cache then evicts slot 0 (`bsp/nat.c:508`);
* two receive tasks may add two ARP entries for one address (`bsp/nat.c:495`);
* an echo request to a host whose link address is unknown is dropped without an ARP
  request, unlike TCP and UDP (`src/src/net_demo.c:600`), so `RetryGetsThrough` is
  false for ICMP;
* an empty slot counts as a device in the search and ends it (`bsp/virtio_net.c:236`):
  a network device behind it is not found, which is why `DevicesFound` speaks of the
  devices before the first empty slot.

### Bounds

* *Priorities* 3, 7, 9 and idle 10: two bytes of the table and two group bits, so
  that both look-ups of `OS_SchedNew` matter, and three application tasks: one
  that runs, one preempted and one waiting. `OS_MAX_TASKS = 2` lets the free list run empty inside `OSTaskCreate`.
* `SEM_MAX = 2` reaches both ends of the count, `LOCK_MAX = 2` nested locks and their
  limit. Two semaphores let a task wait at one while the other is posted, and one be
  created while the other is in use.
  `Ticks = {0, 1}` for delays and timeouts: none, and one that a tick ends while the
  task waits, is suspended or is being resumed; a second tick changes only a counter.
  `Delays` of 0, 1 and 1000 ms are a delay that `OSTimeDlyHMSM` refuses as empty, the least
  one it accepts, and one whose milliseconds are out of range.
* *Rings*: the code has 256 slots and 16-bit indices. Two (or four) slots and
  indices modulo twice that reach the full queue and many wraps in every
  combination of places, since all indices run freely. `BATCH_SIZE = 3`,
  `LowSlots = 3`, `MinSlots = 2` keep the order 0 < refuse < poll < size of the
  code (0 < 2 < 4 < 256); a batch can be completed before the queue is full. The
  100 polls of a full queue are "any number".
* *NAT*: two entries and three ports for three sessions: a full table, a reused entry,
  and colliding and separate buckets. `LastPort` stops the allocation before a port is
  used twice, since no property could hold of sessions that share one; `LastTick = 3`
  with two ticks a second and a timeout of one second lets an entry be used, age
  through the rounding to seconds, and expire.
* *ARP*: two slots for three addresses and five points in time: full table, a tie
  of ages, an update of an entry, and eviction. `RxTasks = {5}` is the program with one
  device; `{5, 6}` is the gateway.
* *Gateway*: one port and a table of one: a session is refused for want of an entry or
  a port, and closed and its entry taken by the other while a reply to it is being
  translated. The two sessions differ in protocol, host and port, so that a packet
  put together from both would show. The proofs of `GatewayProofs` have no such bound.
* *BringUp*: three slots for two places, so that the search can end at an empty slot, at
  the end and for want of room; every content of every slot.

### Fairness

* *Kernel.* A handler runs to its end. The timer interrupt, once raised, stays pending
  until it is acknowledged (`BringUp`, `NoLineForgotten`), and QEMU's controller picks the
  lowest number of several pending ones, which is the timer's (27, the devices have 48
  and more); so it wins whenever interrupts are let in again and again (strong
  fairness on `IrqEnter("tick")`). `Gic` needs no such rule and leaves the choice open.
  A task in the middle of a service call that gets the processor again and again
  continues. No task has to call anything.
* *Receive.* The device signals what it has filled, a raised level-triggered line is
  taken, the handler ends (the device does not fill for ever while it scans), and
  interrupts leave the reader some time. No frame has to arrive and the other task
  need not run.
* *Transmit.* A notified device works; a task that can run goes on, polls finitely often
  and ends its burst. No frame has to be sent.
* *Gateway.* A LAN host repeats its TCP and UDP packets and a WAN host answers ARP
  requests, and both get handed over by their devices again and again; the LAN task
  goes on with its frame, and leaves the WAN task some time. The main loop need not run.
* The safety properties need none.

## 4. Proofs

Every safety property that a passing run checks is a theorem (the invariants, the action
properties and the five refinements), as are the lemmas below. Each proof has the same
shape: an inductive invariant `...Inv`, a conjunction of named parts; a lemma for
`Init`; for each part a lemma with one step per action; and theorems that read the
property off the invariant or, for a property of steps, off one step from a state of the
invariant. Each invariant was an invariant of the run of its module before it was
proved. A refinement maps every step to a step of the abstract specification or to a
stutter; its two or three mapped expressions have names (`Tokens`, `Asked`, `Handed`; `Arrived`,
`Reading`; `Offered`, `Queue`; `Mapping`; `Known`, `Learning`).

| Module | Theorem | Proves | Assumes, besides the module's own assumption |
|---|---|---|---|
| `UcosKernelProofs` | `TypeCorrect` | `[]TypeOK` | - |
| | `ListsStayWellFormed` | `[]ListsWellFormed` | - |
| | `HighestAlwaysRuns` | `[]HighestRuns` | - |
| | `NoPostIsLost` | `[]NoTokenBesideWaiter` | - |
| | `HighestFacts` | the two look-ups of `OS_SchedNew` return the least member | - |
| `UcosServiceProofs` | `CreationStaysExclusive` | `[]CreationIsExclusive` | - |
| | `ReadyListIsExact` | `[]ReadyIffNothingHolds` | `Unruly = {}` |
| | `WaitListsAreExact` | `[]WaitsIffNoToken` | `Unruly = {}` |
| | `SemaphoresCount` | `ImplementsSemaphore` | `Unruly = {}` |
| `BringUpProofs` | `TypeCorrect` | `[]TypeOK` | - |
| | `ContextStaysOwn` | `[]ContextIsOwn` | - |
| | `EnabledStaysHandled` | `[]EnabledIsHandled` | - |
| | `OneTickPerDeadline` | `[]TickPerDeadline` | - |
| | `LinesAreServed` | `[]NoLineForgotten` | - |
| | `SearchFindsDevices` | `[]DevicesFound` | - |
| `VirtioNetRxProofs` | `TypeCorrect` | `[]TypeOK` | - |
| | `DescriptorsAreConserved` | `[]EachDescriptorOnce` | - |
| | `NoFrameIsDropped` | `[]NoFrameDropped` | - |
| | `SleepsDrained` | `[]SleepsOnlyWhenDrained` | - |
| | `FramesComeInOrder` | `ImplementsRxFifo` | - |
| `VirtioNetTxProofs` | `TypeCorrect` | `[]TypeOK` | one sender |
| | `BuffersAreFree` | `[]FilledIsFree` | one sender |
| | `WaitingStaysCounted` | `[]WaitingIsCounted` | one sender |
| | `NoFrameIsLeftBehind` | `[]QuietIsNotified` | one sender, which flushes |
| | `FramesGoOutInOrder` | `ImplementsTxFifo` | one sender |
| `NatProofs` | `TypeCorrect` | `[]TypeOK` | - |
| | `TableKeepsSessions` | `ImplementsNatSessions` | - |
| | `RepliesSurviveCollisions` | `CollisionsLoseNoReply` | - |
| | `ExpiryInTime` | `ExpiryIsTimely` | `OSTime` does not wrap around |
| `ArpCacheProofs` | `TypeCorrect` | `[]TypeOK` | - |
| | `OneTaskIsAnsweredRight` | `AnswerIsLearned` | one task |
| | `OldestIsReplaced` | `ReplacesOldest` | one task, `OSTime` does not wrap around |
| | `CacheKeepsBindings` | `ImplementsArpBindings` | one task |
| `GatewayProofs` | `TypeCorrect` | `[]TypeOK` | - |
| | `OnlyReplies` | `[]OnlyRepliesComeIn` | - |
| | `LanStaysHidden` | `[]LanIsHidden` | - |
| | `AddressesAreRight` | `[]RightLinkAddress` | - |

The hypotheses of the last column are needed, and name the limits of what the code
promises: with a use that `Unruly` names, a second sender or a second receive task TLC finds
counterexamples (section 3, "Disagreements found"), and at the wrap of `OSTime` entries expire
at once. `LastTick < TimeMod` is how the modules say that it does not wrap around.

**Kernel.** `UcosKernelProofs` starts with `PrioList`, for all 64 priorities: inserting and
removing keep the group byte equal to "some bit of this byte is set" and change the
member set by one priority. `KernelInv` adds to the types what they need to be inductive:
the idle task is always ready (else `OS_SchedNew` would look into an empty list); wait
lists hold application tasks only; the object of a service call in progress is of the kind
the call needs; and `OSIntNesting` is 1 exactly inside a handler. `DelayFits` shows that what
`OSTimeDlyHMSM` computes from any arguments it accepts is a 32-bit tick count.
`HighestRuns` and `NoTokenBesideWaiter` are inductive relative to `KernelInv`. For the first,
every step that adds a task to the ready list or takes the running one off it must leave
the running task before a call of `OS_Sched`, hold the lock, or be inside a handler, and
the step that ends each of these must switch to `Highest(OSRdy)`. For the second, a pend
waits only at count 0 and a post counts only when the wait list is empty; a timed-out
task leaves the list only when it runs, which can only remove a waiter.

`CreationInv` says that a creator's priority is reserved by it alone, that a TCB that is filled
and not linked belongs to one creator, and that linked, filled and free TCBs together are
all there are. `OrderlyInv` joins it, `KernelInv` and `HighestRuns` with `ListInv`, which says who
may be where: a TCB that is not linked has never been touched and only linked tasks are
inside services, so that linking it readies a task that nothing holds (`LinkInv`); nobody
inside `OSSemPend` has the processor with the scheduler locked, so that whoever comes
back from `OS_Sched` there was made ready by a post or a timeout (`LockInv`, which is
why `HighestRuns` is part of it); and a wait that timed out has no ticks left, so that
the clean-up of `OSSemPend` takes off the list exactly a task that no tick will ready again
(`WaitEndInv`). For `SemaphoresCount` the queue of the abstract semaphore is the wait list
(`QueueIsWaitList`); a post hands the token to `Highest` of it, the least by `HighestFacts`; a
pend that comes back with `OS_STAT_PEND_OK` was in no wait list, and one with
`OS_STAT_PEND_TO` still was, both by `WaitsIffNoToken`.

**Start-up.** `BringUpInv` has one part for each actor. `CpuInv` is the one that context
switches need: every frame that is not loaded is its task's own with interrupts enabled,
the processor's registers are those of `OSTCBCur`, and whoever is inside a critical section
has saved "enabled", except a handler, which has saved "masked" (so that leaving a
critical section in a handler does not let interrupts in). `GicInv`: an enabled interrupt
has its handler, a device's also a ready device. `TimerInv` accounts for a deadline
between the moment it passes and the reload: it is counted, waits as a line or a latch, or
is being served before the tick. `SearchInv`: the k-th device is where the k-th search ends.

**Receive path.** `RxInv` follows a descriptor round: the device has it, or it is filled and
unseen, or in the completion queue, or in the task's hands. `SizeInv`: the four sizes add up to
the queue size, with distances modulo the index width. `CoverInv`: together they hold every
descriptor. As there are no more places than descriptors, each is in one place only (a
pigeonhole argument, `HeadIsNowhereElse` and `FillsFreeBuffer`), which is
`EachDescriptorOnce`, and leaves a free slot in the completion queue whenever the handler
finds a used buffer, which is `NoFrameDropped`. `BufferInv`: the buffers under way hold
frames. `SleepInv`: a completion with payload that the task has not seen is announced in
`rx_sem`, or by the post that the handler is about to make. `FramesComeInOrder` maps what has
arrived to the frame being copied, those completed and those filled, in this order.

**Transmit path.** `TxInv` orders the indices: what the device has not begun is at most what it
has not finished, at most what the driver knows to be unfinished, at most the queue
size (`IndexInv`), so that an index of the device that was read earlier errs on the safe side.
`SenderInv` keeps a free slot, and the descriptor chosen for it, from the check to the
publication; `RingInv` says that the published slots name their own descriptors;
`CountInv` that frames which wait without a notification are counted, up to one that
is being counted.

**NAT.** `SessionInv`: no live entry has the session that the LAN task is about to open,
although a cleanup comes between the search and the allocation. A cleanup, or an entry
reused, closes sessions; only the LAN task opens one. For `RepliesSurviveCollisions`, a
lookup that finds nothing although the session is open has an empty bucket, and a
translation fills buckets, overwrites them, and empties none. `TimeInv`: no entry was used
after now; then the division of both tick counts by 1000 costs less than a second.

**ARP.** `CacheInv`: an entry is a learned pair unless it is being written, and there is one for
each address. `CallInv` says what each step of an addition still knows of the table; with a
second task it would not, which is `arp_wrong_mac`.

**Gateway.** `GatewayInv` describes the frames on their way: an outbound frame to be translated is
one that was asked for, and one to be forwarded to the WAN has the gateway's address and a
port of the table (`RxInv`); only asked sessions are open (`SessionInv`). `FoundInv` is
about the entry that the WAN task holds: whatever became of it, it has a session that was
asked for, and what was copied from it so far is the host, or the host and port, of some
such sessions; while its state is "own" they are those of the session that was found, which
has the protocol and the source of the packet. `ArpInv`: an entry of the cache is empty or
right, except the one between `WriteIp` and the end of `WriteMac`, which is the exception in
the property. `PeerInv`: the peer address is complete before its flag is set, and stays so
while the same peer's answer is copied again. `SentRight` then shows that whatever a step
from such a state sends satisfies the three properties. `SecondBranchIsDead`: no frame
reaches the second WAN branch of `net_demo_process_frame`.

**Only model-checked.** Liveness, which with ENABLED is out of the prover's reach:
`TimedWaitEnds`, `CompletedComesBack`, `FrontIsSent`, `RetryGetsThrough`. And the five
counterexamples of section 3, which are single behaviours.

## 5. Not modelled, and why

* UART, caches, MMU attributes, exception levels and the clearing of memory at boot: I/O
  and fixed instruction sequences that no property tells apart. The memory barriers of
  the driver are taken to work: accesses take effect in program order.
* The contents of registers: a frame is told apart by whose it is, so a register that
  `SAVE_CONTEXT` and `RESTORE_AND_ERET` disagree about would not show.
* Packet construction, lengths and checksums; statistics and printing. The frame classes
  of `Gateway` include one for packets that are cut short or of another kind.
* Interrupt priorities: the code gives all the same.
* Remote hosts that are not on the WAN segment: the code asks for their link address by
  ARP as if they were, and there is no route to model.
* Code without a caller in the program: `nat_configure`, `arp_cache_cleanup`, the physical
  timer of `bsp/timer.c`, `OSTimeSet`.
* Kernel services that `os_cfg.h` disables: queues, mailboxes, mutexes, flags, memory
  partitions, `OSTaskDel`, `OSTaskChangePrio`, `OSTimeDlyResume`, statistics. They are most
  of the lines of `src/ucosii` that "map" does not name.
* The test programs, which start the kernel and look at counters: what they say of the
  system was read as documentation, and the way they poll is the second reader of
  `VirtioNetRx`. The reference port is not built.

## 6. Plan

Done, in this order: kernel; receive path; transmit path; NAT; ARP; the gateway that
composes the last two; port, interrupt controller and start-up; the polling reader; proofs of
every safety property of every module.

What is left is to weaken the hypotheses of section 4 as far as the code allows:

1. `VirtioNetTx` with several senders: what remains true of the indices and of the batch when
   a task of higher priority sends inside the send of a lower one.
2. `ArpCache` with two tasks: which of the parts of `CallInv` survive the other task.
3. `Nat` and `ArpCache` across the wrap of `OSTime`.
4. `Gateway` with more hosts than ARP entries, so that the tasks evict each other's.
