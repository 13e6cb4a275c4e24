------------------------------- MODULE CpuPort -------------------------------
(***************************************************************************)
(* The ARMv8-A port of uC/OS-II (port/os_cpu_a.S, port/os_cpu_c.c): the    *)
(* frames on the stacks, the switch of a task that gives up the processor, *)
(* and the entry and the exit of an interrupt.                             *)
(*                                                                         *)
(* The registers are abstracted to whose they are.  A frame is what        *)
(* SAVE_CONTEXT pushes: the registers and the saved processor state, of    *)
(* which the I bit matters.  OSTCBStkPtr of a task points to its frame.    *)
(* Each step runs with interrupts masked.                                  *)
(***************************************************************************)
EXTENDS Integers

CONSTANTS
  Tasks,   \* by priority; the greatest one is the idle task
  Boot,    \* main, on the stack of start.S
  Except,  \* the handlers, on OS_CPU_ExceptStk
  NULL

ASSUME PortAssumption ==
  /\ Tasks \subseteq Nat
  /\ {Boot, Except, NULL} \cap Tasks = {} /\ Boot # Except

VARIABLES
  masked,        \* PSTATE.I
  regs,          \* whose registers are loaded: a task's or Boot
  sp,            \* whose stack is in use: a task's, Boot, or Except
  frame,         \* the frame that OSTCBStkPtr of each task points to
  OSTCBCur,      \* the current task, or NULL
  OSIntNesting,
  cpu_sr         \* what OS_ENTER_CRITICAL has saved, for each task and Except

portVars == <<masked, regs, sp, frame, OSTCBCur, OSIntNesting, cpu_sr>>

Stacks == Tasks \cup {Boot, Except}

\* OSTaskStkInit: a frame with interrupts enabled.
OSTaskStkInit(p) == [regs |-> p, stack |-> p, masked |-> FALSE]

\* start.S masks everything; the tasks are created before OSStart.
PortInit ==
  /\ masked = TRUE
  /\ regs = Boot /\ sp = Boot
  /\ frame = [p \in Tasks |-> OSTaskStkInit(p)]
  /\ OSTCBCur = NULL
  /\ OSIntNesting = 0
  /\ cpu_sr = [s \in Tasks \cup {Except} |-> TRUE]

OS_ENTER_CRITICAL(s) ==
  /\ cpu_sr' = [cpu_sr EXCEPT ![s] = masked]
  /\ masked' = TRUE
  /\ UNCHANGED <<regs, sp, frame, OSTCBCur, OSIntNesting>>

\* Fault: interrupts are enabled whatever was saved.
OS_EXIT_CRITICAL_Unmask(s) ==
  /\ masked' = FALSE
  /\ UNCHANGED <<regs, sp, frame, OSTCBCur, OSIntNesting, cpu_sr>>

OS_EXIT_CRITICAL(s) ==
  /\ masked' = cpu_sr[s]
  /\ UNCHANGED <<regs, sp, frame, OSTCBCur, OSIntNesting, cpu_sr>>

\* RESTORE_AND_ERET.
Restore(f) == regs' = f.regs /\ sp' = f.stack /\ masked' = f.masked

OSStartHighRdy(high) ==
  /\ OSTCBCur' = high
  /\ Restore(frame[high])
  /\ UNCHANGED <<frame, OSIntNesting, cpu_sr>>

\* The task gives up the processor: its state is saved with interrupts enabled
\* (SAVE_SPSR_FOR_TASK_SW).
OSCtxSw(high) ==
  /\ frame' = [frame EXCEPT ![OSTCBCur] = [regs |-> regs, stack |-> sp, masked |-> FALSE]]
  /\ OSTCBCur' = high
  /\ Restore(frame[high])
  /\ UNCHANGED <<OSIntNesting, cpu_sr>>

\* OS_CPU_ARM_ExceptIrqHndlr up to irq_dispatch.  SPSR_EL1 holds the state from before
\* the exception.  Without nesting OSTCBStkPtr gets the frame, through OSTCBCur.
IrqEntry ==
  /\ ~masked
  /\ masked' = TRUE
  /\ OSIntNesting' = OSIntNesting + 1
  /\ IF OSIntNesting = 0
       THEN /\ frame' = [frame EXCEPT ![OSTCBCur] =
                           [regs |-> regs, stack |-> sp, masked |-> masked]]
            /\ sp' = Except
       ELSE UNCHANGED <<frame, sp>>
  /\ UNCHANGED <<regs, OSTCBCur, cpu_sr>>

\* Fault: OSIntCtxSw leaves OSTCBCur as it is, and the frame of the other task is restored.
IrqExitKeepsCur(high) ==
  /\ OSIntNesting' = OSIntNesting - 1
  /\ OSTCBCur' = OSTCBCur
  /\ Restore(frame[high])
  /\ UNCHANGED <<frame, cpu_sr>>

\* OSIntExit, with OSIntCtxSw for another task, and the rest of the handler.
IrqExit(high) ==
  /\ OSIntNesting' = OSIntNesting - 1
  /\ OSTCBCur' = IF OSIntNesting = 1 THEN high ELSE OSTCBCur
  /\ Restore(frame[OSTCBCur'])
  /\ UNCHANGED <<frame, cpu_sr>>

=============================================================================
