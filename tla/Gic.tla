--------------------------------- MODULE Gic ---------------------------------
(***************************************************************************)
(* The interrupt controller as bsp/gic.c programs it, and the vector table *)
(* of bsp/bsp_int.c.  All interrupts have the same priority, so one that   *)
(* is active keeps the others away, and any of several pending ones may be *)
(* the next.                                                               *)
(*                                                                         *)
(* The sources' lines are given by the modules that extend this one.       *)
(***************************************************************************)
EXTENDS Integers, FiniteSets

TIMER_INTERRUPT_ID == 27
GIC_SPURIOUS_BASE == 1020
MAX_INTERRUPTS == 256

CONSTANTS Spis  \* shared peripheral interrupts

Sources == Spis \cup {TIMER_INTERRUPT_ID}

ASSUME GicAssumption == Spis \subseteq 32..(MAX_INTERRUPTS - 1)

VARIABLES
  level,       \* the sources that are level-triggered
  enabled,
  latched,     \* edges not acknowledged yet
  active,      \* acknowledged and not ended
  bsp_int_vect_tbl

gicVars == <<level, enabled, latched, active, bsp_int_vect_tbl>>

\* Before gic_init.  A PPI is made edge-triggered there, but the virtual timer of KVM
\* is level-triggered whatever is written; so both kinds are possible.
GicReset ==
  /\ level \in {Spis, Sources}
  /\ enabled = {}
  /\ latched = {}
  /\ active = {}
  /\ bsp_int_vect_tbl = [id \in Sources |-> "NULL"]

\* gic_init enables the timer's interrupt, before there is a handler.
gic_init ==
  /\ enabled' = {TIMER_INTERRUPT_ID}
  /\ UNCHANGED <<level, latched, active, bsp_int_vect_tbl>>

\* The lines of the sources change.
Lines(before, after) ==
  /\ latched' = latched \cup ((after \ before) \ level)
  /\ UNCHANGED <<level, enabled, active, bsp_int_vect_tbl>>

\* What the controller signals to the processor.
Signalled(lines) ==
  IF active # {} THEN {}
  ELSE enabled \cap (latched \cup (lines \cap level))

\* The interrupt may have been withdrawn in the meantime.
gic_acknowledge(lines, id) ==
  \/ /\ id \in Signalled(lines)
     /\ latched' = latched \ {id}
     /\ active' = {id}
     /\ UNCHANGED <<level, enabled, bsp_int_vect_tbl>>
  \/ id = GIC_SPURIOUS_BASE + 3 /\ UNCHANGED gicVars

gic_end_interrupt(id) ==
  /\ active' = active \ {id}
  /\ UNCHANGED <<level, enabled, latched, bsp_int_vect_tbl>>

\* BSP_IntVectSet.
BSP_IntVectSet(id, handler) ==
  /\ bsp_int_vect_tbl' = [bsp_int_vect_tbl EXCEPT ![id] = handler]
  /\ UNCHANGED <<level, enabled, latched, active>>

\* BSP_IntSrcEn: gic_enable_spi_interrupt, and nothing for the timer.
BSP_IntSrcEn(id) ==
  /\ enabled' = IF id >= 32 THEN enabled \cup {id} ELSE enabled
  /\ UNCHANGED <<level, latched, active, bsp_int_vect_tbl>>

\* BSP_IntHandler: which handler it calls.
BSP_IntHandler(id) == IF id < MAX_INTERRUPTS THEN bsp_int_vect_tbl[id] ELSE "NULL"

=============================================================================
