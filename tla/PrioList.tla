------------------------------ MODULE PrioList ------------------------------
(***************************************************************************)
(* The two-level bitmap in which uC/OS-II keeps a set of priorities: the   *)
(* ready list (OSRdyGrp, OSRdyTbl) and the wait list of every event        *)
(* (OSEventGrp, OSEventTbl).  Priority p lives in bit X(p) of byte Y(p);   *)
(* the group byte has bit y set when byte y is not zero, so that the       *)
(* highest priority (the lowest number) is found with two table look-ups.  *)
(* A byte is the set of its one bits.                                      *)
(***************************************************************************)
EXTENDS Integers

Bits == 0..7

\* OS_LOWEST_PRIO <= 63: the configuration with 8-bit bitmaps.
PrioSpace == 0..63

Y(p) == p \div 8
X(p) == p % 8

PrioLists == [grp : SUBSET Bits, tbl : [Bits -> SUBSET Bits]]

EmptyList == [grp |-> {}, tbl |-> [y \in Bits |-> {}]]

\* grp |= BitY; tbl[Y] |= BitX
ListInsert(l, p) ==
  [grp |-> l.grp \cup {Y(p)},
   tbl |-> [l.tbl EXCEPT ![Y(p)] = @ \cup {X(p)}]]

\* Fault: the group bit stays when its byte becomes zero.
ListRemoveKeepsGroup(l, p) ==
  [grp |-> l.grp,
   tbl |-> [l.tbl EXCEPT ![Y(p)] = @ \ {X(p)}]]

\* tbl[Y] &= ~BitX; if (tbl[Y] == 0) grp &= ~BitY
ListRemove(l, p) ==
  LET byte == l.tbl[Y(p)] \ {X(p)}
  IN  [grp |-> IF byte = {} THEN l.grp \ {Y(p)} ELSE l.grp,
       tbl |-> [l.tbl EXCEPT ![Y(p)] = byte]]

\* The lowest bit set in a byte; entry 0 of the table is 0.
OSUnMapTbl(byte) ==
  IF byte = {} THEN 0 ELSE CHOOSE i \in byte : \A j \in byte : i <= j

\* The highest priority of a list, as OS_SchedNew and OS_EventTaskRdy find it.
Highest(l) ==
  LET y == OSUnMapTbl(l.grp)
  IN  y * 8 + OSUnMapTbl(l.tbl[y])

-----------------------------------------------------------------------------
(***************************************************************************)
(* What a list means: the set of priorities whose bit is set, and the      *)
(* agreement of the group byte with the table.                             *)
(***************************************************************************)
Members(l) == {p \in PrioSpace : X(p) \in l.tbl[Y(p)]}

WellFormed(l) == \A y \in Bits : y \in l.grp <=> l.tbl[y] # {}

=============================================================================
