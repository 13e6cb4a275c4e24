--------------------------- MODULE MCVirtioNetRx ---------------------------
(***************************************************************************)
(* Instances of VirtioNetRx for TLC.                                       *)
(***************************************************************************)
EXTENDS VirtioNetRx

CONSTANTS f1, f2, runt

=============================================================================
