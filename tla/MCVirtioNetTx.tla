---------------------------- MODULE MCVirtioNetTx ---------------------------
(***************************************************************************)
(* Instances of VirtioNetTx for TLC.                                       *)
(***************************************************************************)
EXTENDS VirtioNetTx

CONSTANTS f1, f2

=============================================================================
