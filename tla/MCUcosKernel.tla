---------------------------- MODULE MCUcosKernel ----------------------------
(***************************************************************************)
(* Instances of UcosKernel for TLC.  The priorities are chosen on both     *)
(* sides of 8, so that the lists use two bytes and two group bits.         *)
(***************************************************************************)
EXTENDS UcosKernel

CONSTANTS s1, s2

ThreePrios == {3, 7, 9}
OneSem == {s1}
TwoSems == {s1, s2}

Milliseconds(n) == [hours |-> 0, minutes |-> 0, seconds |-> 0, ms |-> n]
ShortDelays == {Milliseconds(0), Milliseconds(1), Milliseconds(1000)}

=============================================================================
