------------------------------ MODULE MCBringUp ------------------------------
(***************************************************************************)
(* Instances of BringUp for TLC.                                           *)
(***************************************************************************)
EXTENDS BringUp

TwoSpis == {48, 49}
ThreeSpis == {48, 49, 50}

=============================================================================
