------------------------------ MODULE MCArpCache ----------------------------
(***************************************************************************)
(* Instances of ArpCache for TLC.                                          *)
(***************************************************************************)
EXTENDS ArpCache

CONSTANTS host1, host2, server, m1, m2

=============================================================================
