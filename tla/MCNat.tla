-------------------------------- MODULE MCNat -------------------------------
(***************************************************************************)
(* Instances of Nat for TLC.                                               *)
(***************************************************************************)
EXTENDS Nat

CONSTANTS udp, host1, host2, server

OneProtocol == {udp}
OneTimeout == [p \in {udp} |-> 2]
ShortTimeout == [p \in {udp} |-> 1]

OneHost == {[ip |-> host1, port |-> 0]}
TwoHosts == {[ip |-> host1, port |-> 0], [ip |-> host2, port |-> 0]}
ThreeHosts == TwoHosts \cup {[ip |-> host1, port |-> 1]}

=============================================================================
