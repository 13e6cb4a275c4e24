------------------------------ MODULE MCGateway ------------------------------
(***************************************************************************)
(* Instances of Gateway for TLC.                                           *)
(***************************************************************************)
EXTENDS Gateway, TLC

CONSTANTS h1, h2, server, m1, m2, m3

OneMacEach == (h1 :> m1) @@ (h2 :> m2) @@ (server :> m3)

TwoSessions ==
  {[protocol |-> "udp", lan |-> [ip |-> h1, port |-> 7], dst |-> server],
   [protocol |-> "icmp", lan |-> [ip |-> h2, port |-> 8], dst |-> server]}

=============================================================================
