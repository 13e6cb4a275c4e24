----------------------------- MODULE ArpBindings ----------------------------
(***************************************************************************)
(* What the ARP cache promises: it knows one link address for an IP        *)
(* address, the last one that was learned, and forgets another binding     *)
(* only when it has no room.                                               *)
(***************************************************************************)
EXTENDS Naturals, FiniteSets

CONSTANTS Ips, Macs, Capacity, Nothing

VARIABLES
  known,    \* pairs of an IP address and its link address
  learning  \* the pair that is being learned, or Nothing

Init == known = {} /\ learning = Nothing

Hear(ip, mac) ==
  /\ learning = Nothing
  /\ learning' = <<ip, mac>>
  /\ UNCHANGED known

Of(ip) == {b \in known : b[1] = ip}

\* The old binding of the address goes; else, without room, any one does.
MakeRoom ==
  /\ learning # Nothing
  /\ \E b \in IF Of(learning[1]) # {} THEN Of(learning[1]) ELSE known :
       /\ Of(learning[1]) # {} \/ Cardinality(known) = Capacity
       /\ known' = known \ {b}
  /\ UNCHANGED learning

Learn ==
  /\ learning # Nothing
  /\ Of(learning[1]) = {}
  /\ Cardinality(known) < Capacity
  /\ known' = known \cup {learning}
  /\ learning' = Nothing

Next == (\E ip \in Ips, mac \in Macs : Hear(ip, mac)) \/ MakeRoom \/ Learn

Spec == Init /\ [][Next]_<<known, learning>>

=============================================================================
