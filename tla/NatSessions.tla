----------------------------- MODULE NatSessions ----------------------------
(***************************************************************************)
(* What address translation promises: every session that is open has one   *)
(* WAN port, which stays its own until the session is closed.              *)
(***************************************************************************)
EXTENDS Naturals

CONSTANTS Sessions, Ports

VARIABLE mapping  \* the pairs of a session and its port

Init == mapping = {}

Open(s, p) ==
  /\ \A q \in Ports : <<s, q>> \notin mapping
  /\ mapping' = mapping \cup {<<s, p>>}

Close == \E closed \in SUBSET mapping : mapping' = mapping \ closed

Next == (\E s \in Sessions, p \in Ports : Open(s, p)) \/ Close

Spec == Init /\ [][Next]_mapping

=============================================================================
