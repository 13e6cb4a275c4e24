------------------------------ MODULE NatProofs -----------------------------
(***************************************************************************)
(* Proofs about Nat for tables of any size, any ports, hosts and timeouts. *)
(***************************************************************************)
EXTENDS Nat, WellFoundedInduction, TLAPS

-----------------------------------------------------------------------------
(***************************************************************************)
(* The inductive invariant: the calls, the open sessions and the time.     *)
(***************************************************************************)
Filling == {"fill", "activity", "timeout"}

CallInv ==
  /\ out.pc \in {"idle", "update", "alloc", "hash"} \cup Filling
  /\ in.pc \in {"idle", "stamp", "copy"}
  /\ out.pc # "idle" => out.session \in Sessions
  /\ out.pc \in {"update", "hash"} \cup Filling => out.slot \in Slots
  /\ out.pc \in {"hash"} \cup Filling => out.wan_port \in Ports
  /\ out.pc \in {"activity", "timeout", "hash"} =>
       /\ nat_table[out.slot].session = out.session
       /\ nat_table[out.slot].wan_port = out.wan_port

\* Nothing can open the session that the LAN task is about to open.
SessionInv ==
  /\ \A i \in Live : nat_table[i].session \in Sessions /\ nat_table[i].wan_port \in Ports
  /\ out.pc \in {"alloc"} \cup Filling => \A i \in Live : nat_table[i].session # out.session

\* As long as OSTime does not wrap around, no entry was used after now.
TimeInv ==
  /\ out.now <= OSTime /\ in.now <= OSTime
  /\ \A i \in Slots : nat_table[i].last_activity <= OSTime

NatInv == TypeOK /\ CallInv /\ SessionInv

-----------------------------------------------------------------------------
(***************************************************************************)
(* Facts about the operators.                                              *)
(***************************************************************************)
LEMMA Least ==
  ASSUME NEW T, T \subseteq Nat, T # {}
  PROVE  \E x \in T : \A y \in T : x <= y
<1>1. PICK x \in T : \A y \in T : <<y, x>> \notin OpToRel(<, Nat)
  BY NatLessThanWellFounded, WFMin
<1>2. \A y \in T : ~(y < x)
  BY <1>1 DEF OpToRel
<1>3. QED
  BY <1>2

\* The linear search finds a slot unless there is none.
LEMMA FirstFound ==
  ASSUME NEW T \in SUBSET Slots
  PROVE  First(T) \in T \cup {-1} /\ (First(T) = -1 <=> T = {})
<1>1. \A i \in T : i \in Nat
  BY NatAssumption DEF Slots
<1>2. CASE T = {}
  BY <1>2 DEF First
<1>3. CASE T # {}
  <2>1. \E i \in T : \A j \in T : i <= j
    BY <1>1, <1>3, Least
  <2>2. First(T) \in T
    BY <1>3, <2>1 DEF First
  <2>3. QED
    BY <1>1, <1>3, <2>2
<1>4. QED
  BY <1>2, <1>3

\* nat_find_entry finds the session if an entry has it: the fallback makes up for the bucket.
LEMMA FoundEntry ==
  ASSUME NEW s
  PROVE  /\ nat_find_entry(s) \in Slots \cup {-1}
         /\ nat_find_entry(s) = -1 =>
              \A i \in Slots : nat_table[i].active => nat_table[i].session # s
<1> DEFINE found == {i \in Slots : nat_table[i].active /\ nat_table[i].session = s}
           i == nat_outbound_hash_table[nat_outbound_hash(s)]
<1>1. nat_find_entry(s) = IF i \in found THEN i ELSE First(found)
  BY DEF nat_find_entry
<1>2. found \in SUBSET Slots
  OBVIOUS
<1>3. First(found) \in found \cup {-1} /\ (First(found) = -1 <=> found = {})
  BY <1>2, FirstFound
<1>4. \A j \in Slots : j # -1
  BY NatAssumption DEF Slots
<1>5. QED
  BY <1>1, <1>2, <1>3, <1>4

LEMMA FoundReverse ==
  ASSUME NEW protocol, NEW wan_port, NEW src
  PROVE  nat_find_reverse_entry(protocol, wan_port, src) \in Slots \cup {-1}
<1> DEFINE found == {i \in Slots :
        /\ nat_table[i].active
        /\ nat_table[i].session # Nothing
        /\ nat_table[i].session.protocol = protocol
        /\ nat_table[i].wan_port = wan_port
        /\ nat_table[i].session.dst = src}
<1>1. found \in SUBSET Slots
  OBVIOUS
<1>2. First(found) \in found \cup {-1}
  BY <1>1, FirstFound
<1>3. QED
  BY <1>1, <1>2 DEF nat_find_reverse_entry

\* The search for the reply to an open session fails exactly if the bucket is empty.
LEMMA ReverseOfSession ==
  ASSUME NEW i \in Slots, nat_table[i].active, nat_table[i].session # Nothing
  PROVE  LET e == nat_table[i] IN
         nat_find_reverse_entry(e.session.protocol, e.wan_port, e.session.dst) = -1
           <=> nat_hash_table[nat_hash(e.wan_port)] = -1
<1> DEFINE e == nat_table[i]
           found == {j \in Slots :
        /\ nat_table[j].active
        /\ nat_table[j].session # Nothing
        /\ nat_table[j].session.protocol = e.session.protocol
        /\ nat_table[j].wan_port = e.wan_port
        /\ nat_table[j].session.dst = e.session.dst}
           b == nat_hash_table[nat_hash(e.wan_port)]
<1>1. i \in found /\ found \in SUBSET Slots
  OBVIOUS
<1>2. First(found) \in found
  BY <1>1, FirstFound
<1>3. \A j \in Slots : j # -1
  BY NatAssumption DEF Slots
<1>4. nat_find_reverse_entry(e.session.protocol, e.wan_port, e.session.dst)
        = IF b = -1 THEN -1 ELSE IF b \in found THEN b ELSE First(found)
  BY DEF nat_find_reverse_entry
<1>5. QED
  BY <1>1, <1>2, <1>3, <1>4

LEMMA FreeSlot ==
  /\ nat_alloc_entry \in Slots \cup {-1}
  /\ nat_alloc_entry # -1 => ~nat_table[nat_alloc_entry].active
<1> DEFINE free == {i \in Slots : ~nat_table[i].active}
<1>1. free \in SUBSET Slots
  OBVIOUS
<1>2. First(free) \in free \cup {-1}
  BY <1>1, FirstFound
<1>3. QED
  BY <1>2 DEF nat_alloc_entry

LEMMA PortType ==
  /\ \A p \in Ports : p \in Nat /\ p # 0 /\ PortAfter(p) \in Ports
  /\ port_range_start \in Ports
  BY NatAssumption DEF Ports, PortAfter

LEMMA HashType ==
  /\ \A p \in Ports \cup {0} : nat_hash(p) \in Buckets
  /\ \A s \in Sessions \cup {Nothing} : nat_outbound_hash(s) \in Buckets
<1>1. \A x \in Nat : x % NAT_HASH_SIZE \in Buckets
  BY NatAssumption DEF Buckets
<1>2. \A p \in Ports \cup {0} : p \in Nat
  BY PortType
<1>3. \A s \in Sessions : s.lan.port \in Nat
  BY NatAssumption DEF Sessions
<1>4. QED
  BY <1>1, <1>2, <1>3 DEF nat_hash, nat_outbound_hash

-----------------------------------------------------------------------------
(***************************************************************************)
(* The types and the calls.                                                *)
(***************************************************************************)
LEMMA InitNatInv == Init => NatInv
<1> SUFFICES ASSUME Init PROVE NatInv
  OBVIOUS
<1> USE NatAssumption, PortType
<1>1. TypeOK
  <2>1. NoEntry \in Entries /\ NoCall \in Calls /\ OSTime \in Times
    BY DEF Init, NoEntry, NoCall, Entries, Calls, Times
  <2>2. QED
    BY <2>1 DEF Init, TypeOK
<1>2. CallInv
  BY DEF Init, CallInv, NoCall, Filling
<1>3. SessionInv
  BY DEF Init, SessionInv, Live, NoEntry, NoCall, Filling
<1>4. QED
  BY <1>1, <1>2, <1>3 DEF NatInv

\* What the types say of the parts of an entry and of a call.
LEMMA EntryParts ==
  ASSUME TypeOK
  PROVE  /\ \A i \in Slots : nat_table[i] \in Entries
         /\ out \in Calls /\ in \in Calls /\ NoCall \in Calls
         /\ OSTime \in Times /\ OSTime \in Nat
  BY NatAssumption DEF TypeOK, Calls, NoCall, Times

LEMMA TypeKept ==
  ASSUME NatInv, Next
  PROVE  TypeOK'
<1> USE DEF NatInv
<1>1. TypeOK /\ CallInv
  OBVIOUS
<1>2. CASE Tick
  <2>1. OSTime' \in Times
    BY <1>2, NatAssumption DEF Tick, TypeOK, Times
  <2>2. QED
    BY <1>2, <2>1 DEF Tick, table, TypeOK
<1>3. ASSUME NEW s \in Sessions, OutFind(s)
      PROVE  TypeOK'
  <2>1. nat_find_entry(s) \in Slots \cup {-1}
    BY FoundEntry
  <2>2. out' \in Calls
    BY <1>3, <2>1, EntryParts DEF OutFind, Calls, NoCall
  <2>3. QED
    BY <1>3, <2>2 DEF OutFind, table, TypeOK
<1>4. CASE OutTableFull
  BY <1>4, EntryParts DEF OutTableFull, table, TypeOK
<1>5. CASE OutAlloc
  <2>1. nat_alloc_entry \in Slots
    BY <1>5, FreeSlot DEF OutAlloc
  <2>2. nat_table' \in [Slots -> Entries]
    BY <1>5, <2>1 DEF OutAlloc, TypeOK, Entries
  <2>3. next_port' \in Ports
    BY <1>5, PortType DEF OutAlloc, TypeOK
  <2>4. out' \in Calls
    BY <1>5, <2>1, PortType DEF OutAlloc, TypeOK, Calls
  <2>5. QED
    BY <1>5, <2>2, <2>3, <2>4 DEF OutAlloc, TypeOK
<1>6. CASE OutUpdate
  <2>1. out.now \in Times
    BY EntryParts DEF Calls
  <2>2. nat_table' \in [Slots -> Entries]
    BY <1>6, <2>1 DEF OutUpdate, TypeOK, Entries
  <2>3. QED
    BY <1>6, <2>2, EntryParts DEF OutUpdate, TypeOK
<1>7. CASE OutFill
  <2>1. out.session \in Sessions \cup {Nothing} /\ out.wan_port \in Ports \cup {0}
    BY EntryParts DEF Calls
  <2>2. nat_table' \in [Slots -> Entries]
    BY <1>7, <2>1 DEF OutFill, TypeOK, Entries
  <2>3. out' \in Calls
    BY <1>7, EntryParts DEF OutFill, Calls
  <2>4. QED
    BY <1>7, <2>2, <2>3 DEF OutFill, TypeOK
<1>8. CASE OutActivity
  <2>1. out.now \in Times
    BY EntryParts DEF Calls
  <2>2. nat_table' \in [Slots -> Entries]
    BY <1>8, <2>1 DEF OutActivity, TypeOK, Entries
  <2>3. out' \in Calls
    BY <1>8, EntryParts DEF OutActivity, Calls
  <2>4. QED
    BY <1>8, <2>2, <2>3 DEF OutActivity, TypeOK
<1>9. CASE OutTimeout
  <2>1. Timeout[out.session.protocol] \in Nat
    BY <1>9, NatAssumption DEF OutTimeout, CallInv, Filling, Sessions
  <2>2. nat_table' \in [Slots -> Entries]
    BY <1>9, <2>1 DEF OutTimeout, TypeOK, Entries
  <2>3. out' \in Calls
    BY <1>9, EntryParts DEF OutTimeout, Calls
  <2>4. QED
    BY <1>9, <2>2, <2>3 DEF OutTimeout, TypeOK
<1>10. CASE OutHash
  <2>1. out.slot \in Slots
    BY <1>10 DEF OutHash, CallInv
  <2>2. nat_hash_table' \in [Buckets -> Slots \cup {-1}]
        /\ nat_outbound_hash_table' \in [Buckets -> Slots \cup {-1}]
    BY <1>10, <2>1 DEF OutHash, nat_hash_add, nat_outbound_hash_add, TypeOK
  <2>3. QED
    BY <1>10, <2>2, EntryParts DEF OutHash, TypeOK
<1>11. ASSUME NEW protocol \in Protocols, NEW wan_port \in Ports, NEW src \in Remote,
              InFind(protocol, wan_port, src)
       PROVE  TypeOK'
  <2> DEFINE i == nat_find_reverse_entry(protocol, wan_port, src)
  <2>1. i \in Slots
    BY <1>11, FoundReverse DEF InFind
  <2>2. nat_table[i].session \in Sessions \cup {Nothing}
    BY <2>1 DEF TypeOK, Entries
  <2>3. in' = [NoCall EXCEPT !.pc = "stamp", !.session = nat_table[i].session,
                             !.slot = i, !.now = OSTime]
    BY <1>11 DEF InFind
  <2>4. in' \in Calls
    BY <2>1, <2>2, <2>3, EntryParts DEF Calls, NoCall
  <2>5. QED
    BY <1>11, <2>4 DEF InFind, table, TypeOK
<1>12. CASE InStamp
  <2>1. in.now \in Times
    BY EntryParts DEF Calls
  <2>2. nat_table' \in [Slots -> Entries]
    BY <1>12, <2>1 DEF InStamp, TypeOK, Entries
  <2>3. in' \in Calls
    BY <1>12, EntryParts DEF InStamp, Calls
  <2>4. QED
    BY <1>12, <2>2, <2>3 DEF InStamp, TypeOK
<1>13. CASE InCopy
  BY <1>13, EntryParts DEF InCopy, table, TypeOK
<1>14. CASE NatCleanupExpired
  <2>1. nat_table' \in [Slots -> Entries]
    BY <1>14 DEF NatCleanupExpired, TypeOK, Entries
  <2>2. nat_hash_table' \in [Buckets -> Slots \cup {-1}]
        /\ nat_outbound_hash_table' \in [Buckets -> Slots \cup {-1}]
    BY <1>14 DEF NatCleanupExpired, nat_hash_remove, nat_outbound_hash_remove, TypeOK
  <2>3. QED
    BY <1>14, <2>1, <2>2 DEF NatCleanupExpired, TypeOK
<1>15. QED
  BY <1>2, <1>3, <1>4, <1>5, <1>6, <1>7, <1>8, <1>9, <1>10, <1>11, <1>12, <1>13, <1>14
  DEF Next, Outbound, Inbound

LEMMA CallInvKept ==
  ASSUME NatInv, Next
  PROVE  CallInv'
<1> USE DEF NatInv
<1>1. TypeOK /\ CallInv
  OBVIOUS
<1>2. CASE Tick
  BY <1>2 DEF Tick, table, CallInv
<1>3. ASSUME NEW s \in Sessions, OutFind(s)
      PROVE  CallInv'
  <2>1. nat_find_entry(s) \in Slots \cup {-1}
    BY FoundEntry
  <2>2. QED
    BY <1>3, <2>1 DEF OutFind, NoCall, CallInv, Filling
<1>4. CASE OutTableFull \/ OutUpdate \/ OutHash
  BY <1>4 DEF OutTableFull, OutUpdate, OutHash, NoCall, table, CallInv, Filling
<1>5. CASE OutAlloc
  <2>1. nat_alloc_entry \in Slots /\ next_port \in Ports
    BY <1>5, FreeSlot DEF OutAlloc, TypeOK
  <2>2. /\ out'.pc = "fill" /\ out'.slot \in Slots /\ out'.wan_port \in Ports
        /\ out'.session = out.session /\ out.pc = "alloc" /\ in' = in
    BY <1>5, <2>1 DEF OutAlloc, TypeOK, Calls
  <2>3. QED
    BY <2>2 DEF CallInv, Filling
<1>6. CASE OutFill
  <2>1. /\ out'.pc = "activity" /\ out'.slot = out.slot /\ out'.wan_port = out.wan_port
        /\ out'.session = out.session /\ out.pc = "fill" /\ in' = in
    BY <1>6 DEF OutFill, TypeOK, Calls
  <2>2. out.slot \in Slots
    BY <2>1 DEF CallInv, Filling
  <2>3. /\ nat_table'[out.slot].session = out.session
        /\ nat_table'[out.slot].wan_port = out.wan_port
    BY <1>6, <2>2 DEF OutFill, TypeOK, Entries
  <2>4. QED
    BY <2>1, <2>3 DEF CallInv, Filling
<1>7. CASE OutActivity \/ OutTimeout
  <2>1. /\ out'.pc \in {"timeout", "hash"} /\ out'.slot = out.slot
        /\ out'.wan_port = out.wan_port
        /\ out'.session = out.session /\ out.pc \in {"activity", "timeout"} /\ in' = in
    BY <1>7 DEF OutActivity, OutTimeout, TypeOK, Calls
  <2>2. out.slot \in Slots
    BY <2>1 DEF CallInv, Filling
  <2>3. /\ nat_table'[out.slot].session = nat_table[out.slot].session
        /\ nat_table'[out.slot].wan_port = nat_table[out.slot].wan_port
    BY <1>7, <2>2 DEF OutActivity, OutTimeout, TypeOK, Entries
  <2>4. QED
    BY <2>1, <2>3 DEF CallInv, Filling
<1>8. CASE Inbound
  <2>1. out' = out /\ out.pc = "idle"
    BY <1>8 DEF Inbound, InFind, InStamp, InCopy, LanSleeps
  <2>2. in'.pc \in {"idle", "stamp", "copy"}
    <3>1. CASE InStamp \/ InCopy
      BY <3>1 DEF InStamp, InCopy, NoCall, TypeOK, Calls
    <3>2. CASE \E protocol \in Protocols, wan_port \in Ports, src \in Remote :
                 InFind(protocol, wan_port, src)
      BY <3>2 DEF InFind, NoCall
    <3>3. QED
      BY <1>8, <3>1, <3>2 DEF Inbound
  <2>3. QED
    BY <2>1, <2>2 DEF CallInv, Filling
<1>9. CASE NatCleanupExpired
  <2>1. out' = out /\ in' = in
    BY <1>9 DEF NatCleanupExpired
  <2>2. \A i \in Slots : /\ nat_table'[i].session = nat_table[i].session
                         /\ nat_table'[i].wan_port = nat_table[i].wan_port
    BY <1>9 DEF NatCleanupExpired, TypeOK, Entries
  <2>3. QED
    BY <2>1, <2>2 DEF CallInv, Filling
<1>10. QED
  BY <1>2, <1>3, <1>4, <1>5, <1>6, <1>7, <1>8, <1>9 DEF Next, Outbound

\* What a step does to the entries that are live: it opens the session of the call, or
\* closes some, or changes none.
Same(i) ==
  /\ nat_table'[i].session = nat_table[i].session
  /\ nat_table'[i].wan_port = nat_table[i].wan_port

LEMMA LiveStep ==
  ASSUME NatInv, Next
  PROVE  \/ /\ OutTimeout /\ out.slot \in Slots /\ out.slot \notin Live
            /\ Live' \in {Live, Live \cup {out.slot}}
            /\ \A i \in Live' : Same(i)
            /\ nat_table[out.slot].session = out.session
            /\ nat_table[out.slot].wan_port = out.wan_port
         \/ /\ ~OutTimeout /\ Live' \subseteq Live /\ (Live' = Live \/ NatCleanupExpired)
            /\ \A i \in Live' : Same(i)
<1> USE DEF NatInv
<1>1. /\ nat_table \in [Slots -> Entries]
      /\ \A i \in Slots : i \in Live <=> nat_table[i].active /\ ~BeingFilled(i)
      /\ \A i \in Slots : i \in Live' <=> nat_table'[i].active /\ ~BeingFilled(i)'
      /\ Live \subseteq Slots /\ Live' \subseteq Slots
  BY DEF TypeOK, Live
<1>2. ASSUME UNCHANGED nat_table, ~OutTimeout, out.pc \notin Filling, out'.pc \notin Filling
      PROVE  Live' = Live /\ \A i \in Live' : Same(i)
  BY <1>1, <1>2 DEF BeingFilled, Filling, Same
<1>3. CASE Tick
  BY <1>1, <1>3 DEF Tick, table, BeingFilled, Same, OutTimeout, TypeOK, Times
<1>4. ASSUME NEW s \in Sessions, OutFind(s)
      PROVE  ~OutTimeout /\ Live' = Live /\ \A i \in Live' : Same(i)
  <2>1. ~OutTimeout /\ UNCHANGED nat_table /\ out.pc = "idle" /\ out'.pc \in {"alloc", "update"}
    BY <1>4 DEF OutFind, OutTimeout, NoCall, table
  <2>2. QED
    BY <1>2, <2>1 DEF Filling
<1>5. CASE OutTableFull \/ OutHash
  <2>1. /\ ~OutTimeout /\ UNCHANGED nat_table /\ out.pc \in {"alloc", "hash"}
        /\ out'.pc = "idle"
    BY <1>5 DEF OutTableFull, OutHash, OutTimeout, NoCall, table
  <2>2. QED
    BY <1>2, <2>1 DEF Filling
<1>6. CASE OutUpdate
  <2>1. ~OutTimeout /\ out.pc = "update" /\ out'.pc = "idle"
    BY <1>6 DEF OutUpdate, OutTimeout, NoCall
  <2>2. \A i \in Slots : nat_table'[i].active = nat_table[i].active /\ Same(i)
    BY <1>1, <1>6 DEF OutUpdate, Entries, Same
  <2>3. QED
    BY <1>1, <2>1, <2>2 DEF BeingFilled
<1>7. CASE OutAlloc
  <2>1. nat_alloc_entry \in Slots /\ ~nat_table[nat_alloc_entry].active
    BY <1>7, FreeSlot DEF OutAlloc
  <2>2. /\ ~OutTimeout /\ out.pc = "alloc" /\ out'.pc = "fill" /\ out'.slot = nat_alloc_entry
    BY <1>7 DEF OutAlloc, OutTimeout, TypeOK, Calls
  <2>3. \A i \in Slots : /\ Same(i)
                         /\ i # nat_alloc_entry => nat_table'[i].active = nat_table[i].active
    BY <1>1, <1>7, <2>1 DEF OutAlloc, Entries, Same
  <2>4. \A i : ~BeingFilled(i) /\ (BeingFilled(i)' <=> i = nat_alloc_entry)
    BY <2>2 DEF BeingFilled
  <2>5. \A i \in Slots : i \in Live <=> nat_table[i].active
    BY <1>1, <2>4
  <2>6. \A i \in Slots : i \in Live' <=> nat_table[i].active
    BY <1>1, <2>1, <2>3, <2>4
  <2>7. Live' = Live
    BY <1>1, <2>5, <2>6
  <2>8. QED
    BY <1>1, <2>2, <2>3, <2>7
<1>8. CASE OutFill
  <2>1. /\ ~OutTimeout /\ out.pc = "fill" /\ out'.pc = "activity" /\ out'.slot = out.slot
        /\ out.slot \in Slots
    BY <1>8 DEF OutFill, OutTimeout, CallInv, TypeOK, Calls, Filling
  <2>2. \A i \in Slots : /\ nat_table'[i].active = nat_table[i].active
                         /\ i # out.slot => Same(i)
    BY <1>1, <1>8, <2>1 DEF OutFill, Entries, Same
  <2>3. \A i : (BeingFilled(i) <=> i = out.slot) /\ (BeingFilled(i)' <=> i = out.slot)
    BY <2>1 DEF BeingFilled
  <2>4. QED
    BY <1>1, <2>1, <2>2, <2>3
<1>9. CASE OutActivity
  <2>1. /\ ~OutTimeout /\ out.pc = "activity" /\ out'.pc = "timeout" /\ out'.slot = out.slot
    BY <1>9 DEF OutActivity, OutTimeout, TypeOK, Calls
  <2>2. \A i \in Slots : nat_table'[i].active = nat_table[i].active /\ Same(i)
    BY <1>1, <1>9 DEF OutActivity, Entries, Same
  <2>3. QED
    BY <1>1, <2>1, <2>2 DEF BeingFilled
<1>10. CASE OutTimeout
  <2>1. /\ out.pc = "timeout" /\ out'.pc = "hash" /\ out.slot \in Slots
        /\ nat_table[out.slot].session = out.session
        /\ nat_table[out.slot].wan_port = out.wan_port
    BY <1>10 DEF OutTimeout, CallInv, TypeOK, Calls, Filling
  <2>2. \A i \in Slots : nat_table'[i].active = nat_table[i].active /\ Same(i)
    BY <1>1, <1>10 DEF OutTimeout, Entries, Same
  <2>3. out.slot \notin Live
    BY <1>1, <2>1 DEF BeingFilled
  <2>4. \A i \in Slots : i \in Live' <=> nat_table[i].active
    BY <1>1, <2>1, <2>2 DEF BeingFilled
  <2>5. \A i \in Slots : i \in Live <=> nat_table[i].active /\ i # out.slot
    BY <1>1, <2>1 DEF BeingFilled
  <2>6. Live' = Live \/ Live' = Live \cup {out.slot}
    BY <1>1, <2>1, <2>4, <2>5
  <2>7. QED
    BY <1>1, <1>10, <2>1, <2>2, <2>3, <2>6
<1>11. CASE Inbound
  <2>1. ~OutTimeout /\ out' = out /\ out.pc = "idle"
    BY <1>11 DEF Inbound, InFind, InStamp, InCopy, LanSleeps, OutTimeout
  <2>2. \A i \in Slots : nat_table'[i].active = nat_table[i].active /\ Same(i)
    <3>1. CASE InStamp
      BY <1>1, <3>1 DEF InStamp, Entries, Same
    <3>2. CASE UNCHANGED nat_table
      BY <3>2 DEF Same
    <3>3. QED
      BY <1>11, <3>1, <3>2 DEF Inbound, InFind, InCopy, table
  <2>3. QED
    BY <1>1, <2>1, <2>2 DEF BeingFilled
<1>12. CASE NatCleanupExpired
  <2>1. out' = out /\ ~OutTimeout
    BY <1>12 DEF NatCleanupExpired, OutTimeout, TypeOK, Calls
  <2>2. \A i \in Slots : Same(i) /\ (nat_table'[i].active => nat_table[i].active)
    BY <1>1, <1>12 DEF NatCleanupExpired, Entries, Same
  <2>3. QED
    BY <1>1, <1>12, <2>1, <2>2 DEF BeingFilled
<1>13. QED
  BY <1>3, <1>4, <1>5, <1>6, <1>7, <1>8, <1>9, <1>10, <1>11, <1>12 DEF Next, Outbound

LEMMA SessionInvKept ==
  ASSUME NatInv, Next
  PROVE  SessionInv'
<1> USE DEF NatInv
<1>1. TypeOK /\ CallInv /\ SessionInv
  OBVIOUS
<1>2. CASE OutTimeout
  <2>1. /\ out.slot \in Slots /\ Live' \in {Live, Live \cup {out.slot}}
        /\ \A i \in Live' : Same(i)
        /\ nat_table[out.slot].session = out.session
        /\ nat_table[out.slot].wan_port = out.wan_port
    BY <1>2, LiveStep
  <2>2. out.session \in Sessions /\ out.wan_port \in Ports /\ out'.pc = "hash"
    BY <1>2 DEF OutTimeout, CallInv, Filling, TypeOK, Calls
  <2>3. QED
    BY <2>1, <2>2 DEF SessionInv, Same, Filling
<1>3. CASE ~OutTimeout
  <2>1. Live' \subseteq Live /\ \A i \in Live' : Same(i)
    BY <1>3, LiveStep
  <2>2. \A i \in Live' : nat_table'[i].session \in Sessions /\ nat_table'[i].wan_port \in Ports
    BY <2>1 DEF SessionInv, Same
  <2>3. ASSUME NEW s \in Sessions, OutFind(s)
        PROVE  out'.pc = "alloc" => \A i \in Live' : nat_table'[i].session # out'.session
    <3>1. out'.pc = "alloc" => nat_find_entry(s) = -1
      BY <2>3 DEF OutFind, NoCall
    <3>2. out'.session = s
      BY <2>3 DEF OutFind, NoCall
    <3>3. \A i \in Live' : nat_table'[i].session = nat_table[i].session /\ i \in Slots
                           /\ nat_table[i].active
      BY <2>1 DEF Same, Live
    <3>4. QED
      BY <3>1, <3>2, <3>3, FoundEntry
  <2>4. \/ \E s \in Sessions : OutFind(s)
        \/ out'.pc \notin {"alloc"} \cup Filling
        \/ out.pc \in {"alloc"} \cup Filling /\ out'.session = out.session
    <3>1. CASE OutUpdate \/ OutTableFull \/ OutTimeout \/ OutHash
      <4>1. out'.pc \in {"idle", "hash"}
        BY <3>1 DEF OutUpdate, OutTableFull, OutTimeout, OutHash, NoCall, TypeOK, Calls
      <4>2. QED
        BY <4>1 DEF Filling
    <3>2. CASE OutAlloc \/ OutFill \/ OutActivity
      <4>1. out.pc \in {"alloc", "fill", "activity"} /\ out'.session = out.session
        BY <3>2 DEF OutAlloc, OutFill, OutActivity, TypeOK, Calls
      <4>2. QED
        BY <4>1 DEF Filling
    <3>3. CASE out' = out
      BY <3>3
    <3>4. QED
      BY <3>1, <3>2, <3>3
      DEF Next, Outbound, Tick, Inbound, InFind, InStamp, InCopy, NatCleanupExpired
  <2>5. out'.pc \in {"alloc"} \cup Filling => \A i \in Live' : nat_table'[i].session # out'.session
    <3>1. CASE \E s \in Sessions : OutFind(s)
      <4>1. out'.pc \notin Filling
        BY <3>1 DEF OutFind, NoCall, Filling
      <4>2. QED
        BY <2>3, <3>1, <4>1
    <3>2. CASE out.pc \in {"alloc"} \cup Filling /\ out'.session = out.session
      BY <2>1, <3>2 DEF SessionInv, Same
    <3>3. QED
      BY <2>4, <3>1, <3>2
  <2>6. QED
    BY <2>2, <2>5 DEF SessionInv
<1>4. QED
  BY <1>2, <1>3

LEMMA NextKeepsNatInv == NatInv /\ [Next]_vars => NatInv'
<1>1. ASSUME NatInv, Next
      PROVE  NatInv'
  BY <1>1, TypeKept, CallInvKept, SessionInvKept DEF NatInv
<1>2. CASE UNCHANGED vars
  BY <1>2 DEF vars, table, NatInv, TypeOK, CallInv, SessionInv, Live, BeingFilled
<1>3. QED
  BY <1>1, <1>2

\* Every variable keeps its type: ports stay in the configured range when it wraps around,
\* and buckets hold slots.
THEOREM TypeCorrect == Spec => []TypeOK
<1>1. NatInv => TypeOK
  BY DEF NatInv
<1>2. QED
  BY <1>1, InitNatInv, NextKeepsNatInv, PTL DEF Spec

-----------------------------------------------------------------------------
(***************************************************************************)
(* The table does what NatSessions promises.                               *)
(***************************************************************************)
LEMMA InitAbstract == Init => Abstract!Init
  BY DEF Init, NoEntry, Live, Mapping, Abstract!Init

LEMMA NextAbstract ==
  ASSUME NatInv, Next
  PROVE  Abstract!Next \/ UNCHANGED Mapping
<1> DEFINE pair(i) == <<nat_table[i].session, nat_table[i].wan_port>>
<1>1. /\ Mapping = {pair(i) : i \in Live}
      /\ Mapping' = {pair(i)' : i \in Live'}
      /\ \A i \in Live' : Same(i) => pair(i)' = pair(i)
  BY DEF Mapping, Same
<1>2. CASE OutTimeout
  <2>1. /\ out.slot \notin Live /\ Live' \in {Live, Live \cup {out.slot}}
        /\ \A i \in Live' : pair(i)' = pair(i)
        /\ pair(out.slot) = <<out.session, out.wan_port>>
    BY <1>1, <1>2, LiveStep
  <2>2. CASE Live' = Live
    BY <1>1, <2>1, <2>2
  <2>3. CASE Live' = Live \cup {out.slot}
    <3>1. Mapping' = {pair(i) : i \in Live \cup {out.slot}}
      BY <1>1, <2>1, <2>3
    <3>2. Mapping' = Mapping \cup {<<out.session, out.wan_port>>}
      <4>1. \A x : x \in Mapping' <=> (\E i \in Live : x = pair(i)) \/ x = pair(out.slot)
        BY <3>1
      <4>2. \A x : x \in Mapping' <=> x \in Mapping \/ x = <<out.session, out.wan_port>>
        BY <1>1, <2>1, <4>1
      <4>3. QED
        BY <4>2
    <3>3. \A q \in Ports : <<out.session, q>> \notin Mapping
      BY <1>1, <1>2 DEF OutTimeout, NatInv, SessionInv, Filling
    <3>4. out.session \in Sessions /\ out.wan_port \in Ports
      BY <1>2 DEF OutTimeout, NatInv, CallInv, Filling
    <3>5. Abstract!Open(out.session, out.wan_port)
      BY <3>2, <3>3 DEF Abstract!Open
    <3>6. QED
      BY <3>4, <3>5 DEF Abstract!Next
  <2>4. QED
    BY <2>1, <2>2, <2>3
<1>3. CASE ~OutTimeout
  <2>1. Live' \subseteq Live /\ \A i \in Live' : pair(i)' = pair(i)
    BY <1>1, <1>3, LiveStep
  <2>2. Mapping' \subseteq Mapping
    BY <1>1, <2>1
  <2>3. Mapping' = Mapping \ (Mapping \ Mapping')
    BY <2>2
  <2>4. Abstract!Close
    BY <2>3 DEF Abstract!Close
  <2>5. QED
    BY <2>4 DEF Abstract!Next
<1>4. QED
  BY <1>2, <1>3

\* However the cleanup and the two receive tasks interleave and whatever the hash tables
\* lose, a session never gets a second port before it is closed.
THEOREM TableKeepsSessions == Spec => ImplementsNatSessions
<1>1. Init => NatInv /\ Abstract!Init
  BY InitNatInv, InitAbstract
<1>2. NatInv /\ [Next]_vars => NatInv'
  BY NextKeepsNatInv
<1>3. NatInv /\ [Next]_vars => [Abstract!Next]_Mapping
  <2>1. UNCHANGED vars => UNCHANGED Mapping
    BY DEF vars, table, Mapping, Live, BeingFilled
  <2>2. QED
    BY <2>1, NextAbstract
<1>4. QED
  BY <1>1, <1>2, <1>3, PTL DEF Spec, ImplementsNatSessions, Abstract!Spec

-----------------------------------------------------------------------------
(***************************************************************************)
(* Replies.                                                                *)
(***************************************************************************)
\* The bucket tells whether the reply to an open session is lost.
EmptyBucket(i) ==
  /\ i \in Live /\ ~BeingCreated(i)
  /\ nat_hash_table[nat_hash(nat_table[i].wan_port)] = -1

LEMMA LostReply == NatInv => \A i \in Slots : ReplyIsLost(i) <=> EmptyBucket(i)
<1> SUFFICES ASSUME NatInv, NEW i \in Slots PROVE ReplyIsLost(i) <=> EmptyBucket(i)
  OBVIOUS
<1>1. i \in Live => nat_table[i].active /\ nat_table[i].session # Nothing
  BY NatAssumption DEF NatInv, SessionInv, Live
<1>2. QED
  BY <1>1, ReverseOfSession DEF ReplyIsLost, EmptyBucket

LEMMA LostReplyNext == (NatInv => \A i \in Slots : ReplyIsLost(i) <=> EmptyBucket(i))'
  BY LostReply, PTL

\* No step but a cleanup empties a bucket, and that of a new session is filled at the end.
LEMMA BucketStep ==
  ASSUME NatInv, Next, ~NatCleanupExpired, NEW b \in Buckets, nat_hash_table'[b] = -1
  PROVE  nat_hash_table[b] = -1
<1>1. CASE OutHash
  <2>1. out.slot \in Slots
    BY <1>1 DEF OutHash, NatInv, CallInv
  <2>2. out.slot # -1
    BY <2>1, NatAssumption DEF Slots
  <2>3. nat_hash_table' = [nat_hash_table EXCEPT ![nat_hash(out.wan_port)] = out.slot]
    BY <1>1 DEF OutHash, nat_hash_add
  <2>4. DOMAIN nat_hash_table = Buckets
    BY DEF NatInv, TypeOK
  <2>5. QED
    BY <2>2, <2>3, <2>4
<1>2. CASE UNCHANGED nat_hash_table
  BY <1>2
<1>3. QED
  BY <1>1, <1>2
  DEF Next, Tick, Outbound, Inbound, OutFind, OutUpdate, OutTableFull, OutAlloc, OutFill,
      OutActivity, OutTimeout, InFind, InStamp, InCopy, table

\* A step that ends the creation of an entry is the one that fills its bucket.
LEMMA CreationStep ==
  ASSUME NatInv, Next, NEW i \in Slots, BeingCreated(i), ~BeingCreated(i)'
  PROVE  OutHash /\ out.slot = i
<1>1. out.pc \in {"fill", "activity", "timeout", "hash"} /\ out.slot = i
  BY DEF BeingCreated, BeingFilled
<1>2. CASE OutFill \/ OutActivity \/ OutTimeout
  <2>1. out'.pc \in {"activity", "timeout", "hash"} /\ out'.slot = out.slot
    BY <1>2 DEF OutFill, OutActivity, OutTimeout, NatInv, TypeOK, Calls
  <2>2. QED
    BY <1>1, <2>1 DEF BeingCreated, BeingFilled
<1>3. CASE OutHash
  BY <1>1, <1>3
<1>4. CASE UNCHANGED out
  BY <1>4 DEF BeingCreated, BeingFilled
<1>5. QED
  BY <1>1, <1>2, <1>3, <1>4
  DEF Next, Tick, Outbound, Inbound, OutFind, OutUpdate, OutTableFull, OutAlloc,
      InFind, InStamp, InCopy, LanSleeps, NatCleanupExpired

LEMMA TranslationsLoseNoReply ==
  ASSUME NatInv, NatInv', Next, ~NatCleanupExpired, NEW i \in Slots, ReplyIsLost(i)'
  PROVE  ReplyIsLost(i)
<1> DEFINE b == nat_hash(nat_table[i].wan_port)
<1>1. i \in Live' /\ ~BeingCreated(i)' /\ nat_hash_table'[b'] = -1
  <2>1. EmptyBucket(i)'
    BY LostReplyNext
  <2>2. QED
    BY <2>1 DEF EmptyBucket, nat_hash
<1>2. CASE OutTimeout
  <2>1. out.slot # i
    <3>1. out'.pc = "hash" /\ out'.slot = out.slot
      BY <1>2 DEF OutTimeout, NatInv, TypeOK, Calls
    <3>2. QED
      BY <1>1, <3>1 DEF BeingCreated
  <2>2. i \in Live /\ Same(i)
    BY <1>1, <1>2, <2>1, LiveStep
  <2>3. ~BeingCreated(i)
    BY <1>2, <2>1 DEF OutTimeout, BeingCreated, BeingFilled
  <2>4. nat_hash_table' = nat_hash_table /\ b' = b
    BY <1>2, <2>2 DEF OutTimeout, Same, nat_hash
  <2>5. QED
    BY <1>1, <2>2, <2>3, <2>4, LostReply DEF EmptyBucket
<1>3. CASE ~OutTimeout
  <2>1. i \in Live /\ Same(i)
    BY <1>1, <1>3, LiveStep
  <2>2. b' = b /\ b \in Buckets
    BY <2>1, HashType DEF Same, nat_hash, NatInv, SessionInv
  <2>3. ~BeingCreated(i)
    <3>1. SUFFICES ASSUME BeingCreated(i) PROVE FALSE
      OBVIOUS
    <3>2. OutHash /\ out.slot = i
      BY <1>1, <3>1, CreationStep
    <3>3. nat_table[i].wan_port = out.wan_port /\ i # -1
      BY <3>2, NatAssumption DEF OutHash, NatInv, CallInv, Slots
    <3>4. nat_hash_table'[b] = i
      BY <2>2, <3>2, <3>3 DEF OutHash, nat_hash_add, NatInv, TypeOK
    <3>5. QED
      BY <1>1, <2>2, <3>3, <3>4
  <2>4. QED
    BY <1>1, <2>1, <2>2, <2>3, BucketStep, LostReply DEF EmptyBucket
<1>4. QED
  BY <1>2, <1>3

\* Whatever the translations do to the hash tables, they lose no reply: an overwritten
\* bucket is made up for by the search of the whole table.  (A cleanup does lose some.)
THEOREM RepliesSurviveCollisions == Spec => CollisionsLoseNoReply
<1>1. Init => NatInv
  BY InitNatInv
<1>2. NatInv /\ [Next]_vars => NatInv'
  BY NextKeepsNatInv
<1>3. NatInv /\ NatInv' /\ [Next]_vars =>
        [~NatCleanupExpired => \A i \in Slots : ReplyIsLost(i)' => ReplyIsLost(i)]_vars
  BY TranslationsLoseNoReply
<1>4. QED
  BY <1>1, <1>2, <1>3, PTL DEF Spec, CollisionsLoseNoReply

-----------------------------------------------------------------------------
(***************************************************************************)
(* Time.                                                                   *)
(***************************************************************************)
LEMMA Monotone ==
  ASSUME NEW t \in Nat, NEW x \in Int, NEW y \in Int, x <= y
  PROVE  t * x <= t * y
<1>1. t * y - t * x = t * (y - x) /\ y - x \in Nat
  OBVIOUS
<1>2. \A k \in Nat : t * k \in Nat
  OBVIOUS
<1>3. t * (y - x) >= 0
  BY <1>1, <1>2
<1>4. QED
  BY <1>1, <1>3

LEMMA Division ==
  ASSUME NEW a \in Nat, NEW t \in Nat \ {0}
  PROVE  /\ a \div t \in Nat /\ a \div t <= a
         /\ t * (a \div t) <= a /\ a < t * (a \div t) + t
  OBVIOUS

LEMMA Difference ==
  ASSUME NEW a \in Nat, NEW b \in Nat, NEW t \in Nat \ {0}, NEW s \in Nat
  PROVE  /\ a - b >= s * t => (a \div t) - (b \div t) >= s
         /\ a - b <= (s - 1) * t => (a \div t) - (b \div t) < s
<1> DEFINE q == a \div t
           p == b \div t
<1>1. /\ q \in Nat /\ t * q <= a /\ a < t * q + t
      /\ p \in Nat /\ t * p <= b /\ b < t * p + t
  BY Division
<1> HIDE DEF q, p
<1>2. /\ s * t = t * s /\ (s - 1) * t = t * s - t
      /\ t * (p + s) = t * p + t * s
      /\ t * (p + s - 1) = t * p + t * s - t
  BY <1>1
<1>3. t * p \in Int /\ t * q \in Int /\ t * s \in Int
  BY <1>1
<1>4. ASSUME a - b >= s * t, q - p < s
      PROVE  FALSE
  <2>1. t * q <= t * (p + s - 1)
    BY <1>1, <1>4, Monotone
  <2>2. QED
    BY <1>1, <1>2, <1>3, <1>4, <2>1
<1>5. ASSUME a - b <= (s - 1) * t, q - p >= s
      PROVE  FALSE
  <2>1. t * (p + s) <= t * q
    BY <1>1, <1>5, Monotone
  <2>2. QED
    BY <1>1, <1>2, <1>3, <1>5, <2>1
<1>6. QED
  BY <1>1, <1>4, <1>5 DEF q, p

LEMMA TimeInvKept ==
  ASSUME NatInv, TimeInv, Next, LastTick < TimeMod
  PROVE  TimeInv'
<1> USE DEF NatInv
<1>1. /\ nat_table \in [Slots -> Entries] /\ OSTime \in Nat /\ out.now \in Nat /\ in.now \in Nat
      /\ \A i \in Slots : nat_table[i].last_activity \in Nat
  BY EntryParts, NatAssumption DEF TypeOK, Entries, Calls, Times
<1>2. OSTime <= OSTime'
  <2>1. Tick => OSTime' = OSTime + 1
    BY <1>1, NatAssumption DEF Tick
  <2>2. Tick \/ OSTime' = OSTime
    BY DEF Next, Outbound, Inbound, OutFind, OutUpdate, OutTableFull, OutAlloc, OutFill,
           OutActivity, OutTimeout, OutHash, InFind, InStamp, InCopy, NatCleanupExpired
  <2>3. QED
    BY <1>1, <2>1, <2>2
<1>3. OSTime' \in Nat
  BY TypeKept, NatAssumption DEF TypeOK, Times
<1>4. out'.now <= OSTime
  <2>1. out'.now \in {0, OSTime, out.now}
    <3>1. CASE \E s \in Sessions : OutFind(s)
      BY <3>1 DEF OutFind, NoCall
    <3>2. CASE OutUpdate \/ OutTableFull \/ OutHash
      BY <3>2 DEF OutUpdate, OutTableFull, OutHash, NoCall
    <3>3. CASE OutAlloc \/ OutFill \/ OutActivity \/ OutTimeout
      BY <3>3 DEF OutAlloc, OutFill, OutActivity, OutTimeout, TypeOK, Calls
    <3>4. CASE out' = out
      BY <3>4
    <3>5. QED
      BY <3>1, <3>2, <3>3, <3>4
      DEF Next, Outbound, Tick, Inbound, InFind, InStamp, InCopy, NatCleanupExpired
  <2>2. QED
    BY <1>1, <2>1 DEF TimeInv
<1>5. in'.now <= OSTime
  <2>1. in'.now \in {0, OSTime, in.now}
    <3>1. CASE \E protocol \in Protocols, wan_port \in Ports, src \in Remote :
                 InFind(protocol, wan_port, src)
      BY <3>1 DEF InFind, NoCall
    <3>2. CASE InStamp \/ InCopy
      BY <3>2 DEF InStamp, InCopy, NoCall, TypeOK, Calls
    <3>3. CASE in' = in
      BY <3>3
    <3>4. QED
      BY <3>1, <3>2, <3>3
      DEF Next, Outbound, Tick, Inbound, OutFind, OutUpdate, OutTableFull, OutAlloc, OutFill,
          OutActivity, OutTimeout, OutHash, NatCleanupExpired
  <2>2. QED
    BY <1>1, <2>1 DEF TimeInv
<1>6. \A i \in Slots : nat_table'[i].last_activity <= OSTime
  <2>1. \A i \in Slots : nat_table'[i].last_activity
                           \in {nat_table[i].last_activity, out.now, in.now}
    <3>1. CASE OutUpdate \/ OutActivity
      BY <1>1, <3>1 DEF OutUpdate, OutActivity, Entries
    <3>2. CASE OutAlloc
      BY <1>1, <3>2 DEF OutAlloc, Entries
    <3>3. CASE OutFill
      BY <1>1, <3>3 DEF OutFill, Entries
    <3>4. CASE OutTimeout
      BY <1>1, <3>4 DEF OutTimeout, Entries
    <3>5. CASE InStamp
      BY <1>1, <3>5 DEF InStamp, Entries
    <3>6. CASE NatCleanupExpired
      BY <1>1, <3>6 DEF NatCleanupExpired, Entries
    <3>7. CASE UNCHANGED nat_table
      BY <3>7
    <3>8. QED
      BY <3>1, <3>2, <3>3, <3>4, <3>5, <3>6, <3>7
      DEF Next, Outbound, Tick, Inbound, OutFind, OutTableFull, OutHash, InFind, InCopy, table
  <2>2. QED
    BY <1>1, <2>1 DEF TimeInv
<1>7. /\ out'.now \in Nat /\ in'.now \in Nat
      /\ \A i \in Slots : nat_table'[i].last_activity \in Nat
  BY TypeKept, NatAssumption DEF TypeOK, Entries, Calls, Times
<1>8. QED
  BY <1>1, <1>2, <1>3, <1>4, <1>5, <1>6, <1>7 DEF TimeInv

\* The test of whole seconds is right: it removes no entry a second early, and none late.
LEMMA CleanupInTime ==
  ASSUME NatInv, TimeInv, NatCleanupExpired, NEW i \in Slots, nat_table[i].active
  PROVE  LET seconds == nat_table[i].timeout_sec IN
         /\ Idle(i) >= seconds * TICKS_PER_SEC => ~nat_table'[i].active
         /\ Idle(i) <= (seconds - 1) * TICKS_PER_SEC => nat_table'[i].active
<1> DEFINE used == nat_table[i].last_activity
           seconds == nat_table[i].timeout_sec
<1>1. /\ OSTime \in Nat /\ OSTime < TimeMod /\ used \in Nat /\ used <= OSTime
      /\ seconds \in Nat /\ nat_table[i] \in Entries
  BY NatAssumption DEF NatInv, TypeOK, TimeInv, Entries, Times
<1>2. Idle(i) = OSTime - used
  BY <1>1, NatAssumption DEF Idle
<1>3. /\ Seconds(OSTime) \in Nat /\ Seconds(used) \in Nat
      /\ Seconds(OSTime) <= OSTime /\ Seconds(used) <= Seconds(OSTime)
      /\ OSTime - used >= seconds * TICKS_PER_SEC => Seconds(OSTime) - Seconds(used) >= seconds
      /\ OSTime - used <= (seconds - 1) * TICKS_PER_SEC
           => Seconds(OSTime) - Seconds(used) < seconds
  <2>1. OSTime - used >= 0 * TICKS_PER_SEC
    BY <1>1, NatAssumption
  <2>2. Seconds(OSTime) - Seconds(used) >= 0
    BY <1>1, <2>1, NatAssumption, Difference DEF Seconds
  <2>3. Seconds(OSTime) \in Nat /\ Seconds(used) \in Nat /\ Seconds(OSTime) <= OSTime
    BY <1>1, NatAssumption, Division DEF Seconds
  <2>4. /\ OSTime - used >= seconds * TICKS_PER_SEC
             => Seconds(OSTime) - Seconds(used) >= seconds
        /\ OSTime - used <= (seconds - 1) * TICKS_PER_SEC
             => Seconds(OSTime) - Seconds(used) < seconds
    <3>1. OSTime \in Nat /\ used \in Nat /\ seconds \in Nat /\ TICKS_PER_SEC \in Nat \ {0}
      BY <1>1, NatAssumption
    <3> HIDE DEF used, seconds
    <3>2. QED
      BY <3>1, Difference DEF Seconds
  <2>5. Seconds(used) <= Seconds(OSTime)
    BY <2>2, <2>3
  <2>6. QED
    BY <2>3, <2>4, <2>5
<1>4. (Seconds(OSTime) - Seconds(used)) % TimeMod = Seconds(OSTime) - Seconds(used)
  <2>1. Seconds(OSTime) - Seconds(used) \in 0..(TimeMod - 1)
    BY <1>1, <1>3, NatAssumption
  <2>2. QED
    BY <2>1, NatAssumption
<1>5. Expired(nat_table[i]) <=> Seconds(OSTime) - Seconds(used) >= seconds
  BY <1>4 DEF Expired
<1>6. nat_table'[i].active <=> ~Expired(nat_table[i])
  BY <1>1 DEF NatCleanupExpired, Entries
<1>7. /\ Idle(i) >= seconds * TICKS_PER_SEC => ~nat_table'[i].active
      /\ Idle(i) <= (seconds - 1) * TICKS_PER_SEC => nat_table'[i].active
  <2>1. \A d, e : d = e => /\ (d >= seconds * TICKS_PER_SEC <=> e >= seconds * TICKS_PER_SEC)
                          /\ (d <= (seconds - 1) * TICKS_PER_SEC
                                <=> e <= (seconds - 1) * TICKS_PER_SEC)
    OBVIOUS
  <2>2. ~(Seconds(OSTime) - Seconds(used) >= seconds /\ Seconds(OSTime) - Seconds(used) < seconds)
    BY <1>1, <1>3
  <2>3. QED
    BY <1>2, <1>3, <1>5, <1>6, <2>1, <2>2
<1>8. QED
  BY <1>7

\* Until the tick count wraps around, a cleanup removes every entry that was idle for its
\* timeout, and none that was idle for a second less, whatever the tasks were doing.
THEOREM ExpiryInTime ==
  ASSUME LastTick < TimeMod
  PROVE  Spec => ExpiryIsTimely
<1>1. Init => NatInv /\ TimeInv
  <2>1. Init => TimeInv
    BY DEF Init, TimeInv, NoCall, NoEntry
  <2>2. QED
    BY <2>1, InitNatInv
<1>2. NatInv /\ TimeInv /\ [Next]_vars => (NatInv /\ TimeInv)'
  <2>1. ASSUME NatInv, TimeInv, Next
        PROVE  TimeInv'
    BY <2>1, TimeInvKept
  <2>2. TimeInv /\ UNCHANGED vars => TimeInv'
    BY DEF vars, table, TimeInv
  <2>3. QED
    BY <2>1, <2>2, NextKeepsNatInv
<1>3. NatInv /\ TimeInv /\ [Next]_vars =>
        [NatCleanupExpired => \A i \in Slots : nat_table[i].active =>
           LET seconds == nat_table[i].timeout_sec IN
           /\ Idle(i) >= seconds * TICKS_PER_SEC => ~nat_table'[i].active
           /\ Idle(i) <= (seconds - 1) * TICKS_PER_SEC => nat_table'[i].active]_vars
  BY CleanupInTime
<1>4. QED
  BY <1>1, <1>2, <1>3, PTL DEF Spec, ExpiryIsTimely

=============================================================================
