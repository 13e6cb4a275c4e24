--------------------------------- MODULE Nat --------------------------------
(***************************************************************************)
(* The address translation table of the gateway (bsp/nat.c), as the tasks  *)
(* of the network demo share it.  No call of it has a critical section:    *)
(*                                                                         *)
(*   net_demo_run   priority 4   nat_cleanup_expired                       *)
(*   LAN net_rx_task         5   nat_translate_outbound                    *)
(*   WAN net_rx_task         6   nat_translate_inbound                     *)
(*                                                                         *)
(* So a cleanup is one step, which may come between any two steps of the   *)
(* others, and the LAN task may preempt the WAN task.                      *)
(***************************************************************************)
EXTENDS Integers, FiniteSets

CONSTANTS
  NAT_TABLE_SIZE, NAT_HASH_SIZE,
  port_range_start, port_range_end,
  Protocols,        \* ICMP, TCP, UDP
  Timeout,          \* their timeouts in seconds
  Lan,              \* LAN addresses: records of ip and port
  Remote,           \* destinations
  TICKS_PER_SEC,
  TimeMod,          \* where OSTime wraps around (2^32)
  LastTick,         \* bound: OSTime stops here; TimeMod: it does not stop
  LastPort,         \* bound: no port above it is allocated
  Nothing

Slots == 0..(NAT_TABLE_SIZE - 1)
Buckets == 0..(NAT_HASH_SIZE - 1)
Ports == port_range_start..port_range_end
Times == 0..(TimeMod - 1)
Sessions == [protocol : Protocols, lan : Lan, dst : Remote]

ASSUME NatAssumption ==
  /\ NAT_TABLE_SIZE \in Nat \ {0} /\ NAT_HASH_SIZE \in Nat \ {0}
  /\ port_range_start \in Nat \ {0} /\ port_range_end \in Nat
  /\ port_range_start < port_range_end
  /\ Timeout \in [Protocols -> Nat \ {0}]
  /\ \A a \in Lan : a.port \in Nat
  /\ TICKS_PER_SEC \in Nat \ {0} /\ TimeMod \in Nat \ {0} /\ LastTick \in Nat
  /\ Nothing \notin Sessions

VARIABLES
  OSTime,
  nat_table,                \* the entries
  nat_hash_table,           \* slot of the entry with a port, or -1
  nat_outbound_hash_table,  \* slot of the entry with a LAN port, or -1
  next_port,
  out,                      \* the call of nat_translate_outbound
  in                        \* the call of nat_translate_inbound

table == <<nat_table, nat_hash_table, nat_outbound_hash_table, next_port>>
vars == <<OSTime, table, out, in>>

NoEntry == [active |-> FALSE, session |-> Nothing, wan_port |-> 0,
            last_activity |-> 0, timeout_sec |-> 0]
NoCall == [pc |-> "idle", session |-> Nothing, wan_port |-> 0, slot |-> -1, now |-> 0]

\* nat_init.
Init ==
  /\ OSTime = 0
  /\ nat_table = [i \in Slots |-> NoEntry]
  /\ nat_hash_table = [b \in Buckets |-> -1]
  /\ nat_outbound_hash_table = [b \in Buckets |-> -1]
  /\ next_port = port_range_start
  /\ out = NoCall
  /\ in = NoCall

nat_hash(wan_port) == wan_port % NAT_HASH_SIZE

\* The protocol is shifted beyond the bits that the mask leaves.  An entry that was
\* never filled has port 0.
nat_outbound_hash(s) == (IF s = Nothing THEN 0 ELSE s.lan.port) % NAT_HASH_SIZE

\* A collision overwrites the bucket.
nat_hash_add(wan_port, slot) == [nat_hash_table EXCEPT ![nat_hash(wan_port)] = slot]

nat_outbound_hash_add(s, slot) ==
  [nat_outbound_hash_table EXCEPT ![nat_outbound_hash(s)] = slot]

\* A bucket is emptied whatever it holds.
nat_hash_remove(wan_ports) ==
  [b \in Buckets |-> IF b \in {nat_hash(p) : p \in wan_ports} THEN -1 ELSE nat_hash_table[b]]

nat_outbound_hash_remove(sessions) ==
  [b \in Buckets |-> IF b \in {nat_outbound_hash(s) : s \in sessions} THEN -1
                     ELSE nat_outbound_hash_table[b]]

\* The first slot of a linear search, or -1.
First(found) == IF found = {} THEN -1 ELSE CHOOSE i \in found : \A j \in found : i <= j

\* Fault: only the bucket is looked at.
FindInBucketOnly(s) ==
  LET i == nat_outbound_hash_table[nat_outbound_hash(s)]
  IN IF i # -1 /\ nat_table[i].active /\ nat_table[i].session = s THEN i ELSE -1

\* The bucket is looked at first, then the whole table.
nat_find_entry(s) ==
  LET found == {i \in Slots : nat_table[i].active /\ nat_table[i].session = s}
      i == nat_outbound_hash_table[nat_outbound_hash(s)]
  IN IF i \in found THEN i ELSE First(found)

\* Fault: no search beyond the bucket.
FindReverseInBucketOnly(protocol, wan_port, src) ==
  LET i == nat_hash_table[nat_hash(wan_port)]
  IN IF /\ i # -1
        /\ nat_table[i].active
        /\ nat_table[i].session # Nothing
        /\ nat_table[i].session.protocol = protocol
        /\ nat_table[i].wan_port = wan_port
        /\ nat_table[i].session.dst = src
     THEN i ELSE -1

\* An empty bucket ends the search.
nat_find_reverse_entry(protocol, wan_port, src) ==
  LET found == {i \in Slots :
        /\ nat_table[i].active
        /\ nat_table[i].session # Nothing
        /\ nat_table[i].session.protocol = protocol
        /\ nat_table[i].wan_port = wan_port
        /\ nat_table[i].session.dst = src}
      i == nat_hash_table[nat_hash(wan_port)]
  IN IF i = -1 THEN -1 ELSE IF i \in found THEN i ELSE First(found)

nat_alloc_entry == First({i \in Slots : ~nat_table[i].active})

\* Fault: no wrap-around.
PortAfterNoWrap(port) == port + 1

\* The port after the one that is handed out.
PortAfter(port) == IF port + 1 > port_range_end THEN port_range_start ELSE port + 1

-----------------------------------------------------------------------------
Tick ==
  /\ OSTime < LastTick
  /\ OSTime' = (OSTime + 1) % TimeMod
  /\ UNCHANGED <<table, out, in>>

(***************************************************************************)
(* nat_translate_outbound, on the LAN task.                                *)
(***************************************************************************)
OutFind(s) ==
  /\ out.pc = "idle"
  /\ LET i == nat_find_entry(s) IN
       out' = [NoCall EXCEPT !.pc = IF i = -1 THEN "alloc" ELSE "update",
                             !.session = s, !.slot = i, !.now = OSTime]
  /\ UNCHANGED <<OSTime, table, in>>

OutUpdate ==
  /\ out.pc = "update"
  /\ nat_table' = [nat_table EXCEPT ![out.slot].last_activity = out.now]
  /\ out' = NoCall
  /\ UNCHANGED <<OSTime, nat_hash_table, nat_outbound_hash_table, next_port, in>>

\* The table is full: the call fails.
OutTableFull ==
  /\ out.pc = "alloc"
  /\ nat_alloc_entry = -1
  /\ out' = NoCall
  /\ UNCHANGED <<OSTime, table, in>>

\* The entry is marked active first, with what it held before.
OutAlloc ==
  /\ out.pc = "alloc"
  /\ nat_alloc_entry # -1
  /\ next_port <= LastPort
  /\ next_port' = PortAfter(next_port)
  /\ nat_table' = [nat_table EXCEPT ![nat_alloc_entry].active = TRUE]
  /\ out' = [out EXCEPT !.pc = "fill", !.slot = nat_alloc_entry, !.wan_port = next_port]
  /\ UNCHANGED <<OSTime, nat_hash_table, nat_outbound_hash_table, in>>

\* The rest of the entry is written field by field; a cleanup in between judges
\* it by last_activity and timeout_sec, and empties the buckets of its ports.
OutFill ==
  /\ out.pc = "fill"
  /\ nat_table' = [nat_table EXCEPT ![out.slot].session = out.session,
                                   ![out.slot].wan_port = out.wan_port]
  /\ out' = [out EXCEPT !.pc = "activity"]
  /\ UNCHANGED <<OSTime, nat_hash_table, nat_outbound_hash_table, next_port, in>>

OutActivity ==
  /\ out.pc = "activity"
  /\ nat_table' = [nat_table EXCEPT ![out.slot].last_activity = out.now]
  /\ out' = [out EXCEPT !.pc = "timeout"]
  /\ UNCHANGED <<OSTime, nat_hash_table, nat_outbound_hash_table, next_port, in>>

OutTimeout ==
  /\ out.pc = "timeout"
  /\ nat_table' = [nat_table EXCEPT ![out.slot].timeout_sec = Timeout[out.session.protocol]]
  /\ out' = [out EXCEPT !.pc = "hash"]
  /\ UNCHANGED <<OSTime, nat_hash_table, nat_outbound_hash_table, next_port, in>>

\* The call returns.
OutHash ==
  /\ out.pc = "hash"
  /\ nat_hash_table' = nat_hash_add(out.wan_port, out.slot)
  /\ nat_outbound_hash_table' = nat_outbound_hash_add(out.session, out.slot)
  /\ out' = NoCall
  /\ UNCHANGED <<OSTime, nat_table, next_port, in>>

\* What a call that succeeds returns in *wan_port.
GrantedPort == IF out.pc = "update" THEN nat_table[out.slot].wan_port ELSE out.wan_port

(***************************************************************************)
(* nat_translate_inbound, on the WAN task.                                 *)
(***************************************************************************)
LanSleeps == out.pc = "idle"

\* A packet that belongs to no session is not translated.
InFind(protocol, wan_port, src) ==
  /\ LanSleeps
  /\ in.pc = "idle"
  /\ LET i == nat_find_reverse_entry(protocol, wan_port, src) IN
       /\ i # -1
       /\ in' = [NoCall EXCEPT !.pc = "stamp", !.session = nat_table[i].session,
                              !.slot = i, !.now = OSTime]
  /\ UNCHANGED <<OSTime, table, out>>

InStamp ==
  /\ LanSleeps
  /\ in.pc = "stamp"
  /\ nat_table' = [nat_table EXCEPT ![in.slot].last_activity = in.now]
  /\ in' = [in EXCEPT !.pc = "copy"]
  /\ UNCHANGED <<OSTime, nat_hash_table, nat_outbound_hash_table, next_port, out>>

\* The LAN address is copied from the entry and the call returns.
InCopy ==
  /\ LanSleeps
  /\ in.pc = "copy"
  /\ in' = NoCall
  /\ UNCHANGED <<OSTime, table, out>>

(***************************************************************************)
(* nat_cleanup_expired, from the main loop.                                *)
(***************************************************************************)
Seconds(ticks) == ticks \div TICKS_PER_SEC

\* Fault: one second late.
ExpiredLate(e) ==
  /\ e.active
  /\ (Seconds(OSTime) - Seconds(e.last_activity)) % TimeMod > e.timeout_sec

Expired(e) ==
  /\ e.active
  /\ (Seconds(OSTime) - Seconds(e.last_activity)) % TimeMod >= e.timeout_sec

\* The entries that expire are removed, and the buckets of their ports emptied.
NatCleanupExpired ==
  LET gone == {i \in Slots : Expired(nat_table[i])} IN
  /\ gone # {}
  /\ nat_table' = [i \in Slots |->
       IF i \in gone THEN [nat_table[i] EXCEPT !.active = FALSE] ELSE nat_table[i]]
  /\ nat_hash_table' = nat_hash_remove({nat_table[i].wan_port : i \in gone})
  /\ nat_outbound_hash_table' = nat_outbound_hash_remove({nat_table[i].session : i \in gone})
  /\ UNCHANGED <<OSTime, next_port, out, in>>

-----------------------------------------------------------------------------
Outbound ==
  \/ \E s \in Sessions : OutFind(s)
  \/ OutUpdate \/ OutTableFull \/ OutAlloc \/ OutFill \/ OutActivity
  \/ OutTimeout \/ OutHash

Inbound ==
  \/ \E protocol \in Protocols, wan_port \in Ports, src \in Remote :
       InFind(protocol, wan_port, src)
  \/ InStamp \/ InCopy

Next == Tick \/ Outbound \/ Inbound \/ NatCleanupExpired

Spec == Init /\ [][Next]_vars

-----------------------------------------------------------------------------
(***************************************************************************)
(* Properties.                                                             *)
(***************************************************************************)
Entries == [active : BOOLEAN, session : Sessions \cup {Nothing},
            wan_port : Ports \cup {0}, last_activity : Times, timeout_sec : Nat]

Calls == [pc : {"idle", "update", "alloc", "fill", "activity", "timeout", "hash",
                "stamp", "copy"},
          session : Sessions \cup {Nothing}, wan_port : Ports \cup {0},
          slot : Slots \cup {-1}, now : Times]

\* Every variable has its type; ports stay in the configured range.
TypeOK ==
  /\ OSTime \in Times
  /\ nat_table \in [Slots -> Entries]
  /\ nat_hash_table \in [Buckets -> Slots \cup {-1}]
  /\ nat_outbound_hash_table \in [Buckets -> Slots \cup {-1}]
  /\ next_port \in Ports
  /\ out \in Calls /\ in \in Calls

BeingFilled(i) == out.pc \in {"fill", "activity", "timeout"} /\ out.slot = i
BeingCreated(i) == BeingFilled(i) \/ (out.pc = "hash" /\ out.slot = i)

Live == {i \in Slots : nat_table[i].active /\ ~BeingFilled(i)}

Mapping == {<<nat_table[i].session, nat_table[i].wan_port>> : i \in Live}

Abstract == INSTANCE NatSessions WITH Ports <- Ports, mapping <- Mapping

\* Whatever the hash tables lose and whenever a cleanup comes, a session that is
\* open has one entry and keeps its port until it is closed.
ImplementsNatSessions == Abstract!Spec

\* The tick count since an entry was used, while it is less than TimeMod.
Idle(i) == (OSTime - nat_table[i].last_activity) % TimeMod

\* A cleanup removes every entry that was idle for its timeout, and none that was
\* idle for a second less.
ExpiryIsTimely ==
  [][NatCleanupExpired => \A i \in Slots : nat_table[i].active =>
       LET seconds == nat_table[i].timeout_sec IN
       /\ Idle(i) >= seconds * TICKS_PER_SEC => ~nat_table'[i].active
       /\ Idle(i) <= (seconds - 1) * TICKS_PER_SEC => nat_table'[i].active]_vars

\* The reply to a session whose outbound call has returned finds no entry.
ReplyIsLost(i) ==
  /\ i \in Live
  /\ ~BeingCreated(i)
  /\ LET e == nat_table[i] IN
       nat_find_reverse_entry(e.session.protocol, e.wan_port, e.session.dst) = -1

\* Replies to an open session find its entry.  Two sessions whose ports share a bucket
\* do not stand in each other's way: "the old entry can still be found via linear search
\* fallback" (nat.c:627), and the removal of an entry "only removes if the hash bucket
\* points to an entry with this port" (nat.c:640).
RepliesFindTheirEntry == \A i \in Slots : ~ReplyIsLost(i)

\* The first half of it: whatever the translations of other sessions do to the bucket, the
\* search of the whole table makes up for it.  (The second half fails: a cleanup
\* empties the bucket of an entry that stays.)
CollisionsLoseNoReply ==
  [][~NatCleanupExpired => \A i \in Slots : ReplyIsLost(i)' => ReplyIsLost(i)]_vars

\* An outbound call that succeeds leaves the session in the table, with the port
\* that it returns.
GrantedIsOpen ==
  [][OutUpdate \/ OutHash => \E i \in Slots :
       /\ nat_table'[i].active
       /\ nat_table'[i].session = out.session
       /\ nat_table'[i].wan_port = GrantedPort]_vars

=============================================================================
