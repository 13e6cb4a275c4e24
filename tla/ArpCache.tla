------------------------------ MODULE ArpCache ------------------------------
(***************************************************************************)
(* The ARP cache of the gateway (bsp/nat.c).  The receive tasks of the two *)
(* interfaces learn from every IPv4 packet and every ARP reply, and look   *)
(* up the link address of what they forward.  There is no critical         *)
(* section, so the task of higher priority may do any number of calls      *)
(* between two steps of the other.  Nothing calls arp_cache_cleanup.       *)
(*                                                                         *)
(* Addresses are copied byte by byte.  An IP address that is half written  *)
(* equals no other; a link address is written and read in two halves.      *)
(***************************************************************************)
EXTENDS Integers, FiniteSets

CONSTANTS
  ARP_TABLE_SIZE,
  RxTasks,   \* priorities of the tasks that share the cache; 0 is the highest
  Ips, Macs,
  TimeMod,   \* where OSTime wraps around (2^32)
  LastTick,  \* bound: OSTime stops here; TimeMod: it does not stop
  Nothing

Slots == 0..(ARP_TABLE_SIZE - 1)
Times == 0..(TimeMod - 1)

ASSUME ArpAssumption ==
  /\ ARP_TABLE_SIZE \in Nat \ {0}
  /\ RxTasks \subseteq Nat
  /\ TimeMod \in Nat \ {0} /\ LastTick \in 0..TimeMod
  /\ Nothing \notin Ips \cup Macs \cup (Ips \X Macs)

VARIABLES
  OSTime,
  arp_table,
  pc,       \* where each task is in its call
  call,     \* what the call is about
  learned   \* the pairs that arp_cache_add was ever called with

vars == <<OSTime, arp_table, pc, call, learned>>

NoMac == <<Nothing, Nothing>>
NoEntry == [active |-> FALSE, ip |-> Nothing, mac |-> NoMac, last_update |-> 0]
NoCall == [ip |-> Nothing, mac |-> NoMac, slot |-> 0, now |-> 0]

Init ==
  /\ OSTime = 0
  /\ arp_table = [i \in Slots |-> NoEntry]
  /\ pc = [t \in RxTasks |-> "idle"]
  /\ call = [t \in RxTasks |-> NoCall]
  /\ learned = {}

Tick ==
  /\ OSTime < LastTick
  /\ OSTime' = (OSTime + 1) % TimeMod
  /\ UNCHANGED <<arp_table, pc, call, learned>>

-----------------------------------------------------------------------------
At(t, label) ==
  /\ pc[t] = label
  /\ \A h \in RxTasks : h < t => pc[h] = "idle"

Goto(t, label) == pc' = [pc EXCEPT ![t] = label]

First(found) == CHOOSE i \in found : \A j \in found : i <= j

HasIp(ip) == {i \in Slots : arp_table[i].active /\ arp_table[i].ip = ip}

\* Fault: an entry that exists is not looked for.
ArpCacheAddNew(t, ip, mac) ==
  /\ At(t, "idle")
  /\ call' = [call EXCEPT ![t] = [ip |-> ip, mac |-> <<mac, mac>>, slot |-> 0, now |-> OSTime]]
  /\ Goto(t, "free")
  /\ learned' = learned \cup {<<ip, mac>>}
  /\ UNCHANGED <<OSTime, arp_table>>

\* arp_cache_add is called; it looks for the entry of the address.
ArpCacheAdd(t, ip, mac) ==
  /\ At(t, "idle")
  /\ call' = [call EXCEPT ![t] =
       [ip |-> ip, mac |-> <<mac, mac>>, now |-> OSTime,
        slot |-> IF HasIp(ip) = {} THEN 0 ELSE First(HasIp(ip))]]
  /\ Goto(t, IF HasIp(ip) = {} THEN "free" ELSE "claim")
  /\ learned' = learned \cup {<<ip, mac>>}
  /\ UNCHANGED <<OSTime, arp_table>>

FindFree(t) ==
  LET free == {i \in Slots : ~arp_table[i].active} IN
  /\ At(t, "free")
  /\ IF free = {} THEN Goto(t, "oldest") /\ UNCHANGED call
     ELSE Goto(t, "claim") /\ call' = [call EXCEPT ![t].slot = First(free)]
  /\ UNCHANGED <<OSTime, arp_table, learned>>

\* The oldest of the entries that are older than now; else slot 0.
Oldest(now) ==
  LET older == {i \in Slots : arp_table[i].last_update < now}
  IN IF older = {} THEN 0
     ELSE First({i \in older : \A j \in older :
                  arp_table[i].last_update <= arp_table[j].last_update})

\* Fault: no slot if no entry is older than now.
FindOldestOrNone(t) ==
  /\ At(t, "oldest")
  /\ call' = [call EXCEPT ![t].slot =
       IF \E i \in Slots : arp_table[i].last_update < call[t].now
         THEN Oldest(call[t].now) ELSE -1]
  /\ Goto(t, "claim")
  /\ UNCHANGED <<OSTime, arp_table, learned>>

\* Fault: the comparison is the other way round.
FindNewest(t) ==
  /\ At(t, "oldest")
  /\ call' = [call EXCEPT ![t].slot =
       First({i \in Slots : \A j \in Slots :
               arp_table[j].last_update <= arp_table[i].last_update})]
  /\ Goto(t, "claim")
  /\ UNCHANGED <<OSTime, arp_table, learned>>

FindOldest(t) ==
  /\ At(t, "oldest")
  /\ call' = [call EXCEPT ![t].slot = Oldest(call[t].now)]
  /\ Goto(t, "claim")
  /\ UNCHANGED <<OSTime, arp_table, learned>>

\* active = true and the first bytes of the IP address.
ClaimSlot(t) ==
  /\ At(t, "claim")
  /\ arp_table' = [arp_table EXCEPT ![call[t].slot].active = TRUE,
                     ![call[t].slot].ip = IF @ = call[t].ip THEN @ ELSE Nothing]
  /\ Goto(t, "ip")
  /\ UNCHANGED <<OSTime, call, learned>>

\* Fault: the link address is not copied.
CopyIpOnly(t) ==
  /\ At(t, "ip")
  /\ arp_table' = [arp_table EXCEPT ![call[t].slot].ip = call[t].ip]
  /\ Goto(t, "stamp")
  /\ UNCHANGED <<OSTime, call, learned>>

CopyIp(t) ==
  /\ At(t, "ip")
  /\ arp_table' = [arp_table EXCEPT ![call[t].slot].ip = call[t].ip]
  /\ Goto(t, "mac1")
  /\ UNCHANGED <<OSTime, call, learned>>

CopyMac(t) ==
  /\ \/ /\ At(t, "mac1") /\ Goto(t, "mac2")
        /\ arp_table' = [arp_table EXCEPT ![call[t].slot].mac[1] = call[t].mac[1]]
     \/ /\ At(t, "mac2") /\ Goto(t, "stamp")
        /\ arp_table' = [arp_table EXCEPT ![call[t].slot].mac[2] = call[t].mac[2]]
  /\ UNCHANGED <<OSTime, call, learned>>

StampEntry(t) ==
  /\ At(t, "stamp")
  /\ arp_table' = [arp_table EXCEPT ![call[t].slot].last_update = call[t].now]
  /\ call' = [call EXCEPT ![t] = NoCall]
  /\ Goto(t, "idle")
  /\ UNCHANGED <<OSTime, learned>>

-----------------------------------------------------------------------------
\* arp_cache_lookup of an address that is found; otherwise it returns false.
ArpCacheLookup(t, ip) ==
  /\ At(t, "idle")
  /\ HasIp(ip) # {}
  /\ call' = [call EXCEPT ![t] = [NoCall EXCEPT !.ip = ip, !.slot = First(HasIp(ip))]]
  /\ Goto(t, "read1")
  /\ UNCHANGED <<OSTime, arp_table, learned>>

ReadMac(t) ==
  /\ At(t, "read1")
  /\ call' = [call EXCEPT ![t].mac[1] = arp_table[call[t].slot].mac[1]]
  /\ Goto(t, "read2")
  /\ UNCHANGED <<OSTime, arp_table, learned>>

\* The rest of the link address is read and the call returns true.
Answer(t) == <<call[t].mac[1], arp_table[call[t].slot].mac[2]>>

LookupReturns(t) ==
  /\ At(t, "read2")
  /\ call' = [call EXCEPT ![t] = NoCall]
  /\ Goto(t, "idle")
  /\ UNCHANGED <<OSTime, arp_table, learned>>

-----------------------------------------------------------------------------
Step(t) ==
  \/ \E ip \in Ips, mac \in Macs : ArpCacheAdd(t, ip, mac)
  \/ FindFree(t) \/ FindOldest(t) \/ ClaimSlot(t)
  \/ CopyIp(t) \/ CopyMac(t) \/ StampEntry(t)
  \/ \E ip \in Ips : ArpCacheLookup(t, ip)
  \/ ReadMac(t) \/ LookupReturns(t)

Next == Tick \/ \E t \in RxTasks : Step(t)

Spec == Init /\ [][Next]_vars

-----------------------------------------------------------------------------
(***************************************************************************)
(* Properties.                                                             *)
(***************************************************************************)
Halves == Macs \cup {Nothing}

\* Every variable has its type; a slot is always found.
TypeOK ==
  /\ OSTime \in Times
  /\ arp_table \in [Slots -> [active : BOOLEAN, ip : Ips \cup {Nothing},
                              mac : Halves \X Halves, last_update : Times]]
  /\ pc \in [RxTasks -> {"idle", "free", "oldest", "claim", "ip", "mac1", "mac2",
                         "stamp", "read1", "read2"}]
  /\ call \in [RxTasks -> [ip : Ips \cup {Nothing}, mac : Halves \X Halves,
                           slot : Slots, now : Times]]
  /\ learned \in SUBSET (Ips \X Macs)

\* arp_cache_lookup answers with a link address that was learned for the IP
\* address, and not with that of an evicted entry or a mixture of two.
AnswerIsLearned ==
  [][\A t \in RxTasks : LookupReturns(t) =>
       /\ Answer(t)[1] = Answer(t)[2]
       /\ <<call[t].ip, Answer(t)[1]>> \in learned]_vars

\* "If table is full, replace oldest entry": by the ticks that have passed.
Age(i) == (OSTime - arp_table[i].last_update) % TimeMod

ReplacesOldest ==
  [][\A t \in RxTasks : FindOldest(t) =>
       \A i \in Slots : Age(i) <= Age(call'[t].slot)]_vars

Writers == {t \in RxTasks : pc[t] \in {"ip", "mac1", "mac2"}}
Learners == {t \in RxTasks : pc[t] \in {"free", "oldest", "claim", "ip", "mac1", "mac2"}}

\* The entries that nobody is writing, and what they say.
Settled == {i \in Slots : arp_table[i].active /\ \A t \in Writers : call[t].slot # i}
Known == {<<arp_table[i].ip, arp_table[i].mac[1]>> : i \in Settled}

Learning ==
  IF Learners = {} THEN Nothing
  ELSE LET t == CHOOSE l \in Learners : TRUE
       IN <<call[t].ip, call[t].mac[1]>>

Bindings == INSTANCE ArpBindings WITH
  Capacity <- ARP_TABLE_SIZE, known <- Known, learning <- Learning

\* One task: the cache keeps the last link address of each address it has room
\* for, and loses no other binding when it learns one.
ImplementsArpBindings == Bindings!Spec

=============================================================================
