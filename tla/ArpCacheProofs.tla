--------------------------- MODULE ArpCacheProofs ---------------------------
(***************************************************************************)
(* Proofs about ArpCache for every table size and all addresses: the types *)
(* for any number of tasks, the rest for one task (two may disagree with   *)
(* the promise, as a run shows).                                           *)
(***************************************************************************)
EXTENDS ArpCache, FiniteSetTheorems, WellFoundedInduction, TLAPS

-----------------------------------------------------------------------------
(***************************************************************************)
(* The inductive invariant: the table, the calls and the time.             *)
(***************************************************************************)
Writing == {"ip", "mac1", "mac2"}
Adding == {"free", "oldest", "claim", "stamp"} \cup Writing
Reading == {"read1", "read2"}

Written(i) == \E t \in RxTasks : pc[t] \in Writing /\ call[t].slot = i

\* Entries are learned pairs unless they are being written, one for each address.
CacheInv ==
  /\ \A i \in Slots : arp_table[i].active /\ ~Written(i) =>
       /\ arp_table[i].mac[1] = arp_table[i].mac[2]
       /\ <<arp_table[i].ip, arp_table[i].mac[1]>> \in learned
  /\ \A i, j \in Slots :
       arp_table[i].active /\ arp_table[j].active /\ arp_table[i].ip = arp_table[j].ip => i = j

\* What a call knows of the table.
CallInv ==
  \A t \in RxTasks :
    /\ pc[t] \in Adding =>
         call[t].mac[1] = call[t].mac[2] /\ <<call[t].ip, call[t].mac[1]>> \in learned
    /\ pc[t] \in {"free", "oldest"} => HasIp(call[t].ip) = {}
    /\ pc[t] = "oldest" => \A i \in Slots : arp_table[i].active
    /\ pc[t] \in {"claim"} \cup Writing => HasIp(call[t].ip) \subseteq {call[t].slot}
    /\ pc[t] = "claim" => \/ ~arp_table[call[t].slot].active
                          \/ HasIp(call[t].ip) = {call[t].slot}
                          \/ \A i \in Slots : arp_table[i].active
    /\ pc[t] \in Writing \cup {"stamp"} \cup Reading => arp_table[call[t].slot].active
    /\ pc[t] = "ip" => arp_table[call[t].slot].ip \in {call[t].ip, Nothing}
    /\ pc[t] \in {"mac1", "mac2", "stamp"} \cup Reading =>
         arp_table[call[t].slot].ip = call[t].ip
    /\ pc[t] \in {"mac2", "stamp", "read2"} =>
         arp_table[call[t].slot].mac[1] = call[t].mac[1]

\* No entry is younger than the call that adds one.
TimeInv ==
  /\ \A i \in Slots : arp_table[i].last_update <= OSTime
  /\ \A t \in RxTasks : pc[t] \in Adding =>
       /\ call[t].now <= OSTime
       /\ \A i \in Slots : arp_table[i].last_update <= call[t].now

ArpInv == TypeOK /\ CacheInv /\ CallInv

-----------------------------------------------------------------------------
(***************************************************************************)
(* Facts about the operators.                                              *)
(***************************************************************************)
LEMMA Least ==
  ASSUME NEW T, T \subseteq Nat, T # {}
  PROVE  \E x \in T : \A y \in T : x <= y
<1>1. PICK x \in T : \A y \in T : <<y, x>> \notin OpToRel(<, Nat)
  BY NatLessThanWellFounded, WFMin
<1>2. \A y \in T : ~(y < x)
  BY <1>1 DEF OpToRel
<1>3. QED
  BY <1>2

LEMMA FirstIsLeast ==
  ASSUME NEW T \in SUBSET Slots, T # {}
  PROVE  First(T) \in T /\ \A j \in T : First(T) <= j
<1>1. T \subseteq Nat
  BY ArpAssumption DEF Slots
<1>2. \E i \in T : \A j \in T : i <= j
  BY <1>1, Least
<1>3. QED
  BY <1>2 DEF First

\* The search for the oldest entry always ends with a slot; and if an entry is older than
\* now, that slot's is as old as any.
LEMMA OldestIsOldest ==
  ASSUME TypeOK, NEW now \in Times
  PROVE  /\ Oldest(now) \in Slots
         /\ (\E i \in Slots : arp_table[i].last_update < now) =>
              \A j \in Slots : arp_table[Oldest(now)].last_update <= arp_table[j].last_update
<1> DEFINE older == {i \in Slots : arp_table[i].last_update < now}
           stamps == {arp_table[i].last_update : i \in older}
           least == {i \in older : \A j \in older :
                       arp_table[i].last_update <= arp_table[j].last_update}
<1>1. \A i \in Slots : arp_table[i].last_update \in Nat
  BY ArpAssumption DEF TypeOK, Times
<1>2. CASE older = {}
  BY <1>2, ArpAssumption DEF Oldest, Slots
<1>3. CASE older # {}
  <2>1. stamps # {} /\ stamps \subseteq Nat
    BY <1>1, <1>3
  <2>2. PICK x \in stamps : \A y \in stamps : x <= y
    BY <2>1, Least
  <2>3. PICK i \in older : x = arp_table[i].last_update
    BY <2>2
  <2>4. i \in least /\ least \in SUBSET Slots
    BY <2>2, <2>3
  <2>5. Oldest(now) = First(least)
    BY <1>3 DEF Oldest
  <2>6. Oldest(now) \in least
    BY <2>4, <2>5, FirstIsLeast
  <2>7. \A j \in Slots : arp_table[Oldest(now)].last_update <= arp_table[j].last_update
    <3> SUFFICES ASSUME NEW j \in Slots
                 PROVE  arp_table[Oldest(now)].last_update <= arp_table[j].last_update
      OBVIOUS
    <3>1. CASE j \in older
      BY <2>6, <3>1
    <3>2. CASE j \notin older
      BY <1>1, <2>6, <3>2 DEF Times
    <3>3. QED
      BY <3>1, <3>2
  <2>8. QED
    BY <2>6, <2>7
<1>4. QED
  BY <1>2, <1>3

\* Half of a link address is replaced.
LEMMA HalfReplaced ==
  ASSUME NEW m \in Halves \X Halves, NEW h \in Halves
  PROVE  /\ [m EXCEPT ![1] = h] = <<h, m[2]>> /\ [m EXCEPT ![2] = h] = <<m[1], h>>
         /\ <<h, m[2]>> \in Halves \X Halves /\ <<m[1], h>> \in Halves \X Halves
         /\ m[1] \in Halves /\ m[2] \in Halves
  OBVIOUS

-----------------------------------------------------------------------------
(***************************************************************************)
(* The types, for any tasks.                                               *)
(***************************************************************************)
Calls == [ip : Ips \cup {Nothing}, mac : Halves \X Halves, slot : Slots, now : Times]
Entries == [active : BOOLEAN, ip : Ips \cup {Nothing}, mac : Halves \X Halves,
            last_update : Times]

LEMMA NoCallType == NoCall \in Calls /\ NoEntry \in Entries /\ 0 \in Times /\ 0 \in Slots
  BY ArpAssumption DEF NoCall, NoEntry, Calls, Entries, NoMac, Halves, Slots, Times

LEMMA InitType == Init => TypeOK
  BY NoCallType DEF Init, TypeOK, Calls, Entries

\* A step of one task writes its call and one entry.
LEMMA OneCallType ==
  ASSUME TypeOK, NEW t \in RxTasks, NEW c \in Calls, call' = [call EXCEPT ![t] = c]
  PROVE  call' \in [RxTasks -> Calls]
  BY DEF TypeOK, Calls

LEMMA OneEntryType ==
  ASSUME TypeOK, NEW i \in Slots, NEW e \in Entries, arp_table' = [arp_table EXCEPT ![i] = e]
  PROVE  arp_table' \in [Slots -> Entries]
  BY DEF TypeOK, Entries

LEMMA NextType == TypeOK /\ [Next]_vars => TypeOK'
<1> SUFFICES ASSUME TypeOK, [Next]_vars PROVE TypeOK'
  OBVIOUS
<1> USE NoCallType
<1>1. CASE UNCHANGED vars
  BY <1>1 DEF vars, TypeOK
<1>2. CASE Tick
  <2>1. OSTime' \in Times
    BY <1>2, ArpAssumption DEF Tick, TypeOK, Times
  <2>2. QED
    BY <1>2, <2>1 DEF Tick, TypeOK
<1>3. ASSUME NEW t \in RxTasks, Step(t)
      PROVE  TypeOK'
  <2>1. /\ call[t] \in Calls /\ call[t].slot \in Slots /\ arp_table[call[t].slot] \in Entries
        /\ call \in [RxTasks -> Calls] /\ arp_table \in [Slots -> Entries]
    BY DEF TypeOK, Calls, Entries
  <2>2. call' \in [RxTasks -> Calls]
    <3>1. CASE UNCHANGED call
      BY <2>1, <3>1
    <3>2. ASSUME NEW ip \in Ips, NEW mac \in Macs, ArpCacheAdd(t, ip, mac)
          PROVE  call' \in [RxTasks -> Calls]
      <4> DEFINE c == [ip |-> ip, mac |-> <<mac, mac>>, now |-> OSTime,
                       slot |-> IF HasIp(ip) = {} THEN 0 ELSE First(HasIp(ip))]
      <4>1. HasIp(ip) \in SUBSET Slots
        BY DEF HasIp
      <4>2. (IF HasIp(ip) = {} THEN 0 ELSE First(HasIp(ip))) \in Slots
        BY <4>1, FirstIsLeast
      <4>3. c \in Calls
        BY <4>2 DEF Calls, Halves, TypeOK
      <4>4. call' = [call EXCEPT ![t] = c]
        BY <3>2 DEF ArpCacheAdd
      <4> HIDE DEF c
      <4>5. QED
        BY <4>3, <4>4, OneCallType
    <3>3. CASE FindFree(t)
      <4>1. CASE {i \in Slots : ~arp_table[i].active} = {}
        BY <2>1, <3>3, <4>1 DEF FindFree
      <4>2. CASE {i \in Slots : ~arp_table[i].active} # {}
        <5>1. First({i \in Slots : ~arp_table[i].active}) \in Slots
          BY <4>2, FirstIsLeast
        <5>2. QED
          BY <2>1, <3>3, <4>2, <5>1 DEF FindFree, Calls
      <4>3. QED
        BY <4>1, <4>2
    <3>4. CASE FindOldest(t)
      <4>1. Oldest(call[t].now) \in Slots
        BY <2>1, OldestIsOldest DEF Calls
      <4>2. QED
        BY <2>1, <3>4, <4>1 DEF FindOldest, Calls
    <3>5. CASE StampEntry(t) \/ LookupReturns(t)
      BY <3>5, OneCallType DEF StampEntry, LookupReturns
    <3>6. ASSUME NEW ip \in Ips, ArpCacheLookup(t, ip)
          PROVE  call' \in [RxTasks -> Calls]
      <4>1. First(HasIp(ip)) \in Slots
        BY <3>6, FirstIsLeast DEF ArpCacheLookup, HasIp
      <4>2. [NoCall EXCEPT !.ip = ip, !.slot = First(HasIp(ip))] \in Calls
        BY <4>1 DEF Calls
      <4>3. QED
        BY <3>6, <4>2, OneCallType DEF ArpCacheLookup
    <3>7. CASE ReadMac(t)
      <4>1. arp_table[call[t].slot].mac \in Halves \X Halves /\ call[t].mac \in Halves \X Halves
        BY <2>1 DEF Entries, Calls
      <4>2. [call[t].mac EXCEPT ![1] = arp_table[call[t].slot].mac[1]] \in Halves \X Halves
        BY <4>1, HalfReplaced
      <4>3. QED
        BY <2>1, <3>7, <4>2 DEF ReadMac, Calls
    <3>8. QED
      BY <1>3, <3>1, <3>2, <3>3, <3>4, <3>5, <3>6, <3>7 DEF Step, ClaimSlot, CopyIp, CopyMac
  <2>3. arp_table' \in [Slots -> Entries]
    <3>1. CASE UNCHANGED arp_table
      BY <2>1, <3>1
    <3>2. CASE ClaimSlot(t)
      BY <2>1, <3>2 DEF ClaimSlot, Entries, Calls
    <3>3. CASE CopyIp(t)
      BY <2>1, <3>3 DEF CopyIp, Entries, Calls
    <3>4. CASE CopyMac(t)
      <4>1. arp_table[call[t].slot].mac \in Halves \X Halves /\ call[t].mac \in Halves \X Halves
        BY <2>1 DEF Entries, Calls
      <4>2. /\ [arp_table[call[t].slot].mac EXCEPT ![1] = call[t].mac[1]] \in Halves \X Halves
            /\ [arp_table[call[t].slot].mac EXCEPT ![2] = call[t].mac[2]] \in Halves \X Halves
        BY <4>1, HalfReplaced
      <4> DEFINE e == arp_table[call[t].slot]
                 f == [e EXCEPT !.mac = [e.mac EXCEPT ![1] = call[t].mac[1]]]
                 g == [e EXCEPT !.mac = [e.mac EXCEPT ![2] = call[t].mac[2]]]
      <4>3. f \in Entries /\ g \in Entries
        BY <2>1, <4>2 DEF Entries
      <4>4. \/ arp_table' = [arp_table EXCEPT ![call[t].slot] = f]
            \/ arp_table' = [arp_table EXCEPT ![call[t].slot] = g]
        BY <3>4 DEF CopyMac
      <4> HIDE DEF f, g
      <4>5. QED
        BY <2>1, <4>3, <4>4, OneEntryType
    <3>5. CASE StampEntry(t)
      BY <2>1, <3>5 DEF StampEntry, Entries, Calls
    <3>6. QED
      BY <1>3, <3>1, <3>2, <3>3, <3>4, <3>5
      DEF Step, ArpCacheAdd, FindFree, FindOldest, ArpCacheLookup, ReadMac, LookupReturns
  <2>4. OSTime' = OSTime /\ learned' \in SUBSET (Ips \X Macs)
    <3>1. ASSUME NEW ip \in Ips, NEW mac \in Macs, ArpCacheAdd(t, ip, mac)
          PROVE  OSTime' = OSTime /\ learned' \in SUBSET (Ips \X Macs)
      BY <3>1 DEF ArpCacheAdd, TypeOK
    <3>2. QED
      BY <1>3, <3>1
      DEF Step, FindFree, FindOldest, ClaimSlot, CopyIp, CopyMac, StampEntry, ArpCacheLookup,
          ReadMac, LookupReturns, TypeOK
  <2>5. pc' \in [RxTasks -> {"idle", "free", "oldest", "claim", "ip", "mac1", "mac2",
                             "stamp", "read1", "read2"}]
    BY <1>3 DEF Step, ArpCacheAdd, FindFree, FindOldest, ClaimSlot, CopyIp, CopyMac, StampEntry,
                ArpCacheLookup, ReadMac, LookupReturns, Goto, TypeOK
  <2>6. QED
    BY <2>2, <2>3, <2>4, <2>5 DEF TypeOK, Calls, Entries
<1>4. QED
  BY <1>1, <1>2, <1>3 DEF Next

\* Every variable keeps its type, for any number of tasks that interrupt each other; and
\* arp_cache_add always finds a slot.
THEOREM TypeCorrect == Spec => []TypeOK
  BY InitType, NextType, PTL DEF Spec

-----------------------------------------------------------------------------
(***************************************************************************)
(* One task.                                                               *)
(***************************************************************************)
LEMMA InitArpInv == Init => ArpInv /\ TimeInv
<1> SUFFICES ASSUME Init PROVE ArpInv /\ TimeInv
  OBVIOUS
<1>1. TypeOK
  BY InitType
<1>2. CacheInv
  BY DEF Init, CacheInv, NoEntry
<1>3. CallInv
  BY DEF Init, CallInv, Adding, Writing, Reading
<1>4. TimeInv
  BY DEF Init, TimeInv, NoEntry, Adding, Writing
<1>5. QED
  BY <1>1, <1>2, <1>3, <1>4 DEF ArpInv

\* What the types say of the call and of the entry it is about.
LEMMA TheCall ==
  ASSUME TypeOK, NEW t \in RxTasks
  PROVE  /\ call[t] \in Calls /\ call[t].slot \in Slots /\ call[t].ip \in Ips \cup {Nothing}
         /\ call[t].mac \in Halves \X Halves /\ call[t].now \in Times
         /\ arp_table[call[t].slot] \in Entries
         /\ arp_table[call[t].slot].mac \in Halves \X Halves
         /\ <<call[t].ip, call[t].mac[1]>> \in learned =>
              call[t].ip \in Ips /\ call[t].mac[1] \in Macs /\ call[t].ip # Nothing
  BY ArpAssumption DEF TypeOK, Calls, Entries

\* What each step that writes the table does to it.
LEMMA ClaimStep ==
  ASSUME TypeOK, NEW t \in RxTasks, ClaimSlot(t)
  PROVE  /\ pc[t] = "claim" /\ pc'[t] = "ip" /\ UNCHANGED <<call, learned>>
         /\ \A i \in Slots : i # call[t].slot => arp_table'[i] = arp_table[i]
         /\ arp_table'[call[t].slot].active
         /\ arp_table'[call[t].slot].ip =
              IF arp_table[call[t].slot].ip = call[t].ip THEN call[t].ip ELSE Nothing
  BY TheCall DEF ClaimSlot, At, Goto, TypeOK

LEMMA CopyIpStep ==
  ASSUME TypeOK, NEW t \in RxTasks, CopyIp(t)
  PROVE  /\ pc[t] = "ip" /\ pc'[t] = "mac1" /\ UNCHANGED <<call, learned>>
         /\ \A i \in Slots : i # call[t].slot => arp_table'[i] = arp_table[i]
         /\ arp_table'[call[t].slot].active = arp_table[call[t].slot].active
         /\ arp_table'[call[t].slot].ip = call[t].ip
  BY TheCall DEF CopyIp, At, Goto, TypeOK

LEMMA CopyMacStep ==
  ASSUME TypeOK, NEW t \in RxTasks, CopyMac(t)
  PROVE  /\ UNCHANGED <<call, learned>>
         /\ \A i \in Slots : i # call[t].slot => arp_table'[i] = arp_table[i]
         /\ arp_table'[call[t].slot].active = arp_table[call[t].slot].active
         /\ arp_table'[call[t].slot].ip = arp_table[call[t].slot].ip
         /\ \/ /\ pc[t] = "mac1" /\ pc'[t] = "mac2"
               /\ arp_table'[call[t].slot].mac =
                    <<call[t].mac[1], arp_table[call[t].slot].mac[2]>>
            \/ /\ pc[t] = "mac2" /\ pc'[t] = "stamp"
               /\ arp_table'[call[t].slot].mac =
                    <<arp_table[call[t].slot].mac[1], call[t].mac[2]>>
<1> DEFINE s == call[t].slot
<1>1. /\ s \in Slots /\ arp_table[s].mac \in Halves \X Halves
      /\ call[t].mac \in Halves \X Halves
  BY TheCall
<1>2. /\ [arp_table[s].mac EXCEPT ![1] = call[t].mac[1]] = <<call[t].mac[1], arp_table[s].mac[2]>>
      /\ [arp_table[s].mac EXCEPT ![2] = call[t].mac[2]] = <<arp_table[s].mac[1], call[t].mac[2]>>
  BY <1>1, HalfReplaced
<1>3. QED
  BY <1>1, <1>2 DEF CopyMac, At, Goto, TypeOK

LEMMA StampStep ==
  ASSUME TypeOK, NEW t \in RxTasks, StampEntry(t)
  PROVE  /\ pc[t] = "stamp" /\ pc'[t] = "idle" /\ UNCHANGED learned
         /\ \A i \in Slots : /\ arp_table'[i].active = arp_table[i].active
                             /\ arp_table'[i].ip = arp_table[i].ip
                             /\ arp_table'[i].mac = arp_table[i].mac
  BY TheCall DEF StampEntry, At, Goto, TypeOK

LEMMA CacheInvKept ==
  ASSUME NEW t, RxTasks = {t}, ArpInv, Next
  PROVE  CacheInv' /\ CallInv'
<1> USE DEF ArpInv
<1>1. TypeOK' /\ t \in RxTasks
  BY NextType
<1>2. CASE Tick
  BY <1>2 DEF Tick, CacheInv, CallInv, Written, HasIp
<1>3. ASSUME NEW ip \in Ips, NEW mac \in Macs, ArpCacheAdd(t, ip, mac)
      PROVE  CacheInv' /\ CallInv'
  <2>1. HasIp(ip) # {} => HasIp(ip) = {First(HasIp(ip))}
    <3> SUFFICES ASSUME HasIp(ip) # {} PROVE HasIp(ip) = {First(HasIp(ip))}
      OBVIOUS
    <3>1. First(HasIp(ip)) \in HasIp(ip)
      BY FirstIsLeast DEF HasIp
    <3>2. \A i, j \in HasIp(ip) : i = j
      BY DEF CacheInv, HasIp
    <3>3. QED
      BY <3>1, <3>2
  <2>2. /\ pc[t] = "idle" /\ pc'[t] = IF HasIp(ip) = {} THEN "free" ELSE "claim"
        /\ call'[t] = [ip |-> ip, mac |-> <<mac, mac>>, now |-> OSTime,
                       slot |-> IF HasIp(ip) = {} THEN 0 ELSE First(HasIp(ip))]
        /\ learned' = learned \cup {<<ip, mac>>} /\ arp_table' = arp_table
    BY <1>1, <1>3 DEF ArpCacheAdd, At, Goto, TypeOK
  <2>3. CacheInv'
    BY <2>2 DEF CacheInv, Written, Writing
  <2>4. \A x : HasIp(x)' = HasIp(x)
    BY <2>2 DEF HasIp
  <2>5. CallInv'
    BY <2>1, <2>2, <2>4 DEF CallInv, Adding, Writing, Reading
  <2>6. QED
    BY <2>3, <2>5
<1>4. CASE FindFree(t)
  <2> DEFINE free == {i \in Slots : ~arp_table[i].active}
  <2>1. free # {} => First(free) \in free
    BY FirstIsLeast
  <2>2. /\ pc[t] = "free" /\ pc'[t] = IF free = {} THEN "oldest" ELSE "claim"
        /\ call'[t].ip = call[t].ip /\ call'[t].mac = call[t].mac
        /\ free # {} => call'[t].slot = First(free)
        /\ UNCHANGED <<learned, arp_table>>
    BY <1>1, <1>4 DEF FindFree, At, Goto, TypeOK
  <2>3. CacheInv'
    BY <2>2 DEF CacheInv, Written, Writing
  <2>4. \A x : HasIp(x)' = HasIp(x)
    BY <2>2 DEF HasIp
  <2>5. CallInv'
    BY <2>1, <2>2, <2>4 DEF CallInv, Adding, Writing, Reading
  <2>6. QED
    BY <2>3, <2>5
<1>5. CASE FindOldest(t)
  <2>1. /\ pc[t] = "oldest" /\ pc'[t] = "claim"
        /\ call'[t].ip = call[t].ip /\ call'[t].mac = call[t].mac
        /\ UNCHANGED <<learned, arp_table>>
    BY <1>1, <1>5 DEF FindOldest, At, Goto, TypeOK
  <2>2. \A x : HasIp(x)' = HasIp(x)
    BY <2>1 DEF HasIp
  <2>3. CacheInv'
    BY <2>1 DEF CacheInv, Written, Writing
  <2>4. CallInv'
    BY <2>1, <2>2 DEF CallInv, Adding, Writing, Reading
  <2>5. QED
    BY <2>3, <2>4
<1>6. CASE ClaimSlot(t)
  <2> DEFINE s == call[t].slot
  <2>1. /\ pc[t] = "claim" /\ pc'[t] = "ip" /\ UNCHANGED <<call, learned>>
        /\ \A i \in Slots : i # s => arp_table'[i] = arp_table[i]
        /\ arp_table'[s].active
        /\ arp_table'[s].ip = IF arp_table[s].ip = call[t].ip THEN call[t].ip ELSE Nothing
    BY <1>1, <1>6, ClaimStep
  <2>2. s \in Slots /\ call[t].ip # Nothing /\ call[t].ip \in Ips
    BY <1>1, <2>1, TheCall DEF CallInv, Adding
  <2>3. \A i \in Slots : i # s /\ arp_table[i].active =>
          arp_table[i].ip # Nothing /\ arp_table[i].ip # call[t].ip
    <3> SUFFICES ASSUME NEW i \in Slots, i # s, arp_table[i].active
                 PROVE  arp_table[i].ip # Nothing /\ arp_table[i].ip # call[t].ip
      OBVIOUS
    <3>1. <<arp_table[i].ip, arp_table[i].mac[1]>> \in learned
      BY <2>1 DEF CacheInv, Written, Writing
    <3>2. arp_table[i].ip # Nothing
      BY <3>1, ArpAssumption DEF TypeOK
    <3>3. i \notin HasIp(call[t].ip)
      BY <1>1, <2>1 DEF CallInv
    <3>4. QED
      BY <3>2, <3>3 DEF HasIp
  <2>4. CacheInv'
    BY <1>1, <2>1, <2>2, <2>3 DEF CacheInv, Written, Writing
  <2>5. CallInv'
    BY <1>1, <2>1, <2>2, <2>3 DEF CallInv, HasIp, Adding, Writing, Reading
  <2>6. QED
    BY <2>4, <2>5
<1>7. CASE CopyIp(t)
  <2> DEFINE s == call[t].slot
  <2>1. /\ pc[t] = "ip" /\ pc'[t] = "mac1" /\ UNCHANGED <<call, learned>>
        /\ \A i \in Slots : i # s => arp_table'[i] = arp_table[i]
        /\ arp_table'[s].active = arp_table[s].active
        /\ arp_table'[s].ip = call[t].ip
    BY <1>1, <1>7, CopyIpStep
  <2>2. s \in Slots
    BY <1>1, TheCall
  <2>3. \A i \in Slots : i # s /\ arp_table[i].active => arp_table[i].ip # call[t].ip
    BY <1>1, <2>1 DEF CallInv, Writing, HasIp
  <2>4. CacheInv'
    BY <1>1, <2>1, <2>2, <2>3 DEF CacheInv, Written, Writing
  <2>5. CallInv'
    BY <1>1, <2>1, <2>2, <2>3 DEF CallInv, HasIp, Adding, Writing, Reading
  <2>6. QED
    BY <2>4, <2>5
<1>8. CASE CopyMac(t)
  <2> DEFINE s == call[t].slot
  <2>1. s \in Slots
    BY <1>1, TheCall
  <2>2. /\ UNCHANGED <<call, learned>>
        /\ \A i \in Slots : i # s => arp_table'[i] = arp_table[i]
        /\ arp_table'[s].active = arp_table[s].active /\ arp_table'[s].ip = arp_table[s].ip
        /\ \/ /\ pc[t] = "mac1" /\ pc'[t] = "mac2"
              /\ arp_table'[s].mac = <<call[t].mac[1], arp_table[s].mac[2]>>
           \/ /\ pc[t] = "mac2" /\ pc'[t] = "stamp"
              /\ arp_table'[s].mac = <<arp_table[s].mac[1], call[t].mac[2]>>
    BY <1>1, <1>8, CopyMacStep
  <2>3. CacheInv'
    BY <1>1, <2>1, <2>2 DEF CacheInv, CallInv, Written, Adding, Writing
  <2>4. CallInv'
    BY <1>1, <2>1, <2>2 DEF CallInv, HasIp, Adding, Writing, Reading
  <2>5. QED
    BY <2>3, <2>4
<1>9. CASE StampEntry(t)
  <2>1. /\ pc[t] = "stamp" /\ pc'[t] = "idle" /\ UNCHANGED learned
        /\ \A i \in Slots : /\ arp_table'[i].active = arp_table[i].active
                            /\ arp_table'[i].ip = arp_table[i].ip
                            /\ arp_table'[i].mac = arp_table[i].mac
    BY <1>1, <1>9, StampStep
  <2>2. QED
    BY <1>1, <2>1 DEF CacheInv, CallInv, Written, Adding, Writing, Reading
<1>10. ASSUME NEW ip \in Ips, ArpCacheLookup(t, ip)
       PROVE  CacheInv' /\ CallInv'
  <2>1. First(HasIp(ip)) \in HasIp(ip)
    BY <1>10, FirstIsLeast DEF ArpCacheLookup, HasIp
  <2>2. /\ pc[t] = "idle" /\ pc'[t] = "read1" /\ UNCHANGED <<learned, arp_table>>
        /\ call'[t].ip = ip /\ call'[t].slot = First(HasIp(ip))
    BY <1>1, <1>10 DEF ArpCacheLookup, At, Goto, NoCall, TypeOK
  <2>3. QED
    BY <1>1, <2>1, <2>2 DEF CacheInv, CallInv, Written, HasIp, Adding, Writing, Reading
<1>11. CASE ReadMac(t)
  <2>1. [call[t].mac EXCEPT ![1] = arp_table[call[t].slot].mac[1]]
          = <<arp_table[call[t].slot].mac[1], call[t].mac[2]>>
    BY <1>1, TheCall, HalfReplaced
  <2>2. /\ pc[t] = "read1" /\ pc'[t] = "read2" /\ UNCHANGED <<learned, arp_table>>
        /\ call'[t].ip = call[t].ip /\ call'[t].slot = call[t].slot
        /\ call'[t].mac = <<arp_table[call[t].slot].mac[1], call[t].mac[2]>>
    BY <1>1, <1>11, <2>1, TheCall DEF ReadMac, At, Goto, TypeOK
  <2>3. QED
    BY <1>1, <2>2 DEF CacheInv, CallInv, Written, HasIp, Adding, Writing, Reading
<1>12. CASE LookupReturns(t)
  <2>1. pc[t] = "read2" /\ pc'[t] = "idle" /\ UNCHANGED <<learned, arp_table>>
    BY <1>1, <1>12 DEF LookupReturns, At, Goto, TypeOK
  <2>2. QED
    BY <1>1, <2>1 DEF CacheInv, CallInv, Written, Adding, Writing, Reading
<1>13. QED
  BY <1>2, <1>3, <1>4, <1>5, <1>6, <1>7, <1>8, <1>9, <1>10, <1>11, <1>12 DEF Next, Step

LEMMA NextKeepsArpInv ==
  ASSUME NEW t, RxTasks = {t}, ArpInv, [Next]_vars
  PROVE  ArpInv'
<1>1. CASE UNCHANGED vars
  BY <1>1 DEF vars, ArpInv, TypeOK, CacheInv, CallInv, Written, HasIp
<1>2. CASE Next
  BY <1>2, NextType, CacheInvKept DEF ArpInv
<1>3. QED
  BY <1>1, <1>2

\* One task: the link address that arp_cache_lookup returns was learned for the IP address;
\* it is never that of a replaced entry or made of two.
THEOREM OneTaskIsAnsweredRight ==
  ASSUME NEW only, RxTasks = {only}
  PROVE  Spec => AnswerIsLearned
<1>1. ASSUME ArpInv, [Next]_vars
      PROVE  [\A t \in RxTasks : LookupReturns(t) =>
                /\ Answer(t)[1] = Answer(t)[2]
                /\ <<call[t].ip, Answer(t)[1]>> \in learned]_vars
  <2> SUFFICES ASSUME LookupReturns(only)
               PROVE  /\ Answer(only)[1] = Answer(only)[2]
                      /\ <<call[only].ip, Answer(only)[1]>> \in learned
    OBVIOUS
  <2> DEFINE e == arp_table[call[only].slot]
  <2>1. pc[only] = "read2" /\ call[only].slot \in Slots
    BY <1>1, TheCall DEF LookupReturns, At, ArpInv
  <2>2. e.active /\ e.ip = call[only].ip /\ call[only].mac[1] = e.mac[1] /\ ~Written(call[only].slot)
    BY <1>1, <2>1 DEF ArpInv, CallInv, Written, Writing, Reading
  <2>3. e.mac[1] = e.mac[2] /\ <<e.ip, e.mac[1]>> \in learned
    BY <1>1, <2>1, <2>2 DEF ArpInv, CacheInv
  <2>4. Answer(only)[1] = call[only].mac[1] /\ Answer(only)[2] = e.mac[2]
    BY DEF Answer
  <2>5. QED
    BY <2>2, <2>3, <2>4
<1>2. ArpInv /\ [Next]_vars => ArpInv'
  BY NextKeepsArpInv
<1>3. Init => ArpInv
  BY InitArpInv
<1>4. ArpInv /\ [Next]_vars =>
        [\A t \in RxTasks : LookupReturns(t) =>
           /\ Answer(t)[1] = Answer(t)[2]
           /\ <<call[t].ip, Answer(t)[1]>> \in learned]_vars
  BY <1>1
<1>5. QED
  BY <1>2, <1>3, <1>4, PTL DEF Spec, AnswerIsLearned

-----------------------------------------------------------------------------
(***************************************************************************)
(* Which entry is replaced, while OSTime does not wrap around.             *)
(***************************************************************************)
LEMMA TimeInvKept ==
  ASSUME NEW t, RxTasks = {t}, LastTick < TimeMod, TypeOK, TimeInv, [Next]_vars
  PROVE  TimeInv'
<1> DEFINE table == \A i \in Slots : arp_table[i].last_update <= OSTime
<1>1. /\ OSTime \in Nat /\ LastTick \in Nat /\ TimeMod \in Nat /\ t \in RxTasks
      /\ \A i \in Slots : arp_table[i].last_update \in Nat
      /\ call[t].now \in Nat
  BY ArpAssumption DEF TypeOK, Times
<1>2. CASE UNCHANGED vars
  BY <1>2 DEF vars, TimeInv
<1>3. CASE Tick
  <2>1. OSTime' = OSTime + 1 /\ UNCHANGED <<arp_table, pc, call>>
    BY <1>1, <1>3 DEF Tick
  <2>2. QED
    BY <1>1, <2>1 DEF TimeInv
<1>4. ASSUME NEW ip \in Ips, NEW mac \in Macs, ArpCacheAdd(t, ip, mac)
      PROVE  TimeInv'
  <2>1. call'[t].now = OSTime /\ UNCHANGED <<arp_table, OSTime>>
    BY <1>1, <1>4 DEF ArpCacheAdd, TypeOK
  <2>2. QED
    BY <1>1, <2>1 DEF TimeInv
<1>5. CASE FindFree(t) \/ FindOldest(t) \/ ClaimSlot(t) \/ CopyIp(t) \/ CopyMac(t)
  <2>1. call'[t].now = call[t].now /\ UNCHANGED OSTime /\ pc[t] \in Adding
    BY <1>1, <1>5
    DEF FindFree, FindOldest, ClaimSlot, CopyIp, CopyMac, At, Adding, Writing, TypeOK
  <2>2. \A i \in Slots : arp_table'[i].last_update = arp_table[i].last_update
    <3>1. CASE FindFree(t) \/ FindOldest(t)
      BY <3>1 DEF FindFree, FindOldest
    <3>2. CASE ClaimSlot(t)
      BY <3>2 DEF ClaimSlot, TypeOK
    <3>3. CASE CopyIp(t)
      BY <3>3 DEF CopyIp, TypeOK
    <3>4. CASE CopyMac(t)
      BY <3>4 DEF CopyMac, TypeOK
    <3>5. QED
      BY <1>5, <3>1, <3>2, <3>3, <3>4
  <2>3. QED
    BY <2>1, <2>2 DEF TimeInv
<1>6. CASE StampEntry(t)
  <2>1. /\ call[t].now <= OSTime /\ UNCHANGED OSTime /\ pc'[t] = "idle"
    BY <1>1, <1>6 DEF StampEntry, At, Goto, TimeInv, Adding, TypeOK
  <2>2. \A i \in Slots : \/ arp_table'[i].last_update = arp_table[i].last_update
                         \/ arp_table'[i].last_update = call[t].now
    BY <1>1, <1>6 DEF StampEntry, TypeOK
  <2>3. QED
    BY <2>1, <2>2 DEF TimeInv, Adding, Writing
<1>7. CASE \/ \E ip \in Ips : ArpCacheLookup(t, ip)
           \/ ReadMac(t) \/ LookupReturns(t)
  <2>1. pc'[t] \in {"idle", "read1", "read2"} /\ UNCHANGED <<arp_table, OSTime>>
    BY <1>1, <1>7 DEF ArpCacheLookup, ReadMac, LookupReturns, Goto, TypeOK
  <2>2. QED
    BY <2>1 DEF TimeInv, Adding, Writing
<1>8. QED
  BY <1>2, <1>3, <1>4, <1>5, <1>6, <1>7 DEF Next, Step

\* "If table is full, replace oldest entry": one task always picks an entry of the greatest
\* age, as long as OSTime has not wrapped around.
THEOREM OldestIsReplaced ==
  ASSUME NEW only, RxTasks = {only}, LastTick < TimeMod
  PROVE  Spec => ReplacesOldest
<1>1. ASSUME TypeOK, TimeInv, [Next]_vars
      PROVE  [\A t \in RxTasks : FindOldest(t) =>
                \A i \in Slots : Age(i) <= Age(call'[t].slot)]_vars
  <2> SUFFICES ASSUME FindOldest(only), NEW i \in Slots
               PROVE  Age(i) <= Age(call'[only].slot)
    OBVIOUS
  <2> DEFINE o == Oldest(call[only].now)
  <2>1. /\ OSTime \in 0..(TimeMod - 1) /\ TimeMod \in Nat \ {0}
        /\ \A j \in Slots : arp_table[j].last_update \in Nat
        /\ call[only].now \in Times
    BY <1>1, ArpAssumption DEF TypeOK, Times
  <2>2. call'[only].slot = o /\ pc[only] = "oldest"
    BY <1>1 DEF FindOldest, At, TypeOK
  <2>3. \A j \in Slots : arp_table[j].last_update <= OSTime
                         /\ arp_table[j].last_update <= call[only].now
    BY <1>1, <2>2 DEF TimeInv, Adding
  <2>4. o \in Slots
    BY <1>1, <2>1, OldestIsOldest
  <2>5. arp_table[o].last_update <= arp_table[i].last_update
    <3>1. CASE \E j \in Slots : arp_table[j].last_update < call[only].now
      BY <1>1, <2>1, <3>1, OldestIsOldest
    <3>2. CASE ~\E j \in Slots : arp_table[j].last_update < call[only].now
      BY <2>1, <2>3, <2>4, <3>2 DEF Times
    <3>3. QED
      BY <3>1, <3>2
  <2>6. \A j \in Slots : Age(j) = OSTime - arp_table[j].last_update
    BY <2>1, <2>3 DEF Age
  <2>7. QED
    BY <2>1, <2>2, <2>4, <2>5, <2>6
<1>2. TypeOK /\ TimeInv /\ [Next]_vars => (TypeOK /\ TimeInv)'
  BY NextType, TimeInvKept
<1>3. Init => TypeOK /\ TimeInv
  BY InitType, InitArpInv
<1>4. TypeOK /\ TimeInv /\ [Next]_vars =>
        [\A t \in RxTasks : FindOldest(t) =>
           \A i \in Slots : Age(i) <= Age(call'[t].slot)]_vars
  BY <1>1
<1>5. QED
  BY <1>2, <1>3, <1>4, PTL DEF Spec, ReplacesOldest

-----------------------------------------------------------------------------
(***************************************************************************)
(* One task: the cache does what ArpBindings promises.                     *)
(***************************************************************************)
Pair(i) == <<arp_table[i].ip, arp_table[i].mac[1]>>
Learns == {"free", "oldest", "claim", "ip", "mac1", "mac2"}
Learnt(t) == IF pc[t] \in Learns THEN <<call[t].ip, call[t].mac[1]>> ELSE Nothing

LEMMA OneLearner ==
  ASSUME NEW t, RxTasks = {t}
  PROVE  Learning = Learnt(t) /\ Learning' = Learnt(t)'
<1>1. Learners = IF pc[t] \in Learns THEN {t} ELSE {}
  BY DEF Learners, Learns
<1>2. Learners' = IF pc'[t] \in Learns THEN {t} ELSE {}
  BY DEF Learners, Learns
<1>3. QED
  BY <1>1, <1>2 DEF Learning, Learnt

LEMMA SlotCount == IsFiniteSet(Slots) /\ Cardinality(Slots) = ARP_TABLE_SIZE
<1> DEFINE last == ARP_TABLE_SIZE - 1
<1>1. 0 \in Int /\ last \in Int /\ ~(0 > last) /\ last - 0 + 1 = ARP_TABLE_SIZE
  BY ArpAssumption
<1>2. Slots = 0..last
  BY DEF Slots
<1> HIDE DEF last
<1>3. IsFiniteSet(0..last) /\ Cardinality(0..last) = last - 0 + 1
  BY <1>1, FS_Interval
<1>4. QED
  BY <1>1, <1>2, <1>3

\* ArpBindings counts with the same operator.
LEMMA SameCardinality == \A S : Bindings!Cardinality(S) = Cardinality(S)
  BY DEF Cardinality, Bindings!Cardinality

\* Each entry that is settled is one pair, and no other entry has its address.
LEMMA KnownPairs ==
  ASSUME ArpInv
  PROVE  /\ Settled = {i \in Slots : arp_table[i].active /\ ~Written(i)}
         /\ Known = {Pair(i) : i \in Settled}
         /\ \A i, j \in Settled : Pair(i)[1] = Pair(j)[1] => i = j
         /\ IsFiniteSet(Settled) /\ Cardinality(Known) = Cardinality(Settled)
<1>1. Settled = {i \in Slots : arp_table[i].active /\ ~Written(i)}
  BY DEF Settled, Written, Writers, Writing
<1>2. Known = {Pair(i) : i \in Settled}
  BY DEF Known, Pair
<1>3. \A i, j \in Settled : Pair(i)[1] = Pair(j)[1] => i = j
  BY <1>1 DEF ArpInv, CacheInv, Pair
<1>4. IsFiniteSet(Slots) /\ Settled \in SUBSET Slots
  BY <1>1, SlotCount
<1>5. IsFiniteSet(Settled)
  BY <1>4, FS_Subset
<1> DEFINE f == [i \in Settled |-> Pair(i)]
<1>6. f \in Surjection(Settled, Known)
  BY <1>2 DEF Surjection
<1>7. f \in Injection(Settled, Known)
  BY <1>2, <1>3 DEF Injection, IsInjective
<1>8. Cardinality(Known) = Cardinality(Settled)
  BY <1>5, <1>6, <1>7, FS_Surjection
<1>9. QED
  BY <1>1, <1>2, <1>3, <1>5, <1>8

LEMMA InitBindings ==
  ASSUME NEW t, RxTasks = {t}, Init
  PROVE  Bindings!Init
<1>1. Known = {}
  BY DEF Init, NoEntry, Known, Settled
<1>2. Learning = Nothing
  BY OneLearner DEF Init, Learnt, Learns
<1>3. QED
  BY <1>1, <1>2 DEF Bindings!Init

\* Every step of the task is one of the promise's, or changes nothing of it.
LEMMA NextBindings ==
  ASSUME NEW t, RxTasks = {t}, ArpInv, ArpInv', Next
  PROVE  Bindings!Next \/ UNCHANGED <<Known, Learning>>
<1> DEFINE s == call[t].slot
<1>1. TypeOK /\ t \in RxTasks /\ s \in Slots
  BY TheCall DEF ArpInv
<1>2. Learning = Learnt(t) /\ Learning' = Learnt(t)'
  BY OneLearner
<1>3. \A i : Written(i) <=> pc[t] \in Writing /\ s = i
  BY DEF Written
<1>4. \A i : Written(i)' <=> pc'[t] \in Writing /\ call'[t].slot = i
  BY DEF Written
<1>5. /\ Known = {Pair(i) : i \in Settled}
      /\ Settled = {i \in Slots : arp_table[i].active /\ ~Written(i)}
  BY KnownPairs
<1>6. /\ Known' = {Pair(i)' : i \in Settled'}
      /\ Settled' = {i \in Slots : arp_table'[i].active /\ ~Written(i)'}
  BY DEF Known, Pair, Settled, Written, Writers, Writing
<1>7. ASSUME \A i \in Slots : /\ arp_table'[i].active = arp_table[i].active
                              /\ arp_table'[i].ip = arp_table[i].ip
                              /\ arp_table'[i].mac = arp_table[i].mac,
             pc[t] \notin Writing, pc'[t] \notin Writing
      PROVE  Known' = Known
  BY <1>3, <1>4, <1>5, <1>6, <1>7 DEF Pair
<1>8. CASE Tick
  BY <1>8 DEF Tick, Known, Settled, Writers, Learning, Learners
<1>9. ASSUME NEW ip \in Ips, NEW mac \in Macs, ArpCacheAdd(t, ip, mac)
      PROVE  Bindings!Hear(ip, mac)
  <2>1. /\ pc[t] = "idle" /\ pc'[t] \in {"free", "claim"} /\ arp_table' = arp_table
        /\ call'[t].ip = ip /\ call'[t].mac = <<mac, mac>>
    BY <1>1, <1>9 DEF ArpCacheAdd, At, Goto, TypeOK
  <2>2. Known' = Known
    BY <1>7, <2>1 DEF Writing
  <2>3. Learning = Nothing /\ Learning' = <<ip, mac>>
    BY <1>2, <2>1 DEF Learnt, Learns
  <2>4. QED
    BY <2>2, <2>3 DEF Bindings!Hear
<1>10. CASE FindFree(t) \/ FindOldest(t)
  <2>1. /\ pc[t] \in {"free", "oldest"} /\ pc'[t] \in {"oldest", "claim"}
        /\ arp_table' = arp_table
        /\ call'[t].ip = call[t].ip /\ call'[t].mac = call[t].mac
    BY <1>1, <1>10 DEF FindFree, FindOldest, At, Goto, TypeOK
  <2>2. QED
    BY <1>2, <1>7, <2>1 DEF Learnt, Learns, Writing
<1>11. CASE StampEntry(t)
  <2>1. /\ pc[t] = "stamp" /\ pc'[t] = "idle"
        /\ \A i \in Slots : /\ arp_table'[i].active = arp_table[i].active
                            /\ arp_table'[i].ip = arp_table[i].ip
                            /\ arp_table'[i].mac = arp_table[i].mac
    BY <1>1, <1>11, StampStep
  <2>2. QED
    BY <1>2, <1>7, <2>1 DEF Learnt, Learns, Writing
<1>12. CASE \/ \E ip \in Ips : ArpCacheLookup(t, ip)
            \/ ReadMac(t) \/ LookupReturns(t)
  <2>1. /\ pc[t] \in {"idle", "read1", "read2"} /\ pc'[t] \in {"idle", "read1", "read2"}
        /\ arp_table' = arp_table
    BY <1>1, <1>12 DEF ArpCacheLookup, ReadMac, LookupReturns, At, Goto, TypeOK
  <2>2. QED
    BY <1>2, <1>7, <2>1 DEF Learnt, Learns, Writing
<1>13. CASE CopyIp(t)
  <2>1. /\ pc[t] = "ip" /\ pc'[t] = "mac1" /\ call' = call
        /\ \A i \in Slots : i # s => arp_table'[i] = arp_table[i]
    BY <1>1, <1>13, CopyIpStep
  <2>2. Settled' = Settled /\ s \notin Settled /\ \A i \in Settled : Pair(i)' = Pair(i)
    BY <1>3, <1>4, <1>5, <1>6, <2>1 DEF Writing, Pair
  <2>3. Known' = Known
    BY <1>5, <1>6, <2>2
  <2>4. QED
    BY <1>2, <2>1, <2>3 DEF Learnt, Learns
<1>14. CASE ClaimSlot(t)
  <2>1. /\ pc[t] = "claim" /\ pc'[t] = "ip" /\ call' = call
        /\ \A i \in Slots : i # s => arp_table'[i] = arp_table[i]
    BY <1>1, <1>14, ClaimStep
  <2>2. Learning' = Learning /\ Learning = <<call[t].ip, call[t].mac[1]>>
    BY <1>2, <2>1 DEF Learnt, Learns
  <2>3. Settled' = Settled \ {s} /\ \A i \in Settled' : Pair(i)' = Pair(i)
    BY <1>3, <1>4, <1>5, <1>6, <2>1 DEF Writing, Pair
  <2>4. CASE s \notin Settled
    <3>1. Settled' = Settled
      BY <2>3, <2>4
    <3>2. Known' = Known
      BY <1>5, <1>6, <2>3, <3>1
    <3>3. QED
      BY <2>2, <3>2
  <2>5. CASE s \in Settled
    <3>1. Known' = Known \ {Pair(s)} /\ Pair(s) \in Known
      BY <1>5, <1>6, <2>3, <2>5, KnownPairs DEF Pair
    <3>2. <<call[t].ip, call[t].mac[1]>> \in learned
      BY <2>1 DEF ArpInv, CallInv, Adding
    <3>3. Learning # Nothing
      BY <1>1, <2>2, <3>2, ArpAssumption DEF TypeOK
    <3>4. CASE HasIp(call[t].ip) = {s}
      <4>1. Pair(s) \in Bindings!Of(Learning[1])
        BY <2>2, <3>1, <3>4 DEF Bindings!Of, Pair, HasIp
      <4>2. Bindings!MakeRoom
        BY <2>2, <3>1, <3>3, <4>1 DEF Bindings!MakeRoom
      <4>3. QED
        BY <4>2 DEF Bindings!Next
    <3>5. CASE HasIp(call[t].ip) # {s}
      <4>1. /\ \A i \in Slots : arp_table[i].active
            /\ HasIp(call[t].ip) \subseteq {s}
        BY <1>5, <2>1, <2>5, <3>5 DEF ArpInv, CallInv
      <4>2. HasIp(call[t].ip) = {}
        BY <3>5, <4>1
      <4>3. Settled = Slots
        BY <1>3, <1>5, <2>1, <4>1 DEF Writing
      <4>4. Bindings!Of(Learning[1]) = {}
        BY <1>5, <2>2, <4>1, <4>2 DEF Bindings!Of, Pair, HasIp
      <4>5. Cardinality(Known) = ARP_TABLE_SIZE
        BY <4>3, KnownPairs, SlotCount
      <4>6. Bindings!MakeRoom
        <5>1. \E b \in Known : Cardinality(Known) = ARP_TABLE_SIZE /\ Known' = Known \ {b}
          BY <3>1, <4>5
        <5>2. QED
          BY <2>2, <3>3, <4>4, <5>1, SameCardinality DEF Bindings!MakeRoom
      <4>7. QED
        BY <4>6 DEF Bindings!Next
    <3>6. QED
      BY <3>4, <3>5
  <2>6. QED
    BY <2>4, <2>5
<1>15. CASE CopyMac(t)
  <2>1. /\ call' = call
        /\ \A i \in Slots : i # s => arp_table'[i] = arp_table[i]
        /\ arp_table'[s].active = arp_table[s].active /\ arp_table'[s].ip = arp_table[s].ip
    BY <1>1, <1>15, CopyMacStep
  <2>2. CASE pc[t] = "mac1" /\ pc'[t] = "mac2"
    <3>1. Settled' = Settled /\ s \notin Settled /\ \A i \in Settled : Pair(i)' = Pair(i)
      BY <1>3, <1>4, <1>5, <1>6, <2>1, <2>2 DEF Writing, Pair
    <3>2. Known' = Known
      BY <1>5, <1>6, <3>1
    <3>3. QED
      BY <1>2, <2>1, <2>2, <3>2 DEF Learnt, Learns
  <2>3. CASE /\ pc[t] = "mac2" /\ pc'[t] = "stamp"
             /\ arp_table'[s].mac = <<arp_table[s].mac[1], call[t].mac[2]>>
    <3>1. /\ arp_table[s].active /\ arp_table[s].ip = call[t].ip
          /\ arp_table[s].mac[1] = call[t].mac[1]
          /\ HasIp(call[t].ip) \subseteq {s}
          /\ <<call[t].ip, call[t].mac[1]>> \in learned
      BY <2>3 DEF ArpInv, CallInv, Adding, Writing
    <3>2. s \notin Settled /\ Settled' = Settled \cup {s}
      BY <1>1, <1>3, <1>4, <1>5, <1>6, <2>1, <2>3, <3>1 DEF Writing
    <3>3. /\ \A i \in Settled : Pair(i)' = Pair(i)
          /\ Pair(s)' = <<call[t].ip, call[t].mac[1]>>
      BY <1>1, <1>5, <2>1, <2>3, <3>1, <3>2 DEF Pair
    <3>4. /\ Learning = <<call[t].ip, call[t].mac[1]>> /\ Learning # Nothing
          /\ Learning' = Nothing
      BY <1>1, <1>2, <2>3, <3>1, ArpAssumption DEF Learnt, Learns, TypeOK
    <3>5. Known' = Known \cup {Learning}
      <4>1. Known' = {Pair(i)' : i \in Settled \cup {s}}
        BY <1>6, <3>2
      <4>2. \A x : x \in Known' <=> (\E i \in Settled : x = Pair(i)') \/ x = Pair(s)'
        BY <2>1, <4>1 DEF Pair
      <4>3. \A x : x \in Known <=> \E i \in Settled : x = Pair(i)'
        BY <1>5, <3>3
      <4>4. Pair(s)' = Learning
        BY <3>3, <3>4
      <4>5. \A x : x \in Known' <=> x \in Known \/ x = Learning
        BY <4>2, <4>3, <4>4
      <4>6. QED
        BY <4>5
    <3>6. Bindings!Of(Learning[1]) = {}
      BY <1>5, <3>1, <3>2, <3>4 DEF Bindings!Of, Pair, HasIp
    <3>7. Cardinality(Known) < ARP_TABLE_SIZE
      <4>1. Settled \in SUBSET Slots /\ Settled # Slots
        BY <1>1, <1>5, <3>2
      <4>2. Cardinality(Settled) <= Cardinality(Slots) /\ Cardinality(Settled) # Cardinality(Slots)
        BY <4>1, SlotCount, FS_Subset
      <4>3. Cardinality(Settled) \in Nat /\ Cardinality(Known) = Cardinality(Settled)
        BY KnownPairs, FS_CardinalityType
      <4>4. QED
        BY <4>2, <4>3, SlotCount, ArpAssumption
    <3>8. Bindings!Learn
      BY <3>4, <3>5, <3>6, <3>7, SameCardinality DEF Bindings!Learn
    <3>9. QED
      BY <3>8 DEF Bindings!Next
  <2>4. QED
    BY <1>1, <1>15, <2>2, <2>3, CopyMacStep
<1>16. QED
  BY <1>8, <1>9, <1>10, <1>11, <1>12, <1>13, <1>14, <1>15 DEF Next, Step, Bindings!Next

\* One task: what the cache knows is at any time what ArpBindings promises, for a table of
\* any size; it forgets a binding only for a newer one of the address or for want of room.
THEOREM CacheKeepsBindings ==
  ASSUME NEW only, RxTasks = {only}
  PROVE  Spec => ImplementsArpBindings
<1>1. Init => ArpInv /\ Bindings!Init
  BY InitArpInv, InitBindings
<1>2. ArpInv /\ [Next]_vars => ArpInv'
  BY NextKeepsArpInv
<1>3. ArpInv /\ ArpInv' /\ [Next]_vars => [Bindings!Next]_<<Known, Learning>>
  <2>1. UNCHANGED vars => UNCHANGED <<Known, Learning>>
    BY DEF vars, Known, Settled, Writers, Learning, Learners
  <2>2. QED
    BY <2>1, NextBindings
<1>4. QED
  BY <1>1, <1>2, <1>3, PTL DEF Spec, ImplementsArpBindings, Bindings!Spec

=============================================================================
