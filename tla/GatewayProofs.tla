---------------------------- MODULE GatewayProofs ----------------------------
(***************************************************************************)
(* Proofs about Gateway for every set of hosts, sessions, protocols and    *)
(* ports, for NAT tables of every size, and for gateways with one device   *)
(* or two.                                                                 *)
(***************************************************************************)
EXTENDS Gateway, TLAPS

-----------------------------------------------------------------------------
(***************************************************************************)
(* The inductive invariant, in five parts: what each receive task holds at *)
(* each point, the sessions, the NAT entry that the WAN task has found,    *)
(* the ARP cache, and the peers' addresses.  What depends on the sessions  *)
(* that were asked for has them as a parameter.                            *)
(***************************************************************************)
Segment(i) == IF i = "lan" THEN LanHosts ELSE WanHosts

\* The packets that the gateway takes to the NAT table, by their fields.
IsAsking(i, f) ==
  /\ i = "lan"
  /\ f.src \in LanHosts /\ f.dst \in WanHosts /\ f.port \in LanPorts
  /\ f.protocol \in Protocols

IsReplying(i, f) == i = "wan" /\ f.src \in WanHosts

\* Before translation: what a LAN host asks for is recorded.
Untranslated(i, f, requested) ==
  \/ IsOutbound(i, f) /\ IsAsking(i, f) /\ SessionOf(f) \in requested
  \/ IsInbound(i, f) /\ IsReplying(i, f)

\* After translation.
Translated(i, f) ==
  IF i = "lan"
    THEN f.src = wan_ip /\ f.dst \in WanHosts /\ f.port \in Ports
    ELSE f.src \in WanHosts /\ f.dst \in LanHosts

Learning == {"claim", "ip", "mac1", "mac2"}
Copying == {"copy", "copy2", "valid"}
Returning == {"lan_ip", "lan_port", "forward"}

TaskHolds(i, at, f, requested) ==
  /\ at \in Points
  /\ IF at = "idle" THEN f = Nothing ELSE f \in Frames
  /\ at \in Learning => IsReplying(i, f)
  /\ at \in Copying => IsPeer(i, f)
  /\ at = "translate" => Untranslated(i, f, requested)
  /\ at = "lan_ip" => IsReplying(i, f)
  /\ at = "lan_port" => i = "wan" /\ Translated(i, f)
  /\ at = "forward" => Translated(i, f)

RxInv ==
  /\ rx \in [Interface -> [at : Points, frame : Frames \cup {Nothing}]]
  /\ \A i \in Interface : TaskHolds(i, rx[i].at, rx[i].frame, asked)

SessionInv ==
  /\ asked \subseteq Sessions
  /\ mapping \subseteq asked \X Ports
  /\ requests \subseteq Interface \X Hosts

(***************************************************************************)
(* The WAN task is at a point with a frame and an entry.  The entry holds  *)
(* a session that was asked for; while it is the one that was found, it is *)
(* the packet's, and what was copied from it is its own.                   *)
(***************************************************************************)
Entries(requested) ==
  {NotFound} \cup [session : requested, state : {"own", "closed", "taken"}]

EntryHolds(at, f, entry, requested) ==
  LET own == entry.state = "own"
      s == entry.session
  IN
  /\ entry \in Entries(requested)
  /\ at \in Returning =>
       /\ entry # NotFound
       /\ \E q \in requested : q.protocol = f.protocol /\ q.dst = f.src
       /\ own => s.protocol = f.protocol /\ s.dst = f.src
  /\ at \in {"lan_port", "forward"} =>
       /\ \E q \in requested : q.lan.ip = f.dst
       /\ own => s.lan.ip = f.dst
  /\ at = "forward" =>
       /\ \E q \in requested : q.lan.port = f.port
       /\ own => s.lan.port = f.port

FoundInv == EntryHolds(rx["wan"].at, rx["wan"].frame, found, asked)

\* The entry of a host in the ARP cache has its address, or is being written by the
\* WAN task, half by half.
CacheHolds(at, f, cache) ==
  /\ cache \in [Hosts -> (Halves \X Halves) \cup {Nothing}]
  /\ \A h \in Hosts :
       \/ cache[h] \in {Nothing, Both(MacOf[h])}
       \/ at \in {"mac1", "mac2"} /\ f.src = h
  /\ at \in {"mac1", "mac2"} => cache[f.src] \in Halves \X Halves
  /\ at = "mac2" => cache[f.src][1] = MacOf[f.src]

ArpInv ==
  /\ claimed \in Hosts \cup {Nothing}
  /\ CacheHolds(rx["wan"].at, rx["wan"].frame, arp)

\* The halves of peer_mac that are written are those of the peer.
PeerInv ==
  /\ peer_mac \in [Interface -> Halves \X Halves]
  /\ peer_mac_valid \in [Interface -> BOOLEAN]
  /\ \A i \in Interface :
       LET mac == MacOf[peer_ip(i)] IN
       /\ peer_mac[i][1] \in {Nothing, mac} /\ peer_mac[i][2] \in {Nothing, mac}
       /\ rx[i].at \in {"copy2", "valid"} \/ peer_mac_valid[i] => peer_mac[i][1] = mac
       /\ rx[i].at = "valid" \/ peer_mac_valid[i] => peer_mac[i][2] = mac

GatewayInv == RxInv /\ SessionInv /\ FoundInv /\ ArpInv /\ PeerInv

-----------------------------------------------------------------------------
(***************************************************************************)
(* Facts about the constants and about frames.                             *)
(***************************************************************************)
LEMMA Addresses ==
  /\ lan_ip \notin Hosts /\ wan_ip \notin Hosts /\ lan_ip # wan_ip
  /\ \A h \in LanHosts : h \in Hosts /\ h \notin WanHosts
  /\ \A h \in WanHosts : h \in Hosts /\ h \notin LanHosts
  /\ \A i \in Interface : peer_ip(i) \in Hosts /\ MacOf[peer_ip(i)] \in Macs
  /\ \A h \in Hosts : MacOf[h] \in Macs
  /\ Nothing \notin Hosts
  BY GatewayAssumption DEF Hosts, Interface, peer_ip

\* The second branch for packets from the WAN is never entered: the address that it asks
\* for is the interface's own.
LEMMA SecondBranchIsDead ==
  ASSUME NEW i \in Interface, NEW f
  PROVE  ~IsInboundAgain(i, f)
  BY DEF IsInboundAgain, Own, nat_is_wan_ip

LEMMA Other == ASSUME NEW i \in Interface PROVE OtherInterface(i) \in Interface
  BY DEF Interface, OtherInterface

\* What comes in is a frame of a host of the segment, and what is taken to the NAT table
\* is a packet.
LEMMA IncomingFrames ==
  ASSUME NEW i \in Interface, NEW f \in Incoming(i)
  PROVE  /\ f \in Frames
         /\ f.src \in Segment(i)
         /\ IsOutbound(i, f) => IsAsking(i, f)
<1>1. LanHosts \subseteq Hosts /\ WanHosts \subseteq Hosts
  BY DEF Hosts
<1>2. ASSUME NEW from, from \subseteq Hosts, f \in ArpFrames(i, from)
      PROVE  f \in Frames /\ f.src \in from /\ f.kind \in {"who-has", "is-at"}
  <2>1. PICK kind \in {"who-has", "is-at"}, h \in from, dst \in {local_ip(i), Nothing} :
          f = Frame("arp", kind, h, dst, 0)
    BY <1>2 DEF ArpFrames
  <2>2. dst \in {lan_ip, wan_ip, Nothing}
    BY <2>1 DEF local_ip
  <2>3. QED
    BY <1>2, <2>1, <2>2 DEF Frame, Frames, PingId
<1>3. ASSUME NEW from, from \subseteq Hosts, NEW to \in SUBSET {lan_ip, wan_ip},
             f \in Packets(from, to)
      PROVE  /\ f \in Frames /\ f.src \in from
             /\ f.kind \in {"request", "other"} /\ f.dst \in to
  BY <1>3 DEF Packets, Frame, Frames, PingId
<1>4. ASSUME NEW s \in Traffic, f = AskFrame(s)
      PROVE  f \in Frames /\ f.src \in LanHosts /\ IsAsking("lan", f)
  <2>1. /\ s.protocol \in Protocols /\ s.dst \in WanHosts
        /\ s.lan.ip \in LanHosts /\ s.lan.port \in LanPorts
    BY GatewayAssumption DEF Sessions
  <2>2. KindOf(s.protocol, "request") \in {"request", "data"}
    BY DEF KindOf
  <2>3. QED
    BY <1>1, <1>4, <2>1, <2>2 DEF AskFrame, Frame, Frames, IsAsking
<1>5. ASSUME NEW protocol \in Protocols, NEW h \in WanHosts, NEW port \in Ports,
             f = Frame(protocol, KindOf(protocol, "reply"), h, wan_ip, port)
      PROVE  f \in Frames /\ f.src \in WanHosts
  <2>1. KindOf(protocol, "reply") \in {"reply", "data"}
    BY DEF KindOf
  <2>2. QED
    BY <1>1, <1>5, <2>1 DEF Frame, Frames
<1>6. ASSUME NEW h \in WanHosts, f = Frame("icmp", "reply", h, wan_ip, PingId)
      PROVE  f \in Frames /\ f.src \in WanHosts
  BY <1>1, <1>6 DEF Frame, Frames
<1>7. CASE i = "lan"
  <2>1. CASE f \in ArpFrames(i, LanHosts)
    BY <1>1, <1>2, <1>7, <2>1 DEF IsOutbound, Segment
  <2>2. CASE f \in Packets(LanHosts, {lan_ip, wan_ip})
    BY <1>1, <1>3, <1>7, <2>2 DEF IsOutbound, Own, Segment
  <2>3. CASE \E s \in Traffic : f = AskFrame(s)
    BY <1>4, <1>7, <2>3 DEF Segment
  <2>4. QED
    BY <1>7, <2>1, <2>2, <2>3 DEF Incoming
<1>8. CASE i = "wan"
  <2>1. CASE f \in ArpFrames(i, WanHosts)
    BY <1>1, <1>2, <1>8, <2>1 DEF IsOutbound, Segment
  <2>2. CASE f \in Packets(WanHosts, {wan_ip})
    BY <1>1, <1>3, <1>8, <2>2 DEF IsOutbound, Segment
  <2>3. CASE \E protocol \in Protocols, h \in WanHosts, port \in Ports :
               f = Frame(protocol, KindOf(protocol, "reply"), h, wan_ip, port)
    BY <1>5, <1>8, <2>3 DEF IsOutbound, Segment
  <2>4. CASE \E h \in WanHosts : f = Frame("icmp", "reply", h, wan_ip, PingId)
    BY <1>6, <1>8, <2>4 DEF IsOutbound, Segment
  <2>5. QED
    BY <1>8, <2>1, <2>2, <2>3, <2>4 DEF Incoming
<1>9. QED
  BY <1>7, <1>8 DEF Interface

-----------------------------------------------------------------------------
(***************************************************************************)
(* What each part of the invariant needs of a step.                        *)
(***************************************************************************)

\* A task that moves on leaves the other one where it is.
LEMMA TaskMoves ==
  ASSUME RxInv, NEW i \in Interface, NEW label, NEW f,
         rx' = [rx EXCEPT ![i] = [at |-> label, frame |-> f]],
         asked \subseteq asked',
         TaskHolds(i, label, f, asked')
  PROVE  /\ RxInv'
         /\ rx'[i].at = label /\ rx'[i].frame = f
         /\ \A j \in Interface \ {i} : rx'[j] = rx[j]
<1>1. rx'[i] = [at |-> label, frame |-> f]
  BY DEF RxInv
<1>2. \A j \in Interface \ {i} : rx'[j] = rx[j]
  BY DEF RxInv
<1>3. [at |-> label, frame |-> f] \in [at : Points, frame : Frames \cup {Nothing}]
  BY DEF TaskHolds
<1>4. rx' \in [Interface -> [at : Points, frame : Frames \cup {Nothing}]]
  BY <1>3 DEF RxInv
<1>5. ASSUME NEW j \in Interface \ {i} PROVE TaskHolds(j, rx[j].at, rx[j].frame, asked')
  BY DEF RxInv, TaskHolds, Untranslated
<1>6. QED
  BY <1>1, <1>2, <1>4, <1>5 DEF RxInv

\* A task that has finished holds no frame.
LEMMA TaskIsDone ==
  ASSUME RxInv, NEW i \in Interface, Done(i), asked \subseteq asked'
  PROVE  /\ RxInv'
         /\ rx'[i].at = "idle"
         /\ \A j \in Interface \ {i} : rx'[j] = rx[j]
<1>1. TaskHolds(i, "idle", Nothing, asked')
  BY DEF TaskHolds, Points, Learning, Copying
<1>2. QED
  BY <1>1, TaskMoves DEF Done, NoFrame

\* While the WAN task stays where it is, its entry stays, is closed or is taken.
LEMMA EntryStays ==
  ASSUME FoundInv, rx'["wan"] = rx["wan"], asked \subseteq asked',
         \/ found' = found
         \/ found' \in [session : asked', state : {"closed", "taken"}]
  PROVE  FoundInv'
<1>1. found \in Entries(asked) => found \in Entries(asked')
  BY DEF Entries
<1>2. ASSUME found' = found PROVE FoundInv'
  BY <1>1, <1>2 DEF FoundInv, EntryHolds
<1>3. ASSUME NEW e \in [session : asked', state : {"closed", "taken"}], found' = e
      PROVE  FoundInv'
  <2>1. e \in Entries(asked') /\ e # NotFound /\ e.state # "own"
    BY DEF Entries, NotFound
  <2>2. QED
    BY <1>3, <2>1 DEF FoundInv, EntryHolds
<1>4. QED
  BY <1>2, <1>3

\* Elsewhere its entry does not matter.
LEMMA NoEntryNeeded ==
  ASSUME FoundInv, rx'["wan"].at \notin Returning, asked \subseteq asked',
         found' = found \/ found' = NotFound
  PROVE  FoundInv'
<1>1. found' \in Entries(asked')
  BY DEF FoundInv, EntryHolds, Entries
<1>2. QED
  BY <1>1 DEF FoundInv, EntryHolds, Returning

\* The cache is not touched, and the WAN task has not begun to write.
LEMMA CacheStays ==
  ASSUME ArpInv, UNCHANGED arp, claimed' \in Hosts \cup {Nothing},
         \/ rx'["wan"] = rx["wan"]
         \/ rx["wan"].at \notin {"mac1", "mac2"} /\ rx'["wan"].at \notin {"mac1", "mac2"}
  PROVE  ArpInv'
  BY DEF ArpInv, CacheHolds

LEMMA PeersUntouched ==
  ASSUME PeerInv, UNCHANGED peers, NEW i \in Interface,
         rx'[i].at \notin {"copy2", "valid"},
         \A j \in Interface \ {i} : rx'[j] = rx[j]
  PROVE  PeerInv'
<1>1. \A j \in Interface : rx'[j].at \in {"copy2", "valid"} => rx'[j].at = rx[j].at
  OBVIOUS
<1>2. QED
  BY <1>1 DEF PeerInv, peers

\* Where a frame goes after the learning.
LEMMA ProcessMoves ==
  ASSUME RxInv, NEW i \in Interface, NEW f \in Frames, Process(i, f),
         IsOutbound(i, f) => IsAsking(i, f) /\ SessionOf(f) \in asked',
         i = "wan" => IsReplying(i, f),
         asked \subseteq asked'
  PROVE  /\ RxInv'
         /\ rx'[i].at \in {"copy", "translate", "idle"}
         /\ \A j \in Interface \ {i} : rx'[j] = rx[j]
<1>1. CASE IsPeer(i, f)
  <2>1. rx' = [rx EXCEPT ![i] = [at |-> "copy", frame |-> f]]
    BY <1>1 DEF Process, Goto, IsPeer, IsOutbound, IsInbound, IsInboundFirst, IsInboundAgain
  <2>2. TaskHolds(i, "copy", f, asked')
    BY <1>1 DEF TaskHolds, Points, Learning
  <2>3. QED
    BY <2>1, <2>2, TaskMoves
<1>2. CASE ~IsPeer(i, f) /\ (IsOutbound(i, f) \/ IsInbound(i, f))
  <2>1. rx' = [rx EXCEPT ![i] = [at |-> "translate", frame |-> f]]
    BY <1>2 DEF Process, Goto
  <2>2. IsInbound(i, f) => i = "wan"
    BY DEF IsInbound, IsInboundFirst, IsInboundAgain
  <2>3. Untranslated(i, f, asked')
    BY <1>2, <2>2 DEF Untranslated
  <2>4. TaskHolds(i, "translate", f, asked')
    BY <2>3 DEF TaskHolds, Points, Learning, Copying
  <2>5. QED
    BY <2>1, <2>4, TaskMoves
<1>3. CASE ~IsPeer(i, f) /\ ~IsOutbound(i, f) /\ ~IsInbound(i, f)
  <2>1. Done(i)
    BY <1>3 DEF Process
  <2>2. QED
    BY <2>1, TaskIsDone
<1>4. QED
  BY <1>1, <1>2, <1>3

-----------------------------------------------------------------------------
(***************************************************************************)
(* Each step keeps the invariant.                                          *)
(***************************************************************************)
LEMMA ReceiveKeepsInv ==
  ASSUME GatewayInv, NEW i \in Interface, NEW f \in Incoming(i), Receive(i, f)
  PROVE  GatewayInv'
<1>1. /\ f \in Frames /\ f.src \in Segment(i) /\ f.src \in Hosts
      /\ IsOutbound(i, f) => IsAsking(i, f)
  BY IncomingFrames, Addresses DEF Segment
<1>2. SessionInv'
  <2>1. IsOutbound(i, f) => SessionOf(f) \in Sessions
    BY <1>1 DEF IsAsking, SessionOf, Sessions
  <2>2. QED
    BY <2>1 DEF Receive, GatewayInv, SessionInv
<1>3. asked \subseteq asked' /\ (IsOutbound(i, f) => SessionOf(f) \in asked')
  BY DEF Receive
<1>4. i = "wan" => IsReplying(i, f)
  BY <1>1 DEF IsReplying, Segment
<1>5. UNCHANGED peers /\ found' = found /\ "wan" \in Interface
  BY DEF Receive, Interface
<1>6. CASE i = "wan" /\ ChooseEntry(f.src) /\ Goto(i, "claim", f)
  <2>1. TaskHolds(i, "claim", f, asked')
    BY <1>1, <1>4, <1>6 DEF TaskHolds, Points, Copying
  <2>2. /\ RxInv' /\ rx'[i].at = "claim"
        /\ \A j \in Interface \ {i} : rx'[j] = rx[j]
    BY <1>3, <1>6, <2>1, TaskMoves DEF Goto, GatewayInv
  <2>3. FoundInv'
    BY <1>3, <1>5, <1>6, <2>2, NoEntryNeeded DEF GatewayInv, Returning
  <2>4. ArpInv'
    BY <1>1, <1>6, <2>2, CacheStays DEF Receive, At, ChooseEntry, GatewayInv
  <2>5. PeerInv'
    BY <1>5, <2>2, PeersUntouched DEF GatewayInv
  <2>6. QED
    BY <1>2, <2>2, <2>3, <2>4, <2>5 DEF GatewayInv
<1>7. CASE Process(i, f) /\ ((i = "lan" /\ Learn(f.src)) \/ UNCHANGED <<arp, claimed>>)
  <2>1. /\ RxInv' /\ rx'[i].at \in {"copy", "translate", "idle"}
        /\ \A j \in Interface \ {i} : rx'[j] = rx[j]
    BY <1>1, <1>3, <1>4, <1>7, ProcessMoves DEF GatewayInv
  <2>2. rx'["wan"] = rx["wan"] \/ i = "wan"
    BY <1>5, <2>1
  <2>3. FoundInv'
    <3>1. CASE rx'["wan"] = rx["wan"]
      BY <1>3, <1>5, <3>1, EntryStays DEF GatewayInv
    <3>2. CASE i = "wan"
      BY <1>3, <1>5, <2>1, <3>2, NoEntryNeeded DEF GatewayInv, Returning
    <3>3. QED
      BY <2>2, <3>1, <3>2
  <2>4. ArpInv'
    <3>1. CASE i = "lan" /\ Learn(f.src)
      <4>1. f.src \in LanHosts /\ rx'["wan"] = rx["wan"]
        BY <1>1, <1>5, <2>1, <3>1 DEF Segment
      <4>2. rx["wan"].at \in {"mac1", "mac2"} => rx["wan"].frame.src \in WanHosts
        BY <1>5 DEF GatewayInv, RxInv, TaskHolds, Learning, IsReplying
      <4>3. Both(MacOf[f.src]) \in (Halves \X Halves)
        BY <1>1, Addresses DEF Both, Halves
      <4>4. /\ arp \in [Hosts -> (Halves \X Halves) \cup {Nothing}]
            /\ arp' = [arp EXCEPT ![f.src] = Both(MacOf[f.src])]
            /\ claimed' \in Hosts \cup {Nothing}
        BY <1>1, <3>1 DEF Learn, GatewayInv, ArpInv, CacheHolds
      <4>5. \A h \in Hosts \ {f.src} : arp'[h] = arp[h]
        BY <4>4
      <4>6. arp'[f.src] = Both(MacOf[f.src])
        BY <1>1, <4>4
      <4>7. arp' \in [Hosts -> (Halves \X Halves) \cup {Nothing}]
        BY <4>3, <4>4
      <4>8. CacheHolds(rx["wan"].at, rx["wan"].frame, arp)
        BY DEF GatewayInv, ArpInv
      <4>9. rx["wan"].at \in {"mac1", "mac2"} => rx["wan"].frame.src \in Hosts \ {f.src}
        BY <4>1, <4>2, Addresses
      <4>10. CacheHolds(rx["wan"].at, rx["wan"].frame, arp')
        BY <4>5, <4>6, <4>7, <4>8, <4>9 DEF CacheHolds
      <4>11. QED
        BY <4>1, <4>4, <4>10 DEF ArpInv
    <3>2. CASE UNCHANGED <<arp, claimed>>
      <4>1. claimed \in Hosts \cup {Nothing}
        BY DEF GatewayInv, ArpInv
      <4>2. i = "wan" => rx["wan"].at = "idle" /\ rx'["wan"].at \notin {"mac1", "mac2"}
        BY <2>1 DEF Receive, At
      <4>3. QED
        BY <2>2, <3>2, <4>1, <4>2, CacheStays DEF GatewayInv
    <3>3. QED
      BY <1>7, <3>1, <3>2
  <2>5. PeerInv'
    BY <1>5, <2>1, PeersUntouched DEF GatewayInv
  <2>6. QED
    BY <1>2, <2>1, <2>3, <2>4, <2>5 DEF GatewayInv
<1>8. QED
  BY <1>6, <1>7 DEF Receive

(***************************************************************************)
(* The WAN task writes an entry of the cache.                              *)
(***************************************************************************)
LEMMA WritingKeepsInv ==
  ASSUME GatewayInv, NEW label \in {"ip", "mac1", "mac2"}, NEW f, f = rx["wan"].frame,
         rx["wan"].at \in Learning, Goto("wan", label, f),
         asked' = asked, mapping' = mapping, requests' = requests, found' = found,
         UNCHANGED peers
  PROVE  /\ RxInv' /\ SessionInv' /\ FoundInv' /\ PeerInv'
         /\ rx'["wan"].at = label /\ rx'["wan"].frame = f
         /\ f.src \in WanHosts /\ f.src \in Hosts
<1>1. "wan" \in Interface
  BY DEF Interface
<1>2. f \in Frames /\ IsReplying("wan", f)
  BY <1>1 DEF GatewayInv, RxInv, TaskHolds, Learning
<1>3. TaskHolds("wan", label, f, asked')
  BY <1>2 DEF TaskHolds, Points, Copying
<1>4. /\ RxInv' /\ rx'["wan"].at = label /\ rx'["wan"].frame = f
      /\ \A j \in Interface \ {"wan"} : rx'[j] = rx[j]
  BY <1>1, <1>3, TaskMoves DEF Goto, GatewayInv
<1>5. SessionInv'
  BY DEF GatewayInv, SessionInv
<1>6. FoundInv'
  BY <1>4, NoEntryNeeded DEF GatewayInv, Returning
<1>7. PeerInv'
  BY <1>1, <1>4, PeersUntouched DEF GatewayInv
<1>8. QED
  BY <1>2, <1>4, <1>5, <1>6, <1>7, Addresses DEF IsReplying

LEMMA ClaimKeepsInv == ASSUME GatewayInv, ClaimEntry PROVE GatewayInv'
<1>1. PICK f : f = rx["wan"].frame
  OBVIOUS
<1>2. /\ RxInv' /\ SessionInv' /\ FoundInv' /\ PeerInv'
      /\ rx'["wan"].at = "ip"
  BY <1>1, WritingKeepsInv DEF ClaimEntry, At, Learning
<1>3. arp' \in [Hosts -> (Halves \X Halves) \cup {Nothing}]
  BY DEF ClaimEntry, GatewayInv, ArpInv, CacheHolds
<1>4. \A h \in Hosts : arp'[h] \in {arp[h], Nothing}
  BY DEF ClaimEntry, GatewayInv, ArpInv, CacheHolds
<1>5. \A h \in Hosts : arp[h] \in {Nothing, Both(MacOf[h])}
  BY DEF ClaimEntry, At, GatewayInv, ArpInv, CacheHolds
<1>6. ArpInv'
  BY <1>2, <1>3, <1>4, <1>5 DEF ClaimEntry, GatewayInv, ArpInv, CacheHolds
<1>7. QED
  BY <1>2, <1>6 DEF GatewayInv

LEMMA WriteIpKeepsInv == ASSUME GatewayInv, WriteIp PROVE GatewayInv'
<1>1. PICK f : f = rx["wan"].frame
  OBVIOUS
<1>2. /\ RxInv' /\ SessionInv' /\ FoundInv' /\ PeerInv'
      /\ rx'["wan"].at = "mac1" /\ rx'["wan"].frame = f /\ f.src \in Hosts
  BY <1>1, WritingKeepsInv DEF WriteIp, At, Learning
<1>3. PICK mac : mac = IF claimed = Nothing THEN Nothing ELSE MacOf[claimed]
  OBVIOUS
<1>4. mac \in Halves
  BY <1>3, Addresses DEF Halves, GatewayInv, ArpInv
<1>5. Both(mac) \in Halves \X Halves
  BY <1>4 DEF Both
<1>6. arp' = [arp EXCEPT ![f.src] = Both(mac)]
  BY <1>1, <1>3 DEF WriteIp
<1>7. /\ arp' \in [Hosts -> (Halves \X Halves) \cup {Nothing}]
      /\ arp'[f.src] = Both(mac)
      /\ \A h \in Hosts \ {f.src} : arp'[h] = arp[h]
  BY <1>2, <1>5, <1>6 DEF GatewayInv, ArpInv, CacheHolds
<1>8. \A h \in Hosts : arp[h] \in {Nothing, Both(MacOf[h])}
  BY DEF WriteIp, At, GatewayInv, ArpInv, CacheHolds
<1>9. CacheHolds("mac1", f, arp')
  BY <1>2, <1>5, <1>7, <1>8 DEF CacheHolds
<1>10. ArpInv'
  BY <1>2, <1>9 DEF WriteIp, ArpInv
<1>11. QED
  BY <1>2, <1>10 DEF GatewayInv

LEMMA WriteMacKeepsInv == ASSUME GatewayInv, WriteMac PROVE GatewayInv'
<1>1. PICK f : f = rx["wan"].frame
  OBVIOUS
<1>2. PICK pair : pair = arp[f.src]
  OBVIOUS
<1>3. "wan" \in Interface /\ rx["wan"].at \in {"mac1", "mac2"}
  BY DEF Interface, WriteMac, At
<1>4. f \in Frames /\ IsReplying("wan", f) /\ f.src \in Hosts /\ MacOf[f.src] \in Halves
  BY <1>1, <1>3, Addresses DEF GatewayInv, RxInv, TaskHolds, Learning, IsReplying, Halves
<1>5. /\ CacheHolds(rx["wan"].at, f, arp)
      /\ claimed' \in Hosts \cup {Nothing}
  BY <1>1 DEF WriteMac, GatewayInv, ArpInv
<1>6. pair \in Halves \X Halves
  BY <1>2, <1>3, <1>5 DEF CacheHolds
<1>7. pair = <<pair[1], pair[2]>> /\ pair[1] \in Halves /\ pair[2] \in Halves
  BY <1>6
<1>8. CASE At("wan", "mac1")
  <2>1. Goto("wan", "mac2", f) /\ arp' = [arp EXCEPT ![f.src][1] = MacOf[f.src]]
    BY <1>1, <1>8 DEF WriteMac, At
  <2>2. /\ RxInv' /\ SessionInv' /\ FoundInv' /\ PeerInv'
        /\ rx'["wan"].at = "mac2" /\ rx'["wan"].frame = f
    BY <1>1, <1>3, <2>1, WritingKeepsInv DEF WriteMac, Learning
  <2>3. PICK to : to = [pair EXCEPT ![1] = MacOf[f.src]]
    OBVIOUS
  <2>4. to \in Halves \X Halves /\ to[1] = MacOf[f.src]
    BY <1>4, <1>7, <2>3
  <2>5. arp' = [arp EXCEPT ![f.src] = to]
    BY <1>2, <2>1, <2>3
  <2>6. CacheHolds("mac2", f, arp')
    BY <1>3, <1>4, <1>5, <2>4, <2>5 DEF CacheHolds
  <2>7. ArpInv'
    BY <1>5, <2>2, <2>6 DEF ArpInv
  <2>8. QED
    BY <2>2, <2>7 DEF GatewayInv
<1>9. CASE At("wan", "mac2")
  <2>1. Process("wan", f) /\ arp' = [arp EXCEPT ![f.src][2] = MacOf[f.src]]
    BY <1>1, <1>9 DEF WriteMac, At
  <2>2. /\ asked' = asked /\ mapping' = mapping /\ requests' = requests /\ found' = found
        /\ UNCHANGED peers
    BY DEF WriteMac
  <2>3. /\ RxInv' /\ rx'["wan"].at \in {"copy", "translate", "idle"}
        /\ \A j \in Interface \ {"wan"} : rx'[j] = rx[j]
    BY <1>3, <1>4, <2>1, <2>2, ProcessMoves DEF GatewayInv, IsOutbound
  <2>4. SessionInv'
    BY <2>2 DEF GatewayInv, SessionInv
  <2>5. FoundInv'
    BY <2>2, <2>3, NoEntryNeeded DEF GatewayInv, Returning
  <2>6. PeerInv'
    BY <1>3, <2>2, <2>3, PeersUntouched DEF GatewayInv
  <2>7. PICK to : to = [pair EXCEPT ![2] = MacOf[f.src]]
    OBVIOUS
  <2>8. pair[1] = MacOf[f.src]
    BY <1>2, <1>5, <1>9 DEF At, CacheHolds
  <2>9. to = Both(MacOf[f.src])
    BY <1>7, <2>7, <2>8 DEF Both
  <2>10. to \in Halves \X Halves
    BY <1>4, <2>9 DEF Both
  <2>11. arp' = [arp EXCEPT ![f.src] = to]
    BY <1>2, <2>1, <2>7
  <2>12. /\ arp' \in [Hosts -> (Halves \X Halves) \cup {Nothing}]
         /\ \A h \in Hosts : arp'[h] \in {Nothing, Both(MacOf[h])}
    BY <1>4, <1>5, <2>9, <2>10, <2>11 DEF CacheHolds
  <2>13. ArpInv'
    BY <1>5, <2>3, <2>12 DEF ArpInv, CacheHolds
  <2>14. QED
    BY <2>3, <2>4, <2>5, <2>6, <2>13 DEF GatewayInv
<1>10. QED
  BY <1>8, <1>9 DEF WriteMac

(***************************************************************************)
(* The peers' addresses are copied.                                        *)
(***************************************************************************)
LEMMA CopyingKeepsInv ==
  ASSUME GatewayInv, NEW i \in Interface, CopyPeerMac(i) \/ SetPeerMacValid(i)
  PROVE  /\ SessionInv' /\ asked' = asked /\ found' = found /\ UNCHANGED arp
         /\ claimed' \in Hosts \cup {Nothing}
         /\ rx[i].at \in Copying
         /\ rx[i].frame \in Frames /\ IsPeer(i, rx[i].frame)
<1>1. rx[i].at \in Copying
  BY DEF CopyPeerMac, SetPeerMacValid, At, Copying
<1>2. rx[i].frame \in Frames /\ IsPeer(i, rx[i].frame)
  BY <1>1 DEF GatewayInv, RxInv, TaskHolds, Copying
<1>3. /\ asked' = asked /\ mapping' = mapping /\ requests' = requests /\ found' = found
      /\ arp' = arp /\ claimed' = claimed
  BY DEF CopyPeerMac, SetPeerMacValid, tables
<1>4. QED
  BY <1>1, <1>2, <1>3 DEF GatewayInv, SessionInv, ArpInv

LEMMA CopyKeepsInv ==
  ASSUME GatewayInv, NEW i \in Interface, CopyPeerMac(i)
  PROVE  GatewayInv'
<1>1. PICK f, mac : f = rx[i].frame /\ mac = MacOf[peer_ip(i)]
  OBVIOUS
<1>2. /\ SessionInv' /\ asked' = asked /\ found' = found /\ UNCHANGED arp
      /\ claimed' \in Hosts \cup {Nothing}
      /\ rx[i].at \in Copying
      /\ IsPeer(i, f) /\ f \in Frames
  BY <1>1, CopyingKeepsInv
<1>3. mac \in Halves /\ MacOf[f.src] = mac
  BY <1>1, <1>2, Addresses DEF IsPeer, Halves
<1>4. ASSUME NEW label \in {"copy2", "valid"}, Goto(i, label, f)
      PROVE  /\ RxInv' /\ FoundInv' /\ ArpInv' /\ rx'[i].at = label
             /\ \A j \in Interface \ {i} : rx'[j] = rx[j]
  <2>1. TaskHolds(i, label, f, asked')
    BY <1>2, <1>4 DEF TaskHolds, Points, Learning
  <2>2. /\ RxInv' /\ rx'[i].at = label
        /\ \A j \in Interface \ {i} : rx'[j] = rx[j]
    BY <1>2, <1>4, <2>1, TaskMoves DEF Goto, GatewayInv
  <2>3. \/ rx'["wan"] = rx["wan"]
        \/ rx["wan"].at \in Copying /\ rx'["wan"].at \in Copying
    BY <1>2, <2>2 DEF Copying, Interface
  <2>4. FoundInv'
    BY <1>2, <2>3, EntryStays, NoEntryNeeded DEF GatewayInv, Copying, Returning
  <2>5. ArpInv'
    BY <1>2, <2>3, CacheStays DEF GatewayInv, Copying
  <2>6. QED
    BY <2>2, <2>4, <2>5
<1>5. CASE /\ At(i, "copy") /\ Goto(i, "copy2", f)
           /\ peer_mac' = [peer_mac EXCEPT ![i][1] = mac]
  <2>1. PeerInv'
    BY <1>1, <1>3, <1>4, <1>5 DEF CopyPeerMac, At, GatewayInv, PeerInv
  <2>2. QED
    BY <1>2, <1>4, <1>5, <2>1 DEF GatewayInv
<1>6. CASE /\ At(i, "copy2") /\ Goto(i, "valid", f)
           /\ peer_mac' = [peer_mac EXCEPT ![i][2] = mac]
  <2>1. PeerInv'
    BY <1>1, <1>3, <1>4, <1>6 DEF CopyPeerMac, At, GatewayInv, PeerInv
  <2>2. QED
    BY <1>2, <1>4, <1>6, <2>1 DEF GatewayInv
<1>7. QED
  BY <1>1, <1>3, <1>5, <1>6 DEF CopyPeerMac

LEMMA SetValidKeepsInv ==
  ASSUME GatewayInv, NEW i \in Interface, SetPeerMacValid(i)
  PROVE  GatewayInv'
<1>1. /\ SessionInv' /\ asked' = asked /\ found' = found /\ UNCHANGED arp
      /\ claimed' \in Hosts \cup {Nothing}
      /\ rx[i].at \in Copying
  BY CopyingKeepsInv
<1>2. /\ RxInv' /\ rx'[i].at = "idle"
      /\ \A j \in Interface \ {i} : rx'[j] = rx[j]
  BY <1>1, TaskIsDone DEF SetPeerMacValid, GatewayInv
<1>3. \/ rx'["wan"] = rx["wan"]
      \/ rx["wan"].at \in Copying /\ rx'["wan"].at = "idle"
  BY <1>1, <1>2 DEF Interface
<1>4. FoundInv'
  BY <1>1, <1>3, EntryStays, NoEntryNeeded DEF GatewayInv, Returning
<1>5. ArpInv'
  BY <1>1, <1>3, CacheStays DEF GatewayInv, Copying
<1>6. PeerInv'
  BY <1>2 DEF SetPeerMacValid, At, GatewayInv, PeerInv
<1>7. QED
  BY <1>1, <1>2, <1>4, <1>5, <1>6 DEF GatewayInv

(***************************************************************************)
(* Address translation.                                                    *)
(***************************************************************************)

\* The fields that translation writes keep the type of a frame.
LEMMA Rewritten ==
  ASSUME NEW f \in Frames, NEW a \in Hosts \cup {wan_ip}, NEW p \in Ports \cup LanPorts
  PROVE  /\ [f EXCEPT !.src = a, !.port = p] \in Frames
         /\ a \in Hosts => [f EXCEPT !.dst = a] \in Frames
         /\ [f EXCEPT !.port = p] \in Frames
  BY DEF Frames

LEMMA OutboundKeepsInv ==
  ASSUME GatewayInv, TranslateOutbound
  PROVE  GatewayInv'
<1>1. PICK f, s : f = rx["lan"].frame /\ s = SessionOf(f)
  OBVIOUS
<1>2. "lan" \in Interface /\ "wan" \in Interface \ {"lan"}
  BY DEF Interface
<1>3. f \in Frames /\ IsAsking("lan", f) /\ s \in asked
  BY <1>1, <1>2
  DEF TranslateOutbound, At, GatewayInv, RxInv, TaskHolds, Untranslated, IsReplying
<1>4. /\ asked' = asked /\ requests' = requests /\ UNCHANGED arp /\ UNCHANGED peers
      /\ claimed' \in Hosts \cup {Nothing}
  BY DEF TranslateOutbound, GatewayInv, ArpInv
<1>5. SessionInv' /\ (found' = found \/ found' \in [session : asked', state : {"taken"}])
  <2>1. CASE UNCHANGED <<mapping, found>>
    BY <1>4, <2>1 DEF GatewayInv, SessionInv
  <2>2. ASSUME NEW p \in Ports, OpenSession(s, p)
        PROVE  SessionInv' /\ (found' = found \/ found' \in [session : asked', state : {"taken"}])
    BY <1>3, <1>4, <2>2 DEF OpenSession, Table!Open, GatewayInv, SessionInv
  <2>3. QED
    BY <1>1, <2>1, <2>2 DEF TranslateOutbound
<1>6. /\ RxInv' /\ rx'["wan"] = rx["wan"]
      /\ rx'["lan"].at \in {"forward", "idle"}
      /\ \A j \in Interface \ {"lan"} : rx'[j] = rx[j]
  <2>1. CASE Done("lan")
    BY <1>2, <1>4, <2>1, TaskIsDone DEF GatewayInv
  <2>2. ASSUME NEW p \in Ports, Goto("lan", "forward", [f EXCEPT !.src = wan_ip, !.port = p])
        PROVE  /\ RxInv' /\ rx'["wan"] = rx["wan"] /\ rx'["lan"].at = "forward"
               /\ \A j \in Interface \ {"lan"} : rx'[j] = rx[j]
    <3>1. PICK g : g = [f EXCEPT !.src = wan_ip, !.port = p]
      OBVIOUS
    <3>2. g \in Frames
      BY <1>3, <3>1, Rewritten
    <3>3. g.src = wan_ip /\ g.dst = f.dst /\ g.port = p
      BY <1>3, <3>1 DEF Frames
    <3>4. TaskHolds("lan", "forward", g, asked')
      BY <1>3, <3>2, <3>3 DEF TaskHolds, Points, Learning, Copying, Translated, IsAsking
    <3>5. QED
      BY <1>2, <1>4, <2>2, <3>1, <3>4, TaskMoves DEF Goto, GatewayInv
  <2>3. QED
    BY <1>1, <2>1, <2>2 DEF TranslateOutbound
<1>7. FoundInv'
  BY <1>4, <1>5, <1>6, EntryStays DEF GatewayInv
<1>8. ArpInv'
  BY <1>4, <1>6, CacheStays DEF GatewayInv
<1>9. PeerInv'
  BY <1>2, <1>4, <1>6, PeersUntouched DEF GatewayInv
<1>10. QED
  BY <1>5, <1>6, <1>7, <1>8, <1>9 DEF GatewayInv

\* The steps of nat_translate_inbound touch the frame and the entry of the WAN task only.
LEMMA InboundMoves ==
  ASSUME GatewayInv, NEW label, NEW f, Goto("wan", label, f),
         TaskHolds("wan", label, f, asked'), label \notin Learning \cup Copying,
         EntryHolds(label, f, found', asked'),
         rx["wan"].at \notin Learning \cup Copying,
         UNCHANGED <<mapping, arp, claimed, peers, requests, asked>>
  PROVE  GatewayInv'
<1>1. "wan" \in Interface
  BY DEF Interface
<1>2. /\ RxInv' /\ rx'["wan"].at = label /\ rx'["wan"].frame = f
      /\ \A j \in Interface \ {"wan"} : rx'[j] = rx[j]
  BY <1>1, TaskMoves DEF Goto, GatewayInv
<1>3. SessionInv' /\ FoundInv'
  BY <1>2 DEF GatewayInv, SessionInv, FoundInv
<1>4. ArpInv'
  BY <1>2, CacheStays DEF GatewayInv, ArpInv, Learning
<1>5. PeerInv'
  BY <1>1, <1>2, PeersUntouched DEF GatewayInv, Copying
<1>6. QED
  BY <1>2, <1>3, <1>4, <1>5 DEF GatewayInv

LEMMA FindKeepsInv == ASSUME GatewayInv, FindSession PROVE GatewayInv'
<1>1. PICK f : f = rx["wan"].frame
  OBVIOUS
<1>2. f \in Frames /\ IsReplying("wan", f)
  BY <1>1 DEF FindSession, At, Interface, GatewayInv, RxInv, TaskHolds, Untranslated, IsAsking
<1>3. /\ UNCHANGED <<mapping, arp, claimed, peers, requests, asked>>
      /\ rx["wan"].at \notin Learning \cup Copying
  BY DEF FindSession, At, Learning, Copying
<1>4. CASE Done("wan") /\ UNCHANGED found
  <2>1. TaskHolds("wan", "idle", Nothing, asked')
    BY DEF TaskHolds, Points, Learning, Copying
  <2>2. EntryHolds("idle", Nothing, found', asked')
    BY <1>3, <1>4 DEF GatewayInv, FoundInv, EntryHolds, Returning
  <2>3. QED
    BY <1>3, <1>4, <2>1, <2>2, InboundMoves DEF Done, NoFrame, Goto, Learning, Copying
<1>5. ASSUME NEW s \in Sessions, <<s, f.port>> \in mapping,
             s.protocol = f.protocol, s.dst = f.src,
             found' = [session |-> s, state |-> "own"], Goto("wan", "lan_ip", f)
      PROVE  GatewayInv'
  <2>1. s \in asked'
    BY <1>3, <1>5 DEF GatewayInv, SessionInv
  <2>2. TaskHolds("wan", "lan_ip", f, asked')
    BY <1>2 DEF TaskHolds, Points, Learning, Copying
  <2>3. EntryHolds("lan_ip", f, found', asked')
    BY <1>5, <2>1 DEF EntryHolds, Entries, NotFound
  <2>4. QED
    BY <1>3, <1>5, <2>2, <2>3, InboundMoves DEF Learning, Copying
<1>6. QED
  BY <1>1, <1>4, <1>5 DEF FindSession

LEMMA CopyLanIpKeepsInv == ASSUME GatewayInv, CopyLanIp PROVE GatewayInv'
<1>1. PICK f, s : f = rx["wan"].frame /\ s = found.session
  OBVIOUS
<1>2. /\ rx["wan"].at = "lan_ip" /\ Goto("wan", "lan_port", [f EXCEPT !.dst = s.lan.ip])
      /\ UNCHANGED <<mapping, arp, claimed, peers, requests, asked>> /\ found' = found
  BY <1>1 DEF CopyLanIp, At, tables
<1>3. f \in Frames /\ IsReplying("wan", f)
  BY <1>1, <1>2 DEF Interface, GatewayInv, RxInv, TaskHolds
<1>4. EntryHolds("lan_ip", f, found, asked)
  BY <1>1, <1>2 DEF GatewayInv, FoundInv
<1>5. s \in asked /\ s.lan.ip \in LanHosts
  BY <1>1, <1>4 DEF EntryHolds, Returning, Entries, GatewayInv, SessionInv, Sessions
<1>6. PICK g : g = [f EXCEPT !.dst = s.lan.ip]
  OBVIOUS
<1>7. g \in Frames
  BY <1>3, <1>5, <1>6, Addresses DEF Frames
<1>8. g.src = f.src /\ g.dst = s.lan.ip /\ g.protocol = f.protocol
  BY <1>3, <1>6 DEF Frames
<1>9. TaskHolds("wan", "lan_port", g, asked')
  BY <1>3, <1>5, <1>7, <1>8 DEF TaskHolds, Points, Learning, Copying, Translated, IsReplying
<1>10. EntryHolds("lan_port", g, found, asked)
  BY <1>1, <1>4, <1>5, <1>8 DEF EntryHolds, Returning
<1>11. QED
  BY <1>2, <1>6, <1>9, <1>10, InboundMoves DEF Learning, Copying

LEMMA CopyLanPortKeepsInv == ASSUME GatewayInv, CopyLanPort PROVE GatewayInv'
<1>1. PICK f, s : f = rx["wan"].frame /\ s = found.session
  OBVIOUS
<1>2. /\ rx["wan"].at = "lan_port" /\ Goto("wan", "forward", [f EXCEPT !.port = s.lan.port])
      /\ UNCHANGED <<mapping, arp, claimed, peers, requests, asked>> /\ found' = found
  BY <1>1 DEF CopyLanPort, At, tables
<1>3. f \in Frames /\ Translated("wan", f)
  BY <1>1, <1>2 DEF Interface, GatewayInv, RxInv, TaskHolds
<1>4. EntryHolds("lan_port", f, found, asked)
  BY <1>1, <1>2 DEF GatewayInv, FoundInv
<1>5. s \in asked /\ s.lan.port \in LanPorts
  BY <1>1, <1>4 DEF EntryHolds, Returning, Entries, GatewayInv, SessionInv, Sessions
<1>6. PICK g : g = [f EXCEPT !.port = s.lan.port]
  OBVIOUS
<1>7. g \in Frames
  BY <1>3, <1>5, <1>6 DEF Frames
<1>8. /\ g.src = f.src /\ g.dst = f.dst /\ g.port = s.lan.port
      /\ g.protocol = f.protocol
  BY <1>3, <1>6 DEF Frames
<1>9. TaskHolds("wan", "forward", g, asked')
  BY <1>3, <1>7, <1>8 DEF TaskHolds, Points, Learning, Copying, Translated
<1>10. EntryHolds("forward", g, found, asked)
  BY <1>1, <1>4, <1>5, <1>8 DEF EntryHolds, Returning
<1>11. QED
  BY <1>2, <1>6, <1>9, <1>10, InboundMoves DEF Learning, Copying

LEMMA ForwardKeepsInv ==
  ASSUME GatewayInv, NEW i \in Interface, Forward(i)
  PROVE  GatewayInv'
<1>1. rx[i].at = "forward" /\ rx[i].frame.dst \in Hosts
  BY Addresses DEF Forward, At, GatewayInv, RxInv, TaskHolds, Translated
<1>2. /\ Done(i) /\ asked' = asked /\ mapping' = mapping /\ UNCHANGED arp /\ UNCHANGED peers
      /\ claimed' \in Hosts \cup {Nothing}
      /\ found' = IF i = "wan" THEN NotFound ELSE found
  BY DEF Forward, Forget, GatewayInv, ArpInv
<1>3. SessionInv'
  BY <1>1, <1>2, Other DEF Forward, GatewayInv, SessionInv
<1>4. /\ RxInv' /\ rx'[i].at = "idle"
      /\ \A j \in Interface \ {i} : rx'[j] = rx[j]
  BY <1>2, TaskIsDone DEF GatewayInv
<1>5. \/ i = "wan" /\ rx["wan"].at = "forward" /\ rx'["wan"].at = "idle"
      \/ i = "lan" /\ rx'["wan"] = rx["wan"]
  BY <1>1, <1>4 DEF Interface
<1>6. FoundInv'
  BY <1>2, <1>5, EntryStays, NoEntryNeeded DEF GatewayInv, Returning
<1>7. ArpInv'
  BY <1>2, <1>5, CacheStays DEF GatewayInv
<1>8. PeerInv'
  BY <1>2, <1>4, PeersUntouched DEF GatewayInv
<1>9. QED
  BY <1>3, <1>4, <1>6, <1>7, <1>8 DEF GatewayInv

LEMMA MainLoopKeepsInv == ASSUME GatewayInv, MainLoop PROVE GatewayInv'
<1>1. UNCHANGED <<arp, claimed, peers, rx, asked>>
  BY DEF MainLoop, CleanUp, AskForPeers, PingPeer, tables
<1>2. RxInv' /\ ArpInv' /\ PeerInv'
  BY <1>1 DEF GatewayInv, RxInv, ArpInv, PeerInv, peers
<1>3. CASE CleanUp
  <2>1. SessionInv'
    BY <1>1, <1>3 DEF CleanUp, Table!Close, GatewayInv, SessionInv
  <2>2. found \in Entries(asked)
    BY DEF GatewayInv, FoundInv, EntryHolds
  <2>3. found # NotFound => [found EXCEPT !.state = "closed"]
                              \in [session : asked', state : {"closed", "taken"}]
    BY <1>1, <2>2 DEF Entries
  <2>4. FoundInv'
    BY <1>1, <1>3, <2>3, EntryStays DEF CleanUp, GatewayInv
  <2>5. QED
    BY <1>2, <2>1, <2>4 DEF GatewayInv
<1>4. CASE AskForPeers \/ \E i \in Devices : PingPeer(i)
  <2>1. mapping' = mapping /\ found' = found
    BY <1>4 DEF AskForPeers, PingPeer, tables
  <2>2. requests' \subseteq Interface \X Hosts
    BY <1>4, Addresses, GatewayAssumption
    DEF AskForPeers, PingPeer, GatewayInv, SessionInv, Interface
  <2>3. SessionInv' /\ FoundInv'
    BY <1>1, <2>1, <2>2 DEF GatewayInv, SessionInv, FoundInv
  <2>4. QED
    BY <1>2, <2>3 DEF GatewayInv
<1>5. QED
  BY <1>3, <1>4 DEF MainLoop

LEMMA InitGatewayInv == Init => GatewayInv
<1> SUFFICES ASSUME Init PROVE GatewayInv
  OBVIOUS
<1>1. RxInv
  BY DEF Init, NoFrame, RxInv, TaskHolds, Points, Learning, Copying
<1>2. SessionInv
  BY DEF Init, SessionInv
<1>3. FoundInv
  BY DEF Init, FoundInv, EntryHolds, Entries, Returning, NoFrame, Interface
<1>4. ArpInv
  BY DEF Init, ArpInv, CacheHolds, Interface, NoFrame
<1>5. PeerInv
  BY DEF Init, NoFrame, PeerInv, Halves
<1>6. QED
  BY <1>1, <1>2, <1>3, <1>4, <1>5 DEF GatewayInv

LEMMA NextKeepsInv == GatewayInv /\ [Next]_vars => GatewayInv'
<1> SUFFICES ASSUME GatewayInv, [Next]_vars PROVE GatewayInv'
  OBVIOUS
<1>1. CASE UNCHANGED vars
  BY <1>1 DEF vars, tables, peers, GatewayInv, RxInv, SessionInv, FoundInv, ArpInv, PeerInv
<1>2. ASSUME NEW i \in Interface, NEW f \in Incoming(i), Receive(i, f) PROVE GatewayInv'
  BY <1>2, ReceiveKeepsInv
<1>3. ASSUME NEW i \in Interface, Step(i) PROVE GatewayInv'
  BY <1>3, ClaimKeepsInv, WriteIpKeepsInv, WriteMacKeepsInv, CopyKeepsInv, SetValidKeepsInv,
     OutboundKeepsInv, FindKeepsInv, CopyLanIpKeepsInv, CopyLanPortKeepsInv, ForwardKeepsInv
  DEF Step
<1>4. CASE MainLoop
  BY <1>4, MainLoopKeepsInv
<1>5. QED
  BY <1>1, <1>2, <1>3, <1>4 DEF Next

THEOREM Invariance == Spec => []GatewayInv
  BY InitGatewayInv, NextKeepsInv, PTL DEF Spec

\* Every variable has its type, and a frame what the place of its task asks for, also
\* while an entry of the ARP cache is half written and while the NAT entry that the WAN
\* task holds is closed or given to another session.
THEOREM TypeCorrect == Spec => []TypeOK
<1>1. GatewayInv => TypeOK
  <2> SUFFICES ASSUME GatewayInv PROVE TypeOK
    OBVIOUS
  <2>1. mapping \in SUBSET (Sessions \X Ports) /\ asked \in SUBSET Sessions
    BY DEF GatewayInv, SessionInv
  <2>2. found \in [session : Sessions \cup {Nothing}, state : {"none", "own", "closed", "taken"}]
    BY <2>1 DEF GatewayInv, FoundInv, EntryHolds, Entries, NotFound
  <2>3. ASSUME NEW i \in Interface
        PROVE  /\ IF rx[i].at = "idle" THEN rx[i].frame = Nothing ELSE rx[i].frame \in Frames
               /\ rx[i].at \in {"copy", "copy2", "valid"} => IsPeer(i, rx[i].frame)
               /\ rx[i].at = "translate" => IsOutbound(i, rx[i].frame) \/ IsInbound(i, rx[i].frame)
               /\ rx[i].at \in {"lan_port", "forward"} => rx[i].frame.dst \in Hosts
    BY Addresses DEF GatewayInv, RxInv, TaskHolds, Copying, Untranslated, Translated
  <2>4. /\ arp \in [Hosts -> (Halves \X Halves) \cup {Nothing}]
        /\ claimed \in Hosts \cup {Nothing}
    BY DEF GatewayInv, ArpInv, CacheHolds
  <2>5. QED
    BY <2>1, <2>2, <2>3, <2>4 DEF TypeOK, GatewayInv, RxInv, SessionInv, PeerInv
<1>2. QED
  BY <1>1, Invariance, PTL

-----------------------------------------------------------------------------
(***************************************************************************)
(* What the steps send.                                                    *)
(***************************************************************************)
LetIn(m, requested) ==
  m.on = "lan" /\ m.frame.src \in WanHosts =>
    /\ \E s \in requested : s.protocol = m.frame.protocol /\ s.dst = m.frame.src
    /\ \E s \in requested : s.lan.ip = m.frame.dst
    /\ \E s \in requested : s.lan.port = m.frame.port

Hidden(m) ==
  m.on = "wan" =>
    /\ m.frame.src = wan_ip
    /\ m.frame.kind = "data" => m.frame.port \in Ports
    /\ m.frame.kind = "request" => m.frame.port \in Ports \cup {PingId}

ToItsHost(m) == m.to = Both("broadcast") \/ m.to = Both(MacOf[m.frame.dst])

SentRight ==
  \A m \in sent : LetIn(m, asked) /\ Hidden(m) /\ (ToItsHost(m) \/ IsInTheWindow(m))

\* What the gateway says in its own name: it needs no session.
LEMMA OwnFrames ==
  ASSUME NEW i \in Interface, NEW to, NEW protocol, NEW kind, NEW dst, NEW port, NEW requested,
         kind \in {"who-has", "is-at", "reply", "request"},
         kind = "request" => port = PingId
  PROVE  LET m == On(i, to, Frame(protocol, kind, local_ip(i), dst, port)) IN
           LetIn(m, requested) /\ Hidden(m)
  BY Addresses DEF On, Frame, LetIn, Hidden, local_ip, Interface, Hosts

LEMMA RequestsAreRight ==
  ASSUME NEW i \in Interface, NEW ip, NEW requested
  PROVE  LetIn(WhoHas(i, ip), requested) /\ Hidden(WhoHas(i, ip)) /\ ToItsHost(WhoHas(i, ip))
  BY OwnFrames DEF WhoHas, ToItsHost, On

LEMMA AnswersAreRight ==
  ASSUME NEW i \in Interface, NEW f, Process(i, f)
  PROVE  SentRight'
<1>1. PICK requested : requested = asked'
  OBVIOUS
<1>2. ASSUME NEW m, sent' = {m}, LetIn(m, requested), Hidden(m), ToItsHost(m)
      PROVE  SentRight'
  BY <1>1, <1>2 DEF SentRight
<1>3. CASE ~IsAnswered(i, f)
  BY <1>3 DEF Process, SentRight
<1>4. CASE IsAnswered(i, f) /\ f.kind = "who-has"
  <2>1. sent' = {ArpReply(i, f)}
    BY <1>4 DEF Process
  <2>2. LetIn(ArpReply(i, f), requested) /\ Hidden(ArpReply(i, f))
    BY OwnFrames DEF ArpReply
  <2>3. ToItsHost(ArpReply(i, f))
    BY DEF ArpReply, ToItsHost, On, Frame
  <2>4. QED
    BY <1>2, <2>1, <2>2, <2>3
<1>5. CASE IsAnswered(i, f) /\ f.kind # "who-has"
  <2>1. sent' = {EchoReply(i, f)} /\ f.dst \in Own(i)
    BY <1>5 DEF Process, IsAnswered
  <2>2. LetIn(EchoReply(i, f), requested) /\ Hidden(EchoReply(i, f))
    BY <2>1, Addresses DEF EchoReply, LetIn, Hidden, On, Frame, Own, Interface, Hosts
  <2>3. ToItsHost(EchoReply(i, f))
    BY DEF EchoReply, ToItsHost, On, Frame
  <2>4. QED
    BY <1>2, <2>1, <2>2, <2>3
<1>6. QED
  BY <1>3, <1>4, <1>5

LEMMA ForwardSendsRight ==
  ASSUME GatewayInv, NEW i \in Interface, Forward(i)
  PROVE  SentRight'
<1>1. PICK f, out, to, requested :
        /\ f = rx[i].frame /\ out = OtherInterface(i) /\ to = arp[rx[i].frame.dst]
        /\ requested = asked
  OBVIOUS
<1>2. rx[i].at = "forward" /\ Translated(i, f) /\ out \in Interface /\ asked' = requested
  BY <1>1, Other DEF Forward, At, GatewayInv, RxInv, TaskHolds
<1>3. f.dst \in Hosts
  BY <1>2, Addresses DEF Translated
<1>4. CASE sent' \subseteq {WhoHas(out, f.dst)}
  BY <1>2, <1>4, RequestsAreRight DEF SentRight
<1>5. CASE to # Nothing /\ sent' = {On(out, to, f)}
  <2>1. PICK m : m = On(out, to, f)
    OBVIOUS
  <2>2. m.on = out /\ m.to = to /\ m.frame = f
    BY <2>1 DEF On
  <2>3. LetIn(m, requested)
    <3>1. CASE i = "lan"
      BY <1>1, <2>2, <3>1 DEF LetIn, OtherInterface
    <3>2. CASE i = "wan"
      BY <1>1, <1>2, <2>2, <3>2 DEF LetIn, GatewayInv, FoundInv, EntryHolds, Returning
    <3>3. QED
      BY <3>1, <3>2 DEF Interface
  <2>4. Hidden(m)
    BY <1>1, <1>2, <2>2 DEF Hidden, Translated, OtherInterface
  <2>5. ToItsHost(m) \/ IsInTheWindow(m)'
    <3>1. \/ to = Both(MacOf[f.dst])
          \/ rx["wan"].at \in {"mac1", "mac2"} /\ rx["wan"].frame.src = f.dst
      BY <1>1, <1>3, <1>5 DEF GatewayInv, ArpInv, CacheHolds
    <3>2. CASE to = Both(MacOf[f.dst])
      BY <2>2, <3>2 DEF ToItsHost
    <3>3. CASE rx["wan"].at \in {"mac1", "mac2"} /\ rx["wan"].frame.src = f.dst
      <4>1. i = "lan"
        BY <1>2, <3>3 DEF Interface
      <4>2. rx'["wan"] = rx["wan"]
        BY <4>1 DEF Forward, Done, GatewayInv, RxInv, Interface
      <4>3. m.on = "wan" /\ m.frame.port \in Ports
        BY <1>1, <1>2, <2>2, <4>1 DEF OtherInterface, Translated
      <4>4. QED
        BY <2>2, <3>3, <4>2, <4>3 DEF IsInTheWindow
    <3>4. QED
      BY <3>1, <3>2, <3>3
  <2>6. QED
    BY <1>2, <1>5, <2>1, <2>3, <2>4, <2>5 DEF SentRight
<1>6. QED
  BY <1>1, <1>4, <1>5 DEF Forward

LEMMA MainLoopSendsRight == ASSUME GatewayInv, MainLoop PROVE SentRight'
<1>1. Devices \subseteq Interface
  BY GatewayAssumption DEF Interface
<1>2. CASE CleanUp
  BY <1>2 DEF CleanUp, SentRight
<1>3. CASE AskForPeers
  BY <1>1, <1>3, RequestsAreRight DEF AskForPeers, SentRight
<1>4. ASSUME NEW i \in Devices, PingPeer(i) PROVE SentRight'
  <2>1. PICK m : m = Ping(i)
    OBVIOUS
  <2>2. peer_mac[i] = Both(MacOf[peer_ip(i)])
    BY <1>1, <1>4 DEF PingPeer, Both, GatewayInv, PeerInv
  <2>3. ToItsHost(m)
    BY <2>1, <2>2 DEF Ping, On, Frame, ToItsHost
  <2>4. Hidden(m) /\ LetIn(m, asked')
    BY <1>1, <2>1, Addresses DEF Ping, On, Frame, LetIn, Hidden, local_ip, Interface, Hosts
  <2>5. sent' = {m}
    BY <1>4, <2>1 DEF PingPeer
  <2>6. QED
    BY <2>3, <2>4, <2>5 DEF SentRight
<1>5. QED
  BY <1>2, <1>3, <1>4 DEF MainLoop

LEMMA NextSendsRight == GatewayInv /\ SentRight /\ [Next]_vars => SentRight'
<1> SUFFICES ASSUME GatewayInv, SentRight, [Next]_vars PROVE SentRight'
  OBVIOUS
<1>1. CASE UNCHANGED vars
  BY <1>1 DEF vars, SentRight, IsInTheWindow
<1>2. ASSUME NEW i \in Interface, NEW f \in Incoming(i), Receive(i, f) PROVE SentRight'
  <2>1. sent' = {} \/ Process(i, f)
    BY <1>2 DEF Receive
  <2>2. QED
    BY <2>1, AnswersAreRight DEF SentRight
<1>3. ASSUME NEW i \in Interface, Step(i) PROVE SentRight'
  <2>1. CASE Forward(i)
    BY <2>1, ForwardSendsRight
  <2>2. CASE WriteMac
    <3>1. sent' = {} \/ Process("wan", rx["wan"].frame)
      BY <2>2 DEF WriteMac
    <3>2. QED
      BY <3>1, AnswersAreRight DEF SentRight, Interface
  <2>3. CASE \/ ClaimEntry \/ WriteIp \/ CopyPeerMac(i) \/ SetPeerMacValid(i)
             \/ TranslateOutbound \/ FindSession \/ CopyLanIp \/ CopyLanPort
    <3>1. sent' = {}
      BY <2>3 DEF ClaimEntry, WriteIp, CopyPeerMac, SetPeerMacValid, TranslateOutbound,
                  FindSession, CopyLanIp, CopyLanPort
    <3>2. QED
      BY <3>1 DEF SentRight
  <2>4. QED
    BY <1>3, <2>1, <2>2, <2>3 DEF Step
<1>4. CASE MainLoop
  BY <1>4, MainLoopSendsRight
<1>5. QED
  BY <1>1, <1>2, <1>3, <1>4 DEF Next

LEMMA AlwaysSentRight == Spec => []SentRight
<1>1. Init => SentRight
  BY DEF Init, SentRight
<1>2. QED
  BY <1>1, Invariance, NextSendsRight, PTL DEF Spec

\* What comes in from the WAN is of a protocol that the LAN has used with the host that
\* it comes from, and goes to a host and to a port that have asked for something,
\* although the sessions may be closed and their entries reused between the steps of
\* nat_translate_inbound; and it is the asker's own while its session stays open.
THEOREM OnlyReplies == Spec => []OnlyRepliesComeIn
<1>1. SentRight /\ GatewayInv => OnlyRepliesComeIn
  <2> SUFFICES ASSUME SentRight, GatewayInv PROVE OnlyRepliesComeIn
    OBVIOUS
  <2>1. ASSUME rx["wan"].at = "forward", found.state = "own" PROVE Wanted(rx["wan"].frame)
    <3>1. PICK f, s : f = rx["wan"].frame /\ s = found.session
      OBVIOUS
    <3>2. /\ s \in asked
          /\ s.protocol = f.protocol /\ s.dst = f.src
          /\ s.lan.ip = f.dst /\ s.lan.port = f.port
      BY <2>1, <3>1 DEF GatewayInv, FoundInv, EntryHolds, Entries, Returning
    <3>3. s \in Sessions
      BY <3>2 DEF GatewayInv, SessionInv
    <3>4. s = [protocol |-> s.protocol, lan |-> [ip |-> s.lan.ip, port |-> s.lan.port],
               dst |-> s.dst]
      BY <3>3 DEF Sessions
    <3>5. QED
      BY <3>1, <3>2, <3>4 DEF Wanted
  <2>2. QED
    BY <2>1 DEF OnlyRepliesComeIn, SentRight, LetIn
<1>2. QED
  BY <1>1, Invariance, AlwaysSentRight, PTL

\* No address and no port of a LAN host leaves on the WAN.
THEOREM LanStaysHidden == Spec => []LanIsHidden
<1>1. SentRight => LanIsHidden
  BY DEF SentRight, Hidden, LanIsHidden
<1>2. QED
  BY <1>1, AlwaysSentRight, PTL

\* Nothing is sent to a link address that is half copied or another host's, but for
\* packets to a host whose entry of the cache the WAN task is just writing.
THEOREM AddressesAreRight == Spec => []RightLinkAddress
<1>1. SentRight => RightLinkAddress
  BY DEF SentRight, ToItsHost, RightLinkAddress
<1>2. QED
  BY <1>1, AlwaysSentRight, PTL

=============================================================================
