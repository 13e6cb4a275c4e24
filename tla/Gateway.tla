------------------------------- MODULE Gateway -------------------------------
(***************************************************************************)
(* The network demo (src/net_demo.c): the two receive tasks, which answer, *)
(* learn from and forward frames, and the main loop, with the NAT table    *)
(* and the ARP cache that they share without a critical section.           *)
(*                                                                         *)
(*   net_demo_run   priority 4   requests, pings, cleanups                 *)
(*   LAN net_rx_task         5                                             *)
(*   WAN net_rx_task         6                                             *)
(*                                                                         *)
(* A step of a receive task goes from one access to shared state to the    *)
(* next.  The main loop may run between any two of them, the LAN task      *)
(* between any two of the WAN task.  The main loop does not use the ARP    *)
(* cache, and its cleanup only closes sessions, so the calls of the LAN    *)
(* task are one step each; those of the WAN task are taken apart where the *)
(* LAN task or a cleanup can come in between.  There are no more hosts     *)
(* than the ARP cache has entries, so none is evicted, and each host keeps *)
(* its link address.                                                       *)
(***************************************************************************)
EXTENDS Integers, FiniteSets

CONSTANTS
  Devices,          \* the interfaces that have a device
  LanHosts, WanHosts,
  lan_ip, wan_ip,   \* the gateway's addresses
  lan_peer, wan_peer,
  Macs, MacOf,      \* the link address of each host
  Traffic,          \* the sessions that LAN hosts may ask for
  Protocols,
  Ports,            \* the ports of the NAT table
  NAT_TABLE_SIZE,
  Nothing

\* The identifier of the gateway's own pings (0x1234), which is no port of the table.
PingId == 0

Hosts == LanHosts \cup WanHosts
LanPorts == {s.lan.port : s \in Traffic}
Sessions == [protocol : Protocols, lan : [ip : LanHosts, port : LanPorts], dst : WanHosts]

ASSUME GatewayAssumption ==
  /\ Devices \subseteq {"lan", "wan"} /\ ("wan" \in Devices => "lan" \in Devices)
  /\ LanHosts \cap WanHosts = {} /\ {lan_ip, wan_ip} \cap Hosts = {}
  /\ lan_ip # wan_ip
  /\ lan_peer \in LanHosts /\ wan_peer \in WanHosts
  /\ MacOf \in [Hosts -> Macs]
  /\ Traffic \subseteq Sessions
  /\ Protocols \subseteq {"icmp", "tcp", "udp"}
  /\ Ports \subseteq Nat \ {PingId} /\ LanPorts \subseteq Nat
  /\ NAT_TABLE_SIZE \in Nat
  /\ Nothing \notin Macs \cup Hosts

VARIABLES
  mapping,         \* open NAT sessions and their ports
  found,           \* the NAT entry that the WAN task has found
  arp,             \* the link address cached for each host, in two halves, or Nothing
  claimed,         \* the host whose entry the WAN task will write, or Nothing: a free one
  peer_mac,        \* of each interface, in two halves
  peer_mac_valid,
  rx,              \* where each receive task is, and its frame
  requests,        \* the ARP requests that were sent
  asked,           \* the sessions that LAN hosts have asked for
  sent             \* the frames handed to the devices by the last step

tables == <<mapping, found, arp, claimed>>
peers == <<peer_mac, peer_mac_valid>>
vars == <<tables, peers, rx, requests, asked, sent>>

Table == INSTANCE NatSessions

Interface == {"lan", "wan"}
OtherInterface(i) == IF i = "lan" THEN "wan" ELSE "lan"
local_ip(i) == IF i = "lan" THEN lan_ip ELSE wan_ip
peer_ip(i) == IF i = "lan" THEN lan_peer ELSE wan_peer

NoFrame == [at |-> "idle", frame |-> Nothing]

(***************************************************************************)
(* An entry of the NAT table holds its session until another one takes it, *)
(* also after it was closed.  "own": the session that was found is open;   *)
(* "closed": it was closed; "taken": another one has the entry.            *)
(***************************************************************************)
NotFound == [session |-> Nothing, state |-> "none"]

Init ==
  /\ mapping = {}
  /\ found = NotFound
  /\ claimed = Nothing
  /\ arp = [h \in Hosts |-> Nothing]
  /\ peer_mac = [i \in Interface |-> <<Nothing, Nothing>>]
  /\ peer_mac_valid = [i \in Interface |-> FALSE]
  /\ rx = [i \in Interface |-> NoFrame]
  /\ requests = {}
  /\ asked = {}
  /\ sent = {}

-----------------------------------------------------------------------------
(***************************************************************************)
(* Frames.  The port of an IP packet is the one that address translation   *)
(* changes: the source port on the way out, the destination port on the    *)
(* way in, and the identifier of an ICMP echo.  "other" is a packet of     *)
(* another kind, or one that is cut short.                                 *)
(***************************************************************************)
Frame(protocol, kind, src, dst, port) ==
  [protocol |-> protocol, kind |-> kind, src |-> src, dst |-> dst, port |-> port]

KindOf(protocol, direction) == IF protocol = "icmp" THEN direction ELSE "data"

\* What the hosts of each segment may send to the gateway.
ArpFrames(i, from) ==
  {Frame("arp", kind, h, dst, 0) :
     kind \in {"who-has", "is-at"}, h \in from, dst \in {local_ip(i), Nothing}}

Packets(from, to) ==
  {Frame("icmp", kind, h, dst, 0) : kind \in {"request", "other"}, h \in from, dst \in to}

AskFrame(s) ==
  Frame(s.protocol, KindOf(s.protocol, "request"), s.lan.ip, s.dst, s.lan.port)

Incoming(i) ==
  IF i = "lan"
    THEN ArpFrames(i, LanHosts) \cup Packets(LanHosts, {lan_ip, wan_ip})
           \cup {AskFrame(s) : s \in Traffic}
    ELSE ArpFrames(i, WanHosts) \cup Packets(WanHosts, {wan_ip})
           \cup {Frame(protocol, KindOf(protocol, "reply"), h, wan_ip, port) :
                   protocol \in Protocols, h \in WanHosts, port \in Ports}
           \cup {Frame("icmp", "reply", h, wan_ip, PingId) : h \in WanHosts}

\* A frame on its way: the interface and the link address in its two halves.
On(i, to, frame) == [on |-> i, to |-> to, frame |-> frame]
Both(mac) == <<mac, mac>>

\* net_demo_send_arp_request and send_arp_request_for_ip.
WhoHas(i, ip) == On(i, Both("broadcast"), Frame("arp", "who-has", local_ip(i), ip, 0))

\* send_arp_reply: from the address that was asked for, to the sender.
ArpReply(i, f) == On(i, Both(MacOf[f.src]), Frame("arp", "is-at", local_ip(i), f.src, 0))

\* send_icmp_echo_reply: from the address that was pinged, to the sender.
EchoReply(i, f) == On(i, Both(MacOf[f.src]), Frame("icmp", "reply", f.dst, f.src, f.port))

\* The addresses that an interface answers pings for.
Own(i) == IF i = "lan" THEN {lan_ip, wan_ip} ELSE {wan_ip}

nat_is_lan_ip(ip) == ip \in LanHosts \cup {lan_ip}
nat_is_wan_ip(ip) == ip = wan_ip

IsAnswered(i, f) ==
  \/ f.kind = "who-has" /\ f.dst = local_ip(i)
  \/ f.kind = "request" /\ f.dst \in Own(i)

IsPeer(i, f) == f.kind = "is-at" /\ f.dst = local_ip(i) /\ f.src = peer_ip(i)

IsInboundFirst(i, f) == i = "wan" /\ nat_is_wan_ip(f.dst) /\ f.kind \in {"reply", "data"}

\* The same question, asked again of a packet that is not for the interface's own address.
IsInboundAgain(i, f) ==
  i = "wan" /\ f.dst \notin Own(i) /\ nat_is_wan_ip(f.dst) /\ f.kind \in {"reply", "data"}

IsInbound(i, f) == IsInboundFirst(i, f) \/ IsInboundAgain(i, f)

IsOutbound(i, f) ==
  /\ i = "lan" /\ nat_is_lan_ip(f.src)
  /\ f.dst \notin Own(i)
  /\ f.kind \in {"request", "data"}
  /\ "wan" \in Devices

SessionOf(f) == [protocol |-> f.protocol, lan |-> [ip |-> f.src, port |-> f.port], dst |-> f.dst]

-----------------------------------------------------------------------------
(***************************************************************************)
(* net_rx_task and net_demo_process_frame.                                 *)
(***************************************************************************)
At(i, label) ==
  /\ i \in Devices
  /\ rx[i].at = label
  /\ i = "wan" => rx["lan"].at = "idle"

Goto(i, label, frame) == rx' = [rx EXCEPT ![i] = [at |-> label, frame |-> frame]]

Done(i) == rx' = [rx EXCEPT ![i] = NoFrame]

\* What follows the learning: the frame is answered, taken to the NAT table, or is
\* done with.
Process(i, f) ==
  /\ sent' = IF ~IsAnswered(i, f) THEN {}
             ELSE IF f.kind = "who-has" THEN {ArpReply(i, f)} ELSE {EchoReply(i, f)}
  /\ CASE IsPeer(i, f) -> Goto(i, "copy", f)
       [] IsOutbound(i, f) \/ IsInbound(i, f) -> Goto(i, "translate", f)
       [] OTHER -> Done(i)

\* Every IP packet and every ARP reply teaches the cache its sender.
IsTaught(f) == f.kind # "who-has"

\* arp_cache_add in the LAN task.  A new entry is the first free one, which is also
\* the one that the WAN task has chosen and not yet marked.
Learn(h) ==
  /\ arp' = [arp EXCEPT ![h] = Both(MacOf[h])]
  /\ claimed' = IF rx["wan"].at = "claim" /\ claimed = Nothing /\ arp[h] = Nothing
                  THEN h ELSE claimed

\* arp_cache_add in the WAN task begins: the entry of the address, or a free one.
ChooseEntry(h) ==
  /\ claimed' = IF arp[h] = Nothing THEN Nothing ELSE h
  /\ UNCHANGED arp

Receive(i, f) ==
  /\ At(i, "idle")
  /\ \/ /\ IsTaught(f) /\ i = "wan"
        /\ ChooseEntry(f.src)
        /\ Goto(i, "claim", f)
        /\ sent' = {}
     \/ /\ IsTaught(f) /\ i = "lan"
        /\ Learn(f.src)
        /\ Process(i, f)
     \/ /\ ~IsTaught(f)
        /\ Process(i, f)
        /\ UNCHANGED <<arp, claimed>>
  /\ asked' = IF IsOutbound(i, f) THEN asked \cup {SessionOf(f)} ELSE asked
  /\ UNCHANGED <<mapping, found, peers, requests>>

\* The rest of arp_cache_add in the WAN task.  The entry is marked active and its IP
\* address overwritten: if the LAN task has taken it meanwhile, its host is lost.
ClaimEntry ==
  LET f == rx["wan"].frame IN
  /\ At("wan", "claim")
  /\ arp' = IF claimed \in {Nothing, f.src} THEN arp ELSE [arp EXCEPT ![claimed] = Nothing]
  /\ Goto("wan", "ip", f)
  /\ sent' = {}
  /\ UNCHANGED <<mapping, found, claimed, peers, requests, asked>>

\* From here on the entry is found, with the link address that it held before.
WriteIp ==
  LET f == rx["wan"].frame IN
  /\ At("wan", "ip")
  /\ arp' = [arp EXCEPT ![f.src] = Both(IF claimed = Nothing THEN Nothing ELSE MacOf[claimed])]
  /\ claimed' = Nothing
  /\ Goto("wan", "mac1", f)
  /\ sent' = {}
  /\ UNCHANGED <<mapping, found, peers, requests, asked>>

WriteMac ==
  LET f == rx["wan"].frame IN
  /\ \/ /\ At("wan", "mac1")
        /\ arp' = [arp EXCEPT ![f.src][1] = MacOf[f.src]]
        /\ Goto("wan", "mac2", f)
        /\ sent' = {}
     \/ /\ At("wan", "mac2")
        /\ arp' = [arp EXCEPT ![f.src][2] = MacOf[f.src]]
        /\ Process("wan", f)
  /\ UNCHANGED <<mapping, found, claimed, peers, requests, asked>>

\* Fault: the flag is set before the copy.
CopyPeerMacValidFirst(i) ==
  /\ \/ /\ At(i, "copy") /\ Goto(i, "copy2", rx[i].frame)
        /\ peer_mac' = [peer_mac EXCEPT ![i][1] = MacOf[rx[i].frame.src]]
     \/ /\ At(i, "copy2") /\ Goto(i, "valid", rx[i].frame)
        /\ peer_mac' = [peer_mac EXCEPT ![i][2] = MacOf[rx[i].frame.src]]
  /\ peer_mac_valid' = [peer_mac_valid EXCEPT ![i] = TRUE]
  /\ sent' = {}
  /\ UNCHANGED <<tables, requests, asked>>

\* peer_mac is copied byte by byte.
CopyPeerMac(i) ==
  /\ \/ /\ At(i, "copy") /\ Goto(i, "copy2", rx[i].frame)
        /\ peer_mac' = [peer_mac EXCEPT ![i][1] = MacOf[rx[i].frame.src]]
     \/ /\ At(i, "copy2") /\ Goto(i, "valid", rx[i].frame)
        /\ peer_mac' = [peer_mac EXCEPT ![i][2] = MacOf[rx[i].frame.src]]
  /\ sent' = {}
  /\ UNCHANGED <<tables, peer_mac_valid, requests, asked>>

SetPeerMacValid(i) ==
  /\ At(i, "valid")
  /\ peer_mac_valid' = [peer_mac_valid EXCEPT ![i] = TRUE]
  /\ Done(i)
  /\ sent' = {}
  /\ UNCHANGED <<tables, peer_mac, requests, asked>>

\* A new session is opened.  If the entry that the WAN task has found is free, it
\* may be the one that the session is given.
OpenSession(s, p) ==
  /\ Cardinality(mapping) < NAT_TABLE_SIZE
  /\ Table!Open(s, p)
  /\ \/ UNCHANGED found
     \/ found.state = "closed" /\ found' = [session |-> s, state |-> "taken"]

\* Fault: the port is not written into the packet.
TranslateOutboundKeepsPort ==
  /\ At("lan", "translate")
  /\ \E p \in Ports : OpenSession(SessionOf(rx["lan"].frame), p)
  /\ Goto("lan", "forward", [rx["lan"].frame EXCEPT !.src = wan_ip])
  /\ sent' = {}
  /\ UNCHANGED <<arp, claimed, peers, requests, asked>>

\* nat_translate_outbound.  The source address and port become the gateway's.
TranslateOutbound ==
  /\ At("lan", "translate")
  /\ LET f == rx["lan"].frame
         s == SessionOf(f)
         forward(p) == Goto("lan", "forward", [f EXCEPT !.src = wan_ip, !.port = p])
     IN \/ \E p \in Ports : <<s, p>> \in mapping /\ forward(p) /\ UNCHANGED <<mapping, found>>
        \/ \E p \in Ports : OpenSession(s, p) /\ forward(p)
        \/ /\ Cardinality(mapping) >= NAT_TABLE_SIZE
           /\ \A p \in Ports : <<s, p>> \notin mapping
           /\ Done("lan") /\ UNCHANGED <<mapping, found>>
  /\ sent' = {}
  /\ UNCHANGED <<arp, claimed, peers, requests, asked>>

\* Fault: the protocol is not compared.
FindSessionAnyProtocol ==
  /\ At("wan", "translate")
  /\ LET f == rx["wan"].frame IN
       \E s \in Sessions :
         /\ <<s, f.port>> \in mapping
         /\ s.dst = f.src
         /\ found' = [session |-> s, state |-> "own"]
         /\ Goto("wan", "lan_ip", f)
  /\ sent' = {}
  /\ UNCHANGED <<mapping, arp, claimed, peers, requests, asked>>

\* nat_translate_inbound finds the entry.  The search may fail although there is a
\* session (Nat), and then the packet is ignored.
FindSession ==
  /\ At("wan", "translate")
  /\ LET f == rx["wan"].frame IN
       \/ Done("wan") /\ UNCHANGED found
       \/ \E s \in Sessions :
            /\ <<s, f.port>> \in mapping
            /\ s.protocol = f.protocol /\ s.dst = f.src
            /\ found' = [session |-> s, state |-> "own"]
            /\ Goto("wan", "lan_ip", f)
  /\ sent' = {}
  /\ UNCHANGED <<mapping, arp, claimed, peers, requests, asked>>

\* Fault: the packet keeps the gateway's address.
CopyLanIpNowhere ==
  /\ At("wan", "lan_ip")
  /\ Goto("wan", "lan_port", rx["wan"].frame)
  /\ sent' = {}
  /\ UNCHANGED <<tables, peers, requests, asked>>

\* It copies the address and then the port from what the entry holds by now; they
\* become the destination of the packet.  (The LAN hosts differ in one byte.)
CopyLanIp ==
  /\ At("wan", "lan_ip")
  /\ Goto("wan", "lan_port", [rx["wan"].frame EXCEPT !.dst = found.session.lan.ip])
  /\ sent' = {}
  /\ UNCHANGED <<tables, peers, requests, asked>>

CopyLanPort ==
  /\ At("wan", "lan_port")
  /\ Goto("wan", "forward", [rx["wan"].frame EXCEPT !.port = found.session.lan.port])
  /\ sent' = {}
  /\ UNCHANGED <<tables, peers, requests, asked>>

Forget(i) == found' = IF i = "wan" THEN NotFound ELSE found

\* Fault: no ARP request is sent for a packet that is dropped.
ForwardWithoutRequest(i) ==
  LET f == rx[i].frame
      out == OtherInterface(i)
  IN
  /\ At(i, "forward")
  /\ sent' = IF arp[f.dst] = Nothing THEN {} ELSE {On(out, arp[f.dst], f)}
  /\ Done(i)
  /\ Forget(i)
  /\ UNCHANGED <<mapping, arp, claimed, peers, requests, asked>>

\* arp_cache_lookup and the transmission.  A packet to an unknown link address is
\* dropped; for a TCP or UDP packet to the WAN an ARP request is sent instead.  The
\* LAN task may find what the WAN task is writing.  The WAN task finds entries of LAN
\* hosts, which hold the same from when the LAN task has written them.
Forward(i) ==
  LET f == rx[i].frame
      out == OtherInterface(i)
      unknown == arp[f.dst] = Nothing
      request == unknown /\ i = "lan" /\ f.protocol # "icmp"
  IN
  /\ At(i, "forward")
  /\ sent' = IF request THEN {WhoHas(out, f.dst)}
             ELSE IF unknown THEN {} ELSE {On(out, arp[f.dst], f)}
  /\ requests' = IF request THEN requests \cup {<<out, f.dst>>} ELSE requests
  /\ Done(i)
  /\ Forget(i)
  /\ UNCHANGED <<mapping, arp, claimed, peers, asked>>

-----------------------------------------------------------------------------
(***************************************************************************)
(* What a round of net_demo_run may do.  Which of the intervals have ended *)
(* is left open.                                                           *)
(***************************************************************************)
IsOpen(s, sessions) == \E p \in Ports : <<s, p>> \in sessions

\* nat_cleanup_expired.
CleanUp ==
  /\ Table!Close
  /\ found' = IF found # NotFound /\ ~IsOpen(found.session, mapping')
                THEN [found EXCEPT !.state = "closed"] ELSE found
  /\ sent' = {}
  /\ UNCHANGED <<arp, claimed, peers, rx, requests, asked>>

\* net_demo_send_arp_request for the peer of each interface.
AskForPeers ==
  /\ requests' = requests \cup {<<i, peer_ip(i)>> : i \in Devices}
  /\ sent' = {WhoHas(i, peer_ip(i)) : i \in Devices}
  /\ UNCHANGED <<tables, peers, rx, asked>>

\* net_demo_send_icmp_request.
Ping(i) == On(i, peer_mac[i], Frame("icmp", "request", local_ip(i), peer_ip(i), PingId))

PingPeer(i) ==
  /\ peer_mac_valid[i]
  /\ sent' = {Ping(i)}
  /\ UNCHANGED <<tables, peers, rx, requests, asked>>

MainLoop == CleanUp \/ AskForPeers \/ \E i \in Devices : PingPeer(i)

-----------------------------------------------------------------------------
Step(i) ==
  \/ i = "wan" /\ (ClaimEntry \/ WriteIp \/ WriteMac)
  \/ CopyPeerMac(i)
  \/ SetPeerMacValid(i)
  \/ i = "lan" /\ TranslateOutbound
  \/ i = "wan" /\ (FindSession \/ CopyLanIp \/ CopyLanPort)
  \/ Forward(i)

Next ==
  \/ \E i \in Interface : (\E f \in Incoming(i) : Receive(i, f)) \/ Step(i)
  \/ MainLoop

Spec == Init /\ [][Next]_vars

Connections == {s \in Traffic : s.protocol # "icmp"}

\* A host answers the ARP requests for it.
Resolve(i, ip) ==
  /\ <<i, ip>> \in requests
  /\ Receive(i, Frame("arp", "is-at", ip, local_ip(i), 0))

(***************************************************************************)
(* A LAN host repeats its TCP and UDP packets, a WAN host answers          *)
(* requests, the device of each interface hands both over again and again, *)
(* and the LAN task leaves some time to the WAN task.  The main loop need  *)
(* not run.                                                                *)
(***************************************************************************)
FairSpec ==
  /\ Spec
  /\ \A s \in Connections : SF_vars(Receive("lan", AskFrame(s)))
  /\ \A ip \in WanHosts : SF_vars(Resolve("wan", ip))
  /\ WF_vars(Step("lan"))
  /\ SF_vars(Step("wan"))

-----------------------------------------------------------------------------
(***************************************************************************)
(* Properties.                                                             *)
(***************************************************************************)
Halves == Macs \cup {Nothing}

Frames == [protocol : Protocols \cup {"icmp", "arp"},
           kind : {"who-has", "is-at", "request", "reply", "data", "other"},
           src : Hosts \cup {wan_ip}, dst : Hosts \cup {lan_ip, wan_ip, Nothing},
           port : LanPorts \cup Ports \cup {PingId}]

Points == {"idle", "claim", "ip", "mac1", "mac2", "copy", "copy2", "valid",
           "translate", "lan_ip", "lan_port", "forward"}

\* Every variable has its type, and a frame what the place of its task asks for.
TypeOK ==
  /\ mapping \in SUBSET (Sessions \X Ports)
  /\ found \in [session : Sessions \cup {Nothing}, state : {"none", "own", "closed", "taken"}]
  /\ arp \in [Hosts -> (Halves \X Halves) \cup {Nothing}]
  /\ claimed \in Hosts \cup {Nothing}
  /\ peer_mac \in [Interface -> Halves \X Halves]
  /\ peer_mac_valid \in [Interface -> BOOLEAN]
  /\ rx \in [Interface -> [at : Points, frame : Frames \cup {Nothing}]]
  /\ \A i \in Interface :
       /\ IF rx[i].at = "idle" THEN rx[i].frame = Nothing ELSE rx[i].frame \in Frames
       /\ rx[i].at \in {"copy", "copy2", "valid"} => IsPeer(i, rx[i].frame)
       /\ rx[i].at = "translate" => IsOutbound(i, rx[i].frame) \/ IsInbound(i, rx[i].frame)
       /\ rx[i].at \in {"lan_port", "forward"} => rx[i].frame.dst \in Hosts
  /\ requests \in SUBSET (Interface \X Hosts)
  /\ asked \in SUBSET Sessions

Wanted(f) ==
  [protocol |-> f.protocol, lan |-> [ip |-> f.dst, port |-> f.port], dst |-> f.src] \in asked

\* A packet is let in from the WAN only if the LAN has sent one of this protocol to the
\* host that it comes from, and it goes to a host and to a port that have asked for
\* something.  As long as the session that was found stays open, these are its own.
\* (If a cleanup closes it and the entry is given to another session before the LAN
\* address is copied from it, the reply goes to the other session's host.)
OnlyRepliesComeIn ==
  /\ \A m \in sent : m.on = "lan" /\ m.frame.src \in WanHosts =>
       /\ \E s \in asked : s.protocol = m.frame.protocol /\ s.dst = m.frame.src
       /\ \E s \in asked : s.lan.ip = m.frame.dst
       /\ \E s \in asked : s.lan.port = m.frame.port
  /\ rx["wan"].at = "forward" /\ found.state = "own" => Wanted(rx["wan"].frame)

\* What leaves on the WAN comes from the gateway's address, and a packet of a LAN
\* host from a port of the NAT table.
LanIsHidden ==
  \A m \in sent : m.on = "wan" =>
    /\ m.frame.src = wan_ip
    /\ m.frame.kind = "data" => m.frame.port \in Ports
    /\ m.frame.kind = "request" => m.frame.port \in Ports \cup {PingId}

\* A packet of a LAN host, and the entry of its destination is being written.
IsInTheWindow(m) ==
  /\ m.on = "wan" /\ m.frame.port \in Ports
  /\ rx["wan"].at \in {"mac1", "mac2"} /\ rx["wan"].frame.src = m.frame.dst

\* A frame goes to the link address of the host that it is addressed to, or to all: a
\* ping never to an address of which only half is copied, and a packet never to that of
\* a host that shared an entry of the cache with its destination.  Only while the WAN
\* task writes the first entry of a host may packets for it go elsewhere (which
\* AnswerIsLearned of ArpCache is about).
RightLinkAddress ==
  \A m \in sent :
    \/ m.to = Both("broadcast") \/ m.to = Both(MacOf[m.frame.dst])
    \/ IsInTheWindow(m)

\* A LAN host that repeats its packet gets through to the WAN, though the gateway
\* drops packets while it does not know the link address, as long as its session
\* stays open.  (Not for ICMP, for which no ARP request is sent.)
RetryGetsThrough ==
  \A s \in Connections :
    IsOpen(s, mapping)
      ~> \/ ~IsOpen(s, mapping)
         \/ \E m \in sent : /\ m.on = "wan" /\ m.frame.kind = "data"
                            /\ m.frame.protocol = s.protocol /\ m.frame.dst = s.dst
                            /\ m.to = Both(MacOf[s.dst])

=============================================================================
