CONSTANTS
  h1 = h1
  h2 = h2
  server = server
  m1 = m1
  m2 = m2
  m3 = m3
  lan_ip = lan_ip
  wan_ip = wan_ip
  Devices = {"lan", "wan"}
  LanHosts = {h1, h2}
  WanHosts = {server}
  lan_peer = h1
  wan_peer = server
  Macs = {m1, m2, m3}
  MacOf <- OneMacEach
  Traffic <- TwoSessions
  Protocols = {"icmp", "udp"}
  Ports = {1}
  NAT_TABLE_SIZE = 1
  Nothing = Nothing
SPECIFICATION FairSpec
INVARIANTS
  TypeOK
  
  LanIsHidden
  RightLinkAddress
PROPERTY RetryGetsThrough
