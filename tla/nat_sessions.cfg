CONSTANTS
  udp = udp
  host1 = host1
  host2 = host2
  server = server
  NAT_TABLE_SIZE = 2
  NAT_HASH_SIZE = 2
  port_range_start = 4
  port_range_end = 6
  Protocols <- OneProtocol
  Timeout <- ShortTimeout
  Lan <- ThreeHosts
  Remote = {server}
  TICKS_PER_SEC = 2
  TimeMod = 64
  LastTick = 3
  LastPort = 6
  Nothing = Nothing
SPECIFICATION Spec
INVARIANT TypeOK
PROPERTIES
  ImplementsNatSessions
  ExpiryIsTimely
  CollisionsLoseNoReply
CHECK_DEADLOCK FALSE
