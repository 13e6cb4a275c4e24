CONSTANTS
  udp = udp
  host1 = host1
  host2 = host2
  server = server
  NAT_TABLE_SIZE = 2
  NAT_HASH_SIZE = 2
  port_range_start = 4
  port_range_end = 6
  Protocols <- OneProtocol
  Timeout <- OneTimeout
  Lan <- OneHost
  Remote = {server}
  TICKS_PER_SEC = 1
  TimeMod = 64
  LastTick = 4
  LastPort = 6
  Nothing = Nothing
SPECIFICATION Spec
PROPERTY GrantedIsOpen
CHECK_DEADLOCK FALSE
