CONSTANTS
  host1 = host1
  host2 = host2
  server = server
  m1 = m1
  m2 = m2
  ARP_TABLE_SIZE = 2
  RxTasks = {5}
  Ips = {host1, host2, server}
  Macs = {m1, m2}
  TimeMod = 8
  LastTick = 4
  Nothing = Nothing
SPECIFICATION Spec
INVARIANT TypeOK
PROPERTIES
  AnswerIsLearned
  ReplacesOldest
  ImplementsArpBindings
CHECK_DEADLOCK FALSE
