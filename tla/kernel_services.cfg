CONSTANTS
  s1 = s1
  s2 = s2
  Prios <- ThreePrios
  OS_LOWEST_PRIO = 10
  OS_MAX_TASKS = 2
  Sems <- TwoSems
  SEM_MAX = 2
  LOCK_MAX = 2
  Ticks = {0, 1}
  Delays <- ShortDelays
  Counts = {0, 1}
  Calls = {"dly", "pend", "post", "accept", "semcreate", "suspend", "resume", "lock", "create"}
  Unruly = {}
  Nil = Nil
SPECIFICATION FairSpec
INVARIANTS
  TypeOK
  ListsWellFormed
  HighestRuns
  NoTokenBesideWaiter
  CreationIsExclusive
  ReadyIffNothingHolds
  WaitsIffNoToken
PROPERTIES
  ImplementsSemaphore
  TimedWaitEnds
