CONSTANTS
  f1 = f1
  f2 = f2
  runt = runt
  queue_size = 2
  IdxMod = 4
  SEM_MAX = 2
  Frames = {f1, f2, runt}
  Runts = {runt}
  Nothing = Nothing
SPECIFICATION FairSpec
INVARIANTS
  TypeOK
  EachDescriptorOnce
  NoFrameDropped
  SleepsOnlyWhenDrained
PROPERTIES
  CompletedComesBack
  ImplementsRxFifo
