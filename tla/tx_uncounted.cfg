CONSTANTS
  f1 = f1
  f2 = f2
  tx_queue_size = 4
  IdxMod = 8
  BATCH_SIZE = 3
  LowSlots = 3
  MinSlots = 2
  Senders = {4, 5}
  Flushers = {5}
  Frames = {f1}
  Nothing = Nothing
SPECIFICATION Spec
INVARIANT FlushWillNotify
