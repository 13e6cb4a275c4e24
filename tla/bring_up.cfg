CONSTANTS
  TASK_A_PRIO = 3
  TASK_B_PRIO = 4
  OS_TASK_IDLE_PRIO = 10
  Tasks = {3, 4, 10}
  Boot = Boot
  Except = Except
  NULL = NULL
  VIRTIO_NET_MAX_DEVICES = 2
  Slots = {1, 2, 3}
  Contents = {"net", "other", "empty"}
  Spis <- ThreeSpis
SPECIFICATION Spec
INVARIANTS
  TypeOK
  ContextIsOwn
  EnabledIsHandled
  TickPerDeadline
  DevicesFound
  NoLineForgotten
