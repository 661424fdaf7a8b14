SPECIFICATION Spec
CONSTANTS
  NPROCS = 4
  PROC1_STACK_ADDR = 2
  PROC_STACK_SIZE = 1
  Words = {0, 1}
  CodeAddrs <- Entry
  Depths = {0, 1}
  Statuses = {5}
  Calls <- MCCalls
  Waiters <- OneWaiter
INVARIANTS
  CurrentRunnable
  NoMissedWakeup
  SpinOnlyWhenAllDead
PROPERTIES
  StacksApart
  WokenByExit
