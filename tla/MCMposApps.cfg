SPECIFICATION AppSpec
CONSTANTS
  NPROCS = 16
  PROC1_STACK_ADDR = 4
  PROC_STACK_SIZE = 4
  Words <- AllWords
  CodeAddrs <- Labels
  Depths = {}
  Statuses = {}
  Calls <- NoCalls
  Waiters <- NoCalls
  LIMIT = 1025
  YIELDS = 20
INVARIANTS
  WaiterBlocked
PROPERTIES
  ZombieStaysDead
  ApplicationsComplete
