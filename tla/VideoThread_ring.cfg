CONSTANTS
  COMMAND_QUEUE_SIZE = 5
  COMMAND_QUEUE_RESERVED_SPACE = 1
  THRESHOLD_TO_WAKE_GPU = 3
  CPU_THREAD_IS_WAITING = 100
  Sizes = {1, 2}
  MaxCommands = 5
  Calls = {"PushCommand", "PushCommandAndWakeThread", "PushCommandAndSync", "SyncThread"}
  SyncUnwoken = FALSE
  RunIdle = FALSE
SPECIFICATION Spec
INVARIANT TypeOK
INVARIANT AllocationIsFree
INVARIANT ReadsHeaders
INVARIANT WaitIsAnswered
INVARIANT NoLostWakeup
PROPERTY ImplementsQueue
