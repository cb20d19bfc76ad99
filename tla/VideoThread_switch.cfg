CONSTANTS
  COMMAND_QUEUE_SIZE = 4
  COMMAND_QUEUE_RESERVED_SPACE = 1
  THRESHOLD_TO_WAKE_GPU = 3
  CPU_THREAD_IS_WAITING = 100
  Sizes = {1}
  MaxCommands = 3
  Calls = {"PushCommand", "PushCommandAndWakeThread", "PushCommandAndSync", "SyncThread", "Reconfigure", "SetThreadEnabled", "ProcessShutdown"}
  SyncUnwoken = FALSE
  RunIdle = TRUE
SPECIFICATION FairSpec
INVARIANT ResetIsSafe
PROPERTY ImplementsQueue
PROPERTY CallsReturn
PROPERTY CommandsAreExecuted
