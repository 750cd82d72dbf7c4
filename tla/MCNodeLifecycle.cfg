CONSTANTS
  None = None
  Accounts = {"usable", "noAddress", "unconfigured"}
  Roles = {"worker", "head"}
  WorkerModes = {"worker", "unknown"}
  ReconnectSeconds = 60
  MaxInterrupts = 3
SPECIFICATION LifecycleFairSpec
INVARIANTS LifecycleTypeOK ExecutorHasClient ExitCodeTellsWhy
PROPERTIES ClientKept ReconnectsAfterFailedStart InterruptEndsProcess
