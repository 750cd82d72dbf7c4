CONSTANTS
  None = None
  Roles = {"worker"}
  Accounts = {"usable", "noAddress", "unconfigured"}
  WorkerModes = {"worker", "unknown"}
  ReconnectSeconds = 60
SPECIFICATION Spec
INVARIANT NodeCheckDecides
