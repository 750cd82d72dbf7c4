CONSTANTS
  Topics = {1, 12}
  NoNumber = NoNumber
  Requestable <- MCRequestable
  Heights = {1}
  Environments <- MCEnvironments
  Stdouts <- MCStdouts
  WorkerModes = {"worker", "reputer", "other"}
  None = None
SPECIFICATION Spec
INVARIANTS TypeOK SignedForRequestedTopic SignedForSentHeights SignedWhole
  ErrorLeavesOutput
