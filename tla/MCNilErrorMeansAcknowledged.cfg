CONSTANTS
  Calls = {c1}
  MaxRetries = 3
  MinDelay = 1
  MaxDelay = 2
SPECIFICATION Spec
INVARIANTS NilErrorMeansAcknowledged
