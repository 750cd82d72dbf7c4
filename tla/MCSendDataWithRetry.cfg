CONSTANTS
  Calls = {c1}
  MaxRetries = 5
  MinDelay = 0
  MaxDelay = 2
SPECIFICATION Spec
INVARIANTS TypeOK ExecutionsBounded SleepWithinBackoff GivesUpOnlyAfterAllRetries
PROPERTIES NoBroadcastAfterAck ImplementsBoundedDelivery
