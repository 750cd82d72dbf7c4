CONSTANTS
  Topics = {12}
  NoNumber = NoNumber
  Received <- MCReceived
  Responses = {r1, r2, r3}
  Free = Free
  Bound = 2
SPECIFICATION FairSpec
INVARIANTS TypeOK LockHeldWhileHandling OnlyPayloadsOfModeReachChain
PROPERTIES EveryResponseHandled
