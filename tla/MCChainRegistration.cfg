CONSTANTS
  t1 = t1
  t2 = t2
  Topics = {t1, t2}
  TopicIds <- MCTopicIds
  WorkerMode = "reputer"
  InitialStake = 2
  Fee = 1
  Balances = {0, 1, 3, 20}
  StakingAttempts = 4
  MaxCrashes = 2
SPECIFICATION Spec
INVARIANTS TypeOK EveryTopicAccounted
PROPERTIES NoStakeWhenAlreadyRegistered ImplementsTopicStaking
