CONSTANTS
  p1 = p1
  p2 = p2
  p3 = p3
  p4 = p4
  a1 = a1
  a2 = a2
  a3 = a3
  t1 = t1
  t2 = t2
  Peers = {p1, p2, p3, p4}
  Addresses = {a1, a2, a3}
  ReputerAddress <- MCReputerAddress
  Topics = {t1, t2}
  Topic = t1
  Heights <- MCHeights
  Inputs <- MCInputs
  Stakes = {0, 1}
  PageLimits = {1, 2}
  DefaultPageLimit = 2
  MaxStakeQueries = 2
SPECIFICATION Spec
INVARIANTS TypeOK OneVotePerReputer BundlesAttributed
  PoweredHeightWins PanicCauses
PROPERTIES ImplementsSubmission
