CONSTANTS
  p1 = p1
  p2 = p2
  p3 = p3
  p4 = p4
  t1 = t1
  t2 = t2
  Peers = {p1, p2, p3, p4}
  Topics = {t1, t2}
  Topic = t1
  Heights <- MCHeights
  Inputs <- MCInputs
SPECIFICATION Spec
INVARIANTS TypeOK AgreementIsSent KnownPeersAreSent
PROPERTIES ImplementsSubmission
