SPECIFICATION Spec

CONSTANTS
  o1 = o1
  o2 = o2
  t1 = t1
  t2 = t2
  d1 = d1
  Operations <- MCTwoOperations
  Callers <- MCTwoCallers
  Deployers <- MCOneDeployer
  Edges = 2
  BatchSize = 1
  FailurePolicy = "DISCARD"
  Faulty = TRUE
  Overlap = TRUE
  MaxToken = 3
  MaxFence = 0
  MaxCrashes = 1

SYMMETRY MCSymmetry


\* The system stops when every publication is over.
CHECK_DEADLOCK FALSE
INVARIANTS
  ServedIsSound
  AnnouncedIffActivated
PROPERTIES
  ActivationsAreFinal
