SPECIFICATION FairSpec

CONSTANTS
  o1 = o1
  o2 = o2
  t1 = t1
  t2 = t2
  d1 = d1
  Operations <- MCTwoOperations
  Callers <- MCTwoCallers
  Deployers <- MCNoDeployer
  Edges = 2
  BatchSize = 1
  FailurePolicy = "RETAIN"
  Faulty = TRUE
  Overlap = FALSE
  MaxToken = 4
  MaxFence = 2
  MaxCrashes = 1

PROPERTIES
  PublicationEnds

\* The system stops when every publication is over.
CHECK_DEADLOCK FALSE
