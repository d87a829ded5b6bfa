SPECIFICATION FairDeploymentSpec

CONSTANTS
  e1 = e1
  e2 = e2
  e3 = e3
  e4 = e4
  s1 = s1
  s2 = s2
  h1 = h1
  h2 = h2
  none = none
  Events <- MCEvents
  Systems <- MCSystems
  SystemOf <- MCSystemOf
  OrderOf <- MCOrderOf
  TypeOf <- MCTypeOf
  OutcomeOf <- MCOutcomeOf
  PackageOf <- MCPackageOf
  NoPackage = none
  NoEvent = none
  Operations <- Nobody
  Callers <- Nobody
  Deployers <- MCHandlers
  Edges = 0
  BatchSize = 1
  FailurePolicy = "RETAIN"
  Faulty = FALSE
  Overlap = FALSE
  MaxFence = 0
  MaxToken = 8
  MaxCrashes = 1


\* The system stops when every event has a result.
CHECK_DEADLOCK FALSE
INVARIANTS
  RowsTellTheTruth
PROPERTIES
  EventsEndOnce
