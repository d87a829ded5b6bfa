\* Sessions, leases and a producer; all of them end, so the system may stop.
CONSTANTS
  Sessions = {"s1"}
  Calls = {k1, k2}
  Observations <- MCObservations
  Payloads <- MCPayloads
  Scope = {"d1", "d2"}
  MaxCalls = 6
  Profiles = {"p1"}
  Artifacts = {"a1"}
  Datasets = {"d1", "d2"}
  Leases = {"l1", "l2"}
  Switches = {"GLOBAL"}
  Covers <- MCCovers
  Requests = {"r1"}
  MaxEpoch = 4
  MaxRenewals = 1
  Threads = {t1, t2}
  MaxRecords = 2
  BatchSize = 2
  MaxRetries = 1
  Ends = {"EXPIRED", "ANOTHER"}
  MaxEnqueues = 3
  MaxRestarts = 1
  Sources <- MCSources
  Checkouts <- MCCheckouts
  PythonPaths <- MCPythonPaths
  Claims <- MCClaims
  Missing = Missing
SPECIFICATION Spec
SYMMETRY MCSymmetry
CHECK_DEADLOCK FALSE
INVARIANTS
  WholeWhenComplete
  LiveLeasesAreAllowed
  EachRecordIsCounted
  WitnessIsEarned
PROPERTIES
  EndedStaysEnded
