\* Pull request gates and nightly runs that overlap with publications and
\* deployments, a snapshot of a checkout that is edited, and collections of a cell.
CONSTANTS
  GraphVersions = {"v1", "v2"}
  Rows <- MCRows
  Gates = {"g1", "g2", "g3"}
  SequenceOf <- MCSequence
  HeadOf <- MCHead
  Covered <- MCCovered
  ImpactOf <- MCImpact
  Nights = {"n1", "n2", "n3"}
  Clean = {"r1"}
  Sample = {"r1", "r3"}
  Archived <- MCArchived
  Audited <- MCAudited
  StaleKeys <- MCStale
  DrainLimit = 1
  MaxMoves = 2
  MaxFaults = 1
  Revisions = {"c1", "c2"}
  Tree <- MCTree
  Indexes <- MCIndexes
  Submissions = {"u1"}
  MaxEdits = 2
  Submitted = {"s1", "s2", "s3"}
  Files = {"x", "y", "z"}
  Lineage = {"x", "y"}
  Archive <- MCArchive
  MaxAttempts = 2
  MaxStops = 1
  MaxQueued = 1
  MaxGraphs = 3
  Parts <- MCParts
  Source = "SOURCE"
  Cell = "CELL"
  Query = "QUERY"
  LocalCheck = "LOCAL"
  Confidence = "EDGE"
  Evaluations = {"e1", "e2", "e3"}
  CheckOfHead <- MCCheckOfHead
  Targeted = {"e1", "e2"}
  FullyCovered = {"e1", "e3"}
  ChangesOf <- MCChangesOf
  LocalVersions = {"v1", "v2"}
  MaxPointerMoves = 2
  Evidence <- MCEvidence
  Normal <- MCNormal
  Urns = {1, 2, 3, 4}
  Graphs <- MCGraphs
  Subjects = {1}
  Depths = {2, 3}
  RowLimit = 6
SPECIFICATION Spec
CHECK_DEADLOCK FALSE
INVARIANTS
  PassesWereTrue
  QuietReportIsTrue
  SnapshotIsTheRevision
  GraphHasItsRevision
  AnswersAreWhole
  OrderIsForgotten
PROPERTIES
  NothingTurnsBack
