\* Three stages of the machine, two invocations at a time, one log stream, two
\* faults in any place; two pushes and workers of the map that stop, with a
\* child's output exported as the tests of the aggregation write it.
CONSTANTS
  Rows <- MCRows
  Before <- MCBefore
  Ordinal <- MCOrdinal
  Intake = "intake"
  Approval = "approval"
  Pin = "I1"
  Proposing = "I9"
  Outlasting = {"I5"}
  Versions = {v0, v1}
  Attempts = {a1, a2}
  OwnerOf <- MCOwnerOf
  Tries <- MCTries
  MaxFaults = 2
  NoAttempt = NoAttempt
  NoOwner = NoOwner
  NoDocument = NoDocument
  Files = {"a.py", "b.py", "c.md", "d.sql"}
  Python = {"a.py", "b.py"}
  Skippable = {"c.md"}
  Edges = {"x", "y", "z"}
  Revisions = {1, 2}
  Dependents <- MCDependents
  Pins = {"catalogSnapshotRef"}
  Intents <- MCIntents
  Wrapped = FALSE
  MaxTries = 2
  Unparsable = Unparsable
SPECIFICATION WorkflowSpec
\* The machine, the queue and the stream may stop; so do the workflows that ended.
CHECK_DEADLOCK FALSE
INVARIANTS
  LedgerIsFollowed
  CompleteMeansAnalysed
  NoChangeIsLost
PROPERTIES
  LastClaimCompletes
  WorkSettles
