\* Two commands, one reviewer at a time; everything ends, so the system may stop.
CONSTANTS
  Commands = {"c1", "c2"}
  Edges = {"e1", "e2"}
  Artifacts = {"a1", "a2"}
  Reviewers = {"r1", "r2"}
  Inputs <- MCInputs
  MaxAttempts = 2
  MaxVersions = 2
  Torn = Torn
SPECIFICATION Spec
CHECK_DEADLOCK FALSE
INVARIANTS
  RecordedIsReadable
  OneProposalPerRun
  FinalizedIsServed
PROPERTIES
  EvidenceIsSound
