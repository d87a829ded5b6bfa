\* Two reviewers, versions that are corrected, a deployment of the first artifact
\* and a newer one that failed.  The system stops when all are handled.
CONSTANTS
  Proposals = {"p", "q"}
  Edges = {"a", "b", "c"}
  Adds <- MCAdds
  Removes <- MCRemoves
  Requests <- MCRequests
  SystemOf <- MCSystemOf
  OrderOf <- MCOrderOf
  MaxTries = 2
  NoPackage = NoPackage
  NoEvent = NoEvent
  MaxVersion = 2
  Corrections = {{"b"}}
  Reviewers = {"r1", "r2"}
  Events = {"ep", "ef"}
  FailedEvents = {"ef"}
  DigestOf <- MCDigestOf
  MaxFaults = 1
SPECIFICATION Spec
CHECK_DEADLOCK FALSE
INVARIANTS
  PublishedIsTheApprovedChange
  OneVersionDecided
  PublishedOnce
PROPERTIES
  MovesAreFenced
