SPECIFICATION FairSpec
CONSTANTS
    c1 = c1
    c2 = c2
    w1 = w1
    w2 = w2
    o1 = o1
    o2 = o2
    Commands <- OneCommand
    Workers <- TwoWorkers
    Owners <- MCOwners
    OwnerOf <- TwoOwnerOf
    Identities <- MCIdentities
    IdentityOf <- OneIdentityOf
    Outputs <- TwoOutputs
    Lanes <- TwoLanes
    LaneOf <- InteractiveLaneOf
    LanePriority <- TwoPriority
    Groups <- MCGroups
    GroupOf <- OneGroupOf
    StageOrder <- OneStage
    CheckpointStages <- MCCheckpointStages
    MaxAttempts = 2
    MaxDeliveries = 5
    LeaseTicks = 1
    VisibilityTicks = 1
    DeadlineTicks = 2
    LockWait = 0
    TicksPerSecond = 1
    MaxTime = 3
    MaxFailures = 2
    MaxCrashes = 1
    NoOwner = NoOwner
    NoOutput = NoOutput
    NoResult = NoResult
    NoLease = NoLease
    NoDelivery = NoDelivery
    NoKey = NoKey
INVARIANTS
  NothingIsForgotten
  CarriedIsRecorded
  ResultHasArtifact
PROPERTIES
  AcceptedSettles
