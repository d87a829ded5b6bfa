SPECIFICATION Spec
CONSTANTS
    c1 = c1
    c2 = c2
    w1 = w1
    w2 = w2
    o1 = o1
    o2 = o2
    Commands <- MCCommands
    Workers <- MCWorkers
    Owners <- MCOwners
    OwnerOf <- MCOwnerOf
    Identities <- MCIdentities
    IdentityOf <- MCIdentityOf
    CheckpointStages <- MCCheckpointStages
    Outputs <- MCOutputs
    MaxAttempts = 2
    LeaseTicks = 1
    DeadlineTicks = 3
    LockWait = 1
    MaxTime = 3
    NoOwner = NoOwner
    NoOutput = NoOutput
    NoResult = NoResult
    NoLease = NoLease
SYMMETRY Symmetry
CHECK_DEADLOCK FALSE
INVARIANTS
  LedgersAgree
PROPERTIES
  ImplementsFencedExecution
