SPECIFICATION Spec
CONSTANTS
    m1 = m1
    m2 = m2
    m3 = m3
    r1 = r1
    r2 = r2
    Messages <- MCMessages
    Receivers <- MCReceivers
    Owners <- MCOwners
    OwnerOf <- MCOwnerOf
    Lanes <- MCLanes
    Groups <- MCGroups
    LaneOf <- MCLaneOf
    GroupOf <- MCGroupOf
    SupersessionKeys <- MCKeys
    SupersessionKeyOf <- MCKeyOf
    MaxDeliveries = 2
    VisibilityTicks = 1
    TicksPerSecond = 1
    LockWait = 1
    MaxTime = 2
    MaxRedrives <- MCRedrives
    NoKey = NoKey
    NoOwner = NoOwner
    NoDelivery = NoDelivery
SYMMETRY ReceiverSymmetry
CHECK_DEADLOCK FALSE
INVARIANTS
  DeliveredInTurn
  NewestHeadSurvives
PROPERTIES
  NoMessageLost
