SPECIFICATION FollowupFairSpec
CONSTANTS
  NumMessages = 4
  TargetOf <- MCTargetOf
  Unroutable <- WebChat
  Modes <- AllModes
  Policies <- TwoPolicies
  Cap = 2
  MaxObjects = 2
  MaxClears = 1
  MaxFailures = 1
INVARIANTS
  FollowupTypeOK
  OneFateUnlessRaced
  IdleQueueHasNoRunner
PROPERTIES
  TurnsFollowArrival
  QueuedMessageLeaves
CHECK_DEADLOCK FALSE
