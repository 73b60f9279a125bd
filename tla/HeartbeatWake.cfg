SPECIFICATION FairSpec
CONSTANTS
  NumTargets = 2
  Priorities <- TwoPriorities
  MaxRequests = 3
  MaxRunners = 2
  MaxFailures = 1
INVARIANTS
  NoStrandedWake
  EveryWakeAccounted
PROPERTY
  WaitingWakeIsHandedOver
CHECK_DEADLOCK FALSE
