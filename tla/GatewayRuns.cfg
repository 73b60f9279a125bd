SPECIFICATION FairSpec
CONSTANTS
  alice = alice
  bob = bob
  Main = main
  Sessions <- TwoSessions
  NumRuns = 3
  MainCap = 1
  MaxSignals = 2
INVARIANTS
  TypeOK
  SessionOrder
  OneRunPerSessionIfDrained
  ServingGatewayAccepts
PROPERTY
  WaitingRunMoves
CHECK_DEADLOCK FALSE
