SPECIFICATION Spec
CONSTANTS
  NumDeliveries = 2
  PayloadsOf <- OneAndTwo
  BestEffort <- First
  Observed <- First
  Mirrored <- Second
  MaxRetries = 2
  MaxStarts = 2
  MaxCrashes = 1
  MaxDiskErrors = 1
INVARIANTS
  StrictDeliveryIsKept
  SentOnceUnlessUnacked
  RetriesAreBounded
CHECK_DEADLOCK FALSE
