CONSTANTS
  NumJobs = 2
  InitialJobs = {1}
  OneShots = {2}
  Kept = {}
  Period = 1
  OneShotAt = 2
  Backoff = 1
  Stagger = 1
  Stuck = 2
  MaxAttempts = 1
  MaxImmediate = 1
  Concurrency = 1
  MaxTime = 2
  MaxServices = 2
  MaxReloads = 1
  MaxOverlaps = 1
  MaxManual = 1
  MaxEdits = 0
  MaxErrors = 1
SPECIFICATION Spec
PROPERTIES NeverConcurrent
CHECK_DEADLOCK FALSE
