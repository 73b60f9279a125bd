CONSTANTS
  NumJobs = 2
  InitialJobs = {1}
  OneShots = {2}
  Kept = {}
  Period = 1
  OneShotAt = 2
  Backoff = 1
  Stagger = 1
  Stuck = 0
  MaxAttempts = 1
  MaxImmediate = 1
  Concurrency = 1
  MaxTime = 2
  MaxServices = 2
  MaxReloads = 1
  MaxOverlaps = 0
  MaxManual = 1
  MaxEdits = 1
  MaxErrors = 1
SPECIFICATION Spec
INVARIANTS TypeOK OneRunAtATime TimerIsSet MarkerHasARun
PROPERTIES DueSlotsAreKept
CHECK_DEADLOCK FALSE
