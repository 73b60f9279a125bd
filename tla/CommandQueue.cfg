SPECIFICATION Spec
CONSTANTS
  main = main
  cron = cron
  t1 = t1
  t2 = t2
  t3 = t3
  t4 = t4
  Lanes <- MCLanes
  Tasks <- MCTasks
  LaneOf <- MCLaneOf
  Caps <- MCCaps
  MaxResets = 1
SYMMETRY Symmetry
INVARIANTS
  SlotsAreExact
  NoLostWakeup
  DrainedIsTrue
PROPERTIES
  StartsWithinCap
  LifecycleSpec
CHECK_DEADLOCK FALSE
