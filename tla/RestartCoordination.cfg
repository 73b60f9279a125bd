SPECIFICATION RestartFairSpec
CONSTANTS
  AllowExternal = TRUE
  MaxRequests = 4
  MaxWork = 2
PROPERTIES
  RequestIsServed
  NoNeedlessRestart
CHECK_DEADLOCK FALSE
