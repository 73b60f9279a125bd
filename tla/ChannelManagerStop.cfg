SPECIFICATION ChannelSpec
CONSTANTS
  Hooks = {TRUE, FALSE}
  MaxRestartAttempts = 1
  NumCalls = 3
  MaxExits = 3
PROPERTY NoRestartAfterStop
CHECK_DEADLOCK FALSE
