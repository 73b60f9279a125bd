SPECIFICATION ChannelFairSpec
CONSTANTS
  Hooks = {TRUE, FALSE}
  MaxRestartAttempts = 1
  NumCalls = 3
  MaxExits = 3
INVARIANTS
  ChannelTypeOK
  EveryTaskIsRegistered
  RegistrationIsLive
  StopIsFinal
PROPERTY
  CallsReturn
CHECK_DEADLOCK FALSE
