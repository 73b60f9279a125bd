SPECIFICATION NodeFairSpec
CONSTANTS
  Invokes <- MCInvokes
  Keyings <- MCKeyings
  Restricted = {"first", "second"}
  NumConns = 2
  Narrow = {2}
  MaxPending = 1
INVARIANTS
  NodeTypeOK
  RegistryFollowsNode
  OutstandingInvokeHasConnection
  QueuedMeansRunOnce
PROPERTY EveryInvokeIsAnswered
