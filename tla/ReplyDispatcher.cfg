SPECIFICATION ReplyFairSpec
CONSTANT NumReplies = 4
INVARIANTS
  CountsEveryReply
PROPERTY
  ImplementsOutbox
CHECK_DEADLOCK FALSE
