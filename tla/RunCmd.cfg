SPECIFICATION FairRunSpec
CONSTANT
  Invocation = {c1, c2}
CHECK_DEADLOCK FALSE
INVARIANTS
  RunTypeOK
  OkIsTrue
PROPERTY EveryCommandReplies
