SPECIFICATION FairSpec
CONSTANTS
  Channels = {"rechan1", "rechan2"}
  None = None
  MaxDelay = 1
  RcDelay = 1
  Mode <- MCMode
  MaxLoad = 3
INVARIANTS
  TypeOK
  NoDanglingTimers
  TimersInOrder
  NextHandlerLives
  RefsBalanced
  InterestArmed
PROPERTIES
  CallsAsPromised
  Served
CHECK_DEADLOCK FALSE
