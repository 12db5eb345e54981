CONSTANTS
  Opts <- MCOpts
  Other = other
  New = new
  None = None
  Queue = 1
  Wire = 1
  ResizeQueue = 1
  MaxOut = 2
  MaxKeys = 2
  MaxSize = 4
  Loads <- MCLoads
SPECIFICATION FairSpec
INVARIANTS  NothingLeftBehind
PROPERTIES StreamsInOrder BothSidesEnd SizeReachesSession
CHECK_DEADLOCK FALSE
