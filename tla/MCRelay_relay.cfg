CONSTANTS
  Sess = {a}
  Deleter = {d1}
  Stopper = {main}
  Main = main
  Client = {}
  Timeout <- MCTimeout
  DefaultTimeout = 1
  None = None
  MaxTime = 2
  Flags <- MCFlags
  File <- MCFile
  Host <- MCHost
  Post <- MCPost
  Credential <- MCCred
SPECIFICATION RelayFairSpec
INVARIANTS CleanExit RepliesAreTrue ServiceProtocol
PROPERTY StopEnds
CHECK_DEADLOCK FALSE
