CONSTANTS
  Sess = {a}
  Deleter = {d1}
  Stopper = {x1}
  Client = {c1}
  Timeout <- MCTimeout
  DefaultTimeout = 1
  None = None
  MaxTime = 2
SPECIFICATION FairSpec
PROPERTIES
  EntryCleared
  ShutdownEndsShells
  ShutdownReturns
  IdleIsReaped
