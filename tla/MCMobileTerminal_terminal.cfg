CONSTANTS
  None = None
  Width = {1, 3}
  Fixed = {2, 4}
  PowerShell = TRUE
  HistoryLimit = 2
  MaxConn = 2
  MaxOut = 3
  MaxChange = 2
  MaxWire = 2
SPECIFICATION FairSpec
INVARIANTS NoGapNoDuplicate HistoryIsScreen OneSocket ReadyMeansLive
PROPERTY Recovers
CHECK_DEADLOCK FALSE
