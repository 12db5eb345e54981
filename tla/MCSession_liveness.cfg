CONSTANTS
  Sub = {s1}
  Killer = {k1}
  Resizer = {r1}
  Dim = {d1, d2}
  ValidDim = {d1, d2}
  InitDim = d1
  Kind = {"text"}
  QueueCap = 2
  ScrollCap = 1
  Window = 1
  MaxChunk = 2
  MaxResize = 1
  MaxTime = 0
SPECIFICATION FairSpec
PROPERTIES
  ExitReleasesEveryone
  PumpNeverStalls
  KillEndsSession
