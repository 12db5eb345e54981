CONSTANTS
  Sub = {s1, s2}
  Killer = {k1}
  Resizer = {}
  Dim = {d1}
  ValidDim = {d1}
  InitDim = d1
  Kind = {"text"}
  QueueCap = 2
  ScrollCap = 1
  Window = 1
  MaxChunk = 2
  MaxResize = 0
  MaxTime = 0
SPECIFICATION Spec
SYMMETRY SubSymmetry
INVARIANTS
  TypeOK
  NoNilMapInsert
  NoOrphanedSubscriber
  ExitReachesEveryone
PROPERTY ImplementsFeed
