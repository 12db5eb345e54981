CONSTANTS
  Sub = {s1}
  Killer = {}
  Resizer = {r1}
  Dim = {d1, d2, bad}
  ValidDim = {d1, d2}
  InitDim = d1
  Kind = {"text", "repaint"}
  QueueCap = 2
  ScrollCap = 1
  Window = 1
  MaxChunk = 3
  MaxResize = 1
  MaxTime = 2
SPECIFICATION Spec
INVARIANT ExactlyOnce
