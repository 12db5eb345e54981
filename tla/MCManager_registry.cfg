CONSTANTS
  Sess = {a, b}
  Deleter = {d1}
  Stopper = {x1, x2}
  Client = {}
  Timeout <- MCTimeout
  DefaultTimeout = 1
  None = None
  MaxTime = 2
SPECIFICATION Spec
SYMMETRY SessSymmetry
INVARIANTS
  TypeOK
  NoNilRegistry
  NoLostSession
  MarkedHasKiller
