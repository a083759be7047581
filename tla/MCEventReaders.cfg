SPECIFICATION ReadersSpec
CONSTANTS
  Proc = {p1, p2}
  Archiver = {a1}
  Instance = {i1}
  IdemKey = {k1, k2}
  Oversized = {k1}
  MaxGlobal = 2
  None = None
SYMMETRY Symmetry
INVARIANTS ReadIsComplete
