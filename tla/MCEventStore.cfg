SPECIFICATION Spec
CONSTANTS
  Proc = {p1, p2}
  Archiver = {a1, a2}
  Instance = {i1, i2}
  IdemKey = {k1, k2}
  Oversized = {k1}
  MaxGlobal = 3
  None = None
SYMMETRY Symmetry
INVARIANTS TypeOK SequenceContiguous OneEventPerKey OrdersAgree
PROPERTIES NothingIsLost
