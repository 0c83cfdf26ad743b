\* Every operation, Reset in its two halves, restarts at any point.
SPECIFICATION TableSpec
CONSTANTS
  IDs = {i1, i2, i3, i4}
  NoID = NoID
  Labels = {a, b, c, d}
INVARIANTS
  ParentsUsable
  CacheCoversParents
  TransfersEnd
SYMMETRY Symmetry
