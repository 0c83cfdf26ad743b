\* Two calls side by side over three packages.
SPECIFICATION Spec
CONSTANTS
  Callers = {c1, c2}
  PackageIDs = {p1, p2, p3}
  Sizes = {1, 2}
  Requests = {1, 2, 3}
INVARIANTS
  TypeOK
  ChargedIsReported
  OldestFirst
SYMMETRY Symmetry
