\* Two goroutines set samples for labels of one and of two units of time.
SPECIFICATION Spec
CONSTANTS
  speeds <- TwoSpeeds
  maxPointCount = 3
  Setters = {c1, c2}
  MaxNow = 3
  MaxSamples = 3
  MaxRacing = 2
  MaxRestarts = 1
INVARIANTS
  CurvesShowHistory
PROPERTIES
  PointsComplete
SYMMETRY Symmetry
CHECK_DEADLOCK FALSE
