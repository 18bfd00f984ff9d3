SPECIFICATION Spec
CONSTANTS
  MaxTraces = 6
  N = 6
  Sources <- MCSources
  Deltas <- MCDeltas
  Shapes = {"failure_rescue", "regression_check"}
  Epsilon = 500
  MaxRegression = 40
  MinImprovement = 50
  MinCount = 2
  MinValidity = 60
INVARIANT ReasonCitesFloor
