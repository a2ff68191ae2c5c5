SPECIFICATION Spec
CONSTANTS
  t1 = t1 t2 = t2
  Trains <- MCTrains
  Sensors <- MCSensors
  Paths <- MCPaths
  Broken = {1}
  NoTrain = NoTrain
INVARIANTS NoAssertionFails SwitchesInTime AttributionsKept
PROPERTIES WorkersStop
CHECK_DEADLOCK FALSE
