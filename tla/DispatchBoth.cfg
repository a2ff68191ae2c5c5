SPECIFICATION Spec
CONSTANTS
  t1 = t1 t2 = t2
  Trains <- MCOne
  Sensors <- MCSensors
  Paths <- MCShortPath
  Broken = {}
  NoTrain = NoTrain
PROPERTIES WorkerStopsTrain
CHECK_DEADLOCK FALSE
