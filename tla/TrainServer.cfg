SPECIFICATION Spec
CONSTANTS
  s153 = s153 s154 = s154 s1 = s1
  Trains = {"24"}
  Switches <- MCSwitches
  Partner <- MCPartner
  Sensors = {"A1"}
  MAX_TRAIN_CMDS = 4
  SwitchTime = 1
  StopTime = 2
  FlipTime = 3
  PollTime = 1
  MaxTime = 3
  MaxRequests = 2
  NoSwitch = NoSwitch
INVARIANTS SolenoidsOff NoSensorMissed CrossingsOpposite
PROPERTIES NotEarly CommandsSent
CHECK_DEADLOCK FALSE
