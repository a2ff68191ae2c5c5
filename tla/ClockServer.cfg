CONSTANTS
  a = a
  b = b
  c = c
  Clients <- MCClients
  Slots = 3
  Amounts <- MCAmounts
  Instants <- MCInstants
  MaxTicks = 3
  MaxMissed = 1
SPECIFICATION Spec
INVARIANTS
  SleepersInOrder
PROPERTIES
  WokenOnTime
  DelayInTime
  CallsReturn
