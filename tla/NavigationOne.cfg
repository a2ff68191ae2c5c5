SPECIFICATION Spec
CONSTANTS
  a = a b = b c = c d = d e = e f = f
  A = A B = B C = C D = D E = E F = F
  t1 = t1 t2 = t2 w1 = w1 w2 = w2
  Trains <- MCOneTrain
  Nodes <- MCNodes
  Reverse <- MCReverse
  Plans <- MCPlans
  Registrations <- MCOnePlacement
  Destinations <- MCOneDestinations
  Operators <- MCOneOperator
  Printers = {"reservations", "states"}
  MaxAttributions = 1
  Timely = TRUE
  NoTrain = NoTrain NoNode = NoNode NoOperator = NoOperator
INVARIANTS ReservationsDirty
CHECK_DEADLOCK FALSE
PROPERTIES NavigationEnds
