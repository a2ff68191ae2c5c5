SPECIFICATION Spec
CONSTANTS
  a = a b = b c = c d = d e = e f = f
  A = A B = B C = C D = D E = E F = F
  t1 = t1 t2 = t2 w1 = w1 w2 = w2
  Trains <- MCTrains
  Nodes <- MCNodes
  Reverse <- MCReverse
  Plans <- MCPlans
  Registrations <- MCPlacements
  Destinations <- MCDestinations
  Operators <- MCOperators
  Printers = {}
  MaxAttributions = 1
  Timely = TRUE
  NoTrain = NoTrain NoNode = NoNode NoOperator = NoOperator
SYMMETRY MCSymmetry
INVARIANTS HoldsPlace ReservedAhead NoClientForgotten
CHECK_DEADLOCK FALSE
