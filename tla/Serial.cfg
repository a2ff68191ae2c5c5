SPECIFICATION MCSpec
CONSTANTS
  a = a b = b c = c
  Tasks <- StartTasks MaxInterrupts = 3
  Clients = {a, b, c} FifoSize = 4 LockCapacity = 3 PrintLength = 3 Overtakes = 1
  Program <- MCProgram Bytes = 2 Prompt = TRUE MaxKey = 5
  NoOwner = NoOwner NoTask = NoTask NoKey = NoKey
INVARIANTS LocksConsistent
PROPERTIES
  PrintsWhole TransmitsWhenClear AnswersInOrder KeysInOrder CallsReturn
  ImplementsDirectory StartEnds
