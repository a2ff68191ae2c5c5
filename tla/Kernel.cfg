CONSTANTS
  MAX_NUM_TASKS = 4
  Priorities <- MCTwoPriorities
  SendTids <- MCAllTids
  ReplyTids <- MCAllTids
SPECIFICATION Spec
INVARIANTS
  KernelAssertsHold
  OnePlace
  NobodyStranded
  NoMissedSender
  CleanReturn
PROPERTIES
  RendezvousSteps
