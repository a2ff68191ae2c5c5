SPECIFICATION MCSpec
CONSTANTS
  a = a b = b c = c d = d e = e
  Items = {"x", "y"} NoItem = NoItem capacity = 3
  Descriptors = {a, b, c, d, e} NoDescriptor = NoDescriptor
  Priority <- MCPriority TIMER3LOAD = 1 MaxClock = 2
  TrainTasks = {1, 2, 3, 4, 5, 6} NoTrainTask = NoTrainTask Time <- MCTime LARGE = 9
  Tables <- MCTables Queries <- MCQueries Small <- MCSmall
  Kind <- MCKind Others = {} Valid <- MCValid Blank = " " NUL = "0"
  TERMINALMAXINPUTSIZE = 4 MAX_COMMAND_TOKENS = 2 MAX_PLANNED_COMMANDS = 2
INVARIANTS ShortestFound SegmentsLead SwitchesSet StaysInBounds RunsWhatIsSeen
PROPERTIES ImplementsBoundedQueue HeapsImplement ReadyQueueFifo
SYMMETRY Symmetry
CHECK_DEADLOCK FALSE
