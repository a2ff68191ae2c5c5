CONSTANTS
  MAX_NUM_TASKS = 4
  Priorities <- MCPriorities
  SendTids <- MCAllTids
  ReplyTids <- MCReplyTids
SPECIFICATION Spec
INVARIANT ErrorsReturned
