SPECIFICATION SearchSpec
CONSTANTS
  Tables <- MCTrack
  Queries <- MCFrom
  Small = {}
INVARIANTS SegmentsReachable
CHECK_DEADLOCK FALSE
