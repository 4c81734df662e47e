SPECIFICATION Spec
CONSTANTS
  QuerySize = 1
  SendRoom = 1
  ReadSize = 6
  MaxRows = 1
  MaxQueries = 1
  Rounds = 1
  MaxNotices = 0
  Failures = {}
INVARIANT NeverBlocks
CHECK_DEADLOCK FALSE
