SPECIFICATION FairSpec
CONSTANTS
  QuerySize = 1
  SendRoom = 1
  ReadSize = 2
  MaxRows = 2
  MaxQueries = 1
  Rounds = 1
  MaxNotices = 0
  Failures = {}
PROPERTY EveryOperationEnds
CHECK_DEADLOCK FALSE
