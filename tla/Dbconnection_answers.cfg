SPECIFICATION FairSpec
CONSTANTS
  QuerySize = 2
  SendRoom = 1
  ReadSize = 6
  MaxRows = 1
  MaxQueries = 3
  Rounds = 2
  MaxNotices = 1
  Failures = {"closed", "reset"}
INVARIANTS
  TypeOK
  OwnAnswer
  CallbackIsDue
  NoLostWakeup
PROPERTIES
  RefusedOnlyWhenBroken
  OperationEnds
\* All queries may have been answered.
CHECK_DEADLOCK FALSE
