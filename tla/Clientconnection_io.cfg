SPECIFICATION FairSpec
CONSTANTS
  MsgLen = 2
  RecvMax = 2
  SendRoom = 1
  MaxMessages = 2
  MaxWrites = 3
  MaxEmptyLines = 1
  Faults = TRUE
INVARIANTS
  TypeOK
  OnlyWholeRequests
  WrittenInOrder
  OperationHasItsMask
  NoLostWakeup
PROPERTY OperationEnds
\* The program may have deleted the connection.
CHECK_DEADLOCK FALSE
