SPECIFICATION FairSpec
CONSTANTS
  MsgLen = 2
  RecvMax = 2
  SendRoom = 1
  MaxMessages = 2
  MaxWrites = 3
  MaxEmptyLines = 1
  Faults = TRUE
INVARIANTS
  TypeOK
  OnlyWholeResponses
  WrittenInOrder
  StateHasItsMask
  NoLostWakeup
  NothingLeftBehind
PROPERTY OperationEnds
\* The program deletes the connection.
CHECK_DEADLOCK FALSE
