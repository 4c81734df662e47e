-------------------------- MODULE APIconnectionProofs --------------------------
(***************************************************************************)
(* The safety properties of APIconnection, for every value of the          *)
(* constants: an inductive invariant, and what follows from it.            *)
(***************************************************************************)
EXTENDS APIconnection, HttpStreamProofs

(* Where the thread is agrees with the state of the object, the state with *)
(* the operation, with what is tracked and with what is left to send.      *)
ThreadInv ==
  /\ pc # "callback" =>
       /\ mask = CASE state = "API_IDLE"      -> {}
                   [] state = "API_RECEIVING" -> {"in"}
                   [] OTHER                   -> {"out"}
       /\ (state = "API_IDLE") <=> (operation = "none")
       /\ (state = "API_CONNECTING") <=> (operation = "connect")
  /\ pc = "callback" => state = "API_IDLE" /\ operation # "none"
  /\ pc \in {"recv", "parse"} => state = "API_RECEIVING"
  /\ pc = "send" => state \in {"API_SENDING", "API_RECEIVING"}
  /\ pc = "handler" => state # "API_IDLE"
  /\ state = "API_SENDING" => left > 0
  /\ state = "API_RECEIVING" => left = 0

(* After the first response the parser reads none again: it skips empty    *)
(* lines, or fails.                                                        *)
DeliveryInv ==
  /\ delivered > 0 => ~ StillReading
  /\ pc = "callback" /\ operation = "request" /\ ~ is_error =>
       parser = "done" /\ (delivered = 0 \/ emptyLines > 0)
  /\ pc = "parse" /\ ~ is_error /\ delivered > 0 => chunk # <<>> \/ emptyLines > 0

(* Readiness is not lost either when the mask is switched and the loop     *)
(* over send goes round once more.                                         *)
ReadyInv ==
  /\ pc = "loop" \/ (pc = "send" /\ state = "API_RECEIVING")
  /\ operation # "none"
  /\ ~ ready
  => Pending(mask) = {}

(* The object is deleted in its last callback, the socket with it.         *)
DeletedInv ==
  ~ alive => pc = "loop" /\ operation = "none" /\ (fds = 0 \/ peer = "none")

IInv == TypeOK /\ StreamInv /\ ThreadInv /\ DeliveryInv /\ ReadyInv /\ DeletedInv

-----------------------------------------------------------------------------
(* The invariant holds in the initial state.                               *)
LEMMA IInvInit ==
  ASSUME Init
  PROVE  IInv
<1>1. StreamInv
  BY StreamStarts DEF Init
<1>2. /\ pc = "loop" /\ operation = "none" /\ mask = {} /\ delivered = 0 /\ alive = TRUE
      /\ state = "API_IDLE" /\ fds = 0
  BY DEF Init, StreamInit
<1>3. TypeOK /\ ThreadInv /\ DeliveryInv /\ ReadyInv
  BY <1>1, <1>2 DEF TypeOK, StreamInv, ThreadInv, DeliveryInv, ReadyInv
<1>4. DeletedInv
  BY <1>2 DEF DeletedInv
<1> QED
  BY <1>1, <1>3, <1>4 DEF IInv

(* The facts most steps start from.                                        *)
LEMMA Facts ==
  ASSUME IInv
  PROVE  /\ StreamInv /\ delivered \in Nat /\ alive \in BOOLEAN
         /\ mask \in {{}, {"in"}, {"out"}} /\ emptyLines \in Nat /\ left \in Nat
         /\ sent_bytes \in Nat
         /\ operation \in {"none", "connect", "request"} /\ fds \in 0..1
         /\ state \in {"API_IDLE", "API_CONNECTING", "API_SENDING", "API_RECEIVING"}
BY StreamAssumption DEF IInv, TypeOK, StreamTypeOK, left

(* connectApi, with the socket or without.                                 *)
LEMMA ConnectStep ==
  ASSUME IInv, ConnectApi
  PROVE  IInv'
<1>1. /\ pc = "loop" /\ alive /\ operation = "none" /\ ~ is_error /\ peer = "none"
      /\ operation' = "connect"
      /\ UNCHANGED <<parseVars, sendVars, alive, delivered, written, sockVars, lastSent,
                     emptyLines, got, ev>>
      /\ CreateConnection
      /\ IF peer' = "none"
         THEN is_error' = TRUE /\ pc' = "callback" /\ UNCHANGED <<state, epVars>>
         ELSE /\ state' = "API_CONNECTING" /\ mask' = {"out"} /\ ready' = (peer' = "up")
              /\ UNCHANGED <<is_error, pc>>
  BY DEF ConnectApi, Idle
<1>2. UNCHANGED <<is_request_complete, message, parser, chunk, sendBuffer, sent_bytes, inbox,
                  outbox, sockerr>>
  BY <1>1 DEF parseVars, sendVars, sockVars
<1>3. /\ StreamInv /\ mask = {} /\ state = "API_IDLE" /\ ~ sockerr /\ chunk = <<>>
      /\ ready \in BOOLEAN /\ is_error \in BOOLEAN /\ ~ ready
  BY <1>1 DEF IInv, ThreadInv, StreamInv, ErrorInv, ParserInv, StreamTypeOK
<1>4. fds' \in 0..1 /\ peer' \in {"none", "connecting", "up"}
  BY <1>1 DEF CreateConnection
<1>5. /\ mask' = IF peer' = "none" THEN {} ELSE {"out"}
      /\ state' = IF peer' = "none" THEN "API_IDLE" ELSE "API_CONNECTING"
      /\ pc' = IF peer' = "none" THEN "callback" ELSE "loop"
      /\ is_error' = is_error \/ is_error' = TRUE
      /\ peer' = "none" => is_error' = TRUE /\ ready' = ready
      /\ peer' # "none" => ready' = (peer' = "up")
  BY <1>1, <1>3 DEF epVars
<1>6. StreamInv'
  <2>1. ready' \in BOOLEAN /\ is_error' \in BOOLEAN
    BY <1>3, <1>5, Zenon
  <2>2. StreamTypeOK'
    BY <1>1, <1>2, <1>3, <1>4, <1>5, <2>1 DEF StreamInv, StreamTypeOK
  <2>3. WrittenInOrder'
    BY <1>1, <1>3, WrittenUnchanged DEF StreamInv, sockVars
  <2>4. ParserInv'
    BY <1>1, <1>2, <1>3, <1>5, ParserUnchanged DEF StreamInv
  <2>5. ErrorInv'
    BY <1>2, <1>3, <1>5 DEF ErrorInv
  <2> QED
    BY <2>2, <2>3, <2>4, <2>5 DEF StreamInv
<1>7. ThreadInv'
  BY <1>1, <1>3, <1>5 DEF ThreadInv
<1>8. DeliveryInv'
  BY <1>1, <1>2, <1>5 DEF IInv, DeliveryInv, StillReading
<1>9. ReadyInv'
  <2>1. peer' = "connecting" => Quiet'
    BY <1>2, <1>3, <1>5 DEF Quiet, Writable
  <2>2. mask' \in {{}, {"in"}, {"out"}}
    BY <1>5
  <2>3. Quiet' => Pending(mask)' = {}
    BY <2>2, NothingPendingNext
  <2> QED
    BY <1>4, <1>5, <2>1, <2>3 DEF ReadyInv
<1>10. DeletedInv'
  BY <1>1 DEF DeletedInv
<1> QED
  BY <1>1, <1>4, <1>5, <1>6, <1>7, <1>8, <1>9, <1>10 DEF IInv, TypeOK, StreamInv

(* The program's callbacks: the next request, or the end of the object.    *)
LEMMA CallbackStep ==
  ASSUME IInv, Delete \/ \E n \in 1..MaxWrites : SendRequest(n)
  PROVE  IInv'
<1>1. /\ pc = "callback" /\ pc' = "loop" /\ delivered' = delivered + HandedOver
      /\ UNCHANGED <<is_error, parseVars, sent_bytes, sockVars, peerVars, ev>>
  BY DEF Delete, SendRequest, UserFrame
<1>2. UNCHANGED <<parser, chunk, inbox, outbox, sockerr, peer, emptyLines, got>>
  BY <1>1 DEF parseVars, sockVars, peerVars
<1>3. /\ StreamInv /\ delivered \in Nat /\ mask = {} /\ state = "API_IDLE" /\ operation # "none"
      /\ chunk = <<>> /\ left \in Nat /\ fds \in 0..1 /\ alive
  BY <1>1, Facts DEF IInv, ThreadInv, DeletedInv, StreamInv, ErrorInv, ParserInv
<1>4. delivered' \in Nat /\ (delivered' = delivered \/ (operation = "request" /\ ~ is_error))
  BY <1>1, <1>3 DEF HandedOver
<1>5. DeliveryInv'
  BY <1>1, <1>2, <1>3, <1>4 DEF IInv, DeliveryInv, StillReading
<1>6. CASE Delete
  <2>1. /\ alive' = FALSE /\ operation' = "none"
        /\ fds' = IF peer = "none" THEN fds ELSE 0
        /\ UNCHANGED <<state, epVars, sendBuffer, written>>
    BY <1>6 DEF Delete, Close
  <2>2. UNCHANGED <<sendVars, mask>>
    BY <1>1, <2>1 DEF sendVars, epVars
  <2>3. StreamInv'
    BY <1>1, <1>3, <1>4, <2>1, <2>2, ThreadMoves
  <2>4. ThreadInv' /\ ReadyInv'
    BY <1>1, <1>3, <2>1, <2>2 DEF ThreadInv, ReadyInv
  <2>5. DeletedInv' /\ fds' \in 0..1
    BY <1>1, <1>2, <1>3, <2>1 DEF DeletedInv
  <2> QED
    BY <1>3, <1>5, <2>1, <2>3, <2>4, <2>5 DEF IInv, TypeOK, StreamInv
<1>7. CASE \E n \in 1..MaxWrites : SendRequest(n)
  <2>1. PICK n \in 1..MaxWrites : Append2SendBuffer(n)
    BY <1>7 DEF SendRequest
  <2>2. /\ state' = "API_SENDING" /\ Track({"out"}) /\ operation' = "request"
        /\ UNCHANGED <<alive, fds>>
    BY <1>7 DEF SendRequest, RequestMask
  <2>3. mask' = {"out"}
    BY <2>2 DEF Track
  <2>4. {"out"} \in {{"in"}, {"out"}}
    OBVIOUS
  <2>5. StreamInv'
    BY <1>1, <1>3, <1>4, <2>1, <2>2, <2>4, StartStep
  <2>6. left' > 0
    <3>1. left' = left + n
      BY <1>1, <1>2, <1>3, <2>1, AppendWritten
    <3>2. n \in Nat /\ n > 0
      OBVIOUS
    <3> QED
      BY <1>3, <3>1, <3>2
  <2>7. ~ ready' => Pending(mask)' = {}
    BY <1>2, <2>2, <2>4, TrackReports
  <2>8. ThreadInv' /\ ReadyInv'
    BY <1>1, <2>2, <2>3, <2>6, <2>7 DEF ThreadInv, ReadyInv
  <2>9. DeletedInv'
    BY <1>3, <2>2 DEF DeletedInv
  <2> QED
    BY <1>3, <1>5, <2>2, <2>5, <2>8, <2>9 DEF IInv, TypeOK, StreamInv
<1> QED
  BY <1>6, <1>7

(* The thread leaves the event loop, or finds nothing to do.               *)
LEMMA EpollStep ==
  ASSUME IInv, EpollWait, ApiFrame
  PROVE  IInv'
<1>1. /\ pc = "loop" /\ ready' = FALSE /\ ev' = Pending(mask)
      /\ pc' = IF ev' = {} THEN "loop" ELSE "handler"
      /\ UNCHANGED <<is_error, parser, chunk, alive, operation, delivered, mask, sendBuffer,
                     sent_bytes, inbox, outbox, sockerr, peer, emptyLines, state, fds>>
  BY DEF EpollWait, ApiFrame, parseVars, sendVars, userVars, sockVars, peerVars
<1>2. StreamInv'
  BY EpollWaitStep DEF IInv
<1>3. mask = {} => Pending(mask) = {}
  BY DEF Pending
<1>4. ThreadInv'
  <2>1. state = "API_IDLE" => pc' = "loop"
    BY <1>1, <1>3 DEF IInv, ThreadInv
  <2> QED
    BY <1>1, <2>1 DEF IInv, ThreadInv, left
<1>5. DeliveryInv'
  BY <1>1 DEF IInv, DeliveryInv, StillReading
<1>6. ReadyInv'
  BY <1>1 DEF ReadyInv, Pending, Readable, Writable
<1>7. DeletedInv'
  <2>1. operation = "none" => mask = {}
    BY <1>1 DEF IInv, ThreadInv
  <2> QED
    BY <1>1, <1>3, <2>1 DEF IInv, DeletedInv
<1> QED
  BY <1>1, <1>2, <1>4, <1>5, <1>6, <1>7, Facts DEF IInv, TypeOK, StreamInv

(* The steps that end the operation with an error: the callback is due.    *)
LEMMA FailStep ==
  ASSUME IInv, \/ HandleConnectionError \/ HandleParseError
               \/ HandleDisconnected \/ HandleSendFailed
  PROVE  IInv'
<1>1. HandleError \/ RecvEnds \/ ParseError \/ SendFails
  BY DEF HandleConnectionError, HandleParseError, HandleDisconnected, HandleSendFailed
<1>2. state' = "API_IDLE" /\ fds' = fds
  BY DEF HandleConnectionError, HandleParseError, HandleDisconnected, HandleSendFailed, Ends
<1>3. /\ is_error' = TRUE /\ mask' = {} /\ pc' = "callback"
      /\ pc \in {"handler", "recv", "parse", "send"}
      /\ UNCHANGED <<operation, delivered, alive>>
  BY <1>1 DEF HandleError, RecvEnds, ParseError, SendFails, Fail, Finish, Untrack, Parsing,
         ParseFrame, userVars
<1>4. parser' = parser \/ parser' = "error"
  BY <1>1 DEF HandleError, RecvEnds, ParseError, SendFails, parseVars
<1>5. StreamInv'
  BY <1>1, HandleErrorStep, RecvEndsStep, ParseErrorStep, SendFailsStep DEF IInv
<1>6. operation # "none" /\ alive
  BY <1>3 DEF IInv, ThreadInv, DeletedInv
<1>7. ThreadInv' /\ ReadyInv'
  BY <1>2, <1>3, <1>6 DEF ThreadInv, ReadyInv
<1>8. DeliveryInv'
  BY <1>3, <1>4 DEF IInv, DeliveryInv, StillReading
<1>9. DeletedInv'
  BY <1>3, <1>6 DEF DeletedInv
<1> QED
  BY <1>2, <1>3, <1>5, <1>7, <1>8, <1>9, Facts DEF IInv, TypeOK, StreamInv

(* The connection is made: its callback is due.                            *)
LEMMA ConnectedStep ==
  ASSUME IInv, HandleConnected
  PROVE  IInv'
<1>1. /\ pc = "handler" /\ "err" \notin ev /\ state = "API_CONNECTING" /\ pc' = "callback"
      /\ mask' = {} /\ ready' = FALSE /\ state' = "API_IDLE" /\ fds' = fds /\ Finish
      /\ UNCHANGED <<is_error, parseVars, sendVars, userVars, sockVars, peerVars, ev>>
  BY DEF HandleConnected, Finish, Untrack, Ends
<1>2. UNCHANGED <<is_error, is_request_complete, message, parser, chunk, sendBuffer, sent_bytes,
                  alive, operation, delivered, written, inbox, outbox, sockerr, peer, lastSent,
                  emptyLines, got, ev>>
  BY <1>1 DEF parseVars, sendVars, userVars, sockVars, peerVars
<1>3. StreamInv /\ operation = "connect" /\ alive /\ chunk = <<>>
  BY <1>1 DEF IInv, ThreadInv, DeletedInv, StreamInv, ParserInv
<1>4. StreamInv'
  <2>1. StreamTypeOK'
    BY <1>1, <1>2 DEF IInv, StreamInv, StreamTypeOK
  <2>2. WrittenInOrder'
    BY <1>2, <1>3, WrittenUnchanged DEF StreamInv, sendVars
  <2>3. ParserInv'
    BY <1>2, <1>3, ParserUnchanged DEF StreamInv, parseVars
  <2>4. ErrorInv'
    BY <1>1, <1>2, <1>3, ErrorAfterFinish DEF StreamInv
  <2> QED
    BY <2>1, <2>2, <2>3, <2>4 DEF StreamInv
<1>5. ThreadInv' /\ ReadyInv' /\ DeletedInv'
  BY <1>1, <1>2, <1>3 DEF ThreadInv, ReadyInv, DeletedInv
<1>6. DeliveryInv'
  BY <1>1, <1>2, <1>3 DEF IInv, DeliveryInv, StillReading
<1> QED
  BY <1>1, <1>2, <1>4, <1>5, <1>6, Facts DEF IInv, TypeOK, StreamInv

(* The handler starts on its loop over send, or over recv; and returns     *)
(* after the call of send that had nothing to do.                          *)
LEMMA HandlerStep ==
  ASSUME IInv, HandleEvent \/ HandleNothingLeft
  PROVE  IInv'
<1>1. /\ \/ pc = "handler" /\ state = "API_SENDING" /\ pc' = "send"
         \/ pc = "handler" /\ state = "API_RECEIVING" /\ pc' = "recv"
         \/ pc = "send" /\ left = 0 /\ pc' = "loop"
      /\ pc = "handler" => "err" \notin ev
      /\ UNCHANGED <<is_error, parseVars, sendVars, userVars, epVars, sockVars, peerVars, ev>>
      /\ UNCHANGED <<state, fds>>
  BY DEF HandleEvent, HandleNothingLeft, ApiFrame
<1>2. UNCHANGED <<is_error, parser, chunk, sendBuffer, sent_bytes, alive, operation, delivered,
                  written, mask, ready, inbox, outbox, sockerr, peer, emptyLines>>
  BY <1>1 DEF parseVars, sendVars, userVars, epVars, sockVars, peerVars
<1>3. StreamInv /\ delivered \in Nat /\ alive \in BOOLEAN /\ chunk = <<>>
  BY <1>1, Facts DEF StreamInv, ParserInv
<1>4. StreamInv'
  BY <1>1, <1>2, <1>3, ThreadMoves
<1>5. pc = "send" => state = "API_RECEIVING" /\ pc' = "loop"
  BY <1>1 DEF IInv, ThreadInv
<1>6. ThreadInv'
  BY <1>1, <1>2, <1>5 DEF IInv, ThreadInv, left
<1>7. DeliveryInv'
  BY <1>1, <1>2 DEF IInv, DeliveryInv, StillReading
<1>8. ReadyInv'
  <2>1. CASE pc = "handler"
    BY <1>1, <2>1 DEF ReadyInv
  <2>2. CASE pc = "send"
    BY <1>1, <1>2, <1>5, <2>2 DEF IInv, ReadyInv, Pending, Readable, Writable
  <2> QED
    BY <1>1, <2>1, <2>2
<1>9. DeletedInv'
  BY <1>1, <1>2 DEF IInv, DeletedInv
<1> QED
  BY <1>1, <1>2, <1>4, <1>6, <1>7, <1>8, <1>9 DEF IInv, TypeOK, StreamInv

(* The loop over send.                                                     *)
LEMMA SendingStep ==
  ASSUME IInv, HandleSending \/ HandleRequestSent
  PROVE  IInv'
<1>1. /\ pc = "send" /\ fds' = fds
      /\ UNCHANGED <<is_error, parser, chunk, alive, operation, delivered, emptyLines, peer>>
  BY DEF HandleSending, HandleRequestSent, SendsPart, SendPart, SendRest, Sends, SendWouldBlock,
         ApiFrame, parseVars, userVars, peerVars
<1>2. StreamInv
  BY DEF IInv
<1>3. left > 0
  <2>1. CASE SendsPart
    BY <1>2, <2>1, SendPartStep
  <2>2. CASE SendWouldBlock
    BY <2>2 DEF SendWouldBlock
  <2>3. CASE HandleRequestSent
    BY <2>3, <1>2, SendRestStep DEF HandleRequestSent, Switch
  <2> QED
    BY <2>1, <2>2, <2>3 DEF HandleSending
<1>4. state = "API_SENDING" /\ operation = "request" /\ mask = {"out"} /\ alive
  BY <1>1, <1>3, Facts DEF IInv, ThreadInv, DeletedInv
<1>5. DeliveryInv'
  <2>1. pc' \in {"send", "loop"}
    BY <1>1 DEF HandleSending, HandleRequestSent, SendsPart, SendPart, SendWouldBlock
  <2> QED
    BY <1>1, <2>1 DEF IInv, DeliveryInv, StillReading
<1>6. DeletedInv'
  BY <1>1, <1>4 DEF DeletedInv
<1>7. CASE SendsPart /\ ApiFrame
  <2>1. UNCHANGED <<pc, mask, state>>
    BY <1>7 DEF SendsPart, SendPart, epVars, ApiFrame
  <2>2. StreamInv' /\ left' > 0
    BY <1>2, <1>7, SendPartStep
  <2>3. ThreadInv' /\ ReadyInv'
    BY <1>1, <1>4, <2>1, <2>2 DEF ThreadInv, ReadyInv
  <2> QED
    BY <1>1, <1>5, <1>6, <2>1, <2>2, <2>3, Facts DEF IInv, TypeOK, StreamInv
<1>8. CASE SendWouldBlock /\ ApiFrame
  <2>1. pc' = "loop" /\ UNCHANGED <<mask, state, sendBuffer, sent_bytes>>
    BY <1>8 DEF SendWouldBlock, epVars, sendVars, ApiFrame
  <2>2. StreamInv'
    BY <1>2, <1>8, SendWouldBlockStep
  <2>3. ~ ready' => Pending(mask)' = {}
    BY <1>2, <1>4, <1>8, HandlerIsDone
  <2>4. ThreadInv' /\ ReadyInv'
    BY <1>1, <1>3, <1>4, <2>1, <2>3 DEF ThreadInv, ReadyInv, left
  <2> QED
    BY <1>1, <1>5, <1>6, <2>1, <2>2, <2>4, Facts DEF IInv, TypeOK, StreamInv
<1>9. CASE HandleRequestSent
  <2>1. /\ SendRest /\ state' = "API_RECEIVING" /\ Track({"in"}) /\ pc' = pc
        /\ UNCHANGED <<inbox, sockerr>>
    BY <1>9 DEF HandleRequestSent, Switch, SendRest, Sends
  <2>2. StreamInv' /\ left' = 0
    BY <1>2, <2>1, SendRestStep
  <2>3. {"in"} \in {{"in"}, {"out"}}
    OBVIOUS
  <2>4. ~ ready' => Pending(mask)' = {}
    BY <1>1, <2>1, <2>3, TrackReports
  <2>5. mask' = {"in"}
    BY <2>1 DEF Track
  <2>6. ThreadInv' /\ ReadyInv'
    BY <1>1, <1>4, <2>1, <2>2, <2>4, <2>5 DEF ThreadInv, ReadyInv
  <2> QED
    BY <1>1, <1>5, <1>6, <2>1, <2>2, <2>6, Facts DEF IInv, TypeOK, StreamInv
<1> QED
  BY <1>7, <1>8, <1>9 DEF HandleSending

(* The loop over recv, and the parser.                                     *)
LEMMA ReceivingStep ==
  ASSUME IInv, HandleReceiving \/ HandleParsed \/ HandleChunkParsed
  PROVE  IInv'
<1>1. /\ StreamInv /\ delivered \in Nat /\ left \in Nat
      /\ pc \in {"recv", "parse"} /\ state = "API_RECEIVING" /\ operation = "request"
      /\ mask = {"in"} /\ left = 0 /\ alive
  <2>1. pc \in {"recv", "parse"}
    BY DEF HandleReceiving, HandleParsed, HandleChunkParsed, RecvData, RecvFails, ParsePart,
           ParseEmptyLine, ChunkParsed, Parsing
  <2>2. state = "API_RECEIVING"
    BY <2>1 DEF IInv, ThreadInv
  <2> QED
    BY <2>1, <2>2, Facts DEF IInv, ThreadInv, DeletedInv
<1>2. UNCHANGED <<is_error, operation, delivered, emptyLines, alive, sendBuffer, sent_bytes, fds>>
  BY DEF HandleReceiving, HandleParsed, HandleChunkParsed, RecvData, RecvFails, ParsePart,
         ParseEmptyLine, ChunkParsed, ParseFrame, sendVars, userVars, peerVars, ApiFrame, Ends
<1>3. left' = 0
  BY <1>1, <1>2 DEF left
<1>4. DeletedInv'
  BY <1>1, <1>2 DEF DeletedInv
<1>5. CASE RecvData /\ ApiFrame
  <2>1. pc' = "parse" /\ UNCHANGED <<mask, parser, state>>
    BY <1>5 DEF RecvData, epVars, ApiFrame
  <2>2. StreamInv' /\ chunk' # <<>>
    BY <1>1, <1>5, RecvDataStep
  <2>3. ThreadInv' /\ ReadyInv'
    BY <1>1, <1>2, <1>3, <2>1 DEF ThreadInv, ReadyInv
  <2>4. DeliveryInv'
    BY <1>2, <2>1, <2>2 DEF IInv, DeliveryInv, StillReading
  <2> QED
    BY <1>2, <1>4, <2>1, <2>2, <2>3, <2>4, Facts DEF IInv, TypeOK, StreamInv
<1>6. CASE RecvFails /\ ApiFrame
  <2>1. pc' = "loop" /\ UNCHANGED <<mask, parser, state>>
    BY <1>6 DEF RecvFails, epVars, parseVars, ApiFrame
  <2>2. StreamInv'
    BY <1>1, <1>6, RecvFailsStep
  <2>3. ~ ready' => Pending(mask)' = {}
    BY <1>1, <1>6, HandlerIsDone
  <2>4. ThreadInv' /\ ReadyInv'
    BY <1>1, <1>2, <1>3, <2>1, <2>3 DEF ThreadInv, ReadyInv
  <2>5. DeliveryInv'
    BY <1>2, <2>1 DEF IInv, DeliveryInv, StillReading
  <2> QED
    BY <1>2, <1>4, <2>1, <2>2, <2>4, <2>5, Facts DEF IInv, TypeOK, StreamInv
<1>7. CASE ParsePart /\ ApiFrame
  <2>1. pc = "parse" /\ pc' = "parse" /\ UNCHANGED <<mask, state>>
    BY <1>7 DEF ParsePart, Parsing, epVars, ApiFrame
  <2>2. StreamInv' /\ StillReading
    BY <1>1, <1>7, ParsePartStep
  <2>3. delivered = 0
    BY <1>1, <2>2 DEF IInv, DeliveryInv
  <2>4. ThreadInv' /\ ReadyInv' /\ DeliveryInv'
    BY <1>1, <1>2, <1>3, <2>1, <2>3 DEF ThreadInv, ReadyInv, DeliveryInv
  <2> QED
    BY <1>2, <1>4, <2>1, <2>2, <2>4, Facts DEF IInv, TypeOK, StreamInv
<1>8. CASE ParseEmptyLine /\ ApiFrame
  <2>1. pc = "parse" /\ pc' = "parse" /\ UNCHANGED <<mask, parser, state>>
    BY <1>8 DEF ParseEmptyLine, Parsing, epVars, ApiFrame
  <2>2. StreamInv' /\ emptyLines > 0
    BY <1>1, <1>8, ParseEmptyLineStep, Facts
  <2>3. ThreadInv' /\ ReadyInv'
    BY <1>1, <1>2, <1>3, <2>1 DEF ThreadInv, ReadyInv
  <2>4. DeliveryInv'
    BY <1>2, <2>1, <2>2 DEF IInv, DeliveryInv, StillReading
  <2> QED
    BY <1>2, <1>4, <2>1, <2>2, <2>3, <2>4, Facts DEF IInv, TypeOK, StreamInv
<1>9. CASE HandleChunkParsed
  <2>1. /\ ChunkParsed /\ pc = "parse" /\ chunk = <<>> /\ UNCHANGED parser
        /\ IF is_request_complete
           THEN mask' = {} /\ pc' = "callback" /\ state' = "API_IDLE"
           ELSE pc' = "recv" /\ UNCHANGED <<mask, state>>
    BY <1>9 DEF HandleChunkParsed, ChunkParsed, AfterChunk, parseVars, epVars, Finish, Untrack,
                Ends, ApiFrame
  <2>2. StreamInv'
    BY <1>1, <2>1, ChunkParsedStep
  <2>3. ~ is_error /\ is_request_complete => parser = "done" /\ (delivered = 0 \/ emptyLines > 0)
    BY <1>1, <2>1 DEF IInv, StreamInv, ParserInv, DeliveryInv
  <2>4. CASE is_request_complete
    <3>1. ThreadInv' /\ ReadyInv'
      BY <1>1, <1>2, <2>1, <2>4 DEF ThreadInv, ReadyInv
    <3>2. DeliveryInv'
      BY <1>2, <2>1, <2>3, <2>4 DEF IInv, DeliveryInv, StillReading
    <3> QED
      BY <1>2, <1>4, <2>1, <2>2, <2>4, <3>1, <3>2, Facts DEF IInv, TypeOK, StreamInv
  <2>5. CASE ~ is_request_complete
    <3>1. ThreadInv' /\ ReadyInv'
      BY <1>1, <1>2, <1>3, <2>1, <2>5 DEF ThreadInv, ReadyInv
    <3>2. DeliveryInv'
      BY <1>2, <2>1, <2>5 DEF IInv, DeliveryInv, StillReading
    <3> QED
      BY <1>2, <1>4, <2>1, <2>2, <2>5, <3>1, <3>2, Facts DEF IInv, TypeOK, StreamInv
  <2> QED
    BY <2>4, <2>5
<1> QED
  BY <1>5, <1>6, <1>7, <1>8, <1>9 DEF HandleReceiving, HandleParsed

(* The network answers the connection attempt.                             *)
LEMMA NetworkStep ==
  ASSUME IInv, Network
  PROVE  IInv'
<1>1. /\ PeerFrame /\ peer = "connecting" /\ peer' \in {"up", "reset"}
      /\ UNCHANGED <<inbox, outbox, lastSent, emptyLines, got, state, fds>>
  BY DEF Network, ConnectionMade, ConnectionRefused, sockVars, ApiFrame
<1>2. UNCHANGED <<is_error, parser, chunk, sendBuffer, sent_bytes, alive, operation, delivered,
                  mask, pc, ev>>
  BY <1>1 DEF PeerFrame, parseVars, sendVars, userVars
<1>3. /\ StreamInv /\ (mask = {} => ~ ready) /\ (sockerr => peer = "reset")
      /\ mask \in {{}, {"in"}, {"out"}} /\ alive \in BOOLEAN
  BY Facts DEF StreamInv, ErrorInv
<1>4. ~ sockerr
  BY <1>1, <1>3
<1>5. \/ peer' = "up" /\ sockerr' = sockerr /\ ready' = (ready \/ "out" \in mask)
      \/ peer' = "reset" /\ sockerr' = TRUE /\ ready' = (mask # {})
  BY DEF Network, ConnectionMade, ConnectionRefused, Edge, sockVars
<1>6. ready' \in BOOLEAN
  BY <1>5, Zenon
<1>7. StreamInv'
  <2>1. \/ sockerr' = sockerr /\ (ready => ready') /\ (mask = {} => ~ ready')
        \/ peer' = "reset" /\ sockerr' = TRUE /\ ready' = (mask # {})
    BY <1>3, <1>5
  <2> QED
    BY <1>1, <1>3, <1>6, <2>1, PeerChanges
<1>8. ~ ready' => ~ ready /\ (Quiet => Quiet')
  <2>1. CASE peer' = "up"
    <3>1. sockerr' = sockerr /\ ready' = (ready \/ "out" \in mask)
      BY <1>5, <2>1
    <3> QED
      BY <1>1, <1>2, <1>3, <2>1, <3>1 DEF Quiet, Readable
  <2>2. CASE peer' = "reset"
    <3>1. ready' = (mask # {})
      BY <1>5, <2>2
    <3> QED
      BY <1>2, <1>3, <3>1 DEF Quiet
  <2> QED
    BY <1>1, <2>1, <2>2
<1>9. ReadyInv'
  BY <1>1, <1>2, <1>3, <1>8, NothingPending, NothingPendingNext DEF IInv, ReadyInv
<1>10. ThreadInv' /\ DeliveryInv'
  BY <1>1, <1>2 DEF IInv, ThreadInv, DeliveryInv, StillReading, left
<1>11. DeletedInv'
  <2>1. ~ alive => fds = 0
    BY <1>1 DEF IInv, DeletedInv
  <2> QED
    BY <1>1, <1>2, <2>1 DEF IInv, DeletedInv
<1> QED
  BY <1>1, <1>2, <1>7, <1>9, <1>10, <1>11 DEF IInv, TypeOK, StreamInv

(* The server acts.                                                        *)
LEMMA ServerStep ==
  ASSUME IInv, Peer, ApiFrame
  PROVE  IInv'
<1>1. StreamInv' /\ StreamInv
  BY PeerStep DEF IInv
<1>2. UNCHANGED <<is_error, parser, chunk, sendBuffer, sent_bytes, alive, operation, delivered,
                  mask, pc, ev, state, fds>>
  BY <1>1, PeerIsReported DEF PeerFrame, parseVars, sendVars, userVars, ApiFrame
<1>3. /\ emptyLines' \in Nat /\ emptyLines \in Nat /\ emptyLines' >= emptyLines
      /\ peer = "none" <=> peer' = "none"
      /\ ~ ready' => ~ ready
      /\ ~ ready' /\ Pending(mask) = {} => Pending(mask)' = {}
  BY <1>1, PeerIsReported
<1>4. ThreadInv'
  BY <1>2 DEF IInv, ThreadInv, left
<1>5. DeliveryInv'
  <2>1. emptyLines > 0 => emptyLines' > 0
    BY <1>3
  <2> QED
    BY <1>2, <2>1 DEF IInv, DeliveryInv, StillReading
<1>6. ReadyInv'
  BY <1>2, <1>3 DEF IInv, ReadyInv
<1>7. DeletedInv'
  BY <1>2, <1>3 DEF IInv, DeletedInv
<1> QED
  BY <1>1, <1>2, <1>4, <1>5, <1>6, <1>7 DEF IInv, TypeOK, StreamInv

(* Nothing happens.                                                        *)
LEMMA StutterStep ==
  ASSUME IInv, UNCHANGED vars
  PROVE  IInv'
<1>1. UNCHANGED <<is_error, parser, chunk, sendBuffer, sent_bytes, alive, operation, delivered,
                  mask, ready, inbox, outbox, sockerr, peer, emptyLines, pc, ev, state, fds>>
  BY DEF vars, streamVars, parseVars, sendVars, userVars, epVars, sockVars, peerVars
<1>2. StreamInv'
  BY StreamStutters DEF IInv, vars
<1>3. ThreadInv' /\ DeliveryInv'
  BY <1>1 DEF IInv, ThreadInv, DeliveryInv, StillReading, left
<1>4. ReadyInv' /\ DeletedInv'
  BY <1>1 DEF IInv, ReadyInv, DeletedInv, Pending, Readable, Writable
<1> QED
  BY <1>1, <1>2, <1>3, <1>4 DEF IInv, TypeOK, StreamInv

-----------------------------------------------------------------------------
(* Theorems.                                                               *)

(* Every reachable state of a connection satisfies the invariant.          *)
THEOREM IInvHolds == Spec => []IInv
<1>1. IInv /\ [Next]_vars => IInv'
  <2>1. SUFFICES ASSUME IInv, [Next]_vars
                 PROVE  IInv'
    OBVIOUS
  <2>2. CASE ConnectApi
    BY <2>1, <2>2, ConnectStep
  <2>3. CASE Delete \/ \E n \in 1..MaxWrites : SendRequest(n)
    BY <2>1, <2>3, CallbackStep
  <2>4. CASE EpollWait /\ ApiFrame
    BY <2>1, <2>4, EpollStep
  <2>5. CASE \/ HandleConnectionError \/ HandleParseError
             \/ HandleDisconnected \/ HandleSendFailed
    BY <2>1, <2>5, FailStep
  <2>6. CASE HandleConnected
    BY <2>1, <2>6, ConnectedStep
  <2>7. CASE HandleEvent \/ HandleNothingLeft
    BY <2>1, <2>7, HandlerStep
  <2>8. CASE HandleSending \/ HandleRequestSent
    BY <2>1, <2>8, SendingStep
  <2>9. CASE HandleReceiving \/ HandleParsed \/ HandleChunkParsed
    BY <2>1, <2>9, ReceivingStep
  <2>10. CASE Network
    BY <2>1, <2>10, NetworkStep
  <2>11. CASE Peer /\ ApiFrame
    BY <2>1, <2>11, ServerStep
  <2>12. CASE UNCHANGED vars
    BY <2>1, <2>12, StutterStep
  <2> QED
    BY <2>1, <2>2, <2>3, <2>4, <2>5, <2>6, <2>7, <2>8, <2>9, <2>10, <2>11, <2>12
    DEF Next, Thread, Sending
<1> QED
  BY <1>1, IInvInit, PTL DEF Spec

(* The variables of a connection keep their types, whatever the server     *)
(* sends and wherever it stops (request_connection_type.h:23-43).          *)
THEOREM TypeCorrect == Spec => []TypeOK
<1>1. IInv => TypeOK
  BY DEF IInv
<1> QED
  BY <1>1, IInvHolds, PTL

(* A request that succeeds hands over the server's first message whole,    *)
(* for every length and every split into chunks, and a second time only    *)
(* when an empty line came (request_connection_type.h:213-230, 118-126).   *)
THEOREM WholeResponses == Spec => []OnlyWholeResponses
<1>1. IInv => OnlyWholeResponses
  BY DEF IInv, StreamInv, ParserInv, DeliveryInv, OnlyWholeResponses
<1> QED
  BY <1>1, IInvHolds, PTL

(* The server receives the requests that were written, in order, for every *)
(* size of theirs and of the socket's buffer                               *)
(* (request_connection_type.h:176-191).                                    *)
THEOREM RequestsInOrder == Spec => []WrittenInOrder
<1>1. IInv => WrittenInOrder
  BY DEF IInv, StreamInv
<1> QED
  BY <1>1, IInvHolds, PTL

(* state, registration and operation agree between handlers, through the   *)
(* switch from sending to receiving in the middle of the send loop         *)
(* (request_connection_type.h:129-155, 163-199, 218-239).                  *)
THEOREM RightMask == Spec => []StateHasItsMask
<1>1. IInv => StateHasItsMask
  <2>1. SUFFICES ASSUME IInv, pc = "loop"
                 PROVE  StateHasItsMask
    BY DEF StateHasItsMask
  <2>2. /\ mask = CASE state = "API_IDLE"      -> {}
                    [] state = "API_RECEIVING" -> {"in"}
                    [] OTHER                   -> {"out"}
        /\ (state = "API_IDLE") <=> (operation = "none")
    BY <2>1 DEF IInv, ThreadInv
  <2> QED
    BY <2>2 DEF StateHasItsMask
<1> QED
  BY <1>1, IInvHolds, PTL

(* No edge is lost, not even the one that comes between the last send and  *)
(* the modifyTrack that waits for the response                             *)
(* (request_connection_type.h:176-199, 213-242).                           *)
THEOREM NoWakeupLost == Spec => []NoLostWakeup
<1>1. IInv => NoLostWakeup
  BY DEF IInv, ReadyInv, NoLostWakeup
<1> QED
  BY <1>1, IInvHolds, PTL

(* A deleted object leaves no registration, and no descriptor but the one  *)
(* createConnection lost (request_connection_type.h:136-142, 292-297).     *)
THEOREM NothingLeft == Spec => []NothingLeftBehind
<1>1. IInv => NothingLeftBehind
  BY DEF IInv, ThreadInv, DeletedInv, NothingLeftBehind
<1> QED
  BY <1>1, IInvHolds, PTL
=============================================================================
