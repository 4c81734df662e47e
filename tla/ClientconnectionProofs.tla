------------------------ MODULE ClientconnectionProofs ------------------------
(***************************************************************************)
(* The safety properties of Clientconnection, for every value of the       *)
(* constants: an inductive invariant, and what follows from it.            *)
(***************************************************************************)
EXTENDS Clientconnection, HttpStreamProofs

(* Where the thread is agrees with the operation under way, and the        *)
(* operation with what is tracked.                                         *)
ThreadInv ==
  /\ pc # "callback" => mask = CASE operation = "none"  -> {}
                                 [] operation = "read"  -> {"in"}
                                 [] operation = "write" -> {"out"}
  /\ pc # "loop" => operation # "none"
  /\ pc \in {"recv", "parse"} => operation = "read"
  /\ pc = "send" => operation = "write"
  /\ pc = "handler" => ev # {} /\ ev \subseteq mask \cup {"err"}

(* After the first request the parser reads none again: it skips empty     *)
(* lines, or fails.                                                        *)
DeliveryInv ==
  /\ delivered > 0 => ~ StillReading
  /\ pc = "callback" /\ operation = "read" /\ ~ is_error =>
       parser = "done" /\ (delivered = 0 \/ emptyLines > 0)
  /\ pc = "parse" /\ ~ is_error /\ delivered > 0 => chunk # <<>> \/ emptyLines > 0

IInv == TypeOK /\ StreamInv /\ ThreadInv /\ DeliveryInv /\ NoLostWakeup

-----------------------------------------------------------------------------
(* The invariant holds in the initial state.                               *)
LEMMA IInvInit ==
  ASSUME Init
  PROVE  IInv
<1>1. StreamInv
  BY StreamStarts DEF Init
<1>2. pc = "loop" /\ operation = "none" /\ mask = {} /\ delivered = 0
  BY DEF Init, StreamInit
<1> QED
  BY <1>1, <1>2 DEF IInv, TypeOK, StreamInv, ThreadInv, DeliveryInv, NoLostWakeup

(* The operations of the program.                                          *)
LEMMA ProgramStep ==
  ASSUME IInv, Program
  PROVE  IInv'
<1>1. StreamInv /\ delivered \in Nat
  BY DEF IInv, TypeOK, StreamTypeOK
<1>2. /\ pc = "loop" /\ alive /\ operation = "none" /\ pc' = "loop"
      /\ UNCHANGED <<is_error, parseVars, sent_bytes, delivered, sockVars, peerVars, ev>>
  BY DEF Program, Read, Write, Delete, Idle, StartFrame, sendVars
<1>3. UNCHANGED <<parser, chunk, inbox, outbox, sockerr, peer, emptyLines>>
  BY <1>2 DEF parseVars, sockVars, peerVars
<1>4. DeliveryInv'
  BY <1>2, <1>3 DEF IInv, DeliveryInv, StillReading
<1>5. CASE Read \/ \E n \in 1..MaxWrites : Write(n)
  <2>1. PICK m \in {{"in"}, {"out"}} :
          Track(m) /\ operation' = IF m = {"in"} THEN "read" ELSE "write"
    BY <1>5 DEF Read, Write, WriteMask
  <2>2. /\ UNCHANGED alive
        /\ UNCHANGED <<sendBuffer, written>> \/ \E n \in 1..MaxWrites : Append2SendBuffer(n)
    BY <1>5 DEF Read, Write, StartFrame
  <2>3. StreamInv'
    BY <1>1, <1>2, <2>1, <2>2, StartStep
  <2>4. ~ ready' => Pending(mask)' = {}
    BY <1>3, <2>1, TrackReports
  <2>5. mask' = m /\ m \in {{"in"}, {"out"}}
    BY <2>1 DEF Track
  <2>6. ThreadInv'
    BY <1>2, <2>1, <2>5 DEF ThreadInv
  <2> QED
    BY <1>4, <2>1, <2>3, <2>4, <2>6 DEF IInv, TypeOK, StreamInv, NoLostWakeup
<1>6. CASE Delete
  <2>1. alive' = FALSE /\ UNCHANGED <<sendVars, operation, written, epVars>>
    BY <1>6 DEF Delete
  <2>2. chunk = <<>>
    BY <1>1, <1>2 DEF StreamInv, ParserInv
  <2>3. StreamInv'
    BY <1>1, <1>2, <2>1, <2>2, ThreadMoves
  <2>4. ThreadInv'
    BY <1>2, <2>1 DEF IInv, ThreadInv, epVars
  <2> QED
    BY <1>2, <1>4, <2>1, <2>3, <2>4 DEF IInv, TypeOK, StreamInv, NoLostWakeup
<1> QED
  BY <1>5, <1>6 DEF Program

(* The steps of the thread that leave the event loop, or return to it.     *)
LEMMA LoopStep ==
  ASSUME IInv, EpollWait \/ CallBack \/ HandleEvent
  PROVE  IInv'
<1>1. StreamInv /\ delivered \in Nat /\ mask \in {{}, {"in"}, {"out"}}
  BY DEF IInv, TypeOK, StreamTypeOK
<1>2. CASE EpollWait
  <2>1. /\ pc = "loop" /\ ready' = FALSE /\ ev' = Pending(mask)
        /\ pc' = IF ev' = {} THEN "loop" ELSE "handler"
        /\ UNCHANGED <<is_error, parser, chunk, operation, delivered, mask, inbox, outbox,
                       sockerr, peer, emptyLines>>
    BY <1>2 DEF EpollWait, parseVars, userVars, sockVars, peerVars
  <2>2. StreamInv'
    BY <1>1, <1>2, EpollWaitStep
  <2>3. Pending(mask) \subseteq mask \cup {"err"} /\ (mask = {} => Pending(mask) = {})
    BY DEF Pending
  <2>4. ThreadInv'
    BY <2>1, <2>3 DEF IInv, TypeOK, ThreadInv
  <2>5. DeliveryInv'
    BY <2>1 DEF IInv, DeliveryInv, StillReading
  <2>6. NoLostWakeup'
    BY <2>1 DEF NoLostWakeup, Pending, Readable, Writable
  <2> QED
    BY <2>1, <2>2, <2>4, <2>5, <2>6 DEF IInv, TypeOK, StreamInv
<1>3. CASE CallBack
  <2>1. /\ pc = "callback" /\ pc' = "loop" /\ operation' = "none"
        /\ delivered' = IF operation = "read" /\ ~ is_error THEN delivered + 1 ELSE delivered
        /\ UNCHANGED <<is_error, parseVars, sendVars, alive, written, epVars, sockVars, peerVars, ev>>
    BY <1>3 DEF CallBack
  <2>2. UNCHANGED <<parser, chunk, mask, alive>> /\ delivered' \in Nat
    BY <1>1, <2>1 DEF parseVars, epVars
  <2>3. chunk = <<>> /\ mask = {}
    BY <1>1, <2>1 DEF StreamInv, ParserInv, ErrorInv
  <2>4. alive \in BOOLEAN
    BY <1>1 DEF StreamInv, StreamTypeOK
  <2>5. StreamInv'
    BY <1>1, <2>1, <2>2, <2>3, <2>4, ThreadMoves
  <2>6. DeliveryInv'
    BY <1>1, <2>1, <2>2 DEF IInv, DeliveryInv, StillReading
  <2>7. ThreadInv' /\ NoLostWakeup'
    BY <2>1, <2>2, <2>3 DEF ThreadInv, NoLostWakeup
  <2> QED
    BY <2>1, <2>5, <2>6, <2>7 DEF IInv, TypeOK, StreamInv
<1>4. CASE HandleEvent
  <2>1. /\ pc = "handler" /\ "err" \notin ev /\ pc' = IF "in" \in ev THEN "recv" ELSE "send"
        /\ UNCHANGED <<is_error, parseVars, sendVars, userVars, epVars, sockVars, peerVars, ev>>
    BY <1>4 DEF HandleEvent
  <2>2. UNCHANGED <<parser, chunk, alive, operation, delivered, mask, written>>
    BY <2>1 DEF parseVars, userVars, epVars
  <2>3. chunk = <<>>
    BY <1>1, <2>1 DEF StreamInv, ParserInv
  <2>4. alive \in BOOLEAN
    BY <1>1 DEF StreamInv, StreamTypeOK
  <2>5. StreamInv'
    BY <1>1, <2>1, <2>2, <2>3, <2>4, ThreadMoves
  <2>6. DeliveryInv'
    BY <2>1, <2>2 DEF IInv, DeliveryInv, StillReading
  <2>7. ThreadInv'
    <3>1. ev # {} /\ ev \subseteq mask \cup {"err"} /\ operation \in {"read", "write"}
      BY <2>1 DEF IInv, TypeOK, ThreadInv
    <3>2. mask = IF operation = "read" THEN {"in"} ELSE {"out"}
      BY <2>1, <3>1 DEF IInv, ThreadInv
    <3>3. pc' = IF operation = "read" THEN "recv" ELSE "send"
      BY <2>1, <3>1, <3>2
    <3> QED
      BY <2>2, <3>1, <3>2, <3>3 DEF ThreadInv
  <2>8. NoLostWakeup'
    BY <2>1 DEF NoLostWakeup
  <2> QED
    BY <2>2, <2>5, <2>6, <2>7, <2>8 DEF IInv, TypeOK, StreamInv
<1> QED
  BY <1>2, <1>3, <1>4

(* The steps that end the operation with an error: the callback is due.    *)
LEMMA FailStep ==
  ASSUME IInv, HandleError \/ RecvEnds \/ ParseError \/ SendFails
  PROVE  IInv'
<1>1. /\ is_error' = TRUE /\ mask' = {} /\ pc' = "callback" /\ pc # "loop"
      /\ UNCHANGED <<operation, delivered>>
  BY DEF HandleError, RecvEnds, ParseError, SendFails, Fail, Finish, Untrack, Parsing, ParseFrame,
         userVars
<1>2. parser' = parser \/ parser' = "error"
  BY DEF HandleError, RecvEnds, ParseError, SendFails, parseVars
<1>3. StreamInv'
  BY HandleErrorStep, RecvEndsStep, ParseErrorStep, SendFailsStep DEF IInv
<1>4. ThreadInv'
  BY <1>1 DEF IInv, ThreadInv
<1>5. DeliveryInv'
  BY <1>1, <1>2 DEF IInv, DeliveryInv, StillReading
<1> QED
  BY <1>1, <1>3, <1>4, <1>5 DEF IInv, TypeOK, StreamInv, NoLostWakeup

(* A read.                                                                 *)
LEMMA ReadStep ==
  ASSUME IInv, Receiving \/ ChunkParsed
  PROVE  IInv'
<1>1. /\ StreamInv /\ delivered \in Nat
      /\ pc \in {"recv", "parse"} /\ operation = "read" /\ mask = {"in"}
  <2>1. pc \in {"recv", "parse"}
    BY DEF Receiving, RecvData, RecvFails, ParsePart, ParseEmptyLine, ChunkParsed, Parsing
  <2> QED
    BY <2>1 DEF IInv, TypeOK, StreamTypeOK, ThreadInv
<1>2. UNCHANGED <<is_error, operation, delivered, emptyLines>>
  BY DEF Receiving, RecvData, RecvFails, ParsePart, ParseEmptyLine, ChunkParsed, ParseFrame,
         userVars, peerVars
<1>3. CASE RecvData
  <2>1. pc' = "parse" /\ mask' = mask /\ parser' = parser
    BY <1>3 DEF RecvData, epVars
  <2>2. StreamInv' /\ chunk' # <<>>
    BY <1>1, <1>3, RecvDataStep
  <2>3. ThreadInv' /\ DeliveryInv' /\ NoLostWakeup'
    BY <1>1, <1>2, <2>1, <2>2 DEF IInv, ThreadInv, DeliveryInv, NoLostWakeup, StillReading
  <2> QED
    BY <1>2, <2>2, <2>3 DEF IInv, TypeOK, StreamInv
<1>4. CASE RecvFails
  <2>1. pc' = "loop" /\ UNCHANGED <<mask, parser>>
    BY <1>4 DEF RecvFails, epVars, parseVars
  <2>2. StreamInv'
    BY <1>1, <1>4, RecvFailsStep
  <2>3. ~ ready' => Pending(mask)' = {}
    BY <1>1, <1>4, HandlerIsDone
  <2>4. ThreadInv' /\ DeliveryInv' /\ NoLostWakeup'
    BY <1>1, <1>2, <2>1, <2>3 DEF IInv, ThreadInv, DeliveryInv, NoLostWakeup, StillReading
  <2> QED
    BY <1>2, <2>2, <2>4 DEF IInv, TypeOK, StreamInv
<1>5. CASE ParsePart
  <2>1. pc = "parse" /\ pc' = "parse" /\ mask' = mask
    BY <1>5 DEF ParsePart, Parsing, epVars
  <2>2. StreamInv' /\ StillReading
    BY <1>1, <1>5, ParsePartStep
  <2>3. delivered = 0
    BY <1>1, <2>2 DEF IInv, DeliveryInv
  <2>4. ThreadInv' /\ DeliveryInv' /\ NoLostWakeup'
    BY <1>1, <1>2, <2>1, <2>3 DEF ThreadInv, DeliveryInv, NoLostWakeup
  <2> QED
    BY <1>2, <2>2, <2>4 DEF IInv, TypeOK, StreamInv
<1>6. CASE ParseEmptyLine
  <2>1. pc = "parse" /\ pc' = "parse" /\ UNCHANGED <<mask, parser>>
    BY <1>6 DEF ParseEmptyLine, Parsing, epVars
  <2>2. StreamInv' /\ emptyLines > 0
    <3>1. emptyLines \in Nat
      BY <1>1, StreamAssumption DEF StreamInv, StreamTypeOK
    <3> QED
      BY <1>1, <1>6, <3>1, ParseEmptyLineStep
  <2>3. ThreadInv' /\ DeliveryInv' /\ NoLostWakeup'
    BY <1>1, <1>2, <2>1, <2>2 DEF IInv, ThreadInv, DeliveryInv, NoLostWakeup, StillReading
  <2> QED
    BY <1>2, <2>2, <2>3 DEF IInv, TypeOK, StreamInv
<1>7. CASE ChunkParsed
  <2>1. /\ pc = "parse" /\ chunk = <<>> /\ parser' = parser
        /\ IF is_request_complete THEN Finish ELSE pc' = "recv" /\ UNCHANGED epVars
    BY <1>7 DEF ChunkParsed, AfterChunk, parseVars
  <2>2. StreamInv'
    BY <1>1, <1>7, ChunkParsedStep
  <2>3. ~ is_error /\ is_request_complete => parser = "done" /\ (delivered = 0 \/ emptyLines > 0)
    BY <1>1, <2>1 DEF IInv, StreamInv, ParserInv, DeliveryInv
  <2>4. ThreadInv' /\ DeliveryInv' /\ NoLostWakeup'
    <3>1. CASE is_request_complete
      BY <1>1, <1>2, <2>1, <2>3, <3>1
      DEF IInv, ThreadInv, DeliveryInv, NoLostWakeup, StillReading, Finish, Untrack
    <3>2. CASE ~ is_request_complete
      BY <1>1, <1>2, <2>1, <3>2
      DEF IInv, ThreadInv, DeliveryInv, NoLostWakeup, StillReading, epVars
    <3> QED
      BY <3>1, <3>2
  <2> QED
    BY <1>2, <2>2, <2>4 DEF IInv, TypeOK, StreamInv
<1> QED
  BY <1>3, <1>4, <1>5, <1>6, <1>7 DEF Receiving

(* A write.                                                                *)
LEMMA WriteStep ==
  ASSUME IInv, SendsPart \/ SendsAll \/ SendWouldBlock
  PROVE  IInv'
<1>1. StreamInv /\ pc = "send" /\ operation = "write" /\ mask = {"out"}
  <2>1. pc = "send"
    BY DEF SendsPart, SendPart, SendsAll, SendRest, Sends, SendWouldBlock
  <2> QED
    BY <2>1 DEF IInv, ThreadInv
<1>2. UNCHANGED <<is_error, parser, operation, delivered>>
  BY DEF SendsPart, SendPart, SendsAll, SendRest, Sends, SendWouldBlock, parseVars, userVars
<1>3. CASE SendsPart
  <2>1. UNCHANGED <<pc, mask>>
    BY <1>3 DEF SendsPart, SendPart, epVars
  <2>2. StreamInv'
    BY <1>1, <1>3, SendPartStep
  <2>3. ThreadInv' /\ DeliveryInv' /\ NoLostWakeup'
    BY <1>1, <1>2, <2>1 DEF IInv, ThreadInv, DeliveryInv, NoLostWakeup, StillReading
  <2> QED
    BY <1>2, <2>2, <2>3 DEF IInv, TypeOK, StreamInv
<1>4. CASE SendsAll
  <2>1. SendRest /\ Finish
    BY <1>4 DEF SendsAll
  <2>2. StreamInv'
    BY <1>1, <2>1, SendRestStep
  <2>3. ThreadInv' /\ DeliveryInv' /\ NoLostWakeup'
    BY <1>1, <1>2, <2>1 DEF IInv, ThreadInv, DeliveryInv, NoLostWakeup, StillReading, Finish, Untrack
  <2> QED
    BY <1>2, <2>2, <2>3 DEF IInv, TypeOK, StreamInv
<1>5. CASE SendWouldBlock
  <2>1. pc' = "loop" /\ mask' = mask
    BY <1>5 DEF SendWouldBlock, epVars
  <2>2. StreamInv'
    BY <1>1, <1>5, SendWouldBlockStep
  <2>3. ~ ready' => Pending(mask)' = {}
    BY <1>1, <1>5, HandlerIsDone
  <2>4. ThreadInv' /\ DeliveryInv' /\ NoLostWakeup'
    BY <1>1, <1>2, <2>1, <2>3 DEF IInv, ThreadInv, DeliveryInv, NoLostWakeup, StillReading
  <2> QED
    BY <1>2, <2>2, <2>4 DEF IInv, TypeOK, StreamInv
<1> QED
  BY <1>3, <1>4, <1>5

(* The client and the network.                                             *)
LEMMA ClientStep ==
  ASSUME IInv, Peer
  PROVE  IInv'
<1>1. StreamInv' /\ StreamInv
  BY PeerStep DEF IInv
<1>2. UNCHANGED <<is_error, parser, chunk, operation, delivered, mask, pc, ev>>
  BY <1>1, PeerIsReported DEF IInv, PeerFrame, parseVars, userVars
<1>3. /\ emptyLines' \in Nat /\ emptyLines \in Nat /\ emptyLines' >= emptyLines
      /\ ~ ready' => ~ ready
      /\ ~ ready' /\ Pending(mask) = {} => Pending(mask)' = {}
  BY <1>1, PeerIsReported
<1>4. ThreadInv' /\ DeliveryInv'
  <2>1. ThreadInv'
    BY <1>2 DEF IInv, ThreadInv
  <2>2. emptyLines > 0 => emptyLines' > 0
    BY <1>3
  <2>3. DeliveryInv'
    BY <1>2, <2>2 DEF IInv, DeliveryInv, StillReading
  <2> QED
    BY <2>1, <2>3
<1>5. NoLostWakeup'
  BY <1>2, <1>3 DEF IInv, NoLostWakeup
<1> QED
  BY <1>1, <1>2, <1>4, <1>5 DEF IInv, TypeOK, StreamInv

(* Nothing happens.                                                        *)
LEMMA StutterStep ==
  ASSUME IInv, UNCHANGED vars
  PROVE  IInv'
<1>1. UNCHANGED <<is_error, is_request_complete, message, parser, chunk, sendBuffer, sent_bytes,
                  alive, operation, delivered, written, mask, ready, inbox, outbox, sockerr, peer,
                  lastSent, emptyLines, got, pc, ev>>
  BY DEF vars, streamVars, parseVars, sendVars, userVars, epVars, sockVars, peerVars
<1>2. StreamInv'
  BY StreamStutters DEF IInv, vars
<1>3. ThreadInv' /\ DeliveryInv' /\ NoLostWakeup'
  BY <1>1 DEF IInv, ThreadInv, DeliveryInv, StillReading, NoLostWakeup, Pending, Readable, Writable
<1> QED
  BY <1>1, <1>2, <1>3 DEF IInv, TypeOK, StreamInv

-----------------------------------------------------------------------------
(* Theorems.                                                               *)

(* Every reachable state of a client connection satisfies the invariant.   *)
THEOREM IInvHolds == Spec => []IInv
<1>1. IInv /\ [Next]_vars => IInv'
  <2>1. SUFFICES ASSUME IInv, [Next]_vars
                 PROVE  IInv'
    OBVIOUS
  <2>2. CASE Program
    BY <2>1, <2>2, ProgramStep
  <2>3. CASE EpollWait \/ CallBack \/ HandleEvent
    BY <2>1, <2>3, LoopStep
  <2>4. CASE HandleError \/ RecvEnds \/ ParseError \/ SendFails
    BY <2>1, <2>4, FailStep
  <2>5. CASE Receiving \/ ChunkParsed
    BY <2>1, <2>5, ReadStep
  <2>6. CASE SendsPart \/ SendsAll \/ SendWouldBlock
    BY <2>1, <2>6, WriteStep
  <2>7. CASE Peer
    BY <2>1, <2>7, ClientStep
  <2>8. CASE UNCHANGED vars
    BY <2>1, <2>8, StutterStep
  <2> QED
    BY <2>1, <2>2, <2>3, <2>4, <2>5, <2>6, <2>7, <2>8 DEF Next, Thread
<1> QED
  BY <1>1, IInvInit, PTL DEF Spec

(* The variables of a connection keep their types, whatever the client     *)
(* sends and wherever it stops (http_server_type.h:21-37).                 *)
THEOREM TypeCorrect == Spec => []TypeOK
<1>1. IInv => TypeOK
  BY DEF IInv
<1> QED
  BY <1>1, IInvHolds, PTL

(* A read that succeeds hands over the client's first request whole, for   *)
(* every length, every split into chunks and every number of pipelined     *)
(* requests, and a second time only when an empty line came                *)
(* (http_server_type.h:162-179, 112-128).                                  *)
THEOREM WholeRequests == Spec => []OnlyWholeRequests
<1>1. IInv => OnlyWholeRequests
  BY DEF IInv, StreamInv, ParserInv, DeliveryInv, OnlyWholeRequests
<1> QED
  BY <1>1, IInvHolds, PTL

(* The client receives what was written, in order, for every size of the   *)
(* response and of the socket's buffer (http_server_type.h:193-206).       *)
THEOREM ResponseInOrder == Spec => []WrittenInOrder
<1>1. IInv => WrittenInOrder
  BY DEF IInv, StreamInv
<1> QED
  BY <1>1, IInvHolds, PTL

(* Between handlers a connection is registered for what its operation      *)
(* waits for, and for nothing when there is none                           *)
(* (http_server_type.h:131-224).                                           *)
THEOREM RightMask == Spec => []OperationHasItsMask
<1>1. IInv => OperationHasItsMask
  BY DEF IInv, ThreadInv, OperationHasItsMask
<1> QED
  BY <1>1, IInvHolds, PTL

(* A read or write that waits without an edge to come has nothing to do:   *)
(* the loops over recv and send leave nothing in the socket                *)
(* (http_server_type.h:162, 180-188, 193, 208-222).                        *)
THEOREM NoWakeupLost == Spec => []NoLostWakeup
<1>1. IInv => NoLostWakeup
  BY DEF IInv
<1> QED
  BY <1>1, IInvHolds, PTL
=============================================================================
