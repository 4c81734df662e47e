------------------------------ MODULE HttpStream ------------------------------
(***************************************************************************)
(* What include/http_server_type.h and include/request_connection_type.h   *)
(* have in common: one socket, a message read and parsed from              *)
(* edge-triggered events, a buffer written in whatever pieces the socket   *)
(* takes.  Clientconnection and APIconnection extend this module.          *)
(*                                                                         *)
(* The bytes of the stream are tokens: part |-> k of message msg |-> m,    *)
(* last |-> TRUE when the message ends with it.  A message without a last  *)
(* token ends with the connection.  EmptyLine is a CRLF between messages,  *)
(* Garbage what no message may contain.  A recv takes up to RecvMax tokens *)
(* (the 1024 bytes of recvBuffer).  The parser (llhttp), the socket and    *)
(* the peer are external; the peer acts between any two system calls.      *)
(***************************************************************************)
EXTENDS Integers, Sequences

CONSTANTS
  MsgLen,       \* most tokens of a message
  RecvMax,      \* tokens a recv takes
  SendRoom,     \* tokens the socket's send buffer holds
  MaxMessages,  \* bound on the messages the peer sends
  MaxWrites,    \* bound on the tokens the program writes
  MaxEmptyLines,\* bound on the CRLFs the peer sends between messages
  Faults        \* may the peer send garbage, disconnect or reset?

ASSUME StreamAssumption ==
  /\ {MsgLen, RecvMax, SendRoom} \subseteq Nat \ {0}
  /\ {MaxMessages, MaxWrites, MaxEmptyLines} \subseteq Nat
  /\ Faults \in BOOLEAN

Tokens    == [msg : 0..MaxMessages, part : 0..MsgLen, last : BOOLEAN]
EmptyLine == [msg |-> 0, part |-> 0, last |-> FALSE]
Garbage   == [msg |-> 0, part |-> 1, last |-> FALSE]
Least(a, b) == IF a < b THEN a ELSE b

VARIABLES
  is_error, is_request_complete,
  message,        \* what the parser's callbacks put into HttpRequest, HttpResponse
  parser,         \* llhttp: "start", "message", "done" or "error"
  chunk,          \* what recv returned and the parser has not seen
  sendBuffer, sent_bytes,
  alive,          \* the object is not deleted
  operation,      \* what the registered callback was given for, or "none"
  mask, ready,    \* epoll: the events tracked, {} for none; on the ready list
  inbox, outbox,  \* the socket's receive and send buffers
  sockerr,        \* the socket holds an error that was not reported
  peer,           \* "none" (no socket), "connecting", "up", "closed" (FIN) or "reset" (RST)
  lastSent,       \* the last token of a message the peer sent
  emptyLines,     \* CRLFs the peer sent
  got,            \* what the peer received
  pc, ev,         \* where the thread is; the event it handles
  delivered,      \* history: messages handed to the program
  written         \* history: all the program put into sendBuffer

parseVars == <<is_request_complete, message, parser, chunk>>
sendVars  == <<sendBuffer, sent_bytes>>
userVars  == <<alive, operation, delivered, written>>
epVars    == <<mask, ready>>
sockVars  == <<inbox, outbox, sockerr>>
peerVars  == <<peer, lastSent, emptyLines, got>>
streamVars ==
  <<is_error, parseVars, sendVars, userVars, epVars, sockVars, peerVars, pc, ev>>

StreamTypeOK ==
  /\ {is_error, is_request_complete, alive, ready, sockerr} \subseteq BOOLEAN
  /\ {message, inbox, chunk} \subseteq Seq(Tokens)
  /\ {sendBuffer, outbox, got, written} \subseteq Seq(1..MaxWrites)
  /\ sent_bytes \in 0..Len(sendBuffer)
  /\ Len(outbox) <= SendRoom
  /\ parser \in {"start", "message", "done", "error"}
  /\ mask \in {{}, {"in"}, {"out"}}
  /\ peer \in {"none", "connecting", "up", "closed", "reset"}
  /\ lastSent \in Tokens
  /\ emptyLines \in 0..MaxEmptyLines
  /\ pc \in {"loop", "handler", "recv", "parse", "send", "callback"}
  /\ ev \subseteq {"in", "out", "err"}
  /\ delivered \in Nat

StreamInit ==
  /\ is_error = FALSE /\ is_request_complete = FALSE
  /\ message = <<>> /\ parser = "start" /\ chunk = <<>>
  /\ sendBuffer = <<>> /\ sent_bytes = 0
  /\ alive = TRUE /\ operation = "none" /\ delivered = 0 /\ written = <<>>
  /\ mask = {} /\ ready = FALSE
  /\ inbox = <<>> /\ outbox = <<>> /\ sockerr = FALSE
  /\ lastSent = [EmptyLine EXCEPT !.last = TRUE] /\ emptyLines = 0 /\ got = <<>>
  /\ pc = "loop" /\ ev = {}

-----------------------------------------------------------------------------
(* epoll.                                                                  *)
Readable == inbox # <<>> \/ peer \in {"closed", "reset"}
Writable == peer = "reset" \/ (peer # "connecting" /\ Len(outbox) < SendRoom)
Pending(m) ==
  {e \in m : (e = "in" /\ Readable) \/ (e = "out" /\ Writable)}
    \cup {e \in {"err"} : m # {} /\ sockerr}

Track(m)    == mask' = m /\ ready' = (Pending(m) # {})
Untrack     == mask' = {} /\ ready' = FALSE
Edge(event) == ready' = (ready \/ event \in mask)

EpollWait ==
  /\ pc = "loop"
  /\ ready
  /\ ready' = FALSE
  /\ ev' = Pending(mask)
  /\ pc' = IF ev' = {} THEN "loop" ELSE "handler"
  /\ UNCHANGED <<is_error, parseVars, sendVars, userVars, mask, sockVars, peerVars>>

-----------------------------------------------------------------------------
(* The program's calls.                                                    *)
Idle == pc = "loop" /\ alive /\ operation = "none"

(* Tokens are appended to sendBuffer before the call that sends them. *)
Append2SendBuffer(n) ==
  LET tokens == [i \in 1..n |-> Len(written) + i] IN
  /\ Len(written) + n <= MaxWrites
  /\ sendBuffer' = sendBuffer \o tokens
  /\ written' = written \o tokens

-----------------------------------------------------------------------------
(* handleEvent.                                                            *)

(* removeTrack; cb(this), with or without is_error. *)
Finish == Untrack /\ pc' = "callback"

(* Faulty variant: the error is not reported.                              *)
FailSilently == is_error' = TRUE /\ Untrack /\ pc' = "loop"

Fail == is_error' = TRUE /\ Finish

HandleError ==
  /\ pc = "handler"
  /\ "err" \in ev
  /\ Fail
  /\ UNCHANGED <<parseVars, sendVars, userVars, sockVars, peerVars, ev>>

(* recv returned a positive number of bytes ... *)
RecvData ==
  LET n == Least(RecvMax, Len(inbox)) IN
  /\ pc = "recv"
  /\ inbox # <<>>
  /\ chunk' = SubSeq(inbox, 1, n)
  /\ inbox' = SubSeq(inbox, n + 1, Len(inbox))
  /\ pc' = "parse"
  /\ UNCHANGED <<is_error, is_request_complete, message, parser, sendVars, userVars, epVars,
                 outbox, sockerr, peerVars, ev>>

(* ... -1, whatever errno says: the handler returns ... *)
RecvFails ==
  /\ pc = "recv"
  /\ inbox = <<>>
  /\ peer = "up" \/ sockerr
  /\ sockerr' = FALSE
  /\ pc' = "loop"
  /\ UNCHANGED <<is_error, parseVars, sendVars, userVars, epVars, inbox, outbox, peerVars, ev>>

(* ... or 0: "client disconnected". *)
RecvEnds ==
  /\ pc = "recv"
  /\ inbox = <<>>
  /\ peer # "up" /\ ~ sockerr
  /\ Fail
  /\ UNCHANGED <<parseVars, sendVars, userVars, sockVars, peerVars, ev>>

(* llhttp_execute.  A token of the message goes to the object by way of    *)
(* the on_ callbacks; the last one is followed by on_message_complete.     *)
token == Head(chunk)
Parsing == pc = "parse" /\ chunk # <<>>
ParseFrame == UNCHANGED <<sendVars, userVars, sockVars, peerVars, ev>>

ParsePart ==
  /\ Parsing
  /\ parser \in {"start", "message"}
  /\ token \notin {EmptyLine, Garbage}
  /\ message' = Append(message, token)
  /\ parser' = IF token.last THEN "done" ELSE "message"
  /\ is_request_complete' = (is_request_complete \/ token.last)
  /\ chunk' = Tail(chunk)
  /\ UNCHANGED <<is_error, epVars, pc>>
  /\ ParseFrame

(* Empty lines around a message are skipped, and nothing is reset. *)
ParseEmptyLine ==
  /\ Parsing
  /\ parser # "error"
  /\ token = EmptyLine
  /\ chunk' = Tail(chunk)
  /\ UNCHANGED <<is_error, is_request_complete, message, parser, epVars, pc>>
  /\ ParseFrame

(* on_reset makes a new HttpRequest or HttpResponse. *)
Reset == is_request_complete' = FALSE /\ message' = <<>>

(* What cannot be parsed.  The first byte of the next message is: either   *)
(* the message before it said that the connection closes, or on_reset      *)
(* zeroes recvBuffer, which is what llhttp is reading from, so the byte is *)
(* not one that starts a message.  The error stays with the parser, and    *)
(* the rest of the chunk is dropped.                                       *)
ParseError ==
  /\ Parsing
  /\ \/ parser = "error" \/ token = Garbage
     \/ parser = "done" /\ token # EmptyLine
  /\ \/ parser = "done" /\ Reset
     \/ UNCHANGED <<is_request_complete, message>>
  /\ parser' = "error"
  /\ chunk' = <<>>
  /\ Fail
  /\ ParseFrame

(* Faulty variants: a message is taken to be complete after one recv; one  *)
(* recv is made per event.                                                 *)
AfterChunkComplete == Finish
AfterChunkReturn ==
  IF is_request_complete THEN Finish ELSE pc' = "loop" /\ UNCHANGED epVars

(* The chunk is parsed: the message is complete, or recv is called again.  *)
AfterChunk ==
  IF is_request_complete THEN Finish ELSE pc' = "recv" /\ UNCHANGED epVars

ChunkParsed ==
  /\ pc = "parse"
  /\ chunk = <<>>
  /\ AfterChunk
  /\ UNCHANGED <<is_error, parseVars>>
  /\ ParseFrame

(* The send loop: what fits is sent, from data() + sent_bytes on. *)
left == Len(sendBuffer) - sent_bytes

(* Faulty variant: sent_bytes is not added to data().                      *)
SliceFromStart(n) == SubSeq(sendBuffer, 1, n)

Slice(n) == SubSeq(sendBuffer, sent_bytes + 1, sent_bytes + n)

Sends(n) ==
  /\ pc = "send"
  /\ peer # "reset"
  /\ n \in 1..Least(SendRoom - Len(outbox), left)
  /\ outbox' = outbox \o Slice(n)
  /\ UNCHANGED <<is_error, parseVars, userVars, inbox, sockerr, peerVars, ev>>

SendPart(n) ==
  /\ Sends(n)
  /\ n < left
  /\ sent_bytes' = sent_bytes + n
  /\ UNCHANGED <<sendBuffer, epVars, pc>>

(* Faulty variant: sent_bytes is not reset.                                *)
ClearBufferOnly == sendBuffer' = <<>> /\ UNCHANGED sent_bytes

Clear == sendBuffer' = <<>> /\ sent_bytes' = 0

(* All is sent; what comes next is each class's own. *)
SendRest == Sends(left) /\ Clear

SendWouldBlock ==
  /\ pc = "send"
  /\ peer # "reset"
  /\ left > 0
  /\ Len(outbox) = SendRoom
  /\ pc' = "loop"
  /\ UNCHANGED <<is_error, parseVars, sendVars, userVars, epVars, sockVars, peerVars, ev>>

SendFails ==
  /\ pc = "send"
  /\ peer = "reset"
  /\ Fail
  /\ sockerr' = FALSE
  /\ UNCHANGED <<parseVars, sendVars, userVars, inbox, outbox, peerVars, ev>>

Receiving == RecvData \/ RecvFails \/ ParsePart \/ ParseEmptyLine
SendsPart == \E n \in 1..MaxWrites : SendPart(n)

-----------------------------------------------------------------------------
(* The peer and the network.                                               *)
PeerFrame == UNCHANGED <<is_error, parseVars, sendVars, userVars, mask, pc, ev>>

Arrives(t) ==
  /\ alive /\ peer = "up"
  /\ inbox' = Append(inbox, t)
  /\ Edge("in")
  /\ PeerFrame /\ UNCHANGED <<outbox, sockerr, peer, got>>

(* The next token of the message under way, or the first of a new one; the *)
(* message may end with it.                                                *)
PeerSends ==
  \E ends \in BOOLEAN :
    LET t == IF lastSent.last
             THEN [msg |-> lastSent.msg + 1, part |-> 1, last |-> ends]
             ELSE [msg |-> lastSent.msg, part |-> lastSent.part + 1, last |-> ends]
    IN /\ t \in Tokens
       /\ Arrives(t)
       /\ lastSent' = t
       /\ UNCHANGED emptyLines

PeerSendsEmptyLine ==
  /\ emptyLines < MaxEmptyLines
  /\ lastSent.last
  /\ Arrives(EmptyLine)
  /\ emptyLines' = emptyLines + 1
  /\ UNCHANGED lastSent

PeerSendsGarbage ==
  /\ Faults
  /\ \A i \in DOMAIN inbox : inbox[i] # Garbage
  /\ Arrives(Garbage)
  /\ UNCHANGED <<lastSent, emptyLines>>

PeerReceives ==
  /\ peer # "reset"
  /\ outbox # <<>>
  /\ got' = Append(got, Head(outbox))
  /\ outbox' = Tail(outbox)
  /\ Edge("out")
  /\ PeerFrame /\ UNCHANGED <<inbox, sockerr, peer, lastSent, emptyLines>>

PeerCloses ==
  /\ Faults
  /\ peer = "up"
  /\ peer' = "closed"
  /\ Edge("in")
  /\ PeerFrame /\ UNCHANGED <<sockVars, lastSent, emptyLines, got>>

PeerResets ==
  /\ Faults
  /\ peer \in {"up", "closed"}
  /\ peer' = "reset"
  /\ sockerr' = TRUE
  /\ ready' = (mask # {})
  /\ PeerFrame /\ UNCHANGED <<inbox, outbox, lastSent, emptyLines, got>>

Peer ==
  \/ PeerSends \/ PeerSendsEmptyLine \/ PeerSendsGarbage
  \/ PeerReceives \/ PeerCloses \/ PeerResets

-----------------------------------------------------------------------------
(***************************************************************************)
(* Properties                                                              *)
(***************************************************************************)

(* s is message m from its first token to its last. *)
IsWhole(s, m) ==
  s # <<>> /\ \A i \in DOMAIN s : s[i] = [msg |-> m, part |-> i, last |-> i = Len(s)]

(* The peer receives what the program wrote, all of it and in order,       *)
(* however often the socket takes only part (http_server_type.h:193-206,   *)
(* request_connection_type.h:176-191).                                     *)
WrittenInOrder ==
  got \o outbox \o SubSeq(sendBuffer, sent_bytes + 1, Len(sendBuffer)) = written

(* Edge-triggered readiness is never lost: when the handler is left, what  *)
(* the operation waits for is not there without an edge to come            *)
(* (http_server_type.h:162, 180-188, 193, 208-222;                         *)
(* request_connection_type.h:176-199, 213-242).                            *)
NoLostWakeup == pc = "loop" /\ operation # "none" /\ ~ ready => Pending(mask) = {}

(* The end of a message, or of the connection, has reached the socket.     *)
Decided ==
  \/ peer \in {"closed", "reset"}
  \/ \E i \in DOMAIN inbox : inbox[i].last \/ inbox[i] = Garbage
=============================================================================
