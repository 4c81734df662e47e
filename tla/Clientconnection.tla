--------------------------- MODULE Clientconnection ---------------------------
(***************************************************************************)
(* include/http_server_type.h: one accepted client connection, its request *)
(* read and its response written, on the HttpStream it shares with         *)
(* APIconnection.  message is its HttpRequest, the peer its client.        *)
(***************************************************************************)
EXTENDS HttpStream

vars == streamVars

TypeOK == StreamTypeOK /\ operation \in {"none", "read", "write"}

(* The constructor, for a socket accept has just returned. *)
Init == StreamInit /\ peer = "up"

-----------------------------------------------------------------------------
(* The operations of the program, which leaves a failed connection alone   *)
(* but for deleting it ("user will close the connection and delete its     *)
(* memory").                                                               *)
StartFrame == UNCHANGED <<is_error, parseVars, sent_bytes, alive, delivered, sockVars, peerVars,
                          pc, ev>>

Read ==
  /\ Idle /\ ~ is_error
  /\ Track({"in"})
  /\ operation' = "read"
  /\ UNCHANGED <<sendBuffer, written>>
  /\ StartFrame

(* Faulty variant: write waits for EPOLLIN.                                *)
WriteMaskIn == {"in"}

WriteMask == {"out"}

(* A response of n > 0 tokens is put into sendBuffer and written. *)
Write(n) ==
  /\ Idle /\ ~ is_error
  /\ Append2SendBuffer(n)
  /\ Track(WriteMask)
  /\ operation' = "write"
  /\ StartFrame

Delete ==
  /\ Idle
  /\ alive' = FALSE
  /\ UNCHANGED <<is_error, parseVars, sendVars, operation, delivered, written, epVars, sockVars,
                 peerVars, pc, ev>>

(* cb(this) runs and returns. *)
CallBack ==
  /\ pc = "callback"
  /\ pc' = "loop"
  /\ operation' = "none"
  /\ delivered' = IF operation = "read" /\ ~ is_error THEN delivered + 1 ELSE delivered
  /\ UNCHANGED <<is_error, parseVars, sendVars, alive, written, epVars, sockVars, peerVars, ev>>

-----------------------------------------------------------------------------
(* handleEvent: EPOLLIN is looked at first, EPOLLOUT only without it.      *)
HandleEvent ==
  /\ pc = "handler"
  /\ "err" \notin ev
  /\ pc' = IF "in" \in ev THEN "recv" ELSE "send"
  /\ UNCHANGED <<is_error, parseVars, sendVars, userVars, epVars, sockVars, peerVars, ev>>

SendsAll == SendRest /\ Finish

Thread ==
  \/ EpollWait \/ CallBack \/ HandleError \/ HandleEvent
  \/ Receiving \/ RecvEnds \/ ParseError \/ ChunkParsed
  \/ SendsPart \/ SendsAll \/ SendWouldBlock \/ SendFails

Program == Read \/ Delete \/ \E n \in 1..MaxWrites : Write(n)

Next == Program \/ Thread \/ Peer

Spec == Init /\ [][Next]_vars

(* The thread runs while it can; a client that is there takes what it is   *)
(* sent.  It need not send anything.                                       *)
Fairness == WF_vars(Thread) /\ WF_vars(PeerReceives)
FairSpec == Spec /\ Fairness

-----------------------------------------------------------------------------
(***************************************************************************)
(* Properties                                                              *)
(***************************************************************************)

(* A read that did not fail hands over the first request of the            *)
(* connection, whole, in whatever pieces it came (http_server_type.h:      *)
(* 162-179).  It does so once, or again when an empty line came after it:  *)
(* the parser skips it without on_reset, and is_request_complete still     *)
(* stands (http_server_type.h:112-128, 173).                               *)
OnlyWholeRequests ==
  pc = "callback" /\ operation = "read" /\ ~ is_error =>
    IsWhole(message, 1) /\ (delivered = 0 \/ emptyLines > 0)

(* An operation that has not called back is tracked, for the event it is   *)
(* waiting for, when the handler is left (http_server_type.h:131-224).     *)
OperationHasItsMask ==
  pc = "loop" => mask = CASE operation = "none"  -> {}
                          [] operation = "read"  -> {"in"}
                          [] operation = "write" -> {"out"}

(* A read ends once the end of a request, or of the connection, has        *)
(* reached the socket; a write of something ends when the client keeps     *)
(* receiving, or is gone (http_server_type.h:149-222).                     *)
OperationEnds ==
  /\ (operation = "read" /\ Decided) ~> (operation # "read")
  /\ (operation = "write") ~> (operation # "write")
=============================================================================
