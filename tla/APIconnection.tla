---------------------------- MODULE APIconnection -----------------------------
(***************************************************************************)
(* include/request_connection_type.h: a connection the program opens to    *)
(* another server, on the HttpStream it shares with Clientconnection, and  *)
(* the program that uses it, example/client.cpp: connect, send a request,  *)
(* delete the object in whatever callback is the last.  message is its     *)
(* HttpResponse, the peer the other server.                                *)
(***************************************************************************)
EXTENDS HttpStream

VARIABLES
  state,   \* ApiConnectionState
  fds      \* descriptors the object has opened and nobody has closed

vars == <<streamVars, state, fds>>

TypeOK ==
  /\ StreamTypeOK
  /\ operation \in {"none", "connect", "request"}
  /\ state \in {"API_IDLE", "API_CONNECTING", "API_SENDING", "API_RECEIVING"}
  /\ fds \in 0..1

Init == StreamInit /\ peer = "none" /\ state = "API_IDLE" /\ fds = 0

-----------------------------------------------------------------------------
(* createConnection: no address or no socket; a socket for which fcntl or  *)
(* connect failed, which -1 is returned for and nobody closes; a socket    *)
(* whose connection is under way, or made at once.                         *)
CreateConnection ==
  \/ fds' = 0 /\ peer' = "none"
  \/ fds' = 1 /\ peer' \in {"none", "connecting", "up"}

(* On -1 the callback runs at once, with no socket. *)
ConnectApi ==
  /\ Idle /\ ~ is_error /\ peer = "none"
  /\ CreateConnection
  /\ operation' = "connect"
  /\ IF peer' = "none"
     THEN is_error' = TRUE /\ pc' = "callback" /\ UNCHANGED <<state, epVars>>
     ELSE /\ state' = "API_CONNECTING"
          /\ mask' = {"out"} /\ ready' = (peer' = "up")
          /\ UNCHANGED <<is_error, pc>>
  /\ UNCHANGED <<parseVars, sendVars, alive, delivered, written, sockVars, lastSent, emptyLines,
                 got, ev>>

(* Faulty variant: sendRequest waits for EPOLLIN.                          *)
RequestMaskIn == {"in"}

RequestMask == {"out"}

(* The callbacks of the program.  After a response it may also send the    *)
(* next request on the same connection, which example/client.cpp does not. *)
HandedOver == IF operation = "request" /\ ~ is_error THEN 1 ELSE 0
UserFrame  == UNCHANGED <<is_error, parseVars, sent_bytes, sockVars, peerVars, ev>>

SendRequest(n) ==
  /\ pc = "callback"
  /\ ~ is_error
  /\ Append2SendBuffer(n)
  /\ state' = "API_SENDING"
  /\ Track(RequestMask)
  /\ operation' = "request"
  /\ delivered' = delivered + HandedOver
  /\ pc' = "loop"
  /\ UNCHANGED <<alive, fds>> /\ UserFrame

(* Faulty variant: the destructor does not close the socket.               *)
CloseForgotten == UNCHANGED fds

(* closeConnection(socket), which does nothing when the socket is -1. *)
Close == fds' = IF peer = "none" THEN fds ELSE 0

Delete ==
  /\ pc = "callback"
  /\ is_error \/ operation = "request"
  /\ alive' = FALSE
  /\ Close
  /\ operation' = "none"
  /\ delivered' = delivered + HandedOver
  /\ pc' = "loop"
  /\ UNCHANGED <<state, epVars, sendBuffer, written>> /\ UserFrame

-----------------------------------------------------------------------------
(* handleEvent, which acts by state.                                       *)
ApiFrame == UNCHANGED <<state, fds>>

(* state = API_IDLE; removeTrack; cb(this). *)
Ends == state' = "API_IDLE" /\ UNCHANGED fds

HandleConnectionError == HandleError /\ Ends

HandleConnected ==
  /\ pc = "handler"
  /\ "err" \notin ev
  /\ state = "API_CONNECTING"
  /\ Finish /\ Ends
  /\ UNCHANGED <<is_error, parseVars, sendVars, userVars, sockVars, peerVars, ev>>

HandleEvent ==
  /\ pc = "handler"
  /\ "err" \notin ev
  /\ \/ state = "API_SENDING" /\ pc' = "send"
     \/ state = "API_RECEIVING" /\ pc' = "recv"
  /\ UNCHANGED <<is_error, parseVars, sendVars, userVars, epVars, sockVars, peerVars, ev>>
  /\ ApiFrame

HandleSending == (SendsPart \/ SendWouldBlock) /\ ApiFrame

(* Faulty variant: the registration is left as it was.                     *)
SwitchUntracked == state' = "API_RECEIVING" /\ UNCHANGED epVars

(* The mask is switched by modifyTrack, from inside the loop over send ... *)
Switch == state' = "API_RECEIVING" /\ Track({"in"})

HandleRequestSent == SendRest /\ Switch /\ UNCHANGED <<pc, fds>>

(* ... which goes round once more, for 0 bytes. *)
HandleNothingLeft ==
  /\ pc = "send"
  /\ peer # "reset"
  /\ left = 0
  /\ pc' = "loop"
  /\ UNCHANGED <<is_error, parseVars, sendVars, userVars, epVars, sockVars, peerVars, ev>>
  /\ ApiFrame

HandleSendFailed == SendFails /\ Ends

HandleReceiving == (RecvData \/ RecvFails) /\ ApiFrame

(* The on_ callbacks fill the HttpResponse. *)
HandleParsed == (ParsePart \/ ParseEmptyLine) /\ ApiFrame

(* The response is complete, or recv is called again. *)
HandleChunkParsed == ChunkParsed /\ IF is_request_complete THEN Ends ELSE ApiFrame

HandleParseError   == ParseError /\ Ends
HandleDisconnected == RecvEnds /\ Ends

Sending == HandleSending \/ HandleRequestSent \/ HandleNothingLeft \/ HandleSendFailed
Thread ==
  \/ ConnectApi \/ Delete \/ \E n \in 1..MaxWrites : SendRequest(n)
  \/ EpollWait /\ ApiFrame
  \/ HandleConnectionError \/ HandleConnected \/ HandleEvent \/ Sending
  \/ HandleReceiving \/ HandleParsed \/ HandleChunkParsed
  \/ HandleParseError \/ HandleDisconnected

(* The network answers the SYN, or reports that nobody did. *)
ConnectionMade ==
  /\ peer = "connecting"
  /\ peer' = "up"
  /\ Edge("out")
  /\ PeerFrame /\ UNCHANGED <<sockVars, lastSent, emptyLines, got>>

ConnectionRefused ==
  /\ peer = "connecting"
  /\ peer' = "reset"
  /\ sockerr' = TRUE
  /\ ready' = (mask # {})
  /\ PeerFrame /\ UNCHANGED <<inbox, outbox, lastSent, emptyLines, got>>

Network == (ConnectionMade \/ ConnectionRefused) /\ ApiFrame

Next == Thread \/ Network \/ (Peer /\ ApiFrame)

Spec == Init /\ [][Next]_vars

(* The thread runs while it can; a connection attempt has an outcome; a    *)
(* server that is there takes what it is sent.  It need not answer.        *)
Fairness ==
  WF_vars(Thread) /\ WF_vars(Network) /\ WF_vars(PeerReceives /\ ApiFrame)
FairSpec == Spec /\ Fairness

-----------------------------------------------------------------------------
(***************************************************************************)
(* Properties                                                              *)
(***************************************************************************)

(* A request that did not fail hands over the first message the server     *)
(* sent, whole (request_connection_type.h:213-230): an interim response    *)
(* counts as that message, a response that only the end of the connection  *)
(* ends is always a failure (request_connection_type.h:234), and a second  *)
(* request is answered only by the first response again, when an empty     *)
(* line came (request_connection_type.h:118-126, 225).                     *)
OnlyWholeResponses ==
  pc = "callback" /\ operation = "request" /\ ~ is_error =>
    IsWhole(message, 1) /\ (delivered = 0 \/ emptyLines > 0)

(* state and registration agree when the handler is left, through the      *)
(* switch from sending to receiving in the middle of the send loop         *)
(* (request_connection_type.h:129-155, 163-199, 218-239).                  *)
StateHasItsMask ==
  pc = "loop" =>
    /\ mask = CASE state = "API_IDLE"      -> {}
                [] state = "API_RECEIVING" -> {"in"}
                [] OTHER                   -> {"out"}
    /\ (state = "API_IDLE") = (operation = "none")

(* A deleted object leaves no registration and no descriptor, except the   *)
(* one createConnection lost when it returned -1                           *)
(* (request_connection_type.h:136-142, 292-297, socket_utilities.h:225-237)*)
NothingLeftBehind == ~ alive => mask = {} /\ (fds = 0 \/ peer = "none")

(* Connecting and sending end; receiving ends once the end of a response,  *)
(* or of the connection, has reached the socket; and once the server is    *)
(* gone the program gets its last callback and deletes the object,         *)
(* whatever was under way (request_connection_type.h:157-243,              *)
(* example/client.cpp:67-82).                                              *)
OperationEnds ==
  /\ (state = "API_CONNECTING") ~> (state # "API_CONNECTING")
  /\ (state = "API_SENDING") ~> (state # "API_SENDING")
  /\ (state = "API_RECEIVING" /\ Decided) ~> (state # "API_RECEIVING")
  /\ (peer \in {"closed", "reset"}) ~> ~ alive
=============================================================================
