----------------------------- MODULE Dbconnection -----------------------------
(***************************************************************************)
(* include/db_connection_type.h: one PostgreSQL connection driven by the   *)
(* reactor's edge-triggered events through libpq's non-blocking calls.     *)
(*                                                                         *)
(* libpq, the socket and the database server are external.  A query is     *)
(* QuerySize chunks, and the socket's send buffer holds SendRoom of them.  *)
(* An answer is a sequence of messages: for each statement its rows "D"    *)
(* and then "C", or "E" for an error, and last "Z", ready for the next     *)
(* query.  "N" is a notice, "A" one round of the login.  A single call of  *)
(* PQconsumeInput takes at most ReadSize messages from the socket: libpq   *)
(* reads what its input buffer has room for and leaves the rest behind.    *)
(*                                                                         *)
(* The server acts between any two libpq calls of a handler, and between   *)
(* epoll_wait and the handler it leads to.                                 *)
(***************************************************************************)
EXTENDS Integers, Sequences, FiniteSets

CONSTANTS
  QuerySize,   \* chunks a query is sent in
  SendRoom,    \* chunks the socket's send buffer takes
  ReadSize,    \* messages one PQconsumeInput takes
  MaxRows,     \* bound on the rows of one result
  MaxQueries,  \* bound on the queries submitted
  Rounds,      \* messages the server answers the login with
  MaxNotices,  \* bound on the notices the server sends of its own accord
  Failures     \* how the connection may break: {} or "closed", "reset"

ASSUME DbconnectionAssumption ==
  /\ {QuerySize, SendRoom, ReadSize, MaxQueries, Rounds} \subseteq Nat \ {0}
  /\ {MaxRows, MaxNotices} \subseteq Nat
  /\ Failures \subseteq {"closed", "reset"}

VARIABLES
  connection_state, is_error, results,
  status, async,    \* libpq: the connection; the query under way
  unsent,           \* libpq: chunks in its output buffer
  rx,               \* libpq: messages in its input buffer, not parsed
  rows,             \* libpq: rows of the result being received
  outcome,          \* libpq: "C" or "E", how the result ended
  rounds,           \* libpq: login messages to come; Rounds+1 before the first call
  mask,             \* epoll: the events tracked; {} when not tracked
  ready,            \* epoll: the descriptor is on the ready list
  inbox, flight,    \* the socket's receive buffer; chunks in its send buffer
  server,           \* "away", "up", "closed" (FIN) or "reset" (RST)
  received,         \* chunks of the query that reached the server
  reply,            \* messages the server still has to send
  notices,          \* notices sent
  pc, ev,           \* where the thread is; the events of the handler
  operation,        \* "none", "connect" or "query": what has to call back
  submitted,        \* queries submitted
  expected          \* history: rows of each result of the current query

objVars == <<connection_state, is_error, results>>
pqVars  == <<status, async, unsent, rx, rows, outcome, rounds>>
epVars  == <<mask, ready>>
netVars == <<inbox, flight, server, received, reply, notices, expected>>
vars == <<objVars, pqVars, epVars, netVars, pc, ev, operation, submitted>>

Messages == {"A", "D", "C", "E", "Z", "N"}
Least(a, b) == IF a < b THEN a ELSE b

TypeOK ==
  /\ connection_state \in {"IDLE", "NOT_CONNECTED", "CONNECTING", "CONNECTED",
                           "SENDING_QUERY", "READING_RESPONSE"}
  /\ is_error \in BOOLEAN
  /\ results \in Seq(0..MaxRows)
  /\ status \in {"none", "started", "ok", "bad"}
  /\ async \in {"idle", "busy", "ready"}
  /\ unsent \in 0..QuerySize
  /\ {rx, inbox, reply} \subseteq Seq(Messages)
  /\ rows \in 0..MaxRows
  /\ outcome \in {"C", "E"}
  /\ rounds \in 0..(Rounds + 1)
  /\ mask \subseteq {"in", "out"}
  /\ ready \in BOOLEAN
  /\ flight \in 0..SendRoom
  /\ server \in {"away", "up", "closed", "reset"}
  /\ received \in 0..QuerySize
  /\ notices \in 0..MaxNotices
  /\ pc \in {"loop", "handler", "push", "consume", "reflush", "busy", "get", "drain", "callback"}
  /\ ev \subseteq {"in", "out", "err"}
  /\ operation \in {"none", "connect", "query"}
  /\ submitted \in 0..MaxQueries
  /\ expected \in Seq(0..MaxRows)

(* The constructor. *)
Init ==
  /\ connection_state = "NOT_CONNECTED" /\ is_error = FALSE /\ results = <<>>
  /\ status = "none" /\ async = "idle" /\ unsent = 0 /\ rx = <<>> /\ rows = 0
  /\ outcome = "C" /\ rounds = Rounds + 1
  /\ mask = {} /\ ready = FALSE
  /\ inbox = <<>> /\ flight = 0 /\ server = "away" /\ received = 0 /\ reply = <<>>
  /\ notices = 0 /\ expected = <<>>
  /\ pc = "loop" /\ ev = {} /\ operation = "none" /\ submitted = 0

-----------------------------------------------------------------------------
(* epoll.                                                                  *)
Readable == inbox # <<>> \/ server \in {"closed", "reset"}
Writable == server \in {"up", "closed"} /\ flight < SendRoom
Pending(m) ==
  (IF "in" \in m /\ Readable THEN {"in"} ELSE {})
    \cup (IF "out" \in m /\ (Writable \/ server = "reset") THEN {"out"} ELSE {})
    \cup (IF server = "reset" THEN {"err"} ELSE {})

(* addTrack and modifyTrack: the mask is compared with the socket as it is *)
(* when epoll_ctl is called, so both re-arm an edge that was consumed.     *)
Track(m) == mask' = m /\ ready' = (Pending(m)' # {})
Untrack  == mask' = {} /\ ready' = FALSE

(* epoll_wait reports what the socket satisfies now, and forgets the edge. *)
EpollWait ==
  /\ pc = "loop"
  /\ ready
  /\ ready' = FALSE
  /\ ev' = Pending(mask)
  /\ pc' = IF ev' = {} THEN "loop" ELSE "handler"
  /\ UNCHANGED <<objVars, pqVars, mask, netVars, operation, submitted>>

-----------------------------------------------------------------------------
(* libpq.                                                                  *)

(* PQflush: what fits goes to the socket.  It returns -1 once the          *)
(* connection is reset, 1 when something is left, else 0.                  *)
FlushFails == server = "reset" \/ status = "bad"
Flush(chunks) ==
  LET sent == Least(chunks, SendRoom - flight) IN
  /\ unsent' = chunks - sent
  /\ flight' = flight + sent

(* PQconsumeInput: one read.  It returns 0 at the end of the stream.       *)
ConsumeFails == inbox = <<>> /\ server \in {"closed", "reset"}
Consume ==
  LET n == Least(ReadSize, Len(inbox)) IN
  /\ rx' = rx \o SubSeq(inbox, 1, n)
  /\ inbox' = SubSeq(inbox, n + 1, Len(inbox))

(* Parsing what is in the input buffer: up to the end of a result, which   *)
(* makes it available, or of the query, which makes the connection idle.   *)
Ends(s) == {i \in DOMAIN s : s[i] \in {"C", "E", "Z"}}
Parse ==
  LET upTo  == IF Ends(rx) = {} THEN Len(rx)
               ELSE CHOOSE i \in Ends(rx) : \A j \in Ends(rx) : i <= j
      last  == IF Ends(rx) = {} THEN "none" ELSE rx[upTo]
  IN /\ rx' = SubSeq(rx, upTo + 1, Len(rx))
     /\ rows' = rows + Cardinality({i \in 1..upTo : rx[i] = "D"})
     /\ outcome' = IF last \in {"C", "E"} THEN last ELSE outcome
     /\ async' = CASE last = "none" -> "busy"
                   [] last = "Z"    -> "idle"
                   [] OTHER         -> "ready"

-----------------------------------------------------------------------------
(* The operations the program calls, from main or from any callback.       *)

(* connectDb.  The connection string is one PQconnectStart accepts. *)
ConnectDb ==
  /\ pc = "loop"
  /\ connection_state = "NOT_CONNECTED"
  /\ connection_state' = "CONNECTING"
  /\ status' = "started"
  /\ operation' = "connect"
  /\ UNCHANGED netVars
  /\ Track({"out"})
  /\ UNCHANGED <<is_error, results, async, unsent, rx, rows, outcome, rounds, pc, ev, submitted>>

Connected == connection_state \notin {"NOT_CONNECTED", "CONNECTING"}

(* sendQuery when PQsendQuery returns 0: the callback is called at once. *)
SendQueryRefused ==
  /\ pc = "loop"
  /\ Connected /\ operation = "none"
  /\ submitted < MaxQueries
  /\ submitted' = submitted + 1
  /\ status = "bad" \/ async # "idle" \/ server = "reset"
  /\ status' = IF server = "reset" THEN "bad" ELSE status
  /\ is_error' = TRUE
  /\ operation' = "query"
  /\ pc' = "callback"
  /\ UNCHANGED <<connection_state, results, async, unsent, rx, rows, outcome, rounds,
                 epVars, netVars, ev>>

(* sendQuery when it does not: libpq gives the socket a first push. *)
SendQuery ==
  /\ pc = "loop"
  /\ Connected /\ operation = "none"
  /\ submitted < MaxQueries
  /\ submitted' = submitted + 1
  /\ status = "ok" /\ async = "idle" /\ server # "reset"
  /\ Flush(QuerySize)
  /\ async' = "busy"
  /\ rows' = 0
  /\ received' = 0
  /\ connection_state' = "SENDING_QUERY"
  /\ operation' = "query"
  /\ pc' = "push"
  /\ UNCHANGED <<is_error, results, status, rx, outcome, rounds, epVars, inbox, server, reply,
                 notices, expected, ev>>

(* Faulty variants: when all is sent, the mask is that of the connecting;  *)
(* when not, EPOLLOUT is forgotten.                                        *)
AllSentTracksOut == connection_state' = "READING_RESPONSE" /\ Track({"out"})
NotAllSentTracksIn == UNCHANGED connection_state /\ Track({"in"})

AllSent    == connection_state' = "READING_RESPONSE" /\ Track({"in"})
NotAllSent == UNCHANGED connection_state /\ Track({"in", "out"})

(* ... and PQflush another one. *)
SendQueryPush ==
  /\ pc = "push"
  /\ ~ FlushFails
  /\ Flush(unsent)
  /\ UNCHANGED <<inbox, server>>
  /\ IF unsent' = 0 THEN AllSent ELSE NotAllSent
  /\ pc' = "loop"
  /\ UNCHANGED <<is_error, status, results, async, rx, rows, outcome, rounds, received, reply,
                 notices, expected, ev, operation, submitted>>

SendQueryPushFailed ==
  /\ pc = "push"
  /\ FlushFails
  /\ is_error' = TRUE
  /\ status' = "bad"
  /\ connection_state' = "IDLE"
  /\ pc' = "callback"
  /\ UNCHANGED <<results, async, unsent, rx, rows, outcome, rounds, epVars, netVars, ev,
                 operation, submitted>>

(* cb(this): the user looks at is_error and results, and the pool calls    *)
(* resetConnection after a query.                                          *)
CallBack ==
  /\ pc = "callback"
  /\ pc' = "loop"
  /\ operation' = "none"
  /\ IF operation = "query"
     THEN results' = <<>> /\ is_error' = FALSE
     ELSE UNCHANGED <<results, is_error>>
  /\ UNCHANGED <<connection_state, pqVars, epVars, netVars, ev, submitted>>

-----------------------------------------------------------------------------
(* handleEvent.                                                            *)
Handling(state) == pc = "handler" /\ "err" \notin ev /\ connection_state = state

(* is_error = true; removeTrack; cb(this). *)
Fail ==
  /\ is_error' = TRUE
  /\ Untrack
  /\ pc' = "callback"

(* EPOLLERR: connection_state is left as it is, and so is libpq. *)
HandleError ==
  /\ pc = "handler"
  /\ "err" \in ev
  /\ Fail
  /\ UNCHANGED <<connection_state, results, pqVars, netVars, ev, operation, submitted>>

(* CONNECTING: PQconnectPoll.  Its first call sends the startup message,   *)
(* each later one takes what the server answered and asks to be called     *)
(* again when the socket is readable or writable.                          *)
PollFails == ConsumeFails \/ "E" \in {inbox[i] : i \in DOMAIN inbox}
HandlePollFailed ==
  /\ Handling("CONNECTING")
  /\ PollFails
  /\ status' = "bad"
  /\ Fail
  /\ UNCHANGED <<connection_state, results, async, unsent, rx, rows, outcome, rounds,
                 netVars, ev, operation, submitted>>

HandlePoll ==
  LET first == rounds > Rounds  got == inbox # <<>> IN
  /\ Handling("CONNECTING")
  /\ ~ PollFails
  /\ first \/ ~ got \/ rounds > 1
  /\ rounds' = IF first \/ got THEN rounds - 1 ELSE rounds
  /\ reply' = IF first \/ got THEN <<"A">> ELSE reply
  /\ inbox' = <<>>
  /\ UNCHANGED <<flight, server>>
  /\ Track({"in"}) \/ Track({"out"})
  /\ pc' = "loop"
  /\ UNCHANGED <<objVars, status, async, unsent, rx, rows, outcome, received, notices,
                 expected, ev, operation, submitted>>

HandlePollOk ==
  /\ Handling("CONNECTING")
  /\ ~ PollFails
  /\ rounds = 1 /\ inbox # <<>>
  /\ rounds' = 0
  /\ inbox' = <<>>
  /\ status' = "ok"
  /\ connection_state' = "CONNECTED"
  /\ Untrack
  /\ pc' = "callback"
  /\ UNCHANGED <<is_error, results, async, unsent, rx, rows, outcome, flight, server,
                 received, reply, notices, expected, ev, operation, submitted>>

(* After the flushes of SENDING_QUERY: once all is sent, wait for the      *)
(* answer.                                                                 *)
SentOrWait(left) ==
  /\ IF left = 0 THEN AllSent ELSE UNCHANGED <<connection_state, epVars>>
  /\ pc' = "loop"

(* SENDING_QUERY, EPOLLOUT (pc = "handler"), and the flush after the       *)
(* consumption of input (pc = "reflush").                                  *)
HandleFlush ==
  /\ (Handling("SENDING_QUERY") /\ "out" \in ev) \/ pc = "reflush"
  /\ \/ /\ FlushFails
        /\ Fail
        /\ status' = "bad"
        /\ UNCHANGED <<connection_state, unsent, flight>>
     \/ /\ ~ FlushFails
        /\ Flush(unsent)
        /\ UNCHANGED <<inbox, server, is_error, status>>
        /\ IF pc = "handler" /\ "in" \in ev
           THEN pc' = "consume" /\ UNCHANGED <<connection_state, epVars>>
           ELSE SentOrWait(unsent')
  /\ UNCHANGED <<results, async, rx, rows, outcome, rounds, inbox, server, received, reply,
                 notices, expected, ev, operation, submitted>>

(* SENDING_QUERY, EPOLLIN: PQconsumeInput. *)
HandleConsume ==
  /\ (Handling("SENDING_QUERY") /\ "in" \in ev /\ "out" \notin ev) \/ pc = "consume"
  /\ \/ /\ ConsumeFails
        /\ Fail
        /\ status' = "bad"
        /\ UNCHANGED <<rx, inbox>>
     \/ /\ ~ ConsumeFails
        /\ Consume
        /\ pc' = "reflush"
        /\ UNCHANGED <<is_error, status, epVars>>
  /\ UNCHANGED <<connection_state, results, async, unsent, rows, outcome, rounds, flight,
                 server, received, reply, notices, expected, ev, operation, submitted>>

(* READING_RESPONSE: PQconsumeInput ... *)
HandleRead ==
  /\ Handling("READING_RESPONSE")
  /\ \/ /\ ConsumeFails
        /\ Fail
        /\ status' = "bad"
        /\ connection_state' = "IDLE"
        /\ UNCHANGED <<rx, inbox>>
     \/ /\ ~ ConsumeFails
        /\ Consume
        /\ pc' = "busy"
        /\ UNCHANGED <<connection_state, is_error, status, epVars>>
  /\ UNCHANGED <<results, async, unsent, rows, outcome, rounds, flight, server, received,
                 reply, notices, expected, ev, operation, submitted>>

(* Faulty variant: the socket is untracked before PQisBusy is asked.       *)
StillBusyUntracked == pc' = "loop" /\ UNCHANGED connection_state /\ Untrack

StillBusy == pc' = "loop" /\ UNCHANGED <<connection_state, epVars>>

(* ... PQisBusy: if a result is complete, stop tracking and collect it ... *)
IsBusy ==
  /\ pc = "busy"
  /\ Parse
  /\ IF async' = "busy"
     THEN StillBusy
     ELSE pc' = "get" /\ connection_state' = "IDLE" /\ Untrack
  /\ UNCHANGED <<is_error, results, status, unsent, rounds, netVars, ev, operation, submitted>>

(* ... PQgetResult until it returns NULL.  While libpq is busy the call    *)
(* parses what it has, then reads from the socket, and with nothing to     *)
(* read it waits: the thread is blocked.                                   *)
Getting == pc \in {"get", "drain"}
Blocked == Getting /\ async = "busy" /\ Ends(rx) = {} /\ inbox = <<>> /\ server = "up"

GetParse ==
  /\ Getting
  /\ async = "busy"
  /\ Ends(rx) # {}
  /\ Parse
  /\ UNCHANGED <<objVars, status, unsent, rounds, epVars, netVars, pc, ev, operation, submitted>>

GetRead ==
  /\ Getting
  /\ async = "busy"
  /\ Ends(rx) = {}
  /\ \/ /\ inbox # <<>>
        /\ Consume
        /\ UNCHANGED <<status, async, is_error, pc>>
     \/ /\ ConsumeFails                    \* an error result, then NULL
        /\ status' = "bad"
        /\ async' = "idle"
        /\ is_error' = TRUE
        /\ pc' = "drain"
        /\ UNCHANGED <<rx, inbox>>
  /\ UNCHANGED <<connection_state, results, unsent, rows, outcome, rounds, epVars, flight, server,
                 received, reply, notices, expected, ev, operation, submitted>>

(* Faulty variants: `temp` outlives the round of the loop; `if` instead of *)
(* `while`; an error calls back before the other results are thrown away.  *)
StoreAccumulates ==
  /\ results' = Append(results, rows + IF results = <<>> THEN 0 ELSE results[Len(results)])
  /\ UNCHANGED <<is_error, pc>>
StoreOnce      == results' = Append(results, rows) /\ pc' = "callback" /\ UNCHANGED is_error
ThrowUndrained == is_error' = TRUE /\ pc' = "callback" /\ UNCHANGED results

Store == results' = Append(results, rows) /\ UNCHANGED <<is_error, pc>>
Throw == is_error' = TRUE /\ pc' = "drain" /\ UNCHANGED results

(* A result: it is stored, or it is an error and the rest is thrown away. *)
GetResult ==
  /\ Getting
  /\ async = "ready"
  /\ async' = "busy"
  /\ rows' = 0
  /\ IF pc = "get" /\ outcome = "C" THEN Store ELSE Throw
  /\ UNCHANGED <<connection_state, status, unsent, rx, outcome, rounds, epVars, netVars, ev,
                 operation, submitted>>

GetNull ==
  /\ Getting
  /\ async = "idle"
  /\ pc' = "callback"
  /\ UNCHANGED <<objVars, pqVars, epVars, netVars, ev, operation, submitted>>

Thread ==
  \/ EpollWait \/ SendQueryPush \/ SendQueryPushFailed \/ CallBack
  \/ HandleError \/ HandlePollFailed \/ HandlePoll \/ HandlePollOk
  \/ HandleFlush \/ HandleConsume \/ HandleRead
  \/ IsBusy \/ GetParse \/ GetRead \/ GetResult \/ GetNull

-----------------------------------------------------------------------------
(* The database server and the network.  What arrives, or makes room,      *)
(* raises an edge if the mask asks for it.                                 *)
Edge(event) == ready' = (ready \/ event \in mask)

ServerFrame == UNCHANGED <<objVars, pqVars, mask, pc, ev, operation, submitted>>

ServerAccepts ==
  /\ server = "away" /\ status = "started"
  /\ server' = "up"
  /\ Edge("out")
  /\ ServerFrame /\ UNCHANGED <<inbox, flight, received, reply, notices, expected>>

(* The answers to a query of one or two statements. *)
Counts == UNION {[1..n -> 0..MaxRows] : n \in 1..2}
Result(n) == Append([i \in 1..n |-> "D"], "C")
Answer(counts) == Result(counts[1]) \o (IF Len(counts) = 2 THEN Result(counts[2]) ELSE <<>>)

ServerReceives ==
  /\ server = "up" /\ flight > 0
  /\ flight' = flight - 1
  /\ received' = received + 1
  /\ IF received' = QuerySize
     THEN \E counts \in Counts, error \in BOOLEAN :
            /\ expected' = counts
            /\ reply' = IF error THEN Result(counts[1]) \o <<"E", "Z">>
                        ELSE Append(Answer(counts), "Z")
     ELSE UNCHANGED <<expected, reply>>
  /\ Edge("out")
  /\ ServerFrame /\ UNCHANGED <<inbox, server, notices>>

(* n messages of the answer arrive in one segment. *)
ServerSends(n) ==
  /\ server = "up" /\ n <= Len(reply)
  /\ inbox' = inbox \o SubSeq(reply, 1, n)
  /\ reply' = SubSeq(reply, n + 1, Len(reply))
  /\ Edge("in")
  /\ ServerFrame /\ UNCHANGED <<flight, server, received, notices, expected>>

ServerNotice ==
  /\ server = "up" /\ status = "ok" /\ notices < MaxNotices
  /\ notices' = notices + 1
  /\ inbox' = Append(inbox, "N")
  /\ Edge("in")
  /\ ServerFrame /\ UNCHANGED <<flight, server, received, reply, expected>>

(* The server ends the session, perhaps saying so first ("E", FATAL), or   *)
(* the connection is reset; connecting may be refused.                     *)
ServerCloses ==
  /\ "closed" \in Failures
  /\ server = "up"
  /\ server' = "closed"
  /\ reply' = <<>>
  /\ inbox' \in {inbox, Append(inbox, "E")}
  /\ Edge("in")
  /\ ServerFrame /\ UNCHANGED <<flight, received, notices, expected>>

ServerResets ==
  /\ "reset" \in Failures
  /\ server # "reset" /\ status # "none"
  /\ server' = "reset"
  /\ reply' = <<>>
  /\ ready' = (mask # {})
  /\ ServerFrame /\ UNCHANGED <<inbox, flight, received, notices, expected>>

SendsSome == \E n \in 1..Len(reply) : ServerSends(n)
Server ==
  \/ ServerAccepts \/ ServerReceives \/ SendsSome
  \/ ServerNotice \/ ServerCloses \/ ServerResets

Next == ConnectDb \/ SendQuery \/ SendQueryRefused \/ Thread \/ Server

Spec == Init /\ [][Next]_vars

(* The thread runs while it can.  A server that is up accepts, reads the   *)
(* whole query and sends its whole answer.                                 *)
Fairness ==
  /\ WF_vars(Thread)
  /\ WF_vars(ServerAccepts)
  /\ WF_vars(ServerReceives)
  /\ WF_vars(SendsSome)
FairSpec == Spec /\ Fairness

-----------------------------------------------------------------------------
(***************************************************************************)
(* Properties                                                              *)
(***************************************************************************)

(* The callback of a query that did not fail finds the rows of this query, *)
(* of all its statements, and none of an earlier one, in whatever pieces   *)
(* they arrived (db_connection_type.h:194-229, 244-248).                   *)
OwnAnswer ==
  pc = "callback" /\ operation = "query" /\ ~ is_error => results = expected

(* An operation that has not called back is tracked when the handler is    *)
(* left, or no event could ever end it (db_connection_type.h:45-231).      *)
CallbackIsDue ==
  pc = "loop" /\ operation # "none" => mask # {}

(* A query is refused only when the connection to the server is broken: a  *)
(* query that failed for a reason of its own leaves libpq ready for the    *)
(* next (db_connection_type.h:64-69, 203-207).                             *)
RefusedOnlyWhenBroken ==
  [][SendQueryRefused => server \in {"closed", "reset"}]_vars

(* Edge-triggered reads lose nothing: when the handler is left, what the   *)
(* operation waits for is neither in the socket without an edge to come    *)
(* nor in libpq's buffer already (db_connection_type.h:155-188).  It takes *)
(* answers that fit in one PQconsumeInput and a server that sends nothing  *)
(* but answers: a notice can make the handler consume an answer before it  *)
(* waits for it, and the end of the stream may come with half an answer.   *)
OnlyAnswers == notices = 0 /\ server # "closed"
NoLostWakeup ==
  pc = "loop" /\ operation # "none" /\ OnlyAnswers => ready \/ (inbox = <<>> /\ Ends(rx) = {})

(* Under the same conditions, what was started calls back. *)
OperationEnds == (operation # "none") ~> (operation = "none" \/ ~ OnlyAnswers)

(* readme.md:29: "Pure database-driven route handled asynchronously via    *)
(* libpq and callbacks": what was started calls back, whatever the size of *)
(* the answer.                                                             *)
EveryOperationEnds == (operation # "none") ~> (operation = "none")

(* readme.md:34: "All execution paths are **non-blocking**": the handler   *)
(* never waits inside libpq.                                               *)
NeverBlocks == ~ Blocked
=============================================================================
