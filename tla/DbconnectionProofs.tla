-------------------------- MODULE DbconnectionProofs --------------------------
(***************************************************************************)
(* The safety properties of Dbconnection, for every value of the           *)
(* constants: three inductive invariants, each resting on the ones before  *)
(* it, and what follows from them.  ControlInv is about the thread and the *)
(* session, AnswerInv about the messages of the query under way, WakeInv   *)
(* about the edges epoll still has to report.                              *)
(***************************************************************************)
EXTENDS Dbconnection, FiniteSetTheorems, WellFoundedInduction, TLAPS

(***************************************************************************)
(* Control: the thread, the operation, the mask and the session agree.     *)
(***************************************************************************)

(* The types the control needs.                                            *)
CoreTypeOK ==
  /\ connection_state \in {"IDLE", "NOT_CONNECTED", "CONNECTING", "CONNECTED",
                           "SENDING_QUERY", "READING_RESPONSE"}
  /\ is_error \in BOOLEAN
  /\ results \in Seq(Nat)
  /\ status \in {"none", "started", "ok", "bad"}
  /\ async \in {"idle", "busy", "ready"}
  /\ unsent \in 0..QuerySize
  /\ rx \in Seq(Messages) /\ inbox \in Seq(Messages) /\ reply \in Seq(Messages)
  /\ rows \in Nat
  /\ outcome \in {"C", "E"}
  /\ rounds \in 0..(Rounds + 1)
  /\ mask \subseteq {"in", "out"}
  /\ ready \in BOOLEAN
  /\ flight \in 0..SendRoom
  /\ server \in {"away", "up", "closed", "reset"}
  /\ received \in Nat
  /\ notices \in 0..MaxNotices
  /\ pc \in {"loop", "handler", "push", "consume", "reflush", "busy", "get", "drain", "callback"}
  /\ ev \subseteq {"in", "out", "err"}
  /\ operation \in {"none", "connect", "query"}
  /\ submitted \in 0..MaxQueries
  /\ expected \in Seq(0..MaxRows)

(* Where the thread is, the operation, the state and the mask agree.       *)
ThreadInv ==
  /\ operation = "none" => pc = "loop"
  /\ operation = "none" \/ pc \in {"push", "get", "drain", "callback"} => mask = {} /\ ~ ready
  /\ pc \in {"push", "consume", "reflush", "busy", "get", "drain"} => operation = "query"
  /\ operation = "connect" /\ pc # "callback" =>
       connection_state = "CONNECTING" /\ mask \in {{"in"}, {"out"}}
  /\ operation = "query" /\ pc \in {"loop", "handler"} =>
       \/ connection_state = "SENDING_QUERY" /\ mask = {"in", "out"}
       \/ connection_state = "READING_RESPONSE" /\ mask = {"in"}
  /\ pc = "push" => connection_state = "SENDING_QUERY"
  /\ pc \in {"consume", "reflush"} =>
       connection_state = "SENDING_QUERY" /\ mask = {"in", "out"}
  /\ pc = "busy" => connection_state = "READING_RESPONSE" /\ mask = {"in"}
  /\ pc = "handler" => ev \subseteq mask \cup {"err"} /\ ("err" \in ev => server = "reset")
  /\ operation = "query" => Connected

(* What libpq knows of the connection, and what became of it.              *)
StatusInv ==
  /\ status = "none" => connection_state = "NOT_CONNECTED"
  /\ connection_state = "NOT_CONNECTED" => status = "none" /\ operation = "none"
  /\ status = "started" => connection_state = "CONNECTING"
  /\ status = "ok" => Connected
  /\ operation = "connect" /\ pc # "callback" => status = "started"
  /\ status = "bad" => server \in {"closed", "reset"}
  /\ server = "away" => status \in {"none", "started"} /\ inbox = <<>> /\ flight = 0 /\ unsent = 0

(* A query is under way and has not called back.                           *)
Live == operation = "query" /\ pc # "callback"

(* A query under way is one libpq is busy with, and the other way round    *)
(* unless the connection is broken.                                        *)
QueryInv ==
  /\ status \in {"none", "started"} => async = "idle"
  /\ async # "idle" => Live \/ server = "reset" \/ status = "bad"
  /\ Live /\ pc # "drain" => status = "ok" /\ ~ is_error
  /\ pc = "drain" => is_error /\ (status = "ok" \/ async = "idle")
  /\ Live /\ pc \notin {"get", "drain"} => async = "busy" /\ results = <<>>
  /\ (operation = "none" \/ operation = "connect") /\ Connected => ~ is_error /\ results = <<>>
  /\ connection_state \in {"NOT_CONNECTED", "CONNECTING"} => results = <<>>
  /\ connection_state = "NOT_CONNECTED" \/ (operation = "connect" /\ pc # "callback") =>
         ~ is_error

(* Until the login is over there is nothing but its answers, unless the    *)
(* server gave up.                                                         *)
LoginInv ==
  status \in {"none", "started"} =>
    /\ flight = 0 /\ unsent = 0
    /\ \A i \in DOMAIN inbox :
         inbox[i] = "A" \/ (inbox[i] = "E" /\ server \in {"closed", "reset"})
    /\ \A i \in DOMAIN reply : reply[i] = "A"

(* What the control keeps: the types, the thread and its operation, the    *)
(* session of libpq, the login and the query.                              *)
ControlInv == CoreTypeOK /\ ThreadInv /\ StatusInv /\ LoginInv /\ QueryInv

(* The two parts of a sequence of messages are sequences of messages.      *)
LEMMA CutType ==
  ASSUME NEW s \in Seq(Messages), NEW n \in Nat, n <= Len(s)
  PROVE  SubSeq(s, 1, n) \in Seq(Messages) /\ SubSeq(s, n + 1, Len(s)) \in Seq(Messages)
OBVIOUS

(* A set of naturals that is not empty has a least member (the order of    *)
(* the naturals is well founded).                                          *)
LEMMA LeastMember ==
  ASSUME NEW S \in SUBSET Nat, S # {}
  PROVE  \E i \in S : \A j \in S : i <= j
<1> DEFINE R == OpToRel(<, Nat)
<1>1. IsWellFoundedOn(R, Nat)
  BY NatLessThanWellFounded
<1>2. \A i, j \in Nat : i < j => <<i, j>> \in R
  BY DEF OpToRel
<1> HIDE DEF R
<1>3. \E i \in S : \A j \in S : ~ (<<j, i>> \in R)
  BY <1>1, WFMin
<1>4. \A i, j \in S : ~ (<<j, i>> \in R) => i <= j
  <2> SUFFICES ASSUME NEW i \in S, NEW j \in S, j < i PROVE <<j, i>> \in R
    OBVIOUS
  <2> QED
    BY <1>2
<1> QED
  BY <1>3, <1>4

(* addTrack and modifyTrack set the mask, and raise the edge or leave it.  *)
LEMMA TrackType ==
  ASSUME NEW m, Track(m)
  PROVE  mask' = m /\ ready' \in BOOLEAN
BY DEF Track

(* The sizes are positive, the bounds are naturals.                        *)
LEMMA Constants ==
  /\ QuerySize \in Nat /\ SendRoom \in Nat /\ ReadSize \in Nat /\ Rounds \in Nat
  /\ QuerySize > 0 /\ SendRoom > 0 /\ ReadSize > 0 /\ Rounds > 0
  /\ MaxRows \in Nat /\ MaxNotices \in Nat /\ MaxQueries \in Nat
BY DbconnectionAssumption

(* The empty sequence is one of results and one of messages.               *)
LEMMA EmptyType == <<>> \in Seq(Nat) /\ <<>> \in Seq(Messages)
OBVIOUS

(* A result is n rows and its completion.                                  *)
LEMMA ResultType ==
  ASSUME NEW n \in Nat
  PROVE  /\ Result(n) \in Seq(Messages) /\ Len(Result(n)) = n + 1
         /\ \A i \in 1..(n + 1) : Result(n)[i] = IF i = n + 1 THEN "C" ELSE "D"
<1>1. [i \in 1..n |-> "D"] \in Seq(Messages) /\ Len([i \in 1..n |-> "D"]) = n
  BY DEF Messages
<1>2. "C" \in Messages
  BY DEF Messages
<1> DEFINE s == [i \in 1..n |-> "D"]
<1>3. \A i \in 1..n : s[i] = "D"
  OBVIOUS
<1>4. Result(n) = Append(s, "C")
  BY DEF Result
<1> HIDE DEF s
<1> QED
  BY <1>1, <1>2, <1>3, <1>4 DEF s

(* What a query expects: the rows of one result or of two.                 *)
LEMMA CountsType ==
  ASSUME NEW c \in Counts
  PROVE  /\ c \in Seq(0..MaxRows) /\ Len(c) \in {1, 2}
         /\ \A i \in 1..Len(c) : c[i] \in 0..MaxRows /\ c[i] \in Nat
<1>1. PICK n \in 1..2 : c \in [1..n -> 0..MaxRows]
  BY DEF Counts
<1> DEFINE Bound == 0..MaxRows
<1>2. n \in Nat /\ c \in [1..n -> Bound]
  BY <1>1
<1> HIDE DEF Bound
<1>3. c \in Seq(Bound) /\ Len(c) = n /\ \A i \in 1..n : c[i] \in Bound
  BY <1>2
<1> QED
  BY <1>3, Constants DEF Bound

(* What the server sends for a query is a sequence of messages.            *)
LEMMA AnswerType ==
  ASSUME NEW c \in Counts
  PROVE  /\ c \in Seq(0..MaxRows)
         /\ Result(c[1]) \o <<"E", "Z">> \in Seq(Messages)
         /\ Append(Answer(c), "Z") \in Seq(Messages)
<1>1. Len(c) \in {1, 2} /\ c \in Seq(0..MaxRows) /\ \A i \in 1..Len(c) : c[i] \in Nat
  BY CountsType
<1>2. Result(c[1]) \in Seq(Messages)
  <2>1. c[1] \in Nat
    BY <1>1
  <2> QED
    BY <2>1, ResultType
<1>3. Len(c) = 2 => Result(c[2]) \in Seq(Messages)
  BY <1>1, ResultType
<1>4. Answer(c) \in Seq(Messages)
  <2>1. CASE Len(c) = 2
    BY <1>2, <1>3, <2>1 DEF Answer
  <2>2. CASE Len(c) = 1
    BY <1>2, <2>2 DEF Answer
  <2> QED
    BY <1>1, <2>1, <2>2
<1>5. <<"E", "Z">> \in Seq(Messages) /\ "Z" \in Messages
  BY DEF Messages
<1> QED
  BY <1>1, <1>2, <1>4, <1>5

(* A flush that leaves nothing: the query is sent, and only input is       *)
(* tracked.                                                                *)
LEMMA AllSentType ==
  ASSUME AllSent
  PROVE  connection_state' = "READING_RESPONSE" /\ mask' = {"in"} /\ ready' \in BOOLEAN
BY TrackType DEF AllSent

(* A flush that leaves chunks: the state stays, and output is tracked too. *)
LEMMA NotAllSentType ==
  ASSUME NotAllSent
  PROVE  connection_state' = connection_state /\ mask' = {"in", "out"} /\ ready' \in BOOLEAN
BY TrackType DEF NotAllSent

(* A flush moves chunks from libpq to the socket, within the room it has.  *)
LEMMA FlushType ==
  ASSUME CoreTypeOK, NEW chunks \in 0..QuerySize, Flush(chunks)
  PROVE  /\ unsent' \in 0..QuerySize /\ flight' \in 0..SendRoom
         /\ unsent' + flight' = chunks + flight
<1>1. /\ unsent' = chunks - Least(chunks, SendRoom - flight)
      /\ flight' = flight + Least(chunks, SendRoom - flight)
  BY DEF Flush
<1>2. flight \in 0..SendRoom
  BY DEF CoreTypeOK
<1> QED
  BY <1>1, <1>2, Constants DEF Least

(* A read moves messages from the socket to libpq.                         *)
LEMMA ConsumeType ==
  ASSUME CoreTypeOK, Consume
  PROVE  rx' \in Seq(Messages) /\ inbox' \in Seq(Messages)
<1> DEFINE n == Least(ReadSize, Len(inbox))
<1>1. n \in Nat /\ n <= Len(inbox)
  <2>1. Len(inbox) \in Nat
    BY DEF CoreTypeOK
  <2> QED
    BY <2>1, Constants DEF Least
<1>2. SubSeq(inbox, 1, n) \in Seq(Messages) /\ SubSeq(inbox, n + 1, Len(inbox)) \in Seq(Messages)
  BY <1>1, CutType DEF CoreTypeOK
<1>3. rx' = rx \o SubSeq(inbox, 1, n) /\ inbox' = SubSeq(inbox, n + 1, Len(inbox))
  BY DEF Consume
<1>4. rx \in Seq(Messages)
  BY DEF CoreTypeOK
<1> HIDE DEF n
<1> QED
  BY <1>2, <1>3, <1>4

(* Parsing leaves messages, counts rows and ends with a result, an error,  *)
(* or busy.                                                                *)
LEMMA ParseType ==
  ASSUME CoreTypeOK, Parse
  PROVE  /\ rx' \in Seq(Messages) /\ rows' \in Nat
         /\ outcome' \in {"C", "E"} /\ async' \in {"busy", "idle", "ready"}
<1> DEFINE upTo == IF Ends(rx) = {} THEN Len(rx)
                   ELSE CHOOSE i \in Ends(rx) : \A j \in Ends(rx) : i <= j
<1>1. upTo \in 0..Len(rx)
  <2>1. CASE Ends(rx) = {}
    BY <2>1 DEF CoreTypeOK
  <2>2. CASE Ends(rx) # {}
    <3>1. \E i \in Ends(rx) : \A j \in Ends(rx) : i <= j
      <4>1. Ends(rx) \in SUBSET Nat
        BY DEF Ends, CoreTypeOK
      <4> QED
        BY <2>2, <4>1, LeastMember
    <3> QED
      BY <2>2, <3>1 DEF Ends, CoreTypeOK
  <2> QED
    BY <2>1, <2>2
<1>2. SubSeq(rx, upTo + 1, Len(rx)) \in Seq(Messages)
  <2> HIDE DEF upTo
  <2>1. rx \in Seq(Messages) /\ upTo \in Nat /\ upTo <= Len(rx)
    BY <1>1 DEF CoreTypeOK
  <2> QED
    BY <2>1, CutType
<1>3. Cardinality({i \in 1..upTo : rx[i] = "D"}) \in Nat
  <2> HIDE DEF upTo
  <2>1. upTo \in Int
    BY <1>1
  <2>2. IsFiniteSet(1..upTo)
    BY <2>1, FS_Interval
  <2>3. IsFiniteSet({i \in 1..upTo : rx[i] = "D"})
    BY <2>2, FS_Subset, {i \in 1..upTo : rx[i] = "D"} \subseteq 1..upTo
  <2> QED
    BY <2>3, FS_CardinalityType
<1> HIDE DEF upTo
<1>4. /\ rx' = SubSeq(rx, upTo + 1, Len(rx))
      /\ rows' = rows + Cardinality({i \in 1..upTo : rx[i] = "D"})
  BY DEF Parse, upTo
<1>5. outcome' \in {"C", "E"} /\ async' \in {"busy", "idle", "ready"}
  BY DEF Parse, CoreTypeOK
<1>6. rows' \in Nat
  <2> DEFINE c == Cardinality({i \in 1..upTo : rx[i] = "D"})
  <2>1. rows \in Nat
    BY DEF CoreTypeOK
  <2>2. c \in Nat /\ rows' = rows + c
    BY <1>3, <1>4
  <2> HIDE DEF c
  <2> QED
    BY <2>1, <2>2
<1>7. rx' \in Seq(Messages)
  BY <1>2, <1>4
<1> QED
  BY <1>5, <1>6, <1>7

(* A login starts (connectDb): ControlInv is kept.                         *)
LEMMA ConnectDbControl == ControlInv /\ ConnectDb => ControlInv'
<1> SUFFICES ASSUME ControlInv, ConnectDb PROVE ControlInv'
  OBVIOUS
<1>0. CoreTypeOK /\ ThreadInv /\ StatusInv /\ LoginInv /\ QueryInv
  BY DEF ControlInv
<1>1. CoreTypeOK'
  BY <1>0, TrackType DEF CoreTypeOK, ConnectDb, netVars
<1>2. ThreadInv'
  BY TrackType DEF ThreadInv, ConnectDb
<1>3. StatusInv'
  BY <1>0 DEF StatusInv, ConnectDb, netVars
<1>4. LoginInv'
  BY <1>0 DEF StatusInv, LoginInv, ConnectDb, netVars
<1>5. QueryInv'
  BY <1>0 DEF StatusInv, QueryInv, Live, ConnectDb
<1> QED
  BY <1>1, <1>2, <1>3, <1>4, <1>5 DEF ControlInv

(* Libpq refuses the query and sendQuery calls back with an error:         *)
(* ControlInv is kept.                                                     *)
LEMMA SendQueryRefusedControl == ControlInv /\ SendQueryRefused => ControlInv'
<1> SUFFICES ASSUME ControlInv, SendQueryRefused PROVE ControlInv'
  OBVIOUS
<1>0. CoreTypeOK /\ ThreadInv /\ StatusInv /\ LoginInv /\ QueryInv
  BY DEF ControlInv
<1>1. CoreTypeOK'
  <2>1. is_error' \in BOOLEAN /\ status' \in {"none", "started", "ok", "bad"}
    BY <1>0 DEF CoreTypeOK, SendQueryRefused
  <2>2. submitted' \in 0..MaxQueries
    BY <1>0, Constants DEF CoreTypeOK, SendQueryRefused
  <2>3. pc' = "callback" /\ operation' = "query"
    BY DEF SendQueryRefused
  <2>4. UNCHANGED <<connection_state, results, async, unsent, rx, rows, outcome, rounds, mask,
                    ready, inbox, flight, server, received, reply, notices, expected, ev>>
    BY DEF SendQueryRefused, epVars, netVars
  <2> QED
    BY <1>0, <2>1, <2>2, <2>3, <2>4 DEF CoreTypeOK
<1>2. ThreadInv'
  BY <1>0 DEF ThreadInv, Connected, SendQueryRefused, epVars
<1>3. StatusInv'
  BY <1>0 DEF StatusInv, Connected, SendQueryRefused, netVars
<1>4. LoginInv'
  BY <1>0 DEF LoginInv, SendQueryRefused, netVars
<1>5. QueryInv'
  BY <1>0 DEF QueryInv, Live, Connected, SendQueryRefused
<1> QED
  BY <1>1, <1>2, <1>3, <1>4, <1>5 DEF ControlInv

(* Libpq is handed a query (sendQuery): ControlInv is kept.                *)
LEMMA SendQueryControl == ControlInv /\ SendQuery => ControlInv'
<1> SUFFICES ASSUME ControlInv, SendQuery PROVE ControlInv'
  OBVIOUS
<1>0. CoreTypeOK /\ ThreadInv /\ StatusInv /\ LoginInv /\ QueryInv
  BY DEF ControlInv
<1>1. CoreTypeOK'
  BY <1>0, Constants, FlushType DEF CoreTypeOK, SendQuery, epVars
<1>2. ThreadInv'
  BY <1>0 DEF ThreadInv, Connected, SendQuery, epVars
<1>3. StatusInv'
  BY <1>0 DEF StatusInv, Connected, SendQuery
<1>4. LoginInv'
  BY DEF LoginInv, SendQuery
<1>5. QueryInv'
  BY <1>0 DEF QueryInv, Live, SendQuery
<1> QED
  BY <1>1, <1>2, <1>3, <1>4, <1>5 DEF ControlInv

(* SendQuery flushes what libpq has kept of the query: ControlInv is kept. *)
LEMMA SendQueryPushControl == ControlInv /\ SendQueryPush => ControlInv'
<1> SUFFICES ASSUME ControlInv, SendQueryPush PROVE ControlInv'
  OBVIOUS
<1>0. CoreTypeOK /\ ThreadInv /\ StatusInv /\ LoginInv /\ QueryInv
  BY DEF ControlInv
<1>1. CoreTypeOK'
  <2>1. unsent' \in 0..QuerySize /\ flight' \in 0..SendRoom
    BY <1>0, FlushType DEF SendQueryPush, CoreTypeOK
  <2>2. /\ connection_state' \in {"IDLE", "NOT_CONNECTED", "CONNECTING", "CONNECTED",
                           "SENDING_QUERY", "READING_RESPONSE"}
        /\ mask' \subseteq {"in", "out"} /\ ready' \in BOOLEAN
    <3>1. CASE unsent' = 0
      BY <3>1, AllSentType DEF SendQueryPush
    <3>2. CASE unsent' # 0
      BY <1>0, <3>2, NotAllSentType DEF SendQueryPush, CoreTypeOK
    <3> QED
      BY <3>1, <3>2
  <2> QED
    BY <1>0, <2>1, <2>2 DEF CoreTypeOK, SendQueryPush
<1>2. ThreadInv'
  <2>1. \/ connection_state' = "READING_RESPONSE" /\ mask' = {"in"}
        \/ connection_state' = connection_state /\ mask' = {"in", "out"}
    <3>1. CASE unsent' = 0
      BY <3>1, AllSentType DEF SendQueryPush
    <3>2. CASE unsent' # 0
      BY <1>0, <3>2, NotAllSentType DEF SendQueryPush
    <3> QED
      BY <3>1, <3>2
  <2>2. pc' = "loop" /\ operation' = "query" /\ connection_state = "SENDING_QUERY"
    BY <1>0 DEF SendQueryPush, ThreadInv
  <2> QED
    BY <2>1, <2>2 DEF ThreadInv, Connected
<1>3. StatusInv'
  BY <1>0 DEF ThreadInv, StatusInv, Connected, SendQueryPush, AllSent, NotAllSent
<1>4. LoginInv'
  BY <1>0 DEF ThreadInv, QueryInv, LoginInv, Live, SendQueryPush
<1>5. QueryInv'
  BY <1>0 DEF ThreadInv, QueryInv, Live, SendQueryPush
<1> QED
  BY <1>1, <1>2, <1>3, <1>4, <1>5 DEF ControlInv

(* The flush of sendQuery meets a broken socket: ControlInv is kept.       *)
LEMMA SendQueryPushFailedControl == ControlInv /\ SendQueryPushFailed => ControlInv'
<1> SUFFICES ASSUME ControlInv, SendQueryPushFailed PROVE ControlInv'
  OBVIOUS
<1>0. CoreTypeOK /\ ThreadInv /\ StatusInv /\ LoginInv /\ QueryInv
  BY DEF ControlInv
<1>1. CoreTypeOK'
  BY <1>0 DEF CoreTypeOK, SendQueryPushFailed, epVars, netVars
<1>2. ThreadInv'
  BY <1>0 DEF ThreadInv, Connected, SendQueryPushFailed, epVars
<1>3. StatusInv'
  BY <1>0 DEF StatusInv, SendQueryPushFailed, FlushFails, netVars
<1>4. LoginInv'
  BY DEF LoginInv, SendQueryPushFailed
<1>5. QueryInv'
  BY <1>0 DEF ThreadInv, QueryInv, Live, SendQueryPushFailed
<1> QED
  BY <1>1, <1>2, <1>3, <1>4, <1>5 DEF ControlInv

(* The operation is over and its callback runs: ControlInv is kept.        *)
LEMMA CallBackControl == ControlInv /\ CallBack => ControlInv'
<1> SUFFICES ASSUME ControlInv, CallBack PROVE ControlInv'
  OBVIOUS
<1>0. CoreTypeOK /\ ThreadInv /\ StatusInv /\ LoginInv /\ QueryInv
  BY DEF ControlInv
<1>1. CoreTypeOK'
  <2>1. results' \in Seq(Nat) /\ is_error' \in BOOLEAN
    BY <1>0, EmptyType DEF CoreTypeOK, CallBack
  <2> QED
    BY <1>0, <2>1 DEF CoreTypeOK, CallBack, pqVars, epVars, netVars
<1>2. ThreadInv'
  BY <1>0 DEF ThreadInv, CallBack, epVars
<1>3. StatusInv'
  BY <1>0 DEF StatusInv, Connected, CallBack, pqVars, netVars
<1>4. LoginInv'
  BY <1>0 DEF LoginInv, CallBack, pqVars, netVars
<1>5. QueryInv'
  BY <1>0 DEF CoreTypeOK, QueryInv, Live, Connected, CallBack, pqVars, netVars
<1> QED
  BY <1>1, <1>2, <1>3, <1>4, <1>5 DEF ControlInv

(* What is pending is reported to the handler (epoll_wait): ControlInv is  *)
(* kept.                                                                   *)
LEMMA EpollWaitControl == ControlInv /\ EpollWait => ControlInv'
<1> SUFFICES ASSUME ControlInv, EpollWait PROVE ControlInv'
  OBVIOUS
<1>0. CoreTypeOK /\ ThreadInv /\ StatusInv /\ LoginInv /\ QueryInv
  BY DEF ControlInv
<1>1. CoreTypeOK'
  <2>1. ev' \subseteq {"in", "out", "err"} /\ pc' \in {"loop", "handler"} /\ ready' \in BOOLEAN
    BY DEF EpollWait, Pending
  <2>2. UNCHANGED <<objVars, pqVars, mask, netVars, operation, submitted>>
    BY DEF EpollWait
  <2> QED
    BY <1>0, <2>1, <2>2 DEF CoreTypeOK, objVars, pqVars, netVars
<1>2. ThreadInv'
  BY <1>0 DEF ThreadInv, Connected, EpollWait, Pending, objVars, netVars
<1>3. StatusInv'
  BY <1>0 DEF StatusInv, Connected, EpollWait, objVars, pqVars, netVars
<1>4. LoginInv'
  BY <1>0 DEF LoginInv, EpollWait, pqVars, netVars
<1>5. QueryInv'
  BY <1>0 DEF QueryInv, Live, Connected, EpollWait, objVars, pqVars, netVars
<1> QED
  BY <1>1, <1>2, <1>3, <1>4, <1>5 DEF ControlInv

(* The handler sees EPOLLERR and calls back: ControlInv is kept.           *)
LEMMA HandleErrorControl == ControlInv /\ HandleError => ControlInv'
<1> SUFFICES ASSUME ControlInv, HandleError PROVE ControlInv'
  OBVIOUS
<1>0. CoreTypeOK /\ ThreadInv /\ StatusInv /\ LoginInv /\ QueryInv
  BY DEF ControlInv
<1>1. CoreTypeOK'
  BY <1>0 DEF CoreTypeOK, ThreadInv, HandleError, Fail, Untrack, pqVars, netVars
<1>2. ThreadInv'
  BY <1>0 DEF ThreadInv, Connected, HandleError, Fail, Untrack
<1>3. StatusInv'
  BY <1>0 DEF StatusInv, Connected, HandleError, pqVars, netVars
<1>4. LoginInv'
  BY <1>0 DEF LoginInv, HandleError, pqVars, netVars
<1>5. QueryInv'
  BY <1>0 DEF ThreadInv, StatusInv, QueryInv, Live, Connected, HandleError, Fail, pqVars, netVars
<1> QED
  BY <1>1, <1>2, <1>3, <1>4, <1>5 DEF ControlInv

(* PQconnectPoll reports a failure: ControlInv is kept.                    *)
LEMMA HandlePollFailedControl == ControlInv /\ HandlePollFailed => ControlInv'
<1> SUFFICES ASSUME ControlInv, HandlePollFailed PROVE ControlInv'
  OBVIOUS
<1>0. CoreTypeOK /\ ThreadInv /\ StatusInv /\ LoginInv /\ QueryInv
  BY DEF ControlInv
<1>1. CoreTypeOK'
  BY <1>0 DEF CoreTypeOK, HandlePollFailed, Fail, Untrack, netVars
<1>2. ThreadInv'
  BY <1>0 DEF ThreadInv, HandlePollFailed, Handling, Fail, Untrack
<1>3. StatusInv'
  BY <1>0 DEF CoreTypeOK, StatusInv, LoginInv, Connected, HandlePollFailed, Handling, PollFails,
     ConsumeFails, Fail, netVars
<1>4. LoginInv'
  BY DEF LoginInv, HandlePollFailed
<1>5. QueryInv'
  BY <1>0 DEF QueryInv, Live, Connected, HandlePollFailed, Handling, Fail
<1> QED
  BY <1>1, <1>2, <1>3, <1>4, <1>5 DEF ControlInv

(* PQconnectPoll asks for more of the login: ControlInv is kept.           *)
LEMMA HandlePollControl == ControlInv /\ HandlePoll => ControlInv'
<1> SUFFICES ASSUME ControlInv, HandlePoll PROVE ControlInv'
  OBVIOUS
<1>0. CoreTypeOK /\ ThreadInv /\ StatusInv /\ LoginInv /\ QueryInv
  BY DEF ControlInv
<1>1. CoreTypeOK'
  <2>1. inbox' \in Seq(Messages)
    BY EmptyType DEF HandlePoll
  <2>2. rounds' \in 0..(Rounds + 1)
    BY <1>0, Constants DEF HandlePoll, CoreTypeOK
  <2>3. reply' \in Seq(Messages)
    <3>1. <<"A">> \in Seq(Messages)
      BY DEF Messages
    <3> QED
      BY <1>0, <3>1 DEF HandlePoll, CoreTypeOK
  <2>4. mask' \subseteq {"in", "out"} /\ ready' \in BOOLEAN
    BY TrackType DEF HandlePoll
  <2> QED
    BY <1>0, <2>2, <2>3, <2>4 DEF CoreTypeOK, HandlePoll, objVars
<1>2. ThreadInv'
  BY <1>0, TrackType DEF ThreadInv, HandlePoll, Handling, objVars
<1>3. StatusInv'
  BY <1>0 DEF StatusInv, Connected, HandlePoll, Handling, objVars
<1>4. LoginInv'
  BY <1>0 DEF LoginInv, HandlePoll
<1>5. QueryInv'
  BY <1>0 DEF QueryInv, Live, Connected, HandlePoll, Handling, objVars
<1> QED
  BY <1>1, <1>2, <1>3, <1>4, <1>5 DEF ControlInv

(* PQconnectPoll reports that the login is complete: ControlInv is kept.   *)
LEMMA HandlePollOkControl == ControlInv /\ HandlePollOk => ControlInv'
<1> SUFFICES ASSUME ControlInv, HandlePollOk PROVE ControlInv'
  OBVIOUS
<1>0. CoreTypeOK /\ ThreadInv /\ StatusInv /\ LoginInv /\ QueryInv
  BY DEF ControlInv
<1>1. CoreTypeOK'
  <2>1. inbox' \in Seq(Messages) /\ rounds' \in 0..(Rounds + 1)
    BY EmptyType, Constants DEF HandlePollOk
  <2> QED
    BY <1>0, <2>1 DEF CoreTypeOK, HandlePollOk, Untrack
<1>2. ThreadInv'
  BY <1>0 DEF ThreadInv, HandlePollOk, Handling, Untrack
<1>3. StatusInv'
  BY <1>0 DEF StatusInv, Connected, HandlePollOk
<1>4. LoginInv'
  BY DEF LoginInv, HandlePollOk
<1>5. QueryInv'
  <2>1. operation = "connect" /\ async = "idle" /\ ~ is_error /\ results = <<>>
    BY <1>0 DEF HandlePollOk, Handling, CoreTypeOK, ThreadInv, QueryInv, StatusInv
  <2> QED
    BY <2>1 DEF QueryInv, HandlePollOk, Live
<1> QED
  BY <1>1, <1>2, <1>3, <1>4, <1>5 DEF ControlInv

(* The handler flushes the rest of the query: ControlInv is kept.          *)
LEMMA HandleFlushControl == ControlInv /\ HandleFlush => ControlInv'
<1> SUFFICES ASSUME ControlInv, HandleFlush PROVE ControlInv'
  OBVIOUS
<1>0. CoreTypeOK /\ ThreadInv /\ StatusInv /\ LoginInv /\ QueryInv
  BY DEF ControlInv
<1>1. CoreTypeOK'
  <2>1. unsent' \in 0..QuerySize /\ flight' \in 0..SendRoom
    BY <1>0, FlushType DEF HandleFlush, CoreTypeOK
  <2>2. mask' \subseteq {"in", "out"} /\ ready' \in BOOLEAN
    <3>1. CASE FlushFails
      BY <1>0, <3>1 DEF HandleFlush, Fail, Untrack
    <3>2. CASE ~ FlushFails
      BY <1>0, <3>2, AllSentType DEF HandleFlush, SentOrWait, epVars, CoreTypeOK
    <3> QED
      BY <3>1, <3>2
  <2>3. /\ connection_state' \in {"IDLE", "NOT_CONNECTED", "CONNECTING", "CONNECTED",
                                  "SENDING_QUERY", "READING_RESPONSE"}
        /\ is_error' \in BOOLEAN
        /\ status' \in {"none", "started", "ok", "bad"} /\ pc' \in {"loop", "consume", "callback"}
    BY <1>0 DEF HandleFlush, Fail, SentOrWait, AllSent, CoreTypeOK
  <2>4. UNCHANGED <<results, async, rx, rows, outcome, rounds, inbox, server, received, reply,
                 notices, expected, ev, operation, submitted>>
    BY DEF HandleFlush
  <2> QED
    BY <1>0, <2>1, <2>2, <2>3, <2>4 DEF CoreTypeOK
<1>2. ThreadInv'
  BY <1>0, TrackType DEF CoreTypeOK, ThreadInv, Connected, HandleFlush, Handling, Fail, Untrack,
     SentOrWait, AllSent, epVars
<1>3. StatusInv'
  BY <1>0 DEF ThreadInv, StatusInv, Connected, HandleFlush, Handling, FlushFails, SentOrWait,
     AllSent
<1>4. LoginInv'
  BY <1>0 DEF ThreadInv, StatusInv, LoginInv, HandleFlush, Handling
<1>5. QueryInv'
  BY <1>0 DEF ThreadInv, QueryInv, Live, HandleFlush, Handling, Fail, SentOrWait, AllSent
<1> QED
  BY <1>1, <1>2, <1>3, <1>4, <1>5 DEF ControlInv

(* PQconsumeInput reads before the whole query is sent: ControlInv is      *)
(* kept.                                                                   *)
LEMMA HandleConsumeControl == ControlInv /\ HandleConsume => ControlInv'
<1> SUFFICES ASSUME ControlInv, HandleConsume PROVE ControlInv'
  OBVIOUS
<1>0. CoreTypeOK /\ ThreadInv /\ StatusInv /\ LoginInv /\ QueryInv
  BY DEF ControlInv
<1>1. CoreTypeOK'
  <2>1. rx' \in Seq(Messages) /\ inbox' \in Seq(Messages)
    BY <1>0, ConsumeType DEF HandleConsume, CoreTypeOK
  <2>2. /\ mask' \subseteq {"in", "out"} /\ ready' \in BOOLEAN /\ is_error' \in BOOLEAN
        /\ status' \in {"none", "started", "ok", "bad"} /\ pc' \in {"reflush", "callback"}
    BY <1>0 DEF HandleConsume, Fail, Untrack, epVars, CoreTypeOK
  <2>3. UNCHANGED <<connection_state, results, async, unsent, rows, outcome, rounds, flight,
                    server, received, reply, notices, expected, ev, operation, submitted>>
    BY DEF HandleConsume
  <2> QED
    BY <1>0, <2>1, <2>2, <2>3 DEF CoreTypeOK
<1>2. ThreadInv'
  BY <1>0 DEF CoreTypeOK, ThreadInv, Connected, HandleConsume, Handling, Fail, Untrack, epVars
<1>3. StatusInv'
  BY <1>0 DEF ThreadInv, StatusInv, Connected, HandleConsume, Handling, ConsumeFails
<1>4. LoginInv'
  BY <1>0 DEF ThreadInv, StatusInv, LoginInv, HandleConsume, Handling
<1>5. QueryInv'
  BY <1>0 DEF ThreadInv, QueryInv, Live, HandleConsume, Handling, Fail
<1> QED
  BY <1>1, <1>2, <1>3, <1>4, <1>5 DEF ControlInv

(* PQconsumeInput reads what the socket has: ControlInv is kept.           *)
LEMMA HandleReadControl == ControlInv /\ HandleRead => ControlInv'
<1> SUFFICES ASSUME ControlInv, HandleRead PROVE ControlInv'
  OBVIOUS
<1>0. CoreTypeOK /\ ThreadInv /\ StatusInv /\ LoginInv /\ QueryInv
  BY DEF ControlInv
<1>1. CoreTypeOK'
  <2>1. rx' \in Seq(Messages) /\ inbox' \in Seq(Messages)
    <3>1. CASE ConsumeFails
      BY <1>0, <3>1 DEF CoreTypeOK, HandleRead
    <3>2. CASE ~ ConsumeFails
      BY <1>0, <3>2, ConsumeType DEF HandleRead
    <3> QED
      BY <3>1, <3>2
  <2>2. /\ connection_state' \in {connection_state, "IDLE"} /\ is_error' \in {is_error, TRUE}
        /\ status' \in {status, "bad"} /\ pc' \in {"busy", "callback"}
        /\ mask' \in {mask, {}} /\ ready' \in {ready, FALSE}
    BY DEF HandleRead, Fail, Untrack, epVars
  <2>3. UNCHANGED <<results, async, unsent, rows, outcome, rounds, flight, server, received,
                    reply, notices, expected, ev, operation, submitted>>
    BY DEF HandleRead
  <2>4. /\ connection_state' \in {"IDLE", "NOT_CONNECTED", "CONNECTING", "CONNECTED",
                                 "SENDING_QUERY", "READING_RESPONSE"}
        /\ is_error' \in BOOLEAN
        /\ status' \in {"none", "started", "ok", "bad"}
    BY <1>0, <2>2 DEF CoreTypeOK
  <2>5. mask' \subseteq {"in", "out"} /\ ready' \in BOOLEAN
    BY <1>0, <2>2 DEF CoreTypeOK
  <2>6. pc' \in {"loop", "handler", "push", "consume", "reflush", "busy", "get", "drain",
                "callback"}
    BY <2>2
  <2> QED
    BY <1>0, <2>1, <2>3, <2>4, <2>5, <2>6 DEF CoreTypeOK
<1>2. ThreadInv'
  BY <1>0 DEF CoreTypeOK, ThreadInv, Connected, HandleRead, Handling, Fail, Untrack, epVars
<1>3. StatusInv'
  BY <1>0 DEF StatusInv, Connected, HandleRead, Handling, ConsumeFails
<1>4. LoginInv'
  BY <1>0 DEF StatusInv, LoginInv, HandleRead, Handling
<1>5. QueryInv'
  BY <1>0 DEF ThreadInv, QueryInv, Live, HandleRead, Handling, Fail
<1> QED
  BY <1>1, <1>2, <1>3, <1>4, <1>5 DEF ControlInv

(* PQisBusy parses what has been read: ControlInv is kept.                 *)
LEMMA IsBusyControl == ControlInv /\ IsBusy => ControlInv'
<1> SUFFICES ASSUME ControlInv, IsBusy PROVE ControlInv'
  OBVIOUS
<1>0. CoreTypeOK /\ ThreadInv /\ StatusInv /\ LoginInv /\ QueryInv
  BY DEF ControlInv
<1>1. CoreTypeOK'
  BY <1>0, ParseType DEF CoreTypeOK, ThreadInv, IsBusy, StillBusy, Untrack, epVars, netVars
<1>2. ThreadInv'
  BY <1>0 DEF ThreadInv, Connected, IsBusy, StillBusy, Untrack, epVars
<1>3. StatusInv'
  BY <1>0 DEF ThreadInv, StatusInv, Connected, IsBusy, StillBusy, netVars
<1>4. LoginInv'
  BY <1>0 DEF LoginInv, IsBusy, netVars
<1>5. QueryInv'
  BY <1>0 DEF ThreadInv, QueryInv, Live, IsBusy, StillBusy
<1> QED
  BY <1>1, <1>2, <1>3, <1>4, <1>5 DEF ControlInv

(* PQgetResult parses what has been read: ControlInv is kept.              *)
LEMMA GetParseControl == ControlInv /\ GetParse => ControlInv'
<1> SUFFICES ASSUME ControlInv, GetParse PROVE ControlInv'
  OBVIOUS
<1>0. CoreTypeOK /\ ThreadInv /\ StatusInv /\ LoginInv /\ QueryInv
  BY DEF ControlInv
<1>1. CoreTypeOK'
  BY <1>0, ParseType DEF CoreTypeOK, GetParse, objVars, epVars, netVars
<1>2. ThreadInv'
  BY <1>0 DEF ThreadInv, Connected, GetParse, objVars, epVars, netVars
<1>3. StatusInv'
  BY <1>0 DEF StatusInv, Connected, GetParse, objVars, netVars
<1>4. LoginInv'
  BY <1>0 DEF LoginInv, GetParse, netVars
<1>5. QueryInv'
  BY <1>0 DEF QueryInv, Live, Connected, GetParse, Getting, objVars, netVars
<1> QED
  BY <1>1, <1>2, <1>3, <1>4, <1>5 DEF ControlInv

(* PQgetResult reads from the socket while it waits: ControlInv is kept.   *)
LEMMA GetReadControl == ControlInv /\ GetRead => ControlInv'
<1> SUFFICES ASSUME ControlInv, GetRead PROVE ControlInv'
  OBVIOUS
<1>0. CoreTypeOK /\ ThreadInv /\ StatusInv /\ LoginInv /\ QueryInv
  BY DEF ControlInv
<1>1. CoreTypeOK'
  <2>1. rx' \in Seq(Messages) /\ inbox' \in Seq(Messages)
    BY <1>0, ConsumeType DEF GetRead, CoreTypeOK
  <2>2. /\ async' \in {"idle", "busy", "ready"} /\ is_error' \in BOOLEAN
        /\ status' \in {"none", "started", "ok", "bad"}
        /\ pc' \in {"loop", "handler", "push", "consume", "reflush", "busy", "get", "drain",
                    "callback"}
    BY <1>0 DEF GetRead, Getting, CoreTypeOK
  <2>3. UNCHANGED <<connection_state, results, unsent, rows, outcome, rounds, mask, ready, flight,
                    server, received, reply, notices, expected, ev, operation, submitted>>
    BY DEF GetRead, epVars
  <2> QED
    BY <1>0, <2>1, <2>2, <2>3 DEF CoreTypeOK
<1>2. ThreadInv'
  BY <1>0 DEF ThreadInv, Connected, GetRead, Getting, epVars
<1>3. StatusInv'
  BY <1>0 DEF StatusInv, QueryInv, Connected, GetRead, Getting, ConsumeFails
<1>4. LoginInv'
  BY <1>0 DEF QueryInv, LoginInv, GetRead
<1>5. QueryInv'
  BY <1>0 DEF ThreadInv, QueryInv, Live, Connected, GetRead, Getting
<1> QED
  BY <1>1, <1>2, <1>3, <1>4, <1>5 DEF ControlInv

(* PQgetResult returns a result, which is stored: ControlInv is kept.      *)
LEMMA GetResultControl == ControlInv /\ GetResult => ControlInv'
<1> SUFFICES ASSUME ControlInv, GetResult PROVE ControlInv'
  OBVIOUS
<1>0. CoreTypeOK /\ ThreadInv /\ StatusInv /\ LoginInv /\ QueryInv
  BY DEF ControlInv
<1>1. CoreTypeOK'
  <2>1. results' \in Seq(Nat)
    <3>1. Append(results, rows) \in Seq(Nat)
      BY <1>0 DEF CoreTypeOK
    <3> QED
      BY <1>0, <3>1 DEF GetResult, Store, Throw, CoreTypeOK
  <2>2. /\ is_error' \in BOOLEAN
        /\ pc' \in {"loop", "handler", "push", "consume", "reflush", "busy", "get", "drain",
                    "callback"}
        /\ async' = "busy"
        /\ rows' = 0
    BY <1>0 DEF GetResult, Store, Throw, CoreTypeOK
  <2> QED
    BY <1>0, <2>1, <2>2 DEF CoreTypeOK, GetResult, epVars, netVars
<1>2. ThreadInv'
  BY <1>0 DEF ThreadInv, Connected, GetResult, Getting, Store, Throw, epVars
<1>3. StatusInv'
  BY <1>0 DEF StatusInv, Connected, GetResult, Getting, netVars
<1>4. LoginInv'
  BY <1>0 DEF LoginInv, GetResult, netVars
<1>5. QueryInv'
  BY <1>0 DEF ThreadInv, QueryInv, Live, Connected, GetResult, Getting, Store, Throw
<1> QED
  BY <1>1, <1>2, <1>3, <1>4, <1>5 DEF ControlInv

(* PQgetResult returns NULL and the query is over: ControlInv is kept.     *)
LEMMA GetNullControl == ControlInv /\ GetNull => ControlInv'
<1> SUFFICES ASSUME ControlInv, GetNull PROVE ControlInv'
  OBVIOUS
<1>0. CoreTypeOK /\ ThreadInv /\ StatusInv /\ LoginInv /\ QueryInv
  BY DEF ControlInv
<1>1. CoreTypeOK'
  BY <1>0 DEF CoreTypeOK, ThreadInv, GetNull, Getting, objVars, pqVars, epVars, netVars
<1>2. ThreadInv'
  BY <1>0 DEF ThreadInv, Connected, GetNull, Getting, objVars, epVars
<1>3. StatusInv'
  BY <1>0 DEF StatusInv, Connected, GetNull, objVars, pqVars, netVars
<1>4. LoginInv'
  BY <1>0 DEF LoginInv, GetNull, pqVars, netVars
<1>5. QueryInv'
  BY <1>0 DEF QueryInv, Live, Connected, GetNull, objVars, pqVars
<1> QED
  BY <1>1, <1>2, <1>3, <1>4, <1>5 DEF ControlInv

(* The server answers a login: ControlInv is kept.                         *)
LEMMA ServerAcceptsControl == ControlInv /\ ServerAccepts => ControlInv'
<1> SUFFICES ASSUME ControlInv, ServerAccepts PROVE ControlInv'
  OBVIOUS
<1>0. CoreTypeOK /\ ThreadInv /\ StatusInv /\ LoginInv /\ QueryInv
  BY DEF ControlInv
<1>1. CoreTypeOK'
  BY <1>0 DEF CoreTypeOK, ThreadInv, ServerAccepts, Edge, ServerFrame, objVars, pqVars
<1>2. ThreadInv'
  BY <1>0 DEF ThreadInv, Connected, ServerAccepts, Edge, ServerFrame, objVars
<1>3. StatusInv'
  BY <1>0 DEF StatusInv, ServerAccepts, ServerFrame, objVars, pqVars
<1>4. LoginInv'
  BY <1>0 DEF LoginInv, ServerAccepts, ServerFrame, pqVars
<1>5. QueryInv'
  BY <1>0 DEF QueryInv, Live, Connected, ServerAccepts, ServerFrame, objVars, pqVars
<1> QED
  BY <1>1, <1>2, <1>3, <1>4, <1>5 DEF ControlInv

(* The server takes chunks of the query out of the socket: ControlInv is   *)
(* kept.                                                                   *)
LEMMA ServerReceivesControl == ControlInv /\ ServerReceives => ControlInv'
<1> SUFFICES ASSUME ControlInv, ServerReceives PROVE ControlInv'
  OBVIOUS
<1>0. CoreTypeOK /\ ThreadInv /\ StatusInv /\ LoginInv /\ QueryInv
  BY DEF ControlInv
<1>1. CoreTypeOK'
  <2>1. expected' \in Seq(0..MaxRows) /\ reply' \in Seq(Messages)
    <3>1. CASE received' = QuerySize
      <4>1. PICK counts \in Counts, error \in BOOLEAN :
              /\ expected' = counts
              /\ reply' = IF error THEN Result(counts[1]) \o <<"E", "Z">>
                          ELSE Append(Answer(counts), "Z")
        BY <3>1 DEF ServerReceives
      <4> QED
        BY <4>1, AnswerType
    <3>2. CASE received' # QuerySize
      BY <1>0, <3>2 DEF ServerReceives, CoreTypeOK
    <3> QED
      BY <3>1, <3>2
  <2>2. flight' \in 0..SendRoom /\ received' \in Nat /\ ready' \in BOOLEAN
    <3>1. flight \in 0..SendRoom /\ received \in Nat
      BY <1>0 DEF CoreTypeOK
    <3>2. flight > 0 /\ flight' = flight - 1 /\ received' = received + 1
      BY DEF ServerReceives
    <3>3. ready' \in BOOLEAN
      BY <1>0 DEF ServerReceives, CoreTypeOK, Edge
    <3> QED
      BY <3>1, <3>2, <3>3, Constants
  <2>3. UNCHANGED <<connection_state, is_error, results, status, async, unsent, rx, rows,
                    outcome, rounds, mask, inbox, server, notices, pc, ev, operation, submitted>>
    BY DEF ServerReceives, ServerFrame, objVars, pqVars
  <2> QED
    BY <1>0, <2>1, <2>2, <2>3 DEF CoreTypeOK
<1>2. ThreadInv'
  BY <1>0 DEF ThreadInv, Connected, ServerReceives, Edge, ServerFrame, objVars
<1>3. StatusInv'
  BY <1>0 DEF StatusInv, Connected, ServerReceives, ServerFrame, objVars, pqVars
<1>4. LoginInv'
  BY <1>0 DEF LoginInv, ServerReceives, ServerFrame, pqVars
<1>5. QueryInv'
  BY <1>0 DEF QueryInv, Live, Connected, ServerReceives, ServerFrame, objVars, pqVars
<1> QED
  BY <1>1, <1>2, <1>3, <1>4, <1>5 DEF ControlInv

(* The server's next segment arrives: ControlInv is kept.                  *)
LEMMA ServerSendsControl == ControlInv /\ SendsSome => ControlInv'
<1> SUFFICES ASSUME ControlInv, SendsSome PROVE ControlInv'
  OBVIOUS
<1>0. CoreTypeOK /\ ThreadInv /\ StatusInv /\ LoginInv /\ QueryInv
  BY DEF ControlInv
<1> PICK n \in 1..Len(reply) : ServerSends(n)
  BY DEF SendsSome
<1>1. CoreTypeOK'
  <2>1. /\ SubSeq(reply, 1, n) \in Seq(Messages)
        /\ SubSeq(reply, n + 1, Len(reply)) \in Seq(Messages)
        /\ inbox \in Seq(Messages)
    BY <1>0, CutType DEF CoreTypeOK
  <2>2. inbox' \in Seq(Messages) /\ reply' \in Seq(Messages)
    BY <2>1 DEF ServerSends
  <2>3. ready' \in BOOLEAN
    BY DEF ServerSends, Edge
  <2> QED
    BY <1>0, <2>2, <2>3 DEF CoreTypeOK, ServerSends, ServerFrame, objVars, pqVars
<1>2. ThreadInv'
  BY <1>0 DEF ThreadInv, Connected, ServerSends, Edge, ServerFrame, objVars
<1>3. StatusInv'
  BY <1>0 DEF StatusInv, Connected, ServerSends, ServerFrame, objVars, pqVars
<1>4. LoginInv'
  <2> SUFFICES ASSUME status \in {"none", "started"}
               PROVE  LoginInv'
    BY DEF LoginInv, ServerSends, ServerFrame, pqVars
  <2>1. \A i \in DOMAIN reply' : reply'[i] = "A"
    <3>1. reply \in Seq(Messages) /\ \A i \in DOMAIN reply : reply[i] = "A"
      BY <1>0 DEF LoginInv, CoreTypeOK
    <3>2. reply' = SubSeq(reply, n + 1, Len(reply))
      BY DEF ServerSends
    <3> QED
      BY <3>1, <3>2
  <2>2. \A i \in DOMAIN inbox' :
          inbox'[i] = "A" \/ (inbox'[i] = "E" /\ server \in {"closed", "reset"})
    <3>1. reply \in Seq(Messages) /\ \A i \in DOMAIN reply : reply[i] = "A"
      BY <1>0 DEF LoginInv, CoreTypeOK
    <3>2. /\ inbox \in Seq(Messages)
          /\ \A i \in DOMAIN inbox :
               inbox[i] = "A" \/ (inbox[i] = "E" /\ server \in {"closed", "reset"})
      BY <1>0 DEF LoginInv, CoreTypeOK
    <3> DEFINE t == SubSeq(reply, 1, n)
    <3>3. t \in Seq(Messages) /\ \A i \in DOMAIN t : t[i] = "A"
      BY <3>1, CutType
    <3>4. inbox' = inbox \o t
      BY DEF ServerSends
    <3> HIDE DEF t
    <3> QED
      BY <3>2, <3>3, <3>4
  <2> QED
    BY <1>0, <2>2 DEF LoginInv, ServerSends, ServerFrame, pqVars
<1>5. QueryInv'
  BY <1>0 DEF QueryInv, Live, Connected, ServerSends, ServerFrame, objVars, pqVars
<1> QED
  BY <1>1, <1>2, <1>3, <1>4, <1>5 DEF ControlInv

(* The server sends a notice nobody asked for: ControlInv is kept.         *)
LEMMA ServerNoticeControl == ControlInv /\ ServerNotice => ControlInv'
<1> SUFFICES ASSUME ControlInv, ServerNotice PROVE ControlInv'
  OBVIOUS
<1>0. CoreTypeOK /\ ThreadInv /\ StatusInv /\ LoginInv /\ QueryInv
  BY DEF ControlInv
<1>1. CoreTypeOK'
  <2>1. inbox' \in Seq(Messages)
    BY <1>0 DEF ServerNotice, CoreTypeOK, Messages
  <2>2. notices' \in 0..MaxNotices /\ ready' \in BOOLEAN
    BY <1>0, Constants DEF ServerNotice, Edge, CoreTypeOK
  <2> QED
    BY <1>0, <2>1, <2>2 DEF CoreTypeOK, ServerNotice, ServerFrame, objVars, pqVars
<1>2. ThreadInv'
  BY <1>0 DEF ThreadInv, Connected, ServerNotice, Edge, ServerFrame, objVars
<1>3. StatusInv'
  BY <1>0 DEF StatusInv, Connected, ServerNotice, ServerFrame, objVars, pqVars
<1>4. LoginInv'
  BY DEF LoginInv, ServerNotice, ServerFrame, pqVars
<1>5. QueryInv'
  BY <1>0 DEF QueryInv, Live, Connected, ServerNotice, ServerFrame, objVars, pqVars
<1> QED
  BY <1>1, <1>2, <1>3, <1>4, <1>5 DEF ControlInv

(* The server closes the connection: ControlInv is kept.                   *)
LEMMA ServerClosesControl == ControlInv /\ ServerCloses => ControlInv'
<1> SUFFICES ASSUME ControlInv, ServerCloses PROVE ControlInv'
  OBVIOUS
<1>0. CoreTypeOK /\ ThreadInv /\ StatusInv /\ LoginInv /\ QueryInv
  BY DEF ControlInv
<1>1. CoreTypeOK'
  <2>1. inbox' \in Seq(Messages) /\ reply' \in Seq(Messages)
    <3>1. Append(inbox, "E") \in Seq(Messages)
      BY <1>0 DEF CoreTypeOK, Messages
    <3> QED
      BY <1>0, <3>1, EmptyType DEF ServerCloses, CoreTypeOK
  <2>2. server' = "closed" /\ ready' \in BOOLEAN
    BY DEF ServerCloses, Edge
  <2> QED
    BY <1>0, <2>1, <2>2 DEF CoreTypeOK, ServerCloses, ServerFrame, objVars, pqVars
<1>2. ThreadInv'
  BY <1>0 DEF ThreadInv, Connected, ServerCloses, Edge, ServerFrame, objVars
<1>3. StatusInv'
  BY <1>0 DEF StatusInv, Connected, ServerCloses, ServerFrame, objVars, pqVars
<1>4. LoginInv'
  <2> SUFFICES ASSUME status \in {"none", "started"}
               PROVE  LoginInv'
    BY DEF LoginInv, ServerCloses, ServerFrame, pqVars
  <2>1. \A i \in DOMAIN reply' : reply'[i] = "A"
    BY DEF ServerCloses
  <2>2. \A i \in DOMAIN inbox' : inbox'[i] \in {"A", "E"}
    <3>1. \A i \in DOMAIN inbox : inbox[i] \in {"A", "E"}
      BY <1>0 DEF LoginInv
    <3>2. inbox \in Seq(Messages) /\ inbox' \in {inbox, Append(inbox, "E")}
      BY <1>0 DEF ServerCloses, CoreTypeOK
    <3> QED
      BY <3>1, <3>2
  <2> QED
    BY <1>0 DEF LoginInv, ServerCloses, ServerFrame, pqVars
<1>5. QueryInv'
  BY <1>0 DEF QueryInv, Live, Connected, ServerCloses, ServerFrame, objVars, pqVars
<1> QED
  BY <1>1, <1>2, <1>3, <1>4, <1>5 DEF ControlInv

(* The server resets the connection: ControlInv is kept.                   *)
LEMMA ServerResetsControl == ControlInv /\ ServerResets => ControlInv'
<1> SUFFICES ASSUME ControlInv, ServerResets PROVE ControlInv'
  OBVIOUS
<1>0. CoreTypeOK /\ ThreadInv /\ StatusInv /\ LoginInv /\ QueryInv
  BY DEF ControlInv
<1>1. CoreTypeOK'
  BY <1>0 DEF CoreTypeOK, ThreadInv, ServerResets, ServerFrame, objVars, pqVars
<1>2. ThreadInv'
  BY <1>0 DEF ThreadInv, Connected, ServerResets, ServerFrame, objVars
<1>3. StatusInv'
  BY <1>0 DEF StatusInv, Connected, ServerResets, ServerFrame, objVars, pqVars
<1>4. LoginInv'
  BY <1>0 DEF LoginInv, ServerResets, ServerFrame, pqVars
<1>5. QueryInv'
  BY <1>0 DEF QueryInv, Live, Connected, ServerResets, ServerFrame, objVars, pqVars
<1> QED
  BY <1>1, <1>2, <1>3, <1>4, <1>5 DEF ControlInv

(* Nothing has happened yet: ControlInv is kept.                           *)
LEMMA InitControl == Init => ControlInv
<1> SUFFICES ASSUME Init PROVE ControlInv
  OBVIOUS
<1>1. CoreTypeOK
  <2>1. <<>> \in Seq(0..MaxRows)
    OBVIOUS
  <2>2. /\ unsent \in 0..QuerySize /\ flight \in 0..SendRoom /\ rounds \in 0..(Rounds + 1)
        /\ notices \in 0..MaxNotices /\ submitted \in 0..MaxQueries
    BY Constants DEF Init
  <2>3. mask \subseteq {"in", "out"} /\ ev \subseteq {"in", "out", "err"}
    BY DEF Init
  <2> QED
    BY <2>1, <2>2, EmptyType DEF Init, CoreTypeOK
<1>2. ThreadInv /\ StatusInv /\ LoginInv /\ QueryInv
  BY DEF Init, ThreadInv, StatusInv, LoginInv, QueryInv, Live
<1> QED
  BY <1>1, <1>2 DEF ControlInv

(* A step that changes no variable: ControlInv is kept.                    *)
LEMMA StutterControl == ControlInv /\ UNCHANGED vars => ControlInv'
<1> SUFFICES ASSUME ControlInv, UNCHANGED vars PROVE ControlInv'
  OBVIOUS
<1> QED
  BY DEF ControlInv, CoreTypeOK, ThreadInv, StatusInv, LoginInv, QueryInv, Live, Connected, vars,
     objVars, pqVars, epVars, netVars

(* Every step of the system keeps ControlInv.                              *)
LEMMA NextControl == ControlInv /\ [Next]_vars => ControlInv'
BY ConnectDbControl, SendQueryRefusedControl, SendQueryControl, SendQueryPushControl,
   SendQueryPushFailedControl, CallBackControl, EpollWaitControl, HandleErrorControl,
   HandlePollFailedControl, HandlePollControl, HandlePollOkControl, HandleFlushControl,
   HandleConsumeControl, HandleReadControl, IsBusyControl, GetParseControl, GetReadControl,
   GetResultControl, GetNullControl, ServerAcceptsControl, ServerReceivesControl,
   ServerSendsControl, ServerNoticeControl, ServerClosesControl, ServerResetsControl,
   StutterControl DEF Next, Thread, Server

(* ControlInv is an invariant: no order of the handler, the libpq calls    *)
(* and the server's steps takes the thread, the operation, the state and   *)
(* the session apart.                                                      *)
THEOREM ControlHolds == Spec => []ControlInv
BY InitControl, NextControl, PTL DEF Spec

(* CallbackIsDue: a handler that is left without a callback leaves its     *)
(* socket tracked, so an event can still end the operation                 *)
(* (db_connection_type.h:45-231), for every value of the constants.        *)
THEOREM CallbackDue == Spec => []CallbackIsDue
<1>1. ControlInv => CallbackIsDue
  BY DEF ControlInv, CoreTypeOK, ThreadInv, CallbackIsDue
<1> QED
  BY <1>1, ControlHolds, PTL

(* RefusedOnlyWhenBroken: sendQuery fails at once only on a connection the *)
(* server has ended; a query that failed for a reason of its own leaves    *)
(* libpq ready for the next (db_connection_type.h:64-69, 203-207).         *)
THEOREM RefusedBroken == Spec => RefusedOnlyWhenBroken
<1>1. ControlInv /\ SendQueryRefused => server \in {"closed", "reset"}
  <2> SUFFICES ASSUME ControlInv, SendQueryRefused PROVE server \in {"closed", "reset"}
    OBVIOUS
  <2>1. CoreTypeOK /\ ThreadInv /\ StatusInv /\ QueryInv
    BY DEF ControlInv
  <2>2. CASE status = "bad"
    BY <2>1, <2>2 DEF StatusInv
  <2>3. CASE async # "idle"
    BY <2>1 DEF QueryInv, StatusInv, Live, SendQueryRefused
  <2> QED
    BY <2>2, <2>3 DEF SendQueryRefused
<1>2. ControlInv /\ [Next]_vars => [SendQueryRefused => server \in {"closed", "reset"}]_vars
  BY <1>1
<1> QED
  BY <1>2, ControlHolds, PTL DEF Spec, RefusedOnlyWhenBroken

(***************************************************************************)
(* Sequences of messages: counting, cutting, inserting and joining them,   *)
(* and how far the rows and completions in them are those of an answer.    *)
(***************************************************************************)

(* How many of the first e messages of s are m.                            *)
Count(s, m, e) == Cardinality({i \in 1..e : s[i] = m})

(* The rows of the first j results of the answer x.                        *)
Total(x, j) ==
  (IF j >= 1 THEN x[1] ELSE 0) + (IF j >= 2 /\ Len(x) = 2 THEN x[2] ELSE 0)

(* No end of a query, nor an error, among the first e messages.            *)
NoEnd(s, e) == \A i \in 1..e : s[i] \notin {"E", "Z"}

(* The messages s continue the answer x of which k results and d rows are  *)
(* done: as long as no end comes, the rows up to a completion are those x  *)
(* has there, and the query is over only where x is.                       *)
Fits(x, s, k, d) ==
  /\ \A e \in 0..Len(s) : NoEnd(s, e) =>
       /\ k + Count(s, "C", e) <= Len(x)
       /\ Total(x, k + Count(s, "C", e)) <= d + Count(s, "D", e)
       /\ d + Count(s, "D", e) <= Total(x, k + Count(s, "C", e) + 1)
  /\ \A e \in 1..Len(s) : NoEnd(s, e) /\ s[e] = "C" =>
       d + Count(s, "D", e) = Total(x, k + Count(s, "C", e))
  /\ \A e \in 1..Len(s) : NoEnd(s, e - 1) /\ s[e] = "Z" =>
       k + Count(s, "C", e - 1) = Len(x)

(* Nothing of an answer: the login and notices, or the error of a broken   *)
(* connection.                                                             *)
NoAnswer(s, broken) ==
  \A i \in 1..Len(s) : s[i] \in {"A", "N"} \/ (broken /\ s[i] = "E")

(* Behind an error come no results, and behind the end of the query comes  *)
(* nothing.                                                                *)
Shape(s, broken) ==
  \A i, j \in 1..Len(s) : i < j =>
    /\ s[i] = "E" => s[j] \notin {"C", "D"}
    /\ s[i] = "Z" => s[j] \in {"A", "N"} \/ (broken /\ s[j] = "E")

(* The e messages of s after the first u are the first e of t.             *)
Agree(s, u, t, e) == \A i \in 1..e : s[u + i] = t[i]

(* A count is a natural number.                                            *)
LEMMA CountFinite ==
  ASSUME NEW s, NEW m, NEW e \in Nat
  PROVE  IsFiniteSet({i \in 1..e : s[i] = m}) /\ Count(s, m, e) \in Nat
<1>1. IsFiniteSet(1..e)
  BY FS_Interval
<1>2. IsFiniteSet({i \in 1..e : s[i] = m})
  BY <1>1, FS_Subset, {i \in 1..e : s[i] = m} \subseteq 1..e
<1> QED
  BY <1>2, FS_CardinalityType DEF Count

(* No message is m: the count is 0.                                        *)
LEMMA CountNone ==
  ASSUME NEW s, NEW m, NEW e \in Nat, \A i \in 1..e : s[i] # m
  PROVE  Count(s, m, e) = 0
<1>1. {i \in 1..e : s[i] = m} = {}
  OBVIOUS
<1> QED
  BY <1>1, FS_EmptySet DEF Count

(* Every message is m: the count is the length.                            *)
LEMMA CountAll ==
  ASSUME NEW s, NEW m, NEW e \in Nat, \A i \in 1..e : s[i] = m
  PROVE  Count(s, m, e) = e
<1>1. {i \in 1..e : s[i] = m} = 1..e
  OBVIOUS
<1>2. Cardinality(1..e) = e
  BY FS_Interval
<1> QED
  BY <1>1, <1>2 DEF Count

(* Sequences that agree have the same counts.                              *)
LEMMA CountSame ==
  ASSUME NEW s, NEW t, NEW m, NEW e \in Nat, \A i \in 1..e : s[i] = t[i]
  PROVE  Count(s, m, e) = Count(t, m, e)
<1>1. {i \in 1..e : s[i] = m} = {i \in 1..e : t[i] = m}
  OBVIOUS
<1> QED
  BY <1>1 DEF Count

(* The count of a sequence is that of its beginning and that of what       *)
(* follows.                                                                *)
LEMMA CountShift ==
  ASSUME NEW s, NEW t, NEW m, NEW u \in Nat, NEW e \in Nat,
         Agree(s, u, t, e)
  PROVE  Count(s, m, u + e) = Count(s, m, u) + Count(t, m, e)
<1> DEFINE All == {i \in 1..(u + e) : s[i] = m}
           Low == {i \in 1..u : s[i] = m}
           High == {i \in (u + 1)..(u + e) : s[i] = m}
           Sub == {i \in 1..e : t[i] = m}
           f == [i \in Sub |-> u + i]
<1>1. IsFiniteSet(Low) /\ IsFiniteSet(Sub) /\ IsFiniteSet(All)
  <2>1. u + e \in Nat
    OBVIOUS
  <2>2. IsFiniteSet(Low)
    BY CountFinite
  <2>3. IsFiniteSet(Sub)
    BY CountFinite
  <2>4. IsFiniteSet(All)
    BY <2>1, CountFinite
  <2> QED
    BY <2>2, <2>3, <2>4
<1>2. IsFiniteSet(High) /\ High \subseteq All
  <2>1. High \subseteq All
    OBVIOUS
  <2> HIDE DEF High, All
  <2> QED
    BY <1>1, <2>1, FS_Subset
<1>3. All = Low \cup High /\ Low \cap High = {}
  OBVIOUS
<1>4. f \in Bijection(Sub, High)
  <2>1. f \in [Sub -> High]
    BY DEF Agree
  <2>2. \A i, j \in Sub : f[i] = f[j] => i = j
    OBVIOUS
  <2>3. \A h \in High : \E i \in Sub : f[i] = h
    <3> TAKE h \in High
    <3>1. h - u \in 1..e /\ h = u + (h - u)
      OBVIOUS
    <3>2. t[h - u] = s[u + (h - u)]
      BY <3>1 DEF Agree
    <3>3. h - u \in Sub /\ f[h - u] = h
      BY <3>1, <3>2
    <3> QED
      BY <3>3
  <2> HIDE DEF f, Sub, High
  <2> QED
    BY <2>1, <2>2, <2>3 DEF Bijection, Injection, Surjection, IsInjective
<1>5. Cardinality(Sub) = Cardinality(High)
  <2> HIDE DEF f, Sub, High
  <2> QED
    BY <1>1, <1>4, FS_Bijection DEF ExistsBijection
<1>6. Cardinality(All) = Cardinality(Low) + Cardinality(High)
  <2> HIDE DEF All, Low, High
  <2>1. Cardinality(Low \cup High) =
          Cardinality(Low) + Cardinality(High) - Cardinality(Low \cap High)
    BY <1>1, <1>2, FS_Union
  <2>2. Cardinality(Low) \in Nat /\ Cardinality(High) \in Nat
    BY <1>1, <1>2, FS_CardinalityType
  <2> QED
    BY <1>3, <2>1, <2>2, FS_EmptySet
<1> QED
  BY <1>5, <1>6 DEF Count

(* One message more counts one more if it is m.                            *)
LEMMA CountStep ==
  ASSUME NEW s, NEW m, NEW e \in Nat
  PROVE  Count(s, m, e + 1) = Count(s, m, e) + IF s[e + 1] = m THEN 1 ELSE 0
<1> DEFINE t == [i \in 1..1 |-> s[e + i]]
<1>1. Agree(s, e, t, 1)
  BY DEF Agree
<1>2. Count(t, m, 1) = IF s[e + 1] = m THEN 1 ELSE 0
  <2>1. CASE s[e + 1] = m
    BY <2>1, CountAll
  <2>2. CASE s[e + 1] # m
    BY <2>2, CountNone
  <2> QED
    BY <2>1, <2>2
<1> HIDE DEF t
<1>3. Count(s, m, e + 1) = Count(s, m, e) + Count(t, m, 1)
  BY <1>1, CountShift
<1> QED
  BY <1>2, <1>3

(* An answer: the rows of its one or two results.                          *)
IsAnswer(x) == x \in Seq(0..MaxRows) /\ Len(x) \in {1, 2}

(* The rows of one result more.                                            *)
LEMMA TotalStep ==
  ASSUME NEW x, IsAnswer(x), NEW k \in Nat
  PROVE  /\ Total(x, k) \in Nat
         /\ Total(x, 0) = 0
         /\ Total(x, k + 1) = Total(x, k) + IF k + 1 <= Len(x) THEN x[k + 1] ELSE 0
         /\ k + 1 <= Len(x) => x[k + 1] \in 0..MaxRows
<1> DEFINE Bound == 0..MaxRows
<1>0. x \in Seq(Bound) /\ Len(x) \in {1, 2}
  BY DEF IsAnswer
<1> HIDE DEF Bound
<1>1. x[1] \in Bound /\ (Len(x) = 2 => x[2] \in Bound)
  BY <1>0
<1>2. x[1] \in Nat /\ (Len(x) = 2 => x[2] \in Nat)
  BY <1>1, Constants DEF Bound
<1>3. Total(x, k) \in Nat /\ Total(x, 0) = 0
  BY <1>2 DEF Total
<1>4. Total(x, k + 1) = Total(x, k) + IF k + 1 <= Len(x) THEN x[k + 1] ELSE 0
  <2>1. CASE k = 0
    BY <1>0, <1>2, <2>1 DEF Total
  <2>2. CASE k = 1
    BY <1>0, <1>2, <2>2 DEF Total
  <2>3. CASE k > 1
    <3>1. Total(x, k + 1) = Total(x, k)
      BY <2>3 DEF Total
    <3> QED
      BY <1>0, <1>3, <2>3, <3>1
  <2> QED
    BY <2>1, <2>2, <2>3
<1>5. k + 1 <= Len(x) => x[k + 1] \in Bound
  BY <1>0
<1> QED
  BY <1>3, <1>4, <1>5 DEF Bound

(* What is left of a continuation once u messages are parsed continues the *)
(* answer from what these stand for.                                       *)
LEMMA FitsSuffix ==
  ASSUME NEW x, NEW s \in Seq(Messages), NEW t \in Seq(Messages), NEW u \in Nat,
         NEW k \in Nat, NEW d \in Nat,
         Len(s) = u + Len(t), \A i \in 1..Len(t) : s[u + i] = t[i],
         NoEnd(s, u), Fits(x, s, k, d)
  PROVE  Fits(x, t, k + Count(s, "C", u), d + Count(s, "D", u))
<1>1. \A e \in 0..Len(t), m \in {"C", "D"} :
        /\ Count(s, m, u + e) = Count(s, m, u) + Count(t, m, e)
        /\ Count(s, m, u) \in Nat /\ Count(t, m, e) \in Nat
  <2> TAKE e \in 0..Len(t), m \in {"C", "D"}
  <2>1. e \in Nat /\ Agree(s, u, t, e)
    BY DEF Agree
  <2>2. Count(s, m, u + e) = Count(s, m, u) + Count(t, m, e)
    BY <2>1, CountShift
  <2>3. Count(s, m, u) \in Nat
    BY CountFinite
  <2>4. Count(t, m, e) \in Nat
    BY <2>1, CountFinite
  <2> QED
    BY <2>2, <2>3, <2>4
<1>2. \A e \in 0..Len(t) : NoEnd(t, e) => NoEnd(s, u + e)
  <2> SUFFICES ASSUME NEW e \in 0..Len(t), NoEnd(t, e), NEW i \in 1..(u + e)
               PROVE  s[i] \notin {"E", "Z"}
    BY DEF NoEnd
  <2>1. CASE i <= u
    BY <2>1 DEF NoEnd
  <2>2. CASE i > u
    <3>1. i - u \in 1..e /\ i - u \in 1..Len(t) /\ u + (i - u) = i
      BY <2>2
    <3>2. s[u + (i - u)] = t[i - u]
      BY <3>1
    <3> QED
      BY <3>1, <3>2 DEF NoEnd
  <2> QED
    BY <2>1, <2>2
<1>3. \A e \in 0..Len(t) : u + e \in 0..Len(s)
  OBVIOUS
<1>4. \A e \in 1..Len(t) :
        /\ u + e \in 1..Len(s)
        /\ s[u + e] = t[e]
        /\ (u + e) - 1 = u + (e - 1)
        /\ e - 1 \in 0..Len(t)
  OBVIOUS
<1> DEFINE kk == k + Count(s, "C", u)
           dd == d + Count(s, "D", u)
<1>5. ASSUME NEW e \in 0..Len(t), NoEnd(t, e)
      PROVE  /\ kk + Count(t, "C", e) <= Len(x)
             /\ Total(x, kk + Count(t, "C", e)) <= dd + Count(t, "D", e)
             /\ dd + Count(t, "D", e) <= Total(x, kk + Count(t, "C", e) + 1)
  <2>1. /\ kk + Count(t, "C", e) = k + Count(s, "C", u + e)
        /\ dd + Count(t, "D", e) = d + Count(s, "D", u + e)
    BY <1>1
  <2>2. NoEnd(s, u + e) /\ u + e \in 0..Len(s)
    BY <1>2, <1>3, <1>5
  <2> HIDE DEF kk, dd
  <2> QED
    BY <2>1, <2>2 DEF Fits
<1>6. ASSUME NEW e \in 1..Len(t), NoEnd(t, e), t[e] = "C"
      PROVE  dd + Count(t, "D", e) = Total(x, kk + Count(t, "C", e))
  <2>1. /\ kk + Count(t, "C", e) = k + Count(s, "C", u + e)
        /\ dd + Count(t, "D", e) = d + Count(s, "D", u + e)
    BY <1>1
  <2>2. NoEnd(s, u + e) /\ u + e \in 1..Len(s) /\ s[u + e] = "C"
    BY <1>2, <1>4, <1>6
  <2> HIDE DEF kk, dd
  <2> QED
    BY <2>1, <2>2 DEF Fits
<1>7. ASSUME NEW e \in 1..Len(t), NoEnd(t, e - 1), t[e] = "Z"
      PROVE  kk + Count(t, "C", e - 1) = Len(x)
  <2>1. kk + Count(t, "C", e - 1) = k + Count(s, "C", (u + e) - 1)
    <3>1. e - 1 \in 0..Len(t) /\ (u + e) - 1 = u + (e - 1)
      BY <1>4
    <3>2. /\ Count(s, "C", u + (e - 1)) = Count(s, "C", u) + Count(t, "C", e - 1)
          /\ Count(s, "C", u) \in Nat /\ Count(t, "C", e - 1) \in Nat
      BY <1>1, <3>1
    <3> QED
      BY <3>1, <3>2
  <2>2. NoEnd(s, (u + e) - 1) /\ u + e \in 1..Len(s) /\ s[u + e] = "Z"
    BY <1>2, <1>4, <1>7
  <2> HIDE DEF kk, dd
  <2> QED
    BY <2>1, <2>2 DEF Fits
<1> HIDE DEF kk, dd
<1>8. Fits(x, t, kk, dd)
  BY <1>5, <1>6, <1>7 DEF Fits
<1> QED
  BY <1>8 DEF kk, dd

(* A continuation that breaks off, with an error perhaps, is one.          *)
LEMMA FitsCut ==
  ASSUME NEW x, NEW s \in Seq(Messages), NEW t \in Seq(Messages), NEW u \in Nat,
         NEW k \in Nat, NEW d \in Nat,
         u <= Len(s), \A i \in 1..u : t[i] = s[i],
         Len(t) = u \/ (Len(t) = u + 1 /\ t[u + 1] = "E"),
         Fits(x, s, k, d)
  PROVE  Fits(x, t, k, d)
<1>1. \A e \in 0..u, m \in {"C", "D"} : Count(t, m, e) = Count(s, m, e)
  <2> TAKE e \in 0..u, m \in {"C", "D"}
  <2>1. e \in Nat /\ \A i \in 1..e : t[i] = s[i]
    OBVIOUS
  <2> QED
    BY <2>1, CountSame
<1>2. \A e \in 0..u : NoEnd(t, e) = NoEnd(s, e)
  BY DEF NoEnd
<1>3. \A e \in 0..Len(t) : NoEnd(t, e) => e <= u
  BY DEF NoEnd
<1>4. ASSUME NEW e \in 0..Len(t), NoEnd(t, e)
      PROVE  /\ k + Count(t, "C", e) <= Len(x)
             /\ Total(x, k + Count(t, "C", e)) <= d + Count(t, "D", e)
             /\ d + Count(t, "D", e) <= Total(x, k + Count(t, "C", e) + 1)
  <2>1. e \in 0..u /\ e \in 0..Len(s) /\ NoEnd(s, e)
    BY <1>2, <1>3, <1>4
  <2>2. Count(t, "C", e) = Count(s, "C", e) /\ Count(t, "D", e) = Count(s, "D", e)
    BY <1>1, <2>1
  <2> QED
    BY <2>1, <2>2 DEF Fits
<1>5. ASSUME NEW e \in 1..Len(t), NoEnd(t, e), t[e] = "C"
      PROVE  d + Count(t, "D", e) = Total(x, k + Count(t, "C", e))
  <2>1. e \in 0..u /\ e \in 1..Len(s) /\ NoEnd(s, e) /\ s[e] = "C"
    BY <1>2, <1>3, <1>5
  <2>2. Count(t, "C", e) = Count(s, "C", e) /\ Count(t, "D", e) = Count(s, "D", e)
    BY <1>1, <2>1
  <2> QED
    BY <2>1, <2>2 DEF Fits
<1>6. ASSUME NEW e \in 1..Len(t), NoEnd(t, e - 1), t[e] = "Z"
      PROVE  k + Count(t, "C", e - 1) = Len(x)
  <2>1. e \in 1..u
    BY <1>6
  <2>2. e - 1 \in 0..u /\ e \in 1..Len(s) /\ s[e] = "Z"
    BY <1>6, <2>1
  <2>3. NoEnd(s, e - 1) /\ Count(t, "C", e - 1) = Count(s, "C", e - 1)
    BY <1>1, <1>2, <1>6, <2>2
  <2> QED
    BY <2>2, <2>3 DEF Fits
<1> QED
  BY <1>4, <1>5, <1>6 DEF Fits

(* Messages of the login and notices before a continuation change nothing. *)
LEMMA FitsPrepend ==
  ASSUME NEW x, NEW q \in Seq(Messages), NEW s \in Seq(Messages), NEW t \in Seq(Messages),
         NEW k \in Nat, NEW d \in Nat,
         Len(t) = Len(q) + Len(s),
         \A i \in 1..Len(q) : t[i] = q[i] /\ q[i] \in {"A", "N"},
         \A i \in 1..Len(s) : t[Len(q) + i] = s[i],
         Fits(x, s, k, d)
  PROVE  Fits(x, t, k, d)
<1> DEFINE u == Len(q)
<1>0. u \in Nat /\ Len(s) \in Nat
  OBVIOUS
<1>1. \A e \in 0..u, m \in {"C", "D"} : Count(t, m, e) = 0
  <2> TAKE e \in 0..u, m \in {"C", "D"}
  <2>1. e \in Nat /\ \A i \in 1..e : t[i] # m
    <3>1. e \in Nat /\ e <= Len(q)
      BY <1>0
    <3>2. ASSUME NEW i \in 1..e
          PROVE  t[i] # m
      <4>1. i \in 1..Len(q)
        BY <1>0, <3>1
      <4>2. t[i] = q[i] /\ q[i] \in {"A", "N"}
        BY <4>1
      <4> QED
        BY <4>2
    <3> QED
      BY <3>1, <3>2
  <2> QED
    BY <2>1, CountNone
<1>2. \A e \in 0..Len(s), m \in {"C", "D"} : Count(t, m, u + e) = Count(s, m, e)
  <2> TAKE e \in 0..Len(s), m \in {"C", "D"}
  <2>1. e \in Nat /\ u \in 0..u /\ Agree(t, u, s, e)
    BY DEF Agree
  <2>2. Count(t, m, u + e) = Count(t, m, u) + Count(s, m, e)
    BY <1>0, <2>1, CountShift
  <2>3. Count(t, m, u) = 0
    BY <1>1, <2>1
  <2>4. Count(s, m, e) \in Nat
    BY <2>1, CountFinite
  <2> QED
    BY <2>2, <2>3, <2>4
<1>3. \A e \in 0..Len(s) : NoEnd(t, u + e) => NoEnd(s, e)
  <2> SUFFICES ASSUME NEW e \in 0..Len(s), NoEnd(t, u + e), NEW i \in 1..e
               PROVE  s[i] \notin {"E", "Z"}
    BY DEF NoEnd
  <2>1. u + i \in 1..(u + e) /\ i \in 1..Len(s)
    BY <1>0
  <2>2. t[u + i] = s[i]
    BY <2>1
  <2> QED
    BY <2>1, <2>2 DEF NoEnd
<1>4. /\ k <= Len(x) /\ Total(x, k) <= d /\ d <= Total(x, k + 1)
  <2>1. NoEnd(s, 0) /\ 0 \in 0..Len(s)
    BY <1>0 DEF NoEnd
  <2>2. 0 \in Nat /\ (\A i \in 1..0 : s[i] # "C") /\ (\A i \in 1..0 : s[i] # "D")
    OBVIOUS
  <2>3. Count(s, "C", 0) = 0
    BY <2>2, CountNone
  <2>4. Count(s, "D", 0) = 0
    BY <2>2, CountNone
  <2>5. /\ k + Count(s, "C", 0) <= Len(x)
        /\ Total(x, k + Count(s, "C", 0)) <= d + Count(s, "D", 0)
        /\ d + Count(s, "D", 0) <= Total(x, k + Count(s, "C", 0) + 1)
    BY <2>1 DEF Fits
  <2> QED
    BY <2>3, <2>4, <2>5
<1>5. ASSUME NEW e \in 0..Len(t), NoEnd(t, e)
      PROVE  /\ k + Count(t, "C", e) <= Len(x)
             /\ Total(x, k + Count(t, "C", e)) <= d + Count(t, "D", e)
             /\ d + Count(t, "D", e) <= Total(x, k + Count(t, "C", e) + 1)
  <2>1. CASE e <= u
    <3>1. e \in 0..u
      BY <2>1, <1>0
    <3>2. Count(t, "C", e) = 0 /\ Count(t, "D", e) = 0
      BY <1>1, <3>1
    <3> QED
      BY <1>4, <3>2
  <2>2. CASE e > u
    <3>1. PICK f \in 0..Len(s) : e = u + f
      <4>1. e - u \in 0..Len(s) /\ e = u + (e - u)
        BY <2>2, <1>0
      <4> QED
        BY <4>1
    <3>2. /\ Count(t, "C", e) = Count(s, "C", f)
          /\ Count(t, "D", e) = Count(s, "D", f)
          /\ NoEnd(s, f)
      BY <1>2, <1>3, <1>5, <3>1
    <3> QED
      BY <3>2 DEF Fits
  <2> QED
    BY <1>0, <2>1, <2>2
<1>6. \A e \in 1..Len(t) : t[e] \in {"C", "Z"} => \E f \in 1..Len(s) : e = u + f /\ t[e] = s[f]
  <2> SUFFICES ASSUME NEW e \in 1..Len(t), t[e] \in {"C", "Z"}
               PROVE  \E f \in 1..Len(s) : e = u + f /\ t[e] = s[f]
    OBVIOUS
  <2>1. e > u
    <3> SUFFICES ASSUME e <= u PROVE FALSE
      BY <1>0
    <3>1. e \in 1..Len(q)
      BY <1>0
    <3>2. t[e] = q[e] /\ q[e] \in {"A", "N"}
      BY <3>1
    <3> QED
      BY <3>2
  <2>2. e - u \in 1..Len(s) /\ e = u + (e - u)
    BY <1>0, <2>1
  <2>3. t[u + (e - u)] = s[e - u]
    BY <2>2
  <2> QED
    BY <2>2, <2>3
<1>7. ASSUME NEW e \in 1..Len(t), NoEnd(t, e), t[e] = "C"
      PROVE  d + Count(t, "D", e) = Total(x, k + Count(t, "C", e))
  <2>1. PICK f \in 1..Len(s) : e = u + f /\ s[f] = "C"
    BY <1>6, <1>7
  <2>2. f \in 0..Len(s)
    BY <1>0
  <2>3. Count(t, "C", e) = Count(s, "C", f) /\ Count(t, "D", e) = Count(s, "D", f) /\ NoEnd(s, f)
    BY <1>2, <1>3, <1>7, <2>1, <2>2
  <2> QED
    BY <2>1, <2>3 DEF Fits
<1>8. ASSUME NEW e \in 1..Len(t), NoEnd(t, e - 1), t[e] = "Z"
      PROVE  k + Count(t, "C", e - 1) = Len(x)
  <2>1. PICK f \in 1..Len(s) : e = u + f /\ s[f] = "Z"
    BY <1>6, <1>8
  <2>2. f - 1 \in 0..Len(s) /\ e - 1 = u + (f - 1)
    BY <1>0, <2>1
  <2>3. Count(t, "C", e - 1) = Count(s, "C", f - 1) /\ NoEnd(s, f - 1)
    BY <1>2, <1>3, <1>8, <2>2
  <2> QED
    BY <2>1, <2>3 DEF Fits
<1> QED
  BY <1>5, <1>7, <1>8 DEF Fits

(* t is s with a notice after the first u messages.                        *)
Inserted(t, s, u) ==
  /\ u <= Len(s) /\ Len(t) = Len(s) + 1
  /\ \A i \in 1..u : t[i] = s[i]
  /\ t[u + 1] = "N"
  /\ \A i \in (u + 1)..Len(s) : t[i + 1] = s[i]

(* Nor does a notice in its middle.                                        *)
LEMMA FitsInsert ==
  ASSUME NEW x, NEW s \in Seq(Messages), NEW t \in Seq(Messages), NEW u \in Nat,
         NEW k \in Nat, NEW d \in Nat,
         Inserted(t, s, u),
         Fits(x, s, k, d)
  PROVE  Fits(x, t, k, d)
<1>0. /\ u <= Len(s) /\ Len(t) = Len(s) + 1 /\ Len(s) \in Nat
      /\ \A i \in 1..u : t[i] = s[i]
      /\ t[u + 1] = "N"
      /\ \A i \in (u + 1)..Len(s) : t[i + 1] = s[i]
  BY DEF Inserted
<1>1. \A e \in 0..u, m \in {"C", "D"} : Count(t, m, e) = Count(s, m, e)
  <2> TAKE e \in 0..u, m \in {"C", "D"}
  <2>1. e \in Nat /\ \A i \in 1..e : t[i] = s[i]
    BY <1>0
  <2> QED
    BY <2>1, CountSame
<1>2. \A f \in 0..(Len(s) - u), m \in {"C", "D"} : Count(t, m, u + 1 + f) = Count(s, m, u + f)
  <2> TAKE f \in 0..(Len(s) - u), m \in {"C", "D"}
  <2> DEFINE v == [i \in 1..f |-> s[u + i]]
  <2>1. \A i \in 1..f : s[u + i] = v[i] /\ t[(u + 1) + i] = v[i]
    <3> TAKE i \in 1..f
    <3>1. u + i \in (u + 1)..Len(s) /\ (u + 1) + i = (u + i) + 1
      BY <1>0
    <3>2. t[(u + i) + 1] = s[u + i]
      BY <1>0, <3>1
    <3> QED
      BY <3>1, <3>2
  <2> HIDE DEF v
  <2>2. f \in Nat
    OBVIOUS
  <2>3. Count(s, m, u + f) = Count(s, m, u) + Count(v, m, f)
    <3>1. Agree(s, u, v, f)
      BY <2>1 DEF Agree
    <3> QED
      BY <2>2, <3>1, CountShift
  <2>4. Count(t, m, (u + 1) + f) = Count(t, m, u + 1) + Count(v, m, f)
    <3> DEFINE w == u + 1
    <3>1. w \in Nat /\ Agree(t, w, v, f)
      BY <2>1 DEF Agree
    <3> HIDE DEF w
    <3>2. Count(t, m, w + f) = Count(t, m, w) + Count(v, m, f)
      BY <2>2, <3>1, CountShift
    <3> QED
      BY <3>2 DEF w
  <2>5. Count(t, m, u + 1) = Count(t, m, u)
    <3>1. Count(t, m, u + 1) = Count(t, m, u) + (IF t[u + 1] = m THEN 1 ELSE 0)
      BY CountStep
    <3>2. Count(t, m, u) \in Nat
      BY CountFinite
    <3> QED
      BY <1>0, <3>1, <3>2
  <2>6. Count(t, m, u) = Count(s, m, u)
    BY <1>1
  <2>7. Count(s, m, u) \in Nat
    BY CountFinite
  <2> QED
    BY <2>3, <2>4, <2>5, <2>6
<1>3. \A e \in 0..u : NoEnd(t, e) => NoEnd(s, e)
  BY <1>0 DEF NoEnd
<1>4. \A f \in 0..(Len(s) - u) : NoEnd(t, u + 1 + f) => NoEnd(s, u + f)
  <2> SUFFICES ASSUME NEW f \in 0..(Len(s) - u), NoEnd(t, u + 1 + f), NEW i \in 1..(u + f)
               PROVE  s[i] \notin {"E", "Z"}
    BY DEF NoEnd
  <2>1. CASE i <= u
    BY <1>0, <2>1 DEF NoEnd
  <2>2. CASE i > u
    <3>1. i \in (u + 1)..Len(s) /\ i + 1 \in 1..(u + 1 + f)
      BY <1>0, <2>2
    <3> QED
      BY <1>0, <3>1 DEF NoEnd
  <2> QED
    BY <2>1, <2>2
<1>5. \A e \in 0..Len(t) : e \in 0..u \/ \E f \in 0..(Len(s) - u) : e = u + 1 + f
  <2> TAKE e \in 0..Len(t)
  <2>1. CASE e <= u
    BY <1>0, <2>1
  <2>2. CASE e > u
    <3>1. e - u - 1 \in 0..(Len(s) - u) /\ e = u + 1 + (e - u - 1)
      BY <1>0, <2>2
    <3> QED
      BY <3>1
  <2> QED
    BY <1>0, <2>1, <2>2
<1> DEFINE Maps(e, g) == /\ Count(t, "C", e) = Count(s, "C", g)
                         /\ Count(t, "D", e) = Count(s, "D", g)
                         /\ NoEnd(t, e) => NoEnd(s, g)
                         /\ g = IF e <= u THEN e ELSE e - 1
<1>6. \A e \in 0..Len(t) : \E g \in 0..Len(s) : Maps(e, g)
  <2> TAKE e \in 0..Len(t)
  <2>1. CASE e \in 0..u
    <3>1. e \in 0..Len(s) /\ e <= u
      BY <1>0, <2>1
    <3>2. Maps(e, e)
      BY <1>1, <1>3, <2>1, <3>1
    <3> QED
      BY <3>1, <3>2
  <2>2. CASE \E f \in 0..(Len(s) - u) : e = u + 1 + f
    <3>1. PICK f \in 0..(Len(s) - u) : e = u + 1 + f
      BY <2>2
    <3>2. u + f \in 0..Len(s) /\ u + f = IF e <= u THEN e ELSE e - 1
      BY <1>0, <3>1
    <3>3. Maps(e, u + f)
      BY <1>2, <1>4, <3>1, <3>2
    <3> QED
      BY <3>2, <3>3
  <2> QED
    BY <1>5, <2>1, <2>2
<1>7. ASSUME NEW e \in 0..Len(t), NoEnd(t, e)
      PROVE  /\ k + Count(t, "C", e) <= Len(x)
             /\ Total(x, k + Count(t, "C", e)) <= d + Count(t, "D", e)
             /\ d + Count(t, "D", e) <= Total(x, k + Count(t, "C", e) + 1)
  <2>1. PICK g \in 0..Len(s) : /\ Count(t, "C", e) = Count(s, "C", g)
                               /\ Count(t, "D", e) = Count(s, "D", g)
                               /\ NoEnd(s, g)
    BY <1>6, <1>7
  <2> QED
    BY <2>1 DEF Fits
<1>8. ASSUME NEW e \in 1..Len(t), NoEnd(t, e), t[e] = "C"
      PROVE  d + Count(t, "D", e) = Total(x, k + Count(t, "C", e))
  <2>1. e \in 0..Len(t)
    BY <1>0
  <2>2. PICK g \in 0..Len(s) : /\ Count(t, "C", e) = Count(s, "C", g)
                               /\ Count(t, "D", e) = Count(s, "D", g)
                               /\ NoEnd(s, g)
                               /\ g = IF e <= u THEN e ELSE e - 1
    BY <1>6, <1>8, <2>1
  <2>3. g \in 1..Len(s) /\ s[g] = "C"
    <3>1. CASE e <= u
      BY <1>0, <1>8, <2>2, <3>1
    <3>2. CASE e > u
      <4>1. e # u + 1
        BY <1>0, <1>8
      <4>2. e - 1 \in (u + 1)..Len(s) /\ (e - 1) + 1 = e /\ g = e - 1
        BY <1>0, <2>2, <3>2, <4>1
      <4>3. \A i \in (u + 1)..Len(s) : t[i + 1] = s[i]
        BY <1>0
      <4>4. t[e] = s[g]
        BY <4>2, <4>3
      <4>5. g \in 1..Len(s)
        BY <1>0, <4>2
      <4> QED
        BY <1>8, <4>4, <4>5
    <3> QED
      BY <1>0, <3>1, <3>2
  <2> QED
    BY <2>2, <2>3 DEF Fits
<1>9. ASSUME NEW e \in 1..Len(t), NoEnd(t, e - 1), t[e] = "Z"
      PROVE  k + Count(t, "C", e - 1) = Len(x)
  <2>1. CASE e <= u
    <3>1. e - 1 \in 0..u /\ e \in 1..Len(s) /\ s[e] = "Z"
      BY <1>0, <1>9, <2>1
    <3>2. NoEnd(s, e - 1) /\ Count(t, "C", e - 1) = Count(s, "C", e - 1)
      BY <1>1, <1>3, <1>9, <3>1
    <3> QED
      BY <3>1, <3>2 DEF Fits
  <2>2. CASE e > u
    <3>1. e # u + 1
      BY <1>0, <1>9
    <3>2. PICK f \in 0..(Len(s) - u) : e - 1 = u + 1 + f
      <4>1. e - u - 2 \in 0..(Len(s) - u) /\ e - 1 = u + 1 + (e - u - 2)
        BY <1>0, <2>2, <3>1
      <4> QED
        BY <4>1
    <3>3. NoEnd(s, u + f) /\ Count(t, "C", e - 1) = Count(s, "C", u + f)
      BY <1>2, <1>4, <1>9, <3>2
    <3>4. u + f + 1 \in (u + 1)..Len(s) /\ e = (u + f + 1) + 1 /\ u + f = (u + f + 1) - 1
      BY <1>0, <3>2
    <3>5. s[u + f + 1] = "Z" /\ u + f + 1 \in 1..Len(s)
      BY <1>0, <1>9, <3>4
    <3> QED
      BY <3>3, <3>4, <3>5 DEF Fits
  <2> QED
    BY <1>0, <2>1, <2>2
<1> QED
  BY <1>7, <1>8, <1>9 DEF Fits

(* Addition is associative.                                                *)
LEMMA Regroup == \A a, b, c \in Nat : a + (b + c) = (a + b) + c
OBVIOUS

(* s is a followed by b.                                                   *)
Joined(s, a, b) == s = a \o b

(* What comes of one result: its rows, then "C", then t.                   *)
LEMMA FitsResult ==
  ASSUME NEW x, IsAnswer(x), NEW k \in Nat, k + 1 <= Len(x),
         NEW t \in Seq(Messages), NEW s,
         Joined(s, Result(x[k + 1]), t),
         Fits(x, t, k + 1, Total(x, k + 1))
  PROVE  Fits(x, s, k, Total(x, k))
<1> DEFINE n == x[k + 1]
           d == Total(x, k)
<1>1. n \in Nat /\ d \in Nat /\ Total(x, k + 1) = d + n
  <2>1. /\ Total(x, k) \in Nat
        /\ Total(x, k + 1) = Total(x, k) + IF k + 1 <= Len(x) THEN x[k + 1] ELSE 0
        /\ k + 1 <= Len(x) => x[k + 1] \in 0..MaxRows
    BY TotalStep
  <2> QED
    BY <2>1, Constants
<1> HIDE DEF n, d
<1>2. /\ s \in Seq(Messages) /\ Len(s) = n + 1 + Len(t) /\ Len(t) \in Nat
      /\ \A i \in 1..n : s[i] = "D"
      /\ s[n + 1] = "C"
      /\ \A i \in 1..Len(t) : s[(n + 1) + i] = t[i]
  <2>1. /\ Result(n) \in Seq(Messages) /\ Len(Result(n)) = n + 1
        /\ \A i \in 1..(n + 1) : Result(n)[i] = IF i = n + 1 THEN "C" ELSE "D"
    BY <1>1, ResultType
  <2>2. s = Result(n) \o t
    BY DEF n, Joined
  <2> DEFINE rn == Result(n)
  <2> HIDE DEF rn
  <2>3. /\ s = rn \o t
        /\ rn \in Seq(Messages)
        /\ Len(rn) = n + 1
        /\ \A i \in 1..(n + 1) : rn[i] = IF i = n + 1 THEN "C" ELSE "D"
    BY <2>1, <2>2 DEF rn
  <2>4. s \in Seq(Messages) /\ Len(s) = Len(rn) + Len(t) /\ Len(t) \in Nat
    BY <2>3
  <2>5. \A i \in 1..Len(rn) : s[i] = rn[i]
    BY <2>3
  <2>6. \A i \in 1..Len(t) : s[Len(rn) + i] = t[i]
    BY <2>3
  <2> QED
    BY <1>1, <2>3, <2>4, <2>5, <2>6
<1>3. \A e \in 0..n : Count(s, "C", e) = 0 /\ Count(s, "D", e) = e
  <2> TAKE e \in 0..n
  <2>1. e \in Nat /\ (\A i \in 1..e : s[i] # "C") /\ (\A i \in 1..e : s[i] = "D")
    BY <1>1, <1>2
  <2>2. Count(s, "C", e) = 0
    BY <2>1, CountNone
  <2>3. Count(s, "D", e) = e
    BY <2>1, CountAll
  <2> QED
    BY <2>2, <2>3
<1>4. Count(s, "C", n + 1) = 1 /\ Count(s, "D", n + 1) = n
  <2>1. Count(s, "C", n + 1) = Count(s, "C", n) + IF s[n + 1] = "C" THEN 1 ELSE 0
    BY <1>1, CountStep
  <2>2. Count(s, "D", n + 1) = Count(s, "D", n) + IF s[n + 1] = "D" THEN 1 ELSE 0
    BY <1>1, CountStep
  <2>3. Count(s, "C", n) = 0 /\ Count(s, "D", n) = n
    BY <1>1, <1>3
  <2> QED
    BY <1>1, <1>2, <2>1, <2>2, <2>3
<1>5. \A f \in 0..Len(t) : /\ Count(s, "C", n + 1 + f) = 1 + Count(t, "C", f)
                           /\ Count(s, "D", n + 1 + f) = n + Count(t, "D", f)
                           /\ Count(t, "C", f) \in Nat /\ Count(t, "D", f) \in Nat
  <2> TAKE f \in 0..Len(t)
  <2> DEFINE w == n + 1
  <2>1. w \in Nat /\ f \in Nat /\ Agree(s, w, t, f)
    BY <1>1, <1>2 DEF Agree
  <2>2. Count(s, "C", w) = 1 /\ Count(s, "D", w) = n
    BY <1>4
  <2> HIDE DEF w
  <2>3. Count(s, "C", w + f) = Count(s, "C", w) + Count(t, "C", f)
    BY <2>1, CountShift
  <2>4. Count(s, "D", w + f) = Count(s, "D", w) + Count(t, "D", f)
    BY <2>1, CountShift
  <2>5. Count(t, "C", f) \in Nat
    BY <2>1, CountFinite
  <2>6. Count(t, "D", f) \in Nat
    BY <2>1, CountFinite
  <2> QED
    BY <2>2, <2>3, <2>4, <2>5, <2>6 DEF w
<1>6. \A f \in 0..Len(t) : NoEnd(s, n + 1 + f) => NoEnd(t, f)
  <2> SUFFICES ASSUME NEW f \in 0..Len(t), NoEnd(s, n + 1 + f), NEW i \in 1..f
               PROVE  t[i] \notin {"E", "Z"}
    BY DEF NoEnd
  <2>1. (n + 1) + i \in 1..(n + 1 + f) /\ i \in 1..Len(t)
    BY <1>1, <1>2
  <2> QED
    BY <1>2, <2>1 DEF NoEnd
<1>7. \A e \in 0..Len(s) : e \in 0..n \/ \E f \in 0..Len(t) : e = n + 1 + f
  <2> TAKE e \in 0..Len(s)
  <2>1. CASE e <= n
    BY <1>1, <2>1
  <2>2. CASE e > n
    <3>1. e - n - 1 \in 0..Len(t) /\ e = n + 1 + (e - n - 1)
      BY <1>1, <1>2, <2>2
    <3> QED
      BY <3>1
  <2> QED
    BY <1>1, <2>1, <2>2
<1>8. ASSUME NEW e \in 0..Len(s), NoEnd(s, e)
      PROVE  /\ k + Count(s, "C", e) <= Len(x)
             /\ Total(x, k + Count(s, "C", e)) <= d + Count(s, "D", e)
             /\ d + Count(s, "D", e) <= Total(x, k + Count(s, "C", e) + 1)
  <2>1. CASE e \in 0..n
    <3>1. Count(s, "C", e) = 0 /\ Count(s, "D", e) = e
      BY <1>3, <2>1
    <3>2. k \in Nat /\ k <= Len(x) /\ Total(x, k) = d /\ Total(x, k + 1) = d + n
      BY <1>1 DEF d, IsAnswer
    <3> QED
      BY <1>1, <2>1, <3>1, <3>2
  <2>2. CASE \E f \in 0..Len(t) : e = n + 1 + f
    <3>1. PICK f \in 0..Len(t) : e = n + 1 + f
      BY <2>2
    <3>2. /\ (k + 1) + Count(t, "C", f) <= Len(x)
          /\ Total(x, (k + 1) + Count(t, "C", f)) <= (d + n) + Count(t, "D", f)
          /\ (d + n) + Count(t, "D", f) <= Total(x, (k + 1) + Count(t, "C", f) + 1)
      BY <1>1, <1>6, <1>8, <3>1 DEF Fits
    <3>3. /\ Count(s, "C", e) = 1 + Count(t, "C", f) /\ Count(s, "D", e) = n + Count(t, "D", f)
          /\ Count(t, "C", f) \in Nat /\ Count(t, "D", f) \in Nat
      BY <1>5, <3>1
    <3>4. /\ k + Count(s, "C", e) = (k + 1) + Count(t, "C", f)
          /\ d + Count(s, "D", e) = (d + n) + Count(t, "D", f)
      <4>1. 1 \in Nat /\ k \in Nat
        OBVIOUS
      <4>2. k + Count(s, "C", e) = (k + 1) + Count(t, "C", f)
        BY <4>1, <3>3, Regroup
      <4>3. d + Count(s, "D", e) = (d + n) + Count(t, "D", f)
        BY <1>1, <3>3, Regroup
      <4> QED
        BY <4>2, <4>3
    <3> QED
      BY <3>2, <3>4
  <2> QED
    BY <1>7, <2>1, <2>2
<1>9. ASSUME NEW e \in 1..Len(s), NoEnd(s, e), s[e] = "C"
      PROVE  d + Count(s, "D", e) = Total(x, k + Count(s, "C", e))
  <2>0. e \in 0..Len(s)
    OBVIOUS
  <2>1. CASE e \in 0..n
    BY <1>1, <1>2, <1>9, <2>1
  <2>2. CASE e = n + 1
    BY <1>1, <1>4, <2>2
  <2>3. CASE \E f \in 0..Len(t) : e = n + 1 + f /\ f # 0
    <3>1. PICK f \in 0..Len(t) : e = n + 1 + f /\ f # 0
      BY <2>3
    <3>2. f \in 1..Len(t) /\ t[f] = "C" /\ NoEnd(t, f)
      BY <1>2, <1>6, <1>9, <3>1
    <3>3. (d + n) + Count(t, "D", f) = Total(x, (k + 1) + Count(t, "C", f))
      BY <1>1, <3>2 DEF Fits
    <3>4. /\ Count(s, "C", e) = 1 + Count(t, "C", f) /\ Count(s, "D", e) = n + Count(t, "D", f)
          /\ Count(t, "C", f) \in Nat /\ Count(t, "D", f) \in Nat
      BY <1>5, <3>1
    <3>5. /\ k + Count(s, "C", e) = (k + 1) + Count(t, "C", f)
          /\ d + Count(s, "D", e) = (d + n) + Count(t, "D", f)
      <4>1. 1 \in Nat /\ k \in Nat
        OBVIOUS
      <4>2. k + Count(s, "C", e) = (k + 1) + Count(t, "C", f)
        BY <4>1, <3>4, Regroup
      <4>3. d + Count(s, "D", e) = (d + n) + Count(t, "D", f)
        BY <1>1, <3>4, Regroup
      <4> QED
        BY <4>2, <4>3
    <3> QED
      BY <3>3, <3>5
  <2> QED
    BY <1>1, <1>7, <2>1, <2>2, <2>3
<1>10. ASSUME NEW e \in 1..Len(s), NoEnd(s, e - 1), s[e] = "Z"
      PROVE  k + Count(s, "C", e - 1) = Len(x)
  <2>0. e - 1 \in 0..Len(s) /\ e \notin 1..n /\ e # n + 1
    BY <1>2, <1>10
  <2>1. PICK f \in 0..Len(t) : e - 1 = n + 1 + f
    BY <1>1, <1>2, <1>7, <2>0
  <2>2. f + 1 \in 1..Len(t) /\ e = (n + 1) + (f + 1) /\ (f + 1) - 1 = f
    BY <1>1, <1>2, <2>0, <2>1
  <2>3. t[f + 1] = "Z" /\ NoEnd(t, f)
    BY <1>2, <1>6, <1>10, <2>1, <2>2
  <2>4. (k + 1) + Count(t, "C", f) = Len(x)
    BY <2>2, <2>3 DEF Fits
  <2> QED
    BY <1>5, <2>1, <2>4
<1>11. Fits(x, s, k, d)
  BY <1>8, <1>9, <1>10 DEF Fits
<1> QED
  BY <1>11 DEF d

(* Where all rows of result k have been told, an error and the end         *)
(* continue the answer, and behind the last result the end does.           *)
LEMMA FitsLast ==
  ASSUME NEW x, IsAnswer(x), NEW k \in 1..Len(x), NEW s, s \in Seq(Messages),
         s = <<"E", "Z">> \/ (k = Len(x) /\ s = <<"Z">>)
  PROVE  Fits(x, s, k, Total(x, k))
<1>1. Count(s, "C", 0) = 0 /\ Count(s, "D", 0) = 0
  <2>1. 0 \in Nat /\ (\A i \in 1..0 : s[i] # "C") /\ (\A i \in 1..0 : s[i] # "D")
    OBVIOUS
  <2> QED
    BY <2>1, CountNone
<1>2. \A e \in 1..Len(s) : ~ NoEnd(s, e)
  BY DEF NoEnd
<1>3. k \in Nat /\ Total(x, k) \in Nat /\ Total(x, k) <= Total(x, k + 1)
  <2>1. k \in Nat /\ Len(x) \in Nat
    BY DEF IsAnswer
  <2> QED
    <3>1. /\ Total(x, k) \in Nat
          /\ Total(x, k + 1) = Total(x, k) + IF k + 1 <= Len(x) THEN x[k + 1] ELSE 0
          /\ k + 1 <= Len(x) => x[k + 1] \in 0..MaxRows
      BY <2>1, TotalStep
    <3> QED
      BY <2>1, <3>1, Constants
<1>4. \A e \in 0..Len(s) : NoEnd(s, e) =>
       /\ k + Count(s, "C", e) <= Len(x)
       /\ Total(x, k + Count(s, "C", e)) <= Total(x, k) + Count(s, "D", e)
       /\ Total(x, k) + Count(s, "D", e) <= Total(x, k + Count(s, "C", e) + 1)
  <2> SUFFICES ASSUME NEW e \in 0..Len(s), NoEnd(s, e)
       PROVE  /\ k + Count(s, "C", e) <= Len(x)
              /\ Total(x, k + Count(s, "C", e)) <= Total(x, k) + Count(s, "D", e)
              /\ Total(x, k) + Count(s, "D", e) <= Total(x, k + Count(s, "C", e) + 1)
    OBVIOUS
  <2>1. e = 0
    BY <1>2
  <2>2. k <= Len(x)
    BY DEF IsAnswer
  <2> QED
    BY <1>1, <1>3, <2>1, <2>2
<1>5. \A e \in 1..Len(s) : NoEnd(s, e - 1) /\ s[e] = "Z" => k + Count(s, "C", e - 1) = Len(x)
  <2> SUFFICES ASSUME NEW e \in 1..Len(s), NoEnd(s, e - 1), s[e] = "Z"
       PROVE  k + Count(s, "C", e - 1) = Len(x)
    OBVIOUS
  <2>1. e = 1 /\ k = Len(x)
    BY DEF NoEnd
  <2> QED
    BY <1>1, <2>1
<1> QED
  BY <1>2, <1>4, <1>5 DEF Fits

(* Neither a row nor the completion of a result.                           *)
NoRows(s) == \A i \in 1..Len(s) : s[i] \notin {"C", "D"}

(* Sequences of the same length and members are the same.                  *)
LEMMA SameSequence ==
  ASSUME NEW s \in Seq(Messages), NEW t \in Seq(Messages),
         Len(s) = Len(t), \A i \in 1..Len(s) : s[i] = t[i]
  PROVE  s = t
OBVIOUS

(* The members of two sequences joined.                                    *)
LEMMA JoinPair ==
  ASSUME NEW a \in Seq(Messages), NEW b \in Seq(Messages)
  PROVE  /\ a \o b \in Seq(Messages) /\ Len(a \o b) = Len(a) + Len(b)
         /\ Len(a) \in Nat /\ Len(b) \in Nat
         /\ \A i \in 1..Len(a) : (a \o b)[i] = a[i]
         /\ \A i \in 1..Len(b) : (a \o b)[Len(a) + i] = b[i]
OBVIOUS

(* To append to a joined sequence is to append to its second part.         *)
LEMMA AppendJoin ==
  ASSUME NEW a \in Seq(Messages), NEW b \in Seq(Messages), NEW m \in Messages
  PROVE  Append(a \o b, m) = a \o (b \o <<m>>)
<1> DEFINE c == b \o <<m>>
           d == a \o b
<1>1. /\ c \in Seq(Messages) /\ Len(c) = Len(b) + 1 /\ c[Len(b) + 1] = m
      /\ \A i \in 1..Len(b) : c[i] = b[i]
  OBVIOUS
<1>2. /\ d \in Seq(Messages) /\ Len(d) = Len(a) + Len(b)
      /\ \A i \in 1..Len(a) : d[i] = a[i]
      /\ \A i \in 1..Len(b) : d[Len(a) + i] = b[i]
  OBVIOUS
<1>3. Len(a) \in Nat /\ Len(b) \in Nat
  OBVIOUS
<1> HIDE DEF c, d
<1> DEFINE s == Append(d, m)
           t == a \o c
<1>4. /\ s \in Seq(Messages) /\ Len(s) = Len(d) + 1 /\ s[Len(d) + 1] = m
      /\ \A i \in 1..Len(d) : s[i] = d[i]
  BY <1>2
<1>7. /\ t \in Seq(Messages) /\ Len(t) = Len(a) + Len(c)
      /\ \A i \in 1..Len(a) : t[i] = a[i]
      /\ \A i \in 1..Len(c) : t[Len(a) + i] = c[i]
  BY <1>1, JoinPair
<1> HIDE DEF s, t
<1>5. \A i \in 1..Len(s) : s[i] = t[i]
  <2> TAKE i \in 1..Len(s)
  <2>1. CASE i <= Len(a)
    <3>1. i \in 1..Len(a) /\ i \in 1..Len(d)
      BY <1>2, <1>3, <1>4, <2>1
    <3>2. s[i] = d[i] /\ d[i] = a[i] /\ t[i] = a[i]
      BY <1>2, <1>4, <1>7, <3>1
    <3> QED
      BY <3>2
  <2>2. CASE i > Len(a) /\ i <= Len(d)
    <3>1. i - Len(a) \in 1..Len(b) /\ i = Len(a) + (i - Len(a)) /\ i - Len(a) \in 1..Len(c)
      BY <1>1, <1>2, <1>3, <2>2
    <3>2. d[Len(a) + (i - Len(a))] = b[i - Len(a)] /\ c[i - Len(a)] = b[i - Len(a)]
      BY <1>1, <1>2, <3>1
    <3>3. s[i] = d[i]
      BY <1>2, <1>4, <2>2
    <3>4. t[Len(a) + (i - Len(a))] = c[i - Len(a)]
      BY <1>7, <3>1
    <3> QED
      BY <3>1, <3>2, <3>3, <3>4
  <2>3. CASE i = Len(d) + 1
    <3>1. Len(b) + 1 \in 1..Len(c) /\ Len(a) + (Len(b) + 1) = Len(d) + 1
      BY <1>1, <1>2, <1>3
    <3>2. t[Len(a) + (Len(b) + 1)] = m
      BY <1>1, <1>7, <3>1
    <3> QED
      BY <1>4, <2>3, <3>1, <3>2
  <2> QED
    <3>1. i \in Nat /\ i <= Len(d) + 1 /\ Len(d) \in Nat
      BY <1>2, <1>3, <1>4
    <3> QED
      BY <2>1, <2>2, <2>3, <3>1
<1>6. Len(s) = Len(t)
  BY <1>1, <1>2, <1>3, <1>4, <1>7
<1>8. s = t
  BY <1>4, <1>5, <1>6, <1>7, SameSequence
<1> QED
  BY <1>8 DEF s, t, c, d

(* Both answers the server has for a query continue it from its start.     *)
LEMMA FitsAnswer ==
  ASSUME NEW c \in Counts
  PROVE  /\ IsAnswer(c)
         /\ Fits(c, Result(c[1]) \o <<"E", "Z">>, 0, 0)
         /\ Fits(c, Append(Answer(c), "Z"), 0, 0)
<1>1. IsAnswer(c) /\ \A i \in 1..Len(c) : c[i] \in Nat
  BY CountsType DEF IsAnswer
<1>2. Total(c, 0) = 0
  BY DEF Total
<1>3. <<"E", "Z">> \in Seq(Messages) /\ <<"Z">> \in Seq(Messages)
  <2>1. "E" \in Messages /\ "Z" \in Messages
    BY DEF Messages
  <2> QED
    BY <2>1
<1>4. Len(c) \in {1, 2} /\ 1 \in 1..Len(c)
  <2>1. Len(c) \in {1, 2}
    BY <1>1 DEF IsAnswer
  <2> QED
    BY ONLY <2>1
<1>5. Fits(c, Result(c[1]) \o <<"E", "Z">>, 0, 0)
  <2>1. Fits(c, <<"E", "Z">>, 1, Total(c, 1))
    BY <1>1, <1>3, <1>4, FitsLast
  <2>2. /\ 0 \in Nat
        /\ 0 + 1 = 1
        /\ 0 + 1 <= Len(c)
        /\ Joined(Result(c[1]) \o <<"E", "Z">>, Result(c[0 + 1]), <<"E", "Z">>)
    BY <1>4 DEF Joined
  <2> DEFINE s == Result(c[1]) \o <<"E", "Z">>
             t == <<"E", "Z">>
  <2>3. /\ Fits(c, t, 0 + 1, Total(c, 0 + 1))
        /\ Joined(s, Result(c[0 + 1]), t)
        /\ t \in Seq(Messages)
    BY <1>3, <2>1, <2>2
  <2> HIDE DEF s, t
  <2>4. Fits(c, s, 0, Total(c, 0))
    BY <1>1, <2>2, <2>3, FitsResult
  <2> QED
    BY <1>2, <2>4 DEF s
<1>6. ASSUME Len(c) = 1 PROVE Fits(c, Append(Answer(c), "Z"), 0, 0)
  <2> DEFINE s == Append(Answer(c), "Z")
             t == <<"Z">>
  <2>1. Fits(c, t, 1, Total(c, 1))
    BY <1>1, <1>3, <1>4, <1>6, FitsLast
  <2>2. Result(c[1]) \in Seq(Messages)
    BY <1>1, <1>4, ResultType
  <2>3. s = Result(c[1]) \o t
    <3>1. Answer(c) = Result(c[1])
      BY <1>6, <2>2 DEF Answer
    <3>2. Append(Result(c[1]), "Z") = Result(c[1]) \o <<"Z">>
      BY <2>2
    <3> QED
      BY <3>1, <3>2
  <2>4. /\ 0 \in Nat
        /\ 0 + 1 = 1
        /\ 0 + 1 <= Len(c)
        /\ Joined(s, Result(c[0 + 1]), t)
        /\ t \in Seq(Messages)
    BY <1>3, <1>4, <2>3 DEF Joined
  <2> HIDE DEF s, t
  <2>5. Fits(c, s, 0, Total(c, 0))
    BY <1>1, <2>1, <2>4, FitsResult
  <2> QED
    BY <1>2, <2>5 DEF s
<1>7. ASSUME Len(c) = 2 PROVE Fits(c, Append(Answer(c), "Z"), 0, 0)
  <2> DEFINE s == Append(Answer(c), "Z")
             z == <<"Z">>
             t == Result(c[2]) \o z
  <2>1. Fits(c, z, 2, Total(c, 2))
    <3>1. 2 \in 1..Len(c) /\ 2 = Len(c)
      BY <1>7
    <3> QED
      BY <1>1, <1>3, <3>1, FitsLast
  <2>2. Result(c[1]) \in Seq(Messages) /\ Result(c[2]) \in Seq(Messages)
    BY <1>1, <1>7, ResultType
  <2>3. s = Result(c[1]) \o t
    <3>1. Answer(c) = Result(c[1]) \o Result(c[2])
      BY <1>7 DEF Answer
    <3> DEFINE a == Result(c[1])
               b == Result(c[2])
    <3>2. a \in Seq(Messages) /\ b \in Seq(Messages)
      BY <2>2
    <3> HIDE DEF a, b
    <3>3. Append(a \o b, "Z") = a \o (b \o <<"Z">>)
      <4>1. "Z" \in Messages
        BY DEF Messages
      <4> QED
        BY <3>2, <4>1, AppendJoin
    <3> QED
      BY <3>1, <3>3 DEF a, b
  <2>4. t \in Seq(Messages) /\ z \in Seq(Messages)
    BY <1>3, <2>2
  <2>5. Joined(s, Result(c[0 + 1]), t) /\ Joined(t, Result(c[1 + 1]), z)
    BY <2>3 DEF Joined
  <2> HIDE DEF s, t, z
  <2>6. Fits(c, t, 1, Total(c, 1))
    <3>1. 1 \in Nat /\ 1 + 1 = 2 /\ 1 + 1 <= Len(c)
      BY <1>7
    <3>2. Fits(c, z, 1 + 1, Total(c, 1 + 1))
      BY <2>1, <3>1
    <3> QED
      BY <1>1, <2>4, <2>5, <3>1, <3>2, FitsResult
  <2>7. Fits(c, s, 0, Total(c, 0))
    <3>1. 0 \in Nat /\ 0 + 1 = 1 /\ 0 + 1 <= Len(c)
      BY <1>7
    <3>2. Fits(c, t, 0 + 1, Total(c, 0 + 1))
      BY <2>6, <3>1
    <3> QED
      BY <1>1, <2>4, <2>5, <3>1, <3>2, FitsResult
  <2> QED
    BY <1>2, <2>7 DEF s
<1> QED
  BY <1>1, <1>4, <1>5, <1>6, <1>7

(* Both answers the server has for a query have the shape of an answer.    *)
LEMMA ShapeAnswer ==
  ASSUME NEW c \in Counts
  PROVE  /\ Shape(Result(c[1]) \o <<"E", "Z">>, FALSE)
         /\ Shape(Append(Answer(c), "Z"), FALSE)
<1>1. Len(c) \in {1, 2} /\ \A i \in 1..Len(c) : c[i] \in Nat
  BY CountsType
<1> DEFINE a == Result(c[1])
           b == Result(c[2])
<1>2. a \in Seq(Messages) /\ \A i \in 1..Len(a) : a[i] \in {"C", "D"}
  <2>1. c[1] \in Nat
    BY <1>1
  <2> QED
    BY <2>1, ResultType
<1>3. Len(c) = 2 => b \in Seq(Messages) /\ \A i \in 1..Len(b) : b[i] \in {"C", "D"}
  <2> SUFFICES ASSUME Len(c) = 2
               PROVE  b \in Seq(Messages) /\ \A i \in 1..Len(b) : b[i] \in {"C", "D"}
    OBVIOUS
  <2>1. c[2] \in Nat
    BY <1>1
  <2> QED
    BY <2>1, ResultType
<1>4. Answer(c) \in Seq(Messages) /\ \A i \in 1..Len(Answer(c)) : Answer(c)[i] \in {"C", "D"}
  <2>1. CASE Len(c) = 1
    <3>1. Answer(c) = a
      BY <1>2, <2>1 DEF Answer
    <3> HIDE DEF a
    <3> QED
      BY <1>2, <3>1
  <2>2. CASE Len(c) = 2
    <3>1. Answer(c) = a \o b
      BY <2>2 DEF Answer
    <3> HIDE DEF a, b
    <3> QED
      BY <1>2, <1>3, <2>2, <3>1
  <2> QED
    BY <1>1, <2>1, <2>2
<1> HIDE DEF a, b
<1>5. Shape(a \o <<"E", "Z">>, FALSE)
  <2> DEFINE s == a \o <<"E", "Z">>
  <2>1. \A i \in 1..Len(s) : i <= Len(a) => s[i] \in {"C", "D"}
    BY <1>2
  <2>2. \A i \in 1..Len(s) : i > Len(a) => i = Len(a) + 1 \/ i = Len(a) + 2
    BY <1>2
  <2>3. s[Len(a) + 1] = "E" /\ s[Len(a) + 2] = "Z" /\ Len(s) = Len(a) + 2 /\ Len(a) \in Nat
    BY <1>2
  <2> HIDE DEF s
  <2> SUFFICES Shape(s, FALSE)
    BY DEF s
  <2> QED
    BY <2>1, <2>2, <2>3 DEF Shape
<1>6. Shape(Append(Answer(c), "Z"), FALSE)
  <2> DEFINE n == Answer(c)
             s == Append(n, "Z")
  <2> HIDE DEF n
  <2>1. /\ Len(s) = Len(n) + 1 /\ Len(n) \in Nat /\ s[Len(n) + 1] = "Z"
        /\ \A i \in 1..Len(n) : s[i] \in {"C", "D"}
    BY <1>4 DEF n
  <2> HIDE DEF s
  <2>2. Shape(s, FALSE)
    BY <2>1 DEF Shape
  <2> QED
    BY <2>2 DEF s, n
<1> QED
  BY <1>5, <1>6 DEF a

(* t is the first u messages of s, and perhaps an error after them.        *)
CutOff(t, s, u) ==
  /\ u <= Len(s)
  /\ \A i \in 1..u : t[i] = s[i]
  /\ Len(t) = u \/ (Len(t) = u + 1 /\ t[u + 1] = "E")

(* t is what is left of s after the first u messages.                      *)
Suffix(t, s, u) ==
  /\ Len(s) = u + Len(t)
  /\ \A i \in 1..Len(t) : s[u + i] = t[i]

(* Where nothing tells of an answer, cutting off, a notice and parsing     *)
(* leave nothing that does.                                                *)
LEMMA NoAnswerMoves ==
  ASSUME NEW s \in Seq(Messages), NEW t \in Seq(Messages), NEW u \in Nat, NEW broken, NEW now,
         NoAnswer(s, broken), broken => now,
         \/ CutOff(t, s, u) /\ now
         \/ Inserted(t, s, u)
         \/ Suffix(t, s, u)
  PROVE  NoAnswer(t, now)
<1>1. CASE CutOff(t, s, u) /\ now
  BY <1>1 DEF CutOff, NoAnswer
<1>2. CASE Inserted(t, s, u)
  <2> SUFFICES ASSUME NEW i \in 1..Len(t)
               PROVE  t[i] \in {"A", "N"} \/ (now /\ t[i] = "E")
    BY DEF NoAnswer
  <2>1. CASE i <= u
    BY <1>2, <2>1 DEF Inserted, NoAnswer
  <2>2. CASE i = u + 1
    BY <1>2, <2>2 DEF Inserted
  <2>3. CASE i > u + 1
    <3>1. i - 1 \in (u + 1)..Len(s) /\ (i - 1) + 1 = i /\ i - 1 \in 1..Len(s)
      BY <1>2, <2>3 DEF Inserted
    <3>2. t[i] = s[i - 1]
      BY <1>2, <3>1 DEF Inserted
    <3> QED
      BY <3>1, <3>2 DEF NoAnswer
  <2> QED
    BY <2>1, <2>2, <2>3
<1>3. CASE Suffix(t, s, u)
  <2> SUFFICES ASSUME NEW i \in 1..Len(t)
               PROVE  t[i] \in {"A", "N"} \/ (now /\ t[i] = "E")
    BY DEF NoAnswer
  <2>1. u + i \in 1..Len(s) /\ s[u + i] = t[i]
    BY <1>3 DEF Suffix
  <2> QED
    BY <2>1 DEF NoAnswer
<1> QED
  BY <1>1, <1>2, <1>3

(* Where there are no rows, cutting off, a notice and parsing leave none.  *)
LEMMA NoRowsMoves ==
  ASSUME NEW s \in Seq(Messages), NEW t \in Seq(Messages), NEW u \in Nat,
         NoRows(s),
         CutOff(t, s, u) \/ Inserted(t, s, u) \/ Suffix(t, s, u)
  PROVE  NoRows(t)
<1>1. CASE CutOff(t, s, u)
  BY <1>1 DEF CutOff, NoRows
<1>2. CASE Inserted(t, s, u)
  <2> SUFFICES ASSUME NEW i \in 1..Len(t) PROVE t[i] \notin {"C", "D"}
    BY DEF NoRows
  <2>1. CASE i <= u
    BY <1>2, <2>1 DEF Inserted, NoRows
  <2>2. CASE i = u + 1
    BY <1>2, <2>2 DEF Inserted
  <2>3. CASE i > u + 1
    <3>1. i - 1 \in (u + 1)..Len(s) /\ (i - 1) + 1 = i /\ i - 1 \in 1..Len(s)
      BY <1>2, <2>3 DEF Inserted
    <3>2. t[i] = s[i - 1]
      BY <1>2, <3>1 DEF Inserted
    <3> QED
      BY <3>1, <3>2 DEF NoRows
  <2> QED
    BY <2>1, <2>2, <2>3
<1>3. CASE Suffix(t, s, u)
  <2> SUFFICES ASSUME NEW i \in 1..Len(t) PROVE t[i] \notin {"C", "D"}
    BY DEF NoRows
  <2>1. u + i \in 1..Len(s) /\ s[u + i] = t[i]
    BY <1>3 DEF Suffix
  <2> QED
    BY <2>1 DEF NoRows
<1> QED
  BY <1>1, <1>2, <1>3

(* Cutting off, a notice and parsing keep the shape.                       *)
LEMMA ShapeMoves ==
  ASSUME NEW s \in Seq(Messages), NEW t \in Seq(Messages), NEW u \in Nat, NEW broken, NEW now,
         Shape(s, broken), broken => now,
         \/ CutOff(t, s, u) /\ now
         \/ Inserted(t, s, u)
         \/ Suffix(t, s, u)
  PROVE  Shape(t, now)
<1> SUFFICES ASSUME NEW i \in 1..Len(t), NEW j \in 1..Len(t), i < j, t[i] \in {"E", "Z"}
             PROVE  /\ t[i] = "E" => t[j] \notin {"C", "D"}
                    /\ t[i] = "Z" => t[j] \in {"A", "N"} \/ (now /\ t[j] = "E")
  BY DEF Shape
<1> DEFINE From(h, g) == g \in 1..Len(s) /\ t[h] = s[g]
<1>1. CASE CutOff(t, s, u) /\ now
  <2>1. From(i, i)
    BY <1>1 DEF CutOff
  <2>2. From(j, j) \/ t[j] = "E"
    BY <1>1 DEF CutOff
  <2> QED
    BY <1>1, <2>1, <2>2 DEF Shape
<1>2. CASE Inserted(t, s, u)
  <2>1. \A h \in 1..Len(t) : \/ h <= u /\ From(h, h)
                             \/ h = u + 1 /\ t[h] = "N"
                             \/ h > u + 1 /\ From(h, h - 1)
    <3> TAKE h \in 1..Len(t)
    <3>1. CASE h <= u
      BY <1>2, <3>1 DEF Inserted
    <3>2. CASE h = u + 1
      BY <1>2, <3>2 DEF Inserted
    <3>3. CASE h > u + 1
      <4>1. h - 1 \in (u + 1)..Len(s) /\ (h - 1) + 1 = h /\ h - 1 \in 1..Len(s)
        BY <1>2, <3>3 DEF Inserted
      <4>2. t[h] = s[h - 1]
        BY <1>2, <4>1 DEF Inserted
      <4> QED
        BY <3>3, <4>1, <4>2
    <3> QED
      BY <3>1, <3>2, <3>3
  <2>2. PICK g \in 1..Len(s) : t[i] = s[g] /\ g = IF i <= u THEN i ELSE i - 1
    BY <2>1
  <2>3. CASE t[j] = "N"
    BY <2>3
  <2>4. CASE t[j] # "N"
    <3>1. PICK h \in 1..Len(s) : t[j] = s[h] /\ h = IF j <= u THEN j ELSE j - 1
      BY <2>1, <2>4
    <3>2. g < h
      <4>1. i # u + 1 /\ j # u + 1
        BY <2>1, <2>4
      <4> QED
        BY <2>2, <3>1, <4>1
    <3> QED
      BY <2>2, <3>1, <3>2 DEF Shape
  <2> QED
    BY <2>3, <2>4
<1>3. CASE Suffix(t, s, u)
  <2>1. u + i \in 1..Len(s) /\ u + j \in 1..Len(s) /\ u + i < u + j
    BY <1>3 DEF Suffix
  <2>2. t[i] = s[u + i] /\ t[j] = s[u + j]
    BY <1>3 DEF Suffix
  <2> QED
    BY <2>1, <2>2 DEF Shape
<1> QED
  BY <1>1, <1>2, <1>3

(* The beginning of an answer: what was there before tells of nothing.     *)
LEMMA AnswerStarts ==
  ASSUME NEW x, NEW q \in Seq(Messages), NEW s \in Seq(Messages),
         NoAnswer(q, FALSE), Shape(s, FALSE), Fits(x, s, 0, 0)
  PROVE  Shape(q \o s, FALSE) /\ Fits(x, q \o s, 0, 0)
<1> DEFINE t == q \o s
<1>1. /\ t \in Seq(Messages) /\ Len(t) = Len(q) + Len(s) /\ Len(q) \in Nat
      /\ \A i \in 1..Len(q) : t[i] = q[i] /\ q[i] \in {"A", "N"}
      /\ \A i \in 1..Len(s) : t[Len(q) + i] = s[i]
  BY DEF NoAnswer
<1> HIDE DEF t
<1>2. Fits(x, t, 0, 0)
  <2>1. 0 \in Nat
    OBVIOUS
  <2> QED
    BY <1>1, <2>1, FitsPrepend
<1>3. Shape(t, FALSE)
  <2> SUFFICES ASSUME NEW i \in 1..Len(t), NEW j \in 1..Len(t), i < j, t[i] \in {"E", "Z"}
               PROVE  /\ t[i] = "E" => t[j] \notin {"C", "D"}
                      /\ t[i] = "Z" => t[j] \in {"A", "N"}
    BY DEF Shape
  <2>1. i > Len(q)
    BY <1>1
  <2>2. i - Len(q) \in 1..Len(s) /\ j - Len(q) \in 1..Len(s) /\ i - Len(q) < j - Len(q)
    BY <1>1, <2>1
  <2>3. t[Len(q) + (i - Len(q))] = s[i - Len(q)] /\ t[Len(q) + (j - Len(q))] = s[j - Len(q)]
    BY <1>1, <2>2
  <2>4. t[i] = s[i - Len(q)] /\ t[j] = s[j - Len(q)]
    BY <1>1, <2>3
  <2> QED
    BY <2>2, <2>4 DEF Shape
<1> QED
  BY <1>2, <1>3 DEF t

(* The members of three sequences joined.                                  *)
LEMMA Joins ==
  ASSUME NEW a \in Seq(Messages), NEW b \in Seq(Messages), NEW c \in Seq(Messages)
  PROVE  /\ a \o b \o c \in Seq(Messages)
         /\ Len(a \o b \o c) = Len(a) + Len(b) + Len(c)
         /\ \A i \in 1..Len(a) : (a \o b \o c)[i] = a[i]
         /\ \A i \in 1..Len(b) : (a \o b \o c)[Len(a) + i] = b[i]
         /\ \A i \in 1..Len(c) : (a \o b \o c)[Len(a) + Len(b) + i] = c[i]
<1> DEFINE d == a \o b
<1>1. /\ d \in Seq(Messages) /\ Len(d) = Len(a) + Len(b)
      /\ Len(a) \in Nat /\ Len(b) \in Nat /\ Len(c) \in Nat
      /\ \A i \in 1..Len(a) : d[i] = a[i]
      /\ \A i \in 1..Len(b) : d[Len(a) + i] = b[i]
  OBVIOUS
<1> HIDE DEF d
<1> DEFINE s == d \o c
<1>2. /\ s \in Seq(Messages) /\ Len(s) = Len(d) + Len(c)
      /\ \A i \in 1..Len(d) : s[i] = d[i]
      /\ \A i \in 1..Len(c) : s[Len(d) + i] = c[i]
  BY <1>1, JoinPair
<1> HIDE DEF s
<1>3. \A i \in 1..Len(a) : s[i] = a[i]
  BY <1>1, <1>2
<1>4. \A i \in 1..Len(b) : s[Len(a) + i] = b[i]
  BY <1>1, <1>2
<1>5. \A i \in 1..Len(c) : s[Len(a) + Len(b) + i] = c[i]
  BY <1>1, <1>2
<1>6. Len(s) = Len(a) + Len(b) + Len(c)
  BY <1>1, <1>2
<1> QED
  OBVIOUS

(* The members of the two parts of a sequence.                             *)
LEMMA Split ==
  ASSUME NEW b \in Seq(Messages), NEW n \in 0..Len(b)
  PROVE  /\ SubSeq(b, 1, n) \in Seq(Messages) /\ Len(SubSeq(b, 1, n)) = n
         /\ \A i \in 1..n : SubSeq(b, 1, n)[i] = b[i]
         /\ SubSeq(b, n + 1, Len(b)) \in Seq(Messages)
         /\ Len(SubSeq(b, n + 1, Len(b))) = Len(b) - n
         /\ \A i \in 1..(Len(b) - n) : SubSeq(b, n + 1, Len(b))[i] = b[n + i]
<1>1. n \in Nat /\ n <= Len(b) /\ Len(b) \in Nat
  OBVIOUS
<1>2. SubSeq(b, 1, n) \in Seq(Messages) /\ Len(SubSeq(b, 1, n)) = n
  BY <1>1
<1>3. \A i \in 1..n : SubSeq(b, 1, n)[i] = b[i]
  BY <1>1
<1>4. SubSeq(b, n + 1, Len(b)) \in Seq(Messages) /\ Len(SubSeq(b, n + 1, Len(b))) = Len(b) - n
  BY <1>1
<1>5. \A i \in 1..(Len(b) - n) : SubSeq(b, n + 1, Len(b))[i] = b[n + i]
  BY <1>1
<1> QED
  BY <1>2, <1>3, <1>4, <1>5

(* The two parts of a sequence joined are the sequence.                    *)
LEMMA Rejoin ==
  ASSUME NEW b \in Seq(Messages), NEW n \in 0..Len(b)
  PROVE  SubSeq(b, 1, n) \o SubSeq(b, n + 1, Len(b)) = b
<1> DEFINE p == SubSeq(b, 1, n)
           q == SubSeq(b, n + 1, Len(b))
<1>1. /\ p \in Seq(Messages) /\ Len(p) = n /\ \A i \in 1..n : p[i] = b[i]
      /\ q \in Seq(Messages) /\ Len(q) = Len(b) - n /\ \A i \in 1..(Len(b) - n) : q[i] = b[n + i]
  BY Split
<1>2. n \in Nat /\ Len(b) \in Nat /\ n <= Len(b)
  OBVIOUS
<1> HIDE DEF p, q
<1> DEFINE s == p \o q
<1>3. /\ s \in Seq(Messages) /\ Len(s) = Len(b)
      /\ \A i \in 1..n : s[i] = p[i]
      /\ \A i \in 1..Len(q) : s[n + i] = q[i]
  BY <1>1, <1>2
<1> HIDE DEF s
<1>4. \A i \in 1..Len(s) : s[i] = b[i]
  <2> TAKE i \in 1..Len(s)
  <2>1. CASE i <= n
    BY <1>1, <1>2, <1>3, <2>1
  <2>2. CASE i > n
    <3>1. i - n \in 1..Len(q) /\ n + (i - n) = i /\ i - n \in 1..(Len(b) - n)
      BY <1>1, <1>2, <1>3, <2>2
    <3>2. s[n + (i - n)] = q[i - n] /\ q[i - n] = b[n + (i - n)]
      BY <1>1, <1>3, <3>1
    <3> QED
      BY <3>1, <3>2
  <2> QED
    BY <1>2, <1>3, <2>1, <2>2
<1>5. s = b
  BY <1>3, <1>4, SameSequence
<1> QED
  BY <1>5 DEF s, p, q

(* Three sequences joined, from the left and from the right; and with the  *)
(* first n members of the second behind the first, or of the third behind  *)
(* the second.                                                             *)
Join3(a, b, c)   == a \o b \o c
Grouped(a, b, c) == a \o (b \o c)
ReadMoved(a, b, c, n) ==
  (a \o SubSeq(b, 1, n)) \o SubSeq(b, n + 1, Len(b)) \o c
SegmentMoved(a, b, c, n) ==
  a \o (b \o SubSeq(c, 1, n)) \o SubSeq(c, n + 1, Len(c))

(* Joining sequences is associative.                                       *)
LEMMA Associate ==
  ASSUME NEW a \in Seq(Messages), NEW b \in Seq(Messages), NEW c \in Seq(Messages)
  PROVE  Join3(a, b, c) = Grouped(a, b, c)
<1> DEFINE t == b \o c
<1>1. /\ t \in Seq(Messages) /\ Len(t) = Len(b) + Len(c)
      /\ Len(a) \in Nat /\ Len(b) \in Nat /\ Len(c) \in Nat
      /\ \A i \in 1..Len(b) : t[i] = b[i]
      /\ \A i \in 1..Len(c) : t[Len(b) + i] = c[i]
  OBVIOUS
<1> HIDE DEF t
<1> DEFINE r == a \o t
           s == a \o b \o c
<1>2. /\ r \in Seq(Messages) /\ Len(r) = Len(a) + Len(t)
      /\ \A i \in 1..Len(a) : r[i] = a[i]
      /\ \A i \in 1..Len(t) : r[Len(a) + i] = t[i]
  BY <1>1, JoinPair
<1>3. /\ s \in Seq(Messages) /\ Len(s) = Len(a) + Len(b) + Len(c)
      /\ \A i \in 1..Len(a) : s[i] = a[i]
      /\ \A i \in 1..Len(b) : s[Len(a) + i] = b[i]
      /\ \A i \in 1..Len(c) : s[Len(a) + Len(b) + i] = c[i]
  BY Joins
<1> HIDE DEF r, s
<1>4. Len(s) = Len(r)
  BY <1>1, <1>2, <1>3
<1>5. \A i \in 1..Len(s) : s[i] = r[i]
  <2> TAKE i \in 1..Len(s)
  <2>1. CASE i <= Len(a)
    BY <1>1, <1>2, <1>3, <2>1
  <2>2. CASE i > Len(a) /\ i <= Len(a) + Len(b)
    <3>1. i - Len(a) \in 1..Len(b) /\ Len(a) + (i - Len(a)) = i /\ i - Len(a) \in 1..Len(t)
      BY <1>1, <2>2
    <3>2. s[Len(a) + (i - Len(a))] = b[i - Len(a)] /\ r[Len(a) + (i - Len(a))] = t[i - Len(a)]
      BY <1>2, <1>3, <3>1
    <3> QED
      BY <1>1, <3>1, <3>2
  <2>3. CASE i > Len(a) + Len(b)
    <3> DEFINE j == i - Len(a) - Len(b)
    <3>1. /\ j \in 1..Len(c)
          /\ Len(a) + Len(b) + j = i
          /\ Len(b) + j \in 1..Len(t)
          /\ Len(a) + (Len(b) + j) = i
      BY <1>1, <1>3, <2>3
    <3> HIDE DEF j
    <3>2. /\ s[Len(a) + Len(b) + j] = c[j]
          /\ r[Len(a) + (Len(b) + j)] = t[Len(b) + j]
          /\ t[Len(b) + j] = c[j]
      BY <1>1, <1>2, <1>3, <3>1
    <3> QED
      BY <3>1, <3>2
  <2> QED
    BY <1>1, <1>3, <2>1, <2>2, <2>3
<1>6. s = r
  BY <1>2, <1>3, <1>4, <1>5, SameSequence
<1> QED
  BY <1>6 DEF s, r, t, Join3, Grouped

(* A read moves messages from the socket to libpq, a segment from the      *)
(* server to the socket: the order in which they are read stays.           *)
LEMMA ReadKeepsOrder ==
  ASSUME NEW a \in Seq(Messages), NEW b \in Seq(Messages), NEW c \in Seq(Messages),
         NEW n \in 0..Len(b)
  PROVE  ReadMoved(a, b, c, n) = Join3(a, b, c)
<1> DEFINE p == SubSeq(b, 1, n)
           q == SubSeq(b, n + 1, Len(b))
<1>1. p \in Seq(Messages) /\ q \in Seq(Messages) /\ p \o q = b
  <2>1. p \in Seq(Messages) /\ q \in Seq(Messages)
    BY Split
  <2>2. p \o q = b
    BY Rejoin
  <2> QED
    BY <2>1, <2>2
<1> HIDE DEF p, q
<1>2. Join3(a, p, q) = Grouped(a, p, q)
  BY <1>1, Associate
<1>3. (a \o p \o q) \o c = a \o b \o c
  BY <1>1, <1>2 DEF Join3, Grouped
<1> QED
  BY <1>3 DEF p, q, ReadMoved, Join3

(* A segment moved from the third of three sequences to the second leaves  *)
(* them joined as they were.                                               *)
LEMMA SegmentKeepsOrder ==
  ASSUME NEW a \in Seq(Messages), NEW b \in Seq(Messages), NEW c \in Seq(Messages),
         NEW n \in 0..Len(c)
  PROVE  SegmentMoved(a, b, c, n) = Join3(a, b, c)
<1> DEFINE p == SubSeq(c, 1, n)
           q == SubSeq(c, n + 1, Len(c))
           d == a \o b
<1>1. p \in Seq(Messages) /\ q \in Seq(Messages) /\ p \o q = c
  <2>1. p \in Seq(Messages) /\ q \in Seq(Messages)
    BY Split
  <2>2. p \o q = c
    BY Rejoin
  <2> QED
    BY <2>1, <2>2
<1> HIDE DEF p, q
<1>2. Join3(a, b, p) = Grouped(a, b, p)
  BY <1>1, Associate
<1>3. d \in Seq(Messages)
  OBVIOUS
<1> HIDE DEF d
<1>4. Join3(d, p, q) = Grouped(d, p, q)
  BY <1>1, <1>3, Associate
<1>5. (a \o (b \o p)) \o q = d \o c
  BY <1>1, <1>2, <1>4 DEF d, Join3, Grouped
<1> QED
  BY <1>5 DEF d, p, q, SegmentMoved, Join3

(* s is made of three parts, and each of its members is one of theirs.     *)
ThreeParts(s, a, b, c) ==
  /\ s \in Seq(Messages) /\ Len(s) = Len(a) + Len(b) + Len(c)
  /\ \A i \in 1..Len(a) : s[i] = a[i]
  /\ \A i \in 1..Len(b) : s[Len(a) + i] = b[i]
  /\ \A i \in 1..Len(c) : s[Len(a) + Len(b) + i] = c[i]

(* Three sequences joined are made of them.                                *)
LEMMA JoinedParts ==
  ASSUME NEW a \in Seq(Messages), NEW b \in Seq(Messages), NEW c \in Seq(Messages)
  PROVE  ThreeParts(a \o b \o c, a, b, c)
BY Joins DEF ThreeParts

(* A notice behind the second of three sequences is one inserted in them   *)
(* joined.                                                                 *)
LEMMA NoticeInserted ==
  ASSUME NEW a \in Seq(Messages), NEW b \in Seq(Messages), NEW c \in Seq(Messages)
  PROVE  Inserted(a \o Append(b, "N") \o c, a \o b \o c, Len(a) + Len(b))
<1> DEFINE n == Append(b, "N")
           s == a \o b \o c
           t == a \o n \o c
<1>1. /\ n \in Seq(Messages) /\ Len(n) = Len(b) + 1 /\ n[Len(b) + 1] = "N"
      /\ \A i \in 1..Len(b) : n[i] = b[i]
      /\ Len(a) \in Nat /\ Len(b) \in Nat /\ Len(c) \in Nat
  BY DEF Messages
<1> HIDE DEF n
<1>2. /\ s \in Seq(Messages) /\ Len(s) = Len(a) + Len(b) + Len(c)
      /\ \A i \in 1..Len(a) : s[i] = a[i]
      /\ \A i \in 1..Len(b) : s[Len(a) + i] = b[i]
      /\ \A i \in 1..Len(c) : s[Len(a) + Len(b) + i] = c[i]
  BY Joins
<1>3. /\ t \in Seq(Messages) /\ Len(t) = Len(a) + Len(n) + Len(c)
      /\ \A i \in 1..Len(a) : t[i] = a[i]
      /\ \A i \in 1..Len(n) : t[Len(a) + i] = n[i]
      /\ \A i \in 1..Len(c) : t[Len(a) + Len(n) + i] = c[i]
  <2>1. n \in Seq(Messages)
    BY <1>1
  <2>2. ThreeParts(t, a, n, c)
    BY <2>1, JoinedParts
  <2> HIDE DEF t
  <2> QED
    BY <2>2 DEF ThreeParts
<1> HIDE DEF s, t
<1> DEFINE u == Len(a) + Len(b)
<1>4. u <= Len(s) /\ Len(t) = Len(s) + 1
  BY <1>1, <1>2, <1>3
<1>5. \A i \in 1..u : t[i] = s[i]
  <2> TAKE i \in 1..u
  <2>1. CASE i <= Len(a)
    BY <1>1, <1>2, <1>3, <2>1
  <2>2. CASE i > Len(a)
    <3>1. i - Len(a) \in 1..Len(b) /\ i - Len(a) \in 1..Len(n) /\ Len(a) + (i - Len(a)) = i
      BY <1>1, <2>2
    <3>2. t[Len(a) + (i - Len(a))] = n[i - Len(a)] /\ s[Len(a) + (i - Len(a))] = b[i - Len(a)]
      BY <1>2, <1>3, <3>1
    <3> QED
      BY <1>1, <3>1, <3>2
  <2> QED
    BY <1>1, <2>1, <2>2
<1>6. t[u + 1] = "N"
  <2>1. Len(b) + 1 \in 1..Len(n) /\ Len(a) + (Len(b) + 1) = u + 1
    BY <1>1
  <2>2. t[Len(a) + (Len(b) + 1)] = n[Len(b) + 1]
    BY <1>3, <2>1
  <2> QED
    BY <1>1, <2>1, <2>2
<1>7. \A i \in (u + 1)..Len(s) : t[i + 1] = s[i]
  <2> TAKE i \in (u + 1)..Len(s)
  <2> DEFINE j == i - u
  <2>1. j \in 1..Len(c) /\ Len(a) + Len(b) + j = i /\ Len(a) + Len(n) + j = i + 1
    BY <1>1, <1>2
  <2> HIDE DEF j
  <2>2. s[Len(a) + Len(b) + j] = c[j] /\ t[Len(a) + Len(n) + j] = c[j]
    BY <1>2, <1>3, <2>1
  <2> QED
    BY <2>1, <2>2
<1>8. Inserted(t, s, u)
  BY <1>4, <1>5, <1>6, <1>7 DEF Inserted
<1> QED
  BY <1>8 DEF s, t, n

(* The third of three sequences gone, and an error perhaps in its place,   *)
(* is a cut.                                                               *)
LEMMA EndCutsOff ==
  ASSUME NEW a \in Seq(Messages), NEW b \in Seq(Messages), NEW c \in Seq(Messages),
         NEW d, d \in {b, Append(b, "E")}
  PROVE  d \in Seq(Messages) /\ CutOff(a \o d \o <<>>, a \o b \o c, Len(a) + Len(b))
<1> DEFINE s == a \o b \o c
           t == a \o d \o <<>>
           u == Len(a) + Len(b)
<1>1. /\ d \in Seq(Messages) /\ Len(a) \in Nat /\ Len(b) \in Nat /\ Len(c) \in Nat
      /\ Len(d) = Len(b) \/ (Len(d) = Len(b) + 1 /\ d[Len(b) + 1] = "E")
      /\ \A i \in 1..Len(b) : d[i] = b[i]
  <2>1. "E" \in Messages
    BY DEF Messages
  <2>2. CASE d = b
    BY <2>2
  <2>3. CASE d = Append(b, "E")
    BY <2>1, <2>3
  <2> QED
    BY <2>2, <2>3
<1>2. /\ s \in Seq(Messages) /\ Len(s) = Len(a) + Len(b) + Len(c)
      /\ \A i \in 1..Len(a) : s[i] = a[i]
      /\ \A i \in 1..Len(b) : s[Len(a) + i] = b[i]
  BY Joins
<1>3. /\ t \in Seq(Messages) /\ Len(t) = Len(a) + Len(d)
      /\ \A i \in 1..Len(a) : t[i] = a[i]
      /\ \A i \in 1..Len(d) : t[Len(a) + i] = d[i]
  <2>1. t = a \o d
    BY <1>1
  <2> HIDE DEF t
  <2> QED
    BY <1>1, <2>1, JoinPair
<1> HIDE DEF s, t
<1>4. u <= Len(s) /\ u \in Nat
  BY <1>1, <1>2
<1>5. \A i \in 1..u : t[i] = s[i]
  <2> TAKE i \in 1..u
  <2>1. CASE i <= Len(a)
    BY <1>1, <1>2, <1>3, <2>1
  <2>2. CASE i > Len(a)
    <3>1. i - Len(a) \in 1..Len(b) /\ i - Len(a) \in 1..Len(d) /\ Len(a) + (i - Len(a)) = i
      BY <1>1, <2>2
    <3>2. t[Len(a) + (i - Len(a))] = d[i - Len(a)] /\ s[Len(a) + (i - Len(a))] = b[i - Len(a)]
      BY <1>2, <1>3, <3>1
    <3> QED
      BY <1>1, <3>1, <3>2
  <2> QED
    BY <1>1, <2>1, <2>2
<1>6. Len(t) = u \/ (Len(t) = u + 1 /\ t[u + 1] = "E")
  <2>1. CASE Len(d) = Len(b)
    BY <1>1, <1>3, <2>1
  <2>2. CASE Len(d) = Len(b) + 1 /\ d[Len(b) + 1] = "E"
    <3>1. Len(b) + 1 \in 1..Len(d) /\ Len(a) + (Len(b) + 1) = u + 1
      BY <1>1, <2>2
    <3>2. t[Len(a) + (Len(b) + 1)] = d[Len(b) + 1]
      BY <1>3, <3>1
    <3> QED
      BY <1>1, <1>3, <2>2, <3>1, <3>2
  <2> QED
    BY <1>1, <2>1, <2>2
<1>7. CutOff(t, s, u)
  BY <1>4, <1>5, <1>6 DEF CutOff
<1> QED
  BY <1>1, <1>7 DEF s, t

(* Parsing the beginning of the first of three sequences leaves the rest   *)
(* of them joined.                                                         *)
LEMMA ParsedSuffix ==
  ASSUME NEW a \in Seq(Messages), NEW b \in Seq(Messages), NEW c \in Seq(Messages),
         NEW u \in 0..Len(a)
  PROVE  Suffix(SubSeq(a, u + 1, Len(a)) \o b \o c, a \o b \o c, u)
<1> DEFINE p == SubSeq(a, 1, u)
           q == SubSeq(a, u + 1, Len(a))
           s == a \o b \o c
           t == q \o b \o c
<1>1. p \in Seq(Messages) /\ Len(p) = u /\ q \in Seq(Messages) /\ p \o q = a
  <2>1. p \in Seq(Messages) /\ q \in Seq(Messages) /\ Len(p) = u
    BY Split
  <2>2. p \o q = a
    BY Rejoin
  <2> QED
    BY <2>1, <2>2
<1> HIDE DEF p, q
<1>2. t \in Seq(Messages)
  BY <1>1, Joins
<1>3. s = p \o t
  <2> DEFINE d == q \o b
  <2>0. d \in Seq(Messages)
    BY <1>1, JoinPair
  <2>1. Join3(p, q, b) = Grouped(p, q, b)
    BY <1>1, Associate
  <2> HIDE DEF d
  <2>2. Join3(p, d, c) = Grouped(p, d, c)
    BY <1>1, <2>0, Associate
  <2>3. a \o b = p \o (q \o b)
    BY <1>1, <2>1 DEF Join3, Grouped
  <2>4. a \o b = p \o d
    BY <2>3 DEF d
  <2>5. a \o b \o c = p \o (d \o c)
    BY <2>2, <2>4 DEF Join3, Grouped
  <2> QED
    BY <2>5 DEF d
<1> HIDE DEF s, t
<1>4. Suffix(t, s, u)
  <2>1. /\ Len(p \o t) = Len(p) + Len(t)
        /\ \A i \in 1..Len(t) : (p \o t)[Len(p) + i] = t[i]
    BY <1>1, <1>2, JoinPair
  <2> QED
    BY <1>1, <1>3, <2>1 DEF Suffix
<1> QED
  BY <1>4 DEF s, t, q

(* Joined sequences tell of no answer where none of them does.             *)
LEMMA NoAnswerParts ==
  ASSUME NEW a \in Seq(Messages), NEW b \in Seq(Messages), NEW c \in Seq(Messages), NEW broken
  PROVE  NoAnswer(a \o b \o c, broken)
           <=> NoAnswer(a, broken) /\ NoAnswer(b, broken) /\ NoAnswer(c, broken)
<1> DEFINE s == a \o b \o c
<1>1. /\ s \in Seq(Messages) /\ Len(s) = Len(a) + Len(b) + Len(c)
      /\ \A i \in 1..Len(a) : s[i] = a[i]
      /\ \A i \in 1..Len(b) : s[Len(a) + i] = b[i]
      /\ \A i \in 1..Len(c) : s[Len(a) + Len(b) + i] = c[i]
      /\ Len(a) \in Nat /\ Len(b) \in Nat /\ Len(c) \in Nat
  BY Joins
<1> HIDE DEF s
<1>2. ASSUME NoAnswer(s, broken)
      PROVE  NoAnswer(a, broken) /\ NoAnswer(b, broken) /\ NoAnswer(c, broken)
  <2>1. NoAnswer(a, broken)
    BY <1>1, <1>2 DEF NoAnswer
  <2>2. NoAnswer(b, broken)
    <3> SUFFICES ASSUME NEW i \in 1..Len(b) PROVE b[i] \in {"A", "N"} \/ (broken /\ b[i] = "E")
      BY DEF NoAnswer
    <3>1. Len(a) + i \in 1..Len(s) /\ s[Len(a) + i] = b[i]
      BY <1>1
    <3> QED
      BY <1>2, <3>1 DEF NoAnswer
  <2>3. NoAnswer(c, broken)
    <3> SUFFICES ASSUME NEW i \in 1..Len(c) PROVE c[i] \in {"A", "N"} \/ (broken /\ c[i] = "E")
      BY DEF NoAnswer
    <3>1. Len(a) + Len(b) + i \in 1..Len(s) /\ s[Len(a) + Len(b) + i] = c[i]
      BY <1>1
    <3> QED
      BY <1>2, <3>1 DEF NoAnswer
  <2> QED
    BY <2>1, <2>2, <2>3
<1>3. ASSUME NoAnswer(a, broken), NoAnswer(b, broken), NoAnswer(c, broken)
      PROVE  NoAnswer(s, broken)
  <2> SUFFICES ASSUME NEW i \in 1..Len(s) PROVE s[i] \in {"A", "N"} \/ (broken /\ s[i] = "E")
    BY DEF NoAnswer
  <2>1. CASE i <= Len(a)
    <3>1. i \in 1..Len(a) /\ s[i] = a[i]
      BY <1>1, <2>1
    <3> QED
      BY <1>3, <3>1 DEF NoAnswer
  <2>2. CASE i > Len(a) /\ i <= Len(a) + Len(b)
    <3>1. i - Len(a) \in 1..Len(b) /\ Len(a) + (i - Len(a)) = i
      BY <1>1, <2>2
    <3>2. s[Len(a) + (i - Len(a))] = b[i - Len(a)]
      BY <1>1, <3>1
    <3> QED
      BY <1>3, <3>1, <3>2 DEF NoAnswer
  <2>3. CASE i > Len(a) + Len(b)
    <3> DEFINE j == i - Len(a) - Len(b)
    <3>1. j \in 1..Len(c) /\ Len(a) + Len(b) + j = i
      BY <1>1, <2>3
    <3> HIDE DEF j
    <3>2. s[Len(a) + Len(b) + j] = c[j]
      BY <1>1, <3>1
    <3> QED
      BY <1>3, <3>1, <3>2 DEF NoAnswer
  <2> QED
    BY <1>1, <2>1, <2>2, <2>3
<1> QED
  BY <1>2, <1>3 DEF s

(* What libpq finds in the first u messages, an end at most the last.      *)
LEMMA ParseFits ==
  ASSUME NEW x, IsAnswer(x), NEW s \in Seq(Messages), NEW t \in Seq(Messages),
         NEW u \in Nat, NEW k \in Nat, NEW r \in Nat,
         Suffix(t, s, u), Fits(x, s, k, Total(x, k) + r),
         \A i \in 1..u : i < u => s[i] \notin {"C", "E", "Z"}
  PROVE  /\ r + Count(s, "D", u) \in 0..MaxRows
         /\ u = 0 \/ s[u] \notin {"C", "E", "Z"} =>
                Fits(x, t, k, Total(x, k) + (r + Count(s, "D", u)))
         /\ u > 0 /\ s[u] = "C" => /\ k + 1 <= Len(x)
                                   /\ r + Count(s, "D", u) = x[k + 1]
                                   /\ Fits(x, t, k + 1, Total(x, k + 1))
         /\ u > 0 /\ s[u] = "Z" => k = Len(x)
<1> DEFINE d == Total(x, k) + r
           n == Count(s, "D", u)
<1>1. /\ Total(x, k) \in Nat /\ d \in Nat /\ n \in Nat /\ u <= Len(s) /\ Len(s) \in Nat
      /\ Total(x, k + 1) = Total(x, k) + IF k + 1 <= Len(x) THEN x[k + 1] ELSE 0
      /\ k + 1 <= Len(x) => x[k + 1] \in 0..MaxRows
  <2>1. /\ Total(x, k) \in Nat
        /\ Total(x, k + 1) = Total(x, k) + IF k + 1 <= Len(x) THEN x[k + 1] ELSE 0
        /\ k + 1 <= Len(x) => x[k + 1] \in 0..MaxRows
    BY TotalStep
  <2>2. n \in Nat
    BY CountFinite
  <2>3. u <= Len(s) /\ Len(s) \in Nat
    BY DEF Suffix
  <2> QED
    BY <2>1, <2>2, <2>3
<1>2. ASSUME NEW v \in 0..u, NoEnd(s, v), Count(s, "C", v) = 0, Count(s, "D", v) = n
      PROVE  k <= Len(x) /\ d + n <= Total(x, k + 1)
  <2>1. v \in 0..Len(s)
    BY <1>1
  <2>2. /\ k + Count(s, "C", v) <= Len(x)
        /\ d + Count(s, "D", v) <= Total(x, k + Count(s, "C", v) + 1)
    BY <1>2, <2>1 DEF Fits
  <2> QED
    BY <1>2, <2>2
<1>3. ASSUME d + n <= Total(x, k + 1)
      PROVE  r + n \in 0..MaxRows
  <2> HIDE DEF n
  <2>1. PICK m \in 0..MaxRows : Total(x, k + 1) = Total(x, k) + m
    <3>1. CASE k + 1 <= Len(x)
      BY <1>1, <3>1
    <3>2. CASE ~ (k + 1 <= Len(x))
      <4>1. 0 \in 0..MaxRows
        BY Constants
      <4> QED
        BY <1>1, <3>2, <4>1
    <3> QED
      BY <3>1, <3>2
  <2>2. (Total(x, k) + r) + n <= Total(x, k) + m
    BY <1>3, <2>1
  <2>3. \A a, b, e, f \in Nat : (a + b) + e <= a + f => b + e \in Nat /\ b + e <= f
    OBVIOUS
  <2>4. m \in Nat /\ m <= MaxRows
    BY Constants
  <2>5. r + n \in Nat /\ r + n <= m
    BY <1>1, <2>2, <2>3, <2>4
  <2> QED
    BY <2>4, <2>5, Constants
<1>4. CASE u = 0 \/ s[u] \notin {"C", "E", "Z"}
  <2>1. NoEnd(s, u) /\ \A i \in 1..u : s[i] # "C"
    BY <1>4 DEF NoEnd
  <2>2. Count(s, "C", u) = 0
    BY <2>1, CountNone
  <2>3. d + n <= Total(x, k + 1)
    BY <1>2, <2>1, <2>2
  <2>4. Fits(x, t, k + Count(s, "C", u), d + n)
    <3>1. Len(s) = u + Len(t) /\ \A i \in 1..Len(t) : s[u + i] = t[i]
      BY DEF Suffix
    <3> HIDE DEF d
    <3>2. Fits(x, s, k, d)
      BY DEF d
    <3> QED
      BY <1>1, <2>1, <3>1, <3>2, FitsSuffix
  <2>5. Fits(x, t, k, Total(x, k) + (r + n))
    <3>1. k + Count(s, "C", u) = k /\ d + n = Total(x, k) + (r + n)
      BY <1>1, <2>2
    <3> QED
      BY <2>4, <3>1
  <2>6. r + n \in 0..MaxRows
    BY <1>3, <2>3
  <2> HIDE DEF n
  <2>7. (u > 0 => s[u] # "C" /\ s[u] # "Z")
    BY <1>4
  <2> QED
    BY <2>5, <2>6, <2>7 DEF n
<1>5. CASE u > 0 /\ s[u] \in {"C", "E", "Z"}
  <2>1. /\ u - 1 \in 0..u /\ u - 1 \in Nat /\ (u - 1) + 1 = u /\ u \in 1..Len(s)
        /\ NoEnd(s, u - 1) /\ \A i \in 1..(u - 1) : s[i] # "C"
    BY <1>1, <1>5 DEF NoEnd
  <2>2. Count(s, "C", u - 1) = 0
    BY <2>1, CountNone
  <2>3. Count(s, "D", u - 1) = n
    <3>1. Count(s, "D", (u - 1) + 1) =
            Count(s, "D", u - 1) + (IF s[(u - 1) + 1] = "D" THEN 1 ELSE 0)
      BY <2>1, CountStep
    <3>2. Count(s, "D", u - 1) \in Nat
      BY <2>1, CountFinite
    <3> QED
      BY <1>5, <2>1, <3>1, <3>2
  <2>4. k <= Len(x) /\ d + n <= Total(x, k + 1)
    BY <1>2, <2>1, <2>2, <2>3
  <2>5. r + n \in 0..MaxRows
    BY <1>3, <2>4
  <2>6. ASSUME s[u] = "C"
        PROVE  k + 1 <= Len(x) /\ r + n = x[k + 1] /\ Fits(x, t, k + 1, Total(x, k + 1))
    <3>1. NoEnd(s, u)
      BY <2>1, <2>6 DEF NoEnd
    <3>2. Count(s, "C", u) = 1
      <4>1. Count(s, "C", (u - 1) + 1) =
              Count(s, "C", u - 1) + (IF s[(u - 1) + 1] = "C" THEN 1 ELSE 0)
        BY <2>1, CountStep
      <4> QED
        BY <2>1, <2>2, <2>6, <4>1
    <3>3. d + n = Total(x, k + 1) /\ k + 1 <= Len(x)
      <4>1. d + n = Total(x, k + Count(s, "C", u))
        BY <2>1, <2>6, <3>1 DEF Fits
      <4>2. k + Count(s, "C", u) <= Len(x)
        <5>1. u \in 0..Len(s)
          BY <2>1
        <5> QED
          BY <3>1, <5>1 DEF Fits
      <4> QED
        BY <3>2, <4>1, <4>2
    <3>4. r + n = x[k + 1]
      <4>1. d + n = Total(x, k) + (r + n) /\ Total(x, k + 1) = Total(x, k) + x[k + 1]
        BY <1>1, <3>3
      <4>2. x[k + 1] \in Nat
        BY <1>1, <3>3, Constants
      <4>3. r + n \in Nat /\ Total(x, k) \in Nat
        BY <1>1
      <4>4. Total(x, k) + (r + n) = Total(x, k) + x[k + 1]
        BY <3>3, <4>1
      <4>5. \A a, b, c \in Nat : a + b = a + c => b = c
        OBVIOUS
      <4> HIDE DEF d, n
      <4> QED
        BY <4>2, <4>3, <4>4, <4>5
    <3>5. Fits(x, t, k + Count(s, "C", u), d + n)
      <4>1. Len(s) = u + Len(t) /\ \A i \in 1..Len(t) : s[u + i] = t[i]
        BY DEF Suffix
      <4> HIDE DEF d
      <4>2. Fits(x, s, k, d)
        BY DEF d
      <4> QED
        BY <1>1, <3>1, <4>1, <4>2, FitsSuffix
    <3> QED
      BY <3>2, <3>3, <3>4, <3>5
  <2>7. ASSUME s[u] = "Z"
        PROVE  k = Len(x)
    <3>1. k + Count(s, "C", u - 1) = Len(x)
      BY <2>1, <2>7 DEF Fits
    <3> QED
      BY <2>2, <3>1
  <2> HIDE DEF n
  <2> QED
    BY <1>5, <2>5, <2>6, <2>7 DEF n
<1> QED
  BY <1>4, <1>5

(***************************************************************************)
(* The answer: the messages parsed, held and yet to come are those of the  *)
(* query under way, so its callback finds its own rows.                    *)
(***************************************************************************)

(* What the program still has to be told, from the oldest message on.      *)
Stream == rx \o inbox \o reply

(* The server has closed or reset the connection.                          *)
Broken  == server \in {"closed", "reset"}

(* The answer has ended with an error.                                     *)
Errored == pc = "drain" \/ (async = "ready" /\ outcome = "E")

(* The results that are complete, the one not yet fetched among them.      *)
Over    == Len(results) + IF async = "ready" THEN 1 ELSE 0

(* The rows that have been parsed.                                         *)
Counted == Total(expected, Over) + IF async = "ready" THEN 0 ELSE rows

(* The chunks of a query are in libpq, in the socket, or with the server.  *)
SendInv ==
  server = "up" => IF async = "idle" THEN unsent = 0 /\ flight = 0
                   ELSE unsent + flight + received = QuerySize

(* The rows and the chunks stay within the answer and the query.           *)
BoundInv ==
  /\ rows <= MaxRows
  /\ \A i \in 1..Len(results) : results[i] <= MaxRows
  /\ received <= QuerySize

(* Before the whole query is with the server there is nothing to be told.  *)
QuietInv ==
  /\ status # "bad" /\ (async = "idle" \/ (Live /\ received < QuerySize)) =>
       NoAnswer(Stream, Broken)
  /\ Live /\ async # "idle" /\ received < QuerySize /\ ~ Broken =>
       async = "busy" /\ rows = 0 /\ results = <<>> /\ pc # "drain"

(* Then what there is continues the answer.                                *)
AnsweringInv ==
  Live /\ async # "idle" /\ received = QuerySize =>
    /\ IsAnswer(expected)
    /\ Shape(Stream, Broken)
    /\ Errored => NoRows(Stream)
    /\ ~ Errored => Fits(expected, Stream, Over, Counted)

(* What has been stored is the beginning of the answer.                    *)
ResultInv ==
  /\ pc = "get" /\ async # "idle" /\ received < QuerySize => async = "ready" /\ outcome = "E"
  /\ pc = "get" /\ async # "idle" /\ received = QuerySize /\ ~ Errored =>
       /\ \A i \in 1..Len(results) : results[i] = expected[i]
       /\ async = "ready" => rows = expected[Len(results) + 1]
  /\ pc = "get" /\ async = "idle" => results = expected
  /\ OwnAnswer

(* What the answer to a query keeps, from its chunks to the results        *)
(* stored.                                                                 *)
AnswerInv == SendInv /\ BoundInv /\ QuietInv /\ AnsweringInv /\ ResultInv

(* What there is to be told is a sequence of messages.                     *)
LEMMA StreamType ==
  ASSUME ControlInv
  PROVE  /\ rx \in Seq(Messages) /\ inbox \in Seq(Messages) /\ reply \in Seq(Messages)
         /\ Stream \in Seq(Messages)
<1>1. rx \in Seq(Messages) /\ inbox \in Seq(Messages) /\ reply \in Seq(Messages)
  BY DEF ControlInv, CoreTypeOK
<1>2. rx \o inbox \o reply \in Seq(Messages)
  BY <1>1, Joins
<1> QED
  BY <1>1, <1>2 DEF Stream

(* The same after a step.                                                  *)
LEMMA StreamTypeNext ==
  ASSUME ControlInv'
  PROVE  Stream' \in Seq(Messages)
<1>1. rx' \in Seq(Messages) /\ inbox' \in Seq(Messages) /\ reply' \in Seq(Messages)
  BY DEF ControlInv, CoreTypeOK
<1>2. rx' \o inbox' \o reply' \in Seq(Messages)
  BY <1>1, Joins
<1> QED
  BY <1>2 DEF Stream

(* What is complete and what has been parsed are natural numbers.          *)
LEMMA CountedType ==
  ASSUME ControlInv, IsAnswer(expected)
  PROVE  Over \in Nat /\ Counted \in Nat
<1>1. Len(results) \in Nat /\ rows \in Nat
  BY DEF ControlInv, CoreTypeOK
<1>2. Over \in Nat
  BY <1>1 DEF Over
<1>3. Total(expected, Over) \in Nat
  BY <1>2, TotalStep
<1> QED
  BY <1>1, <1>2, <1>3 DEF Counted

(* Nothing the answer depends on changes but where its messages are.       *)
LEMMA AnswerStays ==
  ASSUME AnswerInv, Stream' = Stream,
         UNCHANGED <<async, rows, outcome, results, received, expected, server, status,
                     is_error, operation>>,
         unsent' + flight' = unsent + flight, async = "idle" => UNCHANGED <<unsent, flight>>,
         pc' = pc \/ {pc, pc'} \cap {"get", "drain", "callback"} = {}
  PROVE  AnswerInv'
<1>0. SendInv /\ BoundInv /\ QuietInv /\ AnsweringInv /\ ResultInv
  BY DEF AnswerInv
<1>1. SendInv'
  BY <1>0 DEF SendInv
<1>2. BoundInv'
  BY <1>0 DEF BoundInv
<1>3. /\ (pc' = "get") = (pc = "get") /\ (pc' = "drain") = (pc = "drain")
      /\ (pc' = "callback") = (pc = "callback")
  OBVIOUS
<1>4. Live' = Live /\ Broken' = Broken /\ Errored' = Errored /\ Over' = Over /\ Counted' = Counted
  BY DEF Live, Broken, Errored, Over, Counted
<1>5. QuietInv'
  BY <1>0, <1>3, <1>4 DEF QuietInv
<1>6. AnsweringInv'
  BY <1>0, <1>4 DEF AnsweringInv
<1>7. ResultInv'
  BY <1>0, <1>3, <1>4 DEF ResultInv, OwnAnswer
<1> QED
  BY <1>1, <1>2, <1>5, <1>6, <1>7 DEF AnswerInv

(* The operation fails and calls back.                                     *)
LEMMA AnswerGivenUp ==
  ASSUME AnswerInv,
         UNCHANGED <<async, unsent, rx, rows, outcome, results, inbox, flight, reply, received,
                     expected, server>>,
         status' \in {status, "bad"}, pc' = "callback", is_error' = TRUE
  PROVE  AnswerInv'
<1>0. SendInv /\ BoundInv /\ QuietInv
  BY DEF AnswerInv
<1>1. SendInv'
  BY <1>0 DEF SendInv
<1>2. BoundInv'
  BY <1>0 DEF BoundInv
<1>3. ~ Live' /\ Stream' = Stream /\ Broken' = Broken
  BY DEF Live, Stream, Broken
<1>4. QuietInv'
  BY <1>0, <1>3 DEF QuietInv
<1>5. AnsweringInv'
  BY <1>3 DEF AnsweringInv
<1>6. ResultInv'
  BY DEF ResultInv, OwnAnswer
<1> QED
  BY <1>1, <1>2, <1>4, <1>5, <1>6 DEF AnswerInv

(* The server's notice, or its end, changes what is still to come.         *)
LEMMA AnswerMoves ==
  ASSUME ControlInv, AnswerInv, Stream' \in Seq(Messages), NEW u \in Nat,
         UNCHANGED <<objVars, pqVars, flight, received, expected, pc, operation>>,
         \/ CutOff(Stream', Stream, u) /\ Broken'
         \/ Inserted(Stream', Stream, u),
         Broken => Broken', server' = "up" => server = "up"
  PROVE  AnswerInv'
<1>0. SendInv /\ BoundInv /\ QuietInv /\ AnsweringInv /\ ResultInv
  BY DEF AnswerInv
<1>1. SendInv'
  BY <1>0 DEF SendInv, pqVars
<1>2. BoundInv'
  BY <1>0 DEF BoundInv, objVars, pqVars
<1>3. Live' = Live /\ Errored' = Errored /\ Over' = Over /\ Counted' = Counted
  BY DEF Live, Errored, Over, Counted, objVars, pqVars
<1>4. Stream \in Seq(Messages)
  BY StreamType
<1>5. NoAnswer(Stream, Broken) => NoAnswer(Stream', Broken')
  BY <1>4, NoAnswerMoves
<1>6. QuietInv'
  BY <1>0, <1>3, <1>5 DEF QuietInv, objVars, pqVars
<1>7. ASSUME Live, async # "idle", received = QuerySize
      PROVE  /\ IsAnswer(expected)
             /\ Shape(Stream', Broken')
             /\ Errored => NoRows(Stream')
             /\ ~ Errored => Fits(expected, Stream', Over, Counted)
  <2>1. /\ IsAnswer(expected)
        /\ Shape(Stream, Broken)
        /\ Errored => NoRows(Stream)
        /\ ~ Errored => Fits(expected, Stream, Over, Counted)
    BY <1>0, <1>7 DEF AnsweringInv
  <2>2. Shape(Stream', Broken')
    BY <1>4, <2>1, ShapeMoves
  <2>3. NoRows(Stream) => NoRows(Stream')
    BY <1>4, NoRowsMoves
  <2>4. Over \in Nat /\ Counted \in Nat
    BY <2>1, CountedType
  <2>5. ASSUME Fits(expected, Stream, Over, Counted)
        PROVE  Fits(expected, Stream', Over, Counted)
    <3>1. CASE CutOff(Stream', Stream, u)
      <4>1. /\ u <= Len(Stream) /\ \A i \in 1..u : Stream'[i] = Stream[i]
            /\ Len(Stream') = u \/ (Len(Stream') = u + 1 /\ Stream'[u + 1] = "E")
        BY <3>1 DEF CutOff
      <4> QED
        BY <1>4, <2>4, <2>5, <4>1, FitsCut
    <3>2. CASE Inserted(Stream', Stream, u)
      BY <1>4, <2>4, <2>5, <3>2, FitsInsert
    <3> QED
      BY <3>1, <3>2
  <2> QED
    BY <2>1, <2>2, <2>3, <2>5
<1>8. AnsweringInv'
  BY <1>3, <1>7 DEF AnsweringInv, pqVars
<1>9. ResultInv'
  BY <1>0, <1>3 DEF ResultInv, OwnAnswer, objVars, pqVars
<1> QED
  BY <1>1, <1>2, <1>6, <1>8, <1>9 DEF AnswerInv

(* The server sends a notice nobody asked for: AnswerInv is kept.          *)
LEMMA ServerNoticeAnswer == ControlInv /\ ControlInv' /\ AnswerInv /\ ServerNotice => AnswerInv'
<1> SUFFICES ASSUME ControlInv, ControlInv', AnswerInv, ServerNotice PROVE AnswerInv'
  OBVIOUS
<1> DEFINE u == Len(rx) + Len(inbox)
<1>1. u \in Nat /\ Inserted(Stream', Stream, u)
  <2>1. rx \in Seq(Messages) /\ inbox \in Seq(Messages) /\ reply \in Seq(Messages)
    BY StreamType
  <2>2. Stream' = rx \o Append(inbox, "N") \o reply
    BY DEF Stream, ServerNotice, ServerFrame, pqVars
  <2>3. Inserted(rx \o Append(inbox, "N") \o reply, rx \o inbox \o reply, u)
    BY <2>1, NoticeInserted
  <2>4. u \in Nat
    BY <2>1
  <2> QED
    BY <2>2, <2>3, <2>4 DEF Stream
<1>2. Stream' \in Seq(Messages)
  BY StreamTypeNext
<1>3. /\ UNCHANGED <<objVars, pqVars, flight, received, expected, pc, operation>>
      /\ server' = server
  BY DEF ServerNotice, ServerFrame
<1>4. Broken' = Broken
  BY <1>3 DEF Broken
<1> HIDE DEF u
<1> QED
  BY <1>1, <1>2, <1>3, <1>4, AnswerMoves

(* The server's end cuts the answer off: AnswerInv is kept.                *)
LEMMA EndAnswer ==
  ASSUME ControlInv, ControlInv', AnswerInv,
         reply' = <<>>, inbox' \in {inbox, Append(inbox, "E")}, server' \in {"closed", "reset"},
         UNCHANGED <<objVars, pqVars, flight, received, expected, pc, operation>>
  PROVE  AnswerInv'
<1> DEFINE u == Len(rx) + Len(inbox)
<1>1. u \in Nat /\ CutOff(Stream', Stream, u)
  <2>1. rx \in Seq(Messages) /\ inbox \in Seq(Messages) /\ reply \in Seq(Messages)
    BY StreamType
  <2>2. Stream' = rx \o inbox' \o <<>>
    BY DEF Stream, pqVars
  <2>3. CutOff(rx \o inbox' \o <<>>, rx \o inbox \o reply, u)
    BY <2>1, EndCutsOff
  <2>4. u \in Nat
    BY <2>1
  <2> QED
    BY <2>2, <2>3, <2>4 DEF Stream
<1>2. Stream' \in Seq(Messages)
  BY StreamTypeNext
<1>3. Broken' /\ server' # "up"
  BY DEF Broken
<1> HIDE DEF u
<1> QED
  BY <1>1, <1>2, <1>3, AnswerMoves

(* The server closes the connection: AnswerInv is kept.                    *)
LEMMA ServerClosesAnswer == ControlInv /\ ControlInv' /\ AnswerInv /\ ServerCloses => AnswerInv'
<1> SUFFICES ASSUME ControlInv, ControlInv', AnswerInv, ServerCloses PROVE AnswerInv'
  OBVIOUS
<1>1. /\ reply' = <<>>
      /\ inbox' \in {inbox, Append(inbox, "E")}
      /\ server' \in {"closed", "reset"}
      /\ UNCHANGED <<objVars, pqVars, flight, received, expected, pc, operation>>
  BY DEF ServerCloses, ServerFrame
<1> QED
  BY <1>1, EndAnswer

(* The server resets the connection: AnswerInv is kept.                    *)
LEMMA ServerResetsAnswer == ControlInv /\ ControlInv' /\ AnswerInv /\ ServerResets => AnswerInv'
<1> SUFFICES ASSUME ControlInv, ControlInv', AnswerInv, ServerResets PROVE AnswerInv'
  OBVIOUS
<1>1. /\ reply' = <<>>
      /\ inbox' \in {inbox, Append(inbox, "E")}
      /\ server' \in {"closed", "reset"}
      /\ UNCHANGED <<objVars, pqVars, flight, received, expected, pc, operation>>
  BY DEF ServerResets, ServerFrame
<1> QED
  BY <1>1, EndAnswer

(* A step that changes no variable: AnswerInv is kept.                     *)
LEMMA StutterAnswer == AnswerInv /\ UNCHANGED vars => AnswerInv'
<1> SUFFICES ASSUME AnswerInv, UNCHANGED vars PROVE AnswerInv'
  OBVIOUS
<1>1. Stream' = Stream
  BY DEF Stream, vars, pqVars, netVars
<1>2. /\ UNCHANGED <<async, rows, outcome, results, received, expected, server, status,
                     is_error, operation, pc>>
      /\ UNCHANGED <<unsent, flight>>
  BY DEF vars, objVars, pqVars, netVars
<1>3. unsent' + flight' = unsent + flight
  BY <1>2
<1> QED
  BY <1>1, <1>2, <1>3, AnswerStays

(* What is pending is reported to the handler (epoll_wait): AnswerInv is   *)
(* kept.                                                                   *)
LEMMA EpollWaitAnswer == ControlInv /\ AnswerInv /\ EpollWait => AnswerInv'
<1> SUFFICES ASSUME AnswerInv, EpollWait PROVE AnswerInv'
  OBVIOUS
<1>1. Stream' = Stream
  BY DEF Stream, EpollWait, pqVars, netVars
<1>2. /\ UNCHANGED <<async, rows, outcome, results, received, expected, server, status,
                     is_error, operation>>
      /\ UNCHANGED <<unsent, flight>>
      /\ {pc, pc'} \cap {"get", "drain", "callback"} = {}
  BY DEF EpollWait, objVars, pqVars, netVars
<1>3. unsent' + flight' = unsent + flight
  BY <1>2
<1> QED
  BY <1>1, <1>2, <1>3, AnswerStays

(* A flush moves chunks from libpq to the socket.                          *)
LEMMA FlushAnswer ==
  ASSUME ControlInv, AnswerInv, Flush(unsent), async # "idle",
         UNCHANGED <<objVars, status, async, rx, rows, outcome, inbox, server, received, reply,
                     expected, operation>> \/
         UNCHANGED <<is_error, results, status, async, rx, rows, outcome, inbox, server, received,
                     reply, expected, operation>>,
         {pc, pc'} \cap {"get", "drain", "callback"} = {}
  PROVE  AnswerInv'
<1>1. Stream' = Stream
  BY DEF Stream
<1>2. UNCHANGED <<async, rows, outcome, results, received, expected, server, status,
                     is_error, operation>>
  BY DEF objVars
<1>3. unsent' + flight' = unsent + flight
  <2>1. CoreTypeOK /\ unsent \in 0..QuerySize
    BY DEF ControlInv, CoreTypeOK
  <2> QED
    BY <2>1, FlushType
<1> QED
  BY <1>1, <1>2, <1>3, AnswerStays

(* SendQuery flushes what libpq has kept of the query: AnswerInv is kept.  *)
LEMMA SendQueryPushAnswer == ControlInv /\ AnswerInv /\ SendQueryPush => AnswerInv'
<1> SUFFICES ASSUME ControlInv, AnswerInv, SendQueryPush PROVE AnswerInv'
  OBVIOUS
<1>1. pc = "push" /\ pc' = "loop" /\ Flush(unsent)
  BY DEF SendQueryPush
<1>2. async # "idle"
  BY <1>1 DEF ControlInv, ThreadInv, QueryInv, Live
<1>3. UNCHANGED <<is_error, results, status, async, rx, rows, outcome, inbox, server, received,
                  reply, expected, operation>>
  BY DEF SendQueryPush
<1>4. {pc, pc'} \cap {"get", "drain", "callback"} = {}
  BY <1>1
<1> QED
  BY <1>1, <1>2, <1>3, <1>4, FlushAnswer

(* The flush of sendQuery meets a broken socket: AnswerInv is kept.        *)
LEMMA SendQueryPushFailedAnswer == ControlInv /\ AnswerInv /\ SendQueryPushFailed => AnswerInv'
<1> SUFFICES ASSUME ControlInv, AnswerInv, SendQueryPushFailed PROVE AnswerInv'
  OBVIOUS
<1>1. /\ UNCHANGED <<async, unsent, rx, rows, outcome, results, inbox, flight, reply, received,
                     expected, server>>
      /\ status' \in {status, "bad"} /\ pc' = "callback" /\ is_error' = TRUE
  BY DEF SendQueryPushFailed, netVars
<1> QED
  BY <1>1, AnswerGivenUp

(* Libpq refuses the query and sendQuery calls back with an error:         *)
(* AnswerInv is kept.                                                      *)
LEMMA SendQueryRefusedAnswer == ControlInv /\ AnswerInv /\ SendQueryRefused => AnswerInv'
<1> SUFFICES ASSUME ControlInv, AnswerInv, SendQueryRefused PROVE AnswerInv'
  OBVIOUS
<1>1. /\ UNCHANGED <<async, unsent, rx, rows, outcome, results, inbox, flight, reply, received,
                     expected, server>>
      /\ status' \in {status, "bad"} /\ pc' = "callback" /\ is_error' = TRUE
  BY DEF SendQueryRefused, netVars
<1> QED
  BY <1>1, AnswerGivenUp

(* The handler sees EPOLLERR and calls back: AnswerInv is kept.            *)
LEMMA HandleErrorAnswer == ControlInv /\ AnswerInv /\ HandleError => AnswerInv'
<1> SUFFICES ASSUME ControlInv, AnswerInv, HandleError PROVE AnswerInv'
  OBVIOUS
<1>1. /\ UNCHANGED <<async, unsent, rx, rows, outcome, results, inbox, flight, reply, received,
                     expected, server>>
      /\ status' \in {status, "bad"} /\ pc' = "callback" /\ is_error' = TRUE
  BY DEF HandleError, Fail, pqVars, netVars
<1> QED
  BY <1>1, AnswerGivenUp

(* PQconnectPoll reports a failure: AnswerInv is kept.                     *)
LEMMA HandlePollFailedAnswer == ControlInv /\ AnswerInv /\ HandlePollFailed => AnswerInv'
<1> SUFFICES ASSUME ControlInv, AnswerInv, HandlePollFailed PROVE AnswerInv'
  OBVIOUS
<1>1. /\ UNCHANGED <<async, unsent, rx, rows, outcome, results, inbox, flight, reply, received,
                     expected, server>>
      /\ status' \in {status, "bad"} /\ pc' = "callback" /\ is_error' = TRUE
  BY DEF HandlePollFailed, Fail, netVars
<1> QED
  BY <1>1, AnswerGivenUp

(* The handler flushes the rest of the query: AnswerInv is kept.           *)
LEMMA HandleFlushAnswer == ControlInv /\ AnswerInv /\ HandleFlush => AnswerInv'
<1> SUFFICES ASSUME ControlInv, AnswerInv, HandleFlush PROVE AnswerInv'
  OBVIOUS
<1>1. CASE FlushFails /\ Fail /\ status' = "bad" /\ UNCHANGED <<unsent, flight>>
  <2>1. /\ UNCHANGED <<async, unsent, rx, rows, outcome, results, inbox, flight, reply, received,
                       expected, server>>
        /\ status' \in {status, "bad"} /\ pc' = "callback" /\ is_error' = TRUE
    BY <1>1 DEF HandleFlush, Fail
  <2> QED
    BY <2>1, AnswerGivenUp
<1>2. CASE /\ ~ FlushFails
           /\ Flush(unsent)
           /\ UNCHANGED <<inbox, server, is_error, status>>
           /\ pc' \in {"consume", "loop"}
  <2>1. pc \in {"handler", "reflush"} /\ (pc = "handler" => connection_state = "SENDING_QUERY")
    BY DEF HandleFlush, Handling
  <2>2. async # "idle"
    <3>1. operation = "query"
      BY <2>1 DEF ControlInv, CoreTypeOK, ThreadInv
    <3> QED
      BY <2>1, <3>1 DEF ControlInv, QueryInv, Live
  <2>3. UNCHANGED <<is_error, results, status, async, rx, rows, outcome, inbox, server, received,
                    reply, expected, operation>>
    BY <1>2 DEF HandleFlush
  <2>4. {pc, pc'} \cap {"get", "drain", "callback"} = {}
    BY <1>2, <2>1
  <2> QED
    BY <1>2, <2>2, <2>3, <2>4, FlushAnswer
<1> QED
  BY <1>1, <1>2 DEF HandleFlush, SentOrWait

(* A read moves messages from the socket to libpq.                         *)
LEMMA ConsumeAnswer ==
  ASSUME ControlInv, AnswerInv, Consume,
         UNCHANGED <<async, rows, outcome, results, received, expected, server, status,
                     is_error, operation, unsent, flight, reply>>,
         pc' = pc \/ {pc, pc'} \cap {"get", "drain", "callback"} = {}
  PROVE  AnswerInv'
<1> DEFINE n == Least(ReadSize, Len(inbox))
<1>1. rx \in Seq(Messages) /\ inbox \in Seq(Messages) /\ reply \in Seq(Messages)
  BY StreamType
<1>2. n \in 0..Len(inbox)
  <2>1. Len(inbox) \in Nat
    BY <1>1
  <2> QED
    BY <2>1, Constants DEF Least
<1>3. rx' = rx \o SubSeq(inbox, 1, n) /\ inbox' = SubSeq(inbox, n + 1, Len(inbox))
  BY DEF Consume
<1> HIDE DEF n
<1>4. Stream' = Stream
  <2>1. ReadMoved(rx, inbox, reply, n) = Join3(rx, inbox, reply)
    BY <1>1, <1>2, ReadKeepsOrder
  <2> QED
    BY <1>3, <2>1 DEF Stream, ReadMoved, Join3
<1>5. unsent' + flight' = unsent + flight
  OBVIOUS
<1> QED
  BY <1>4, <1>5, AnswerStays

(* PQconsumeInput reads before the whole query is sent: AnswerInv is kept. *)
LEMMA HandleConsumeAnswer == ControlInv /\ AnswerInv /\ HandleConsume => AnswerInv'
<1> SUFFICES ASSUME ControlInv, AnswerInv, HandleConsume PROVE AnswerInv'
  OBVIOUS
<1>1. CASE ConsumeFails /\ Fail /\ status' = "bad" /\ UNCHANGED <<rx, inbox>>
  <2>1. /\ UNCHANGED <<async, unsent, rx, rows, outcome, results, inbox, flight, reply, received,
                       expected, server>>
        /\ status' \in {status, "bad"} /\ pc' = "callback" /\ is_error' = TRUE
    BY <1>1 DEF HandleConsume, Fail
  <2> QED
    BY <2>1, AnswerGivenUp
<1>2. CASE ~ ConsumeFails /\ Consume /\ pc' = "reflush" /\ UNCHANGED <<is_error, status>>
  <2>1. UNCHANGED <<async, rows, outcome, results, received, expected, server, status,
                    is_error, operation, unsent, flight, reply>>
    BY <1>2 DEF HandleConsume
  <2>2. {pc, pc'} \cap {"get", "drain", "callback"} = {}
    BY <1>2 DEF HandleConsume, Handling
  <2> QED
    BY <1>2, <2>1, <2>2, ConsumeAnswer
<1> QED
  BY <1>1, <1>2 DEF HandleConsume

(* PQconsumeInput reads what the socket has: AnswerInv is kept.            *)
LEMMA HandleReadAnswer == ControlInv /\ AnswerInv /\ HandleRead => AnswerInv'
<1> SUFFICES ASSUME ControlInv, AnswerInv, HandleRead PROVE AnswerInv'
  OBVIOUS
<1>1. CASE ConsumeFails /\ Fail /\ status' = "bad" /\ UNCHANGED <<rx, inbox>>
  <2>1. /\ UNCHANGED <<async, unsent, rx, rows, outcome, results, inbox, flight, reply, received,
                       expected, server>>
        /\ status' \in {status, "bad"} /\ pc' = "callback" /\ is_error' = TRUE
    BY <1>1 DEF HandleRead, Fail
  <2> QED
    BY <2>1, AnswerGivenUp
<1>2. CASE ~ ConsumeFails /\ Consume /\ pc' = "busy" /\ UNCHANGED <<is_error, status>>
  <2>1. UNCHANGED <<async, rows, outcome, results, received, expected, server, status,
                    is_error, operation, unsent, flight, reply>>
    BY <1>2 DEF HandleRead
  <2>2. {pc, pc'} \cap {"get", "drain", "callback"} = {}
    BY <1>2 DEF HandleRead, Handling
  <2> QED
    BY <1>2, <2>1, <2>2, ConsumeAnswer
<1> QED
  BY <1>1, <1>2 DEF HandleRead

(* The server's next segment arrives: AnswerInv is kept.                   *)
LEMMA ServerSendsAnswer == ControlInv /\ AnswerInv /\ SendsSome => AnswerInv'
<1> SUFFICES ASSUME ControlInv, AnswerInv, NEW n \in 1..Len(reply), ServerSends(n)
             PROVE  AnswerInv'
  BY DEF SendsSome
<1>1. rx \in Seq(Messages) /\ inbox \in Seq(Messages) /\ reply \in Seq(Messages)
  BY StreamType
<1>2. n \in 0..Len(reply)
  BY <1>1
<1>3. /\ inbox' = inbox \o SubSeq(reply, 1, n) /\ reply' = SubSeq(reply, n + 1, Len(reply))
      /\ rx' = rx
  BY DEF ServerSends, ServerFrame, pqVars
<1>4. Stream' = Stream
  <2>1. SegmentMoved(rx, inbox, reply, n) = Join3(rx, inbox, reply)
    BY <1>1, <1>2, SegmentKeepsOrder
  <2> QED
    BY <1>3, <2>1 DEF Stream, SegmentMoved, Join3
<1>5. /\ UNCHANGED <<async, rows, outcome, results, received, expected, server, status,
                     is_error, operation, pc>>
      /\ UNCHANGED <<unsent, flight>>
  BY DEF ServerSends, ServerFrame, objVars, pqVars
<1>6. unsent' + flight' = unsent + flight
  BY <1>5
<1> QED
  BY <1>4, <1>5, <1>6, AnswerStays

(* The server answers a login: AnswerInv is kept.                          *)
LEMMA ServerAcceptsAnswer == ControlInv /\ AnswerInv /\ ServerAccepts => AnswerInv'
<1> SUFFICES ASSUME ControlInv, AnswerInv, ServerAccepts PROVE AnswerInv'
  OBVIOUS
<1>0. SendInv /\ BoundInv /\ QuietInv /\ AnsweringInv /\ ResultInv
  BY DEF AnswerInv
<1>1. /\ UNCHANGED <<objVars, pqVars, inbox, flight, received, reply, expected, pc, operation>>
      /\ server = "away" /\ status = "started" /\ server' = "up"
  BY DEF ServerAccepts, ServerFrame
<1>2. Live' = Live /\ Stream' = Stream /\ Broken' = Broken /\ Errored' = Errored /\ Over' = Over
  BY <1>1 DEF Live, Stream, Broken, Errored, Over, objVars, pqVars
<1>3. Counted' = Counted
  BY <1>1, <1>2 DEF Counted, pqVars
<1>4. SendInv'
  <2>1. async' = "idle" /\ unsent' = 0 /\ flight' = 0
    BY <1>1 DEF ControlInv, StatusInv, QueryInv, pqVars
  <2> QED
    BY <2>1 DEF SendInv
<1>5. BoundInv'
  BY <1>0, <1>1 DEF BoundInv, objVars, pqVars
<1>6. QuietInv'
  BY <1>0, <1>1, <1>2 DEF QuietInv, objVars, pqVars
<1>7. AnsweringInv'
  BY <1>0, <1>1, <1>2, <1>3 DEF AnsweringInv, pqVars
<1>8. ResultInv'
  BY <1>0, <1>1, <1>2 DEF ResultInv, OwnAnswer, objVars, pqVars
<1> QED
  BY <1>4, <1>5, <1>6, <1>7, <1>8 DEF AnswerInv

(* A login starts (connectDb): AnswerInv is kept.                          *)
LEMMA ConnectDbAnswer == ControlInv /\ AnswerInv /\ ConnectDb => AnswerInv'
<1> SUFFICES ASSUME ControlInv, AnswerInv, ConnectDb PROVE AnswerInv'
  OBVIOUS
<1>0. SendInv /\ BoundInv /\ QuietInv /\ AnsweringInv /\ ResultInv
  BY DEF AnswerInv
<1>1. /\ UNCHANGED <<is_error, results, async, unsent, rx, rows, outcome, inbox, flight, server,
                     received, reply, expected, pc>>
      /\ pc = "loop" /\ status' = "started" /\ operation' = "connect"
      /\ connection_state = "NOT_CONNECTED"
  BY DEF ConnectDb, netVars
<1>2. status # "bad" /\ async = "idle"
  BY <1>1 DEF ControlInv, StatusInv, QueryInv
<1>3. ~ Live' /\ Stream' = Stream /\ Broken' = Broken
  BY <1>1 DEF Live, Stream, Broken
<1>4. SendInv'
  BY <1>0, <1>1 DEF SendInv
<1>5. BoundInv'
  BY <1>0, <1>1 DEF BoundInv
<1>6. QuietInv'
  BY <1>0, <1>1, <1>2, <1>3 DEF QuietInv
<1>7. AnsweringInv'
  BY <1>3 DEF AnsweringInv
<1>8. ResultInv'
  BY <1>1 DEF ResultInv, OwnAnswer
<1> QED
  BY <1>4, <1>5, <1>6, <1>7, <1>8 DEF AnswerInv

(* A query starts with nothing of an earlier one left to come.             *)
LEMMA SendQueryAnswer == ControlInv /\ AnswerInv /\ SendQuery => AnswerInv'
<1> SUFFICES ASSUME ControlInv, AnswerInv, SendQuery PROVE AnswerInv'
  OBVIOUS
<1>0. SendInv /\ BoundInv /\ QuietInv
  BY DEF AnswerInv
<1>1. /\ UNCHANGED <<is_error, results, status, rx, outcome, inbox, server, reply, expected>>
      /\ async = "idle" /\ async' = "busy" /\ rows' = 0 /\ received' = 0 /\ pc' = "push"
      /\ status = "ok" /\ operation = "none" /\ Connected /\ Flush(QuerySize)
  BY DEF SendQuery
<1>2. results = <<>>
  BY <1>1 DEF ControlInv, QueryInv
<1>3. Stream' = Stream /\ Broken' = Broken
  BY <1>1 DEF Stream, Broken
<1>4. SendInv'
  <2>1. CoreTypeOK /\ QuerySize \in 0..QuerySize
    BY Constants DEF ControlInv
  <2>2. unsent' + flight' = QuerySize + flight
    BY <1>1, <2>1, FlushType
  <2>3. server = "up" => flight = 0
    BY <1>0, <1>1 DEF SendInv
  <2>4. unsent' \in Nat /\ flight' \in Nat
    BY <1>1, <2>1, FlushType, Constants
  <2>5. ASSUME server = "up"
        PROVE  unsent' + flight' + received' = QuerySize
    <3>1. flight = 0
      BY <2>3, <2>5
    <3>2. unsent' + flight' = QuerySize + 0
      BY <2>2, <3>1
    <3>3. QuerySize \in Nat
      BY Constants
    <3>4. \A a, b, c \in Nat : a + b = c + 0 => a + b + 0 = c
      OBVIOUS
    <3>5. unsent' + flight' + 0 = QuerySize
      BY <2>4, <3>2, <3>3, <3>4
    <3> QED
      BY <1>1, <3>5
  <2> QED
    BY <1>1, <2>5 DEF SendInv
<1>5. BoundInv'
  BY <1>0, <1>1, Constants DEF BoundInv
<1>6. QuietInv'
  <2>1. NoAnswer(Stream', Broken')
    BY <1>0, <1>1, <1>3 DEF QuietInv
  <2> QED
    BY <1>1, <1>2, <2>1 DEF QuietInv
<1>7. AnsweringInv'
  BY <1>1, Constants DEF AnsweringInv
<1>8. ResultInv'
  BY <1>1 DEF ResultInv, OwnAnswer
<1> QED
  BY <1>4, <1>5, <1>6, <1>7, <1>8 DEF AnswerInv

(* The operation is over and its callback runs: AnswerInv is kept.         *)
LEMMA CallBackAnswer == ControlInv /\ AnswerInv /\ CallBack => AnswerInv'
<1> SUFFICES ASSUME ControlInv, AnswerInv, CallBack PROVE AnswerInv'
  OBVIOUS
<1>0. SendInv /\ BoundInv /\ QuietInv
  BY DEF AnswerInv
<1>1. /\ UNCHANGED <<status, async, unsent, rx, rows, outcome, inbox, flight, server, received,
                     reply, expected>>
      /\ pc = "callback" /\ pc' = "loop" /\ results' \in {results, <<>>}
  BY DEF CallBack, pqVars, netVars
<1>2. ~ Live /\ ~ Live' /\ Stream' = Stream /\ Broken' = Broken
  BY <1>1 DEF Live, Stream, Broken, CallBack
<1>3. SendInv'
  BY <1>0, <1>1 DEF SendInv
<1>4. BoundInv'
  BY <1>0, <1>1 DEF BoundInv
<1>5. QuietInv'
  BY <1>0, <1>1, <1>2 DEF QuietInv
<1>6. AnsweringInv'
  BY <1>2 DEF AnsweringInv
<1>7. ResultInv'
  BY <1>1 DEF ResultInv, OwnAnswer
<1> QED
  BY <1>3, <1>4, <1>5, <1>6, <1>7 DEF AnswerInv

(* The login: its messages come and go, and no query is under way.         *)
LEMMA LoginAnswer ==
  ASSUME ControlInv, AnswerInv, async = "idle", operation = "connect", status = "started",
         status' # "bad", pc' \in {"loop", "callback"}, inbox' = <<>>, reply' \in {reply, <<"A">>},
         UNCHANGED <<results, async, unsent, rx, rows, outcome, flight, server, received,
                     expected, operation>>
  PROVE  AnswerInv'
<1>0. SendInv /\ BoundInv /\ QuietInv
  BY DEF AnswerInv
<1>1. ~ Live' /\ Broken' = Broken
  BY DEF Live, Broken
<1>2. rx \in Seq(Messages) /\ inbox \in Seq(Messages) /\ reply \in Seq(Messages)
      /\ <<>> \in Seq(Messages) /\ <<"A">> \in Seq(Messages)
  <2>1. "A" \in Messages
    BY DEF Messages
  <2> QED
    BY <2>1, StreamType
<1>3. NoAnswer(rx, Broken) /\ NoAnswer(reply, Broken)
  <2>1. NoAnswer(rx \o inbox \o reply, Broken)
    BY <1>0 DEF QuietInv, Stream
  <2> QED
    BY <1>2, <2>1, NoAnswerParts
<1>4. NoAnswer(<<>>, Broken) /\ NoAnswer(<<"A">>, Broken)
  BY DEF NoAnswer
<1>5. NoAnswer(Stream', Broken')
  <2>1. reply' \in Seq(Messages) /\ inbox' \in Seq(Messages) /\ rx' = rx
        /\ NoAnswer(inbox', Broken) /\ NoAnswer(reply', Broken)
    BY <1>2, <1>3, <1>4
  <2>2. NoAnswer(rx \o inbox' \o reply', Broken)
    BY <1>2, <1>3, <2>1, NoAnswerParts
  <2> QED
    BY <1>1, <2>1, <2>2 DEF Stream
<1>6. SendInv'
  BY <1>0 DEF SendInv
<1>7. BoundInv'
  BY <1>0 DEF BoundInv
<1>8. QuietInv'
  BY <1>1, <1>5 DEF QuietInv
<1>9. AnsweringInv'
  BY <1>1 DEF AnsweringInv
<1>10. ResultInv'
  BY DEF ResultInv, OwnAnswer
<1> QED
  BY <1>6, <1>7, <1>8, <1>9, <1>10 DEF AnswerInv

(* In the handler of a login libpq has not finished it.                    *)
LEMMA Connecting ==
  ASSUME ControlInv, pc = "handler", connection_state = "CONNECTING"
  PROVE  operation = "connect" /\ status = "started" /\ async = "idle"
<1>1. operation = "connect"
  BY DEF ControlInv, CoreTypeOK, ThreadInv, Connected
<1>2. status = "started"
  BY <1>1 DEF ControlInv, StatusInv
<1> QED
  BY <1>1, <1>2 DEF ControlInv, QueryInv

(* PQconnectPoll asks for more of the login: AnswerInv is kept.            *)
LEMMA HandlePollAnswer == ControlInv /\ AnswerInv /\ HandlePoll => AnswerInv'
<1> SUFFICES ASSUME ControlInv, AnswerInv, HandlePoll PROVE AnswerInv'
  OBVIOUS
<1>1. operation = "connect" /\ status = "started" /\ async = "idle"
  BY Connecting DEF HandlePoll, Handling
<1>2. /\ status' # "bad" /\ pc' \in {"loop", "callback"} /\ inbox' = <<>>
      /\ reply' \in {reply, <<"A">>}
      /\ UNCHANGED <<results, async, unsent, rx, rows, outcome, flight, server, received,
                     expected, operation>>
  BY <1>1 DEF HandlePoll, objVars
<1> QED
  BY <1>1, <1>2, LoginAnswer

(* PQconnectPoll reports that the login is complete: AnswerInv is kept.    *)
LEMMA HandlePollOkAnswer == ControlInv /\ AnswerInv /\ HandlePollOk => AnswerInv'
<1> SUFFICES ASSUME ControlInv, AnswerInv, HandlePollOk PROVE AnswerInv'
  OBVIOUS
<1>1. operation = "connect" /\ status = "started" /\ async = "idle"
  BY Connecting DEF HandlePollOk, Handling
<1>2. /\ status' # "bad" /\ pc' \in {"loop", "callback"} /\ inbox' = <<>>
      /\ reply' \in {reply, <<"A">>}
      /\ UNCHANGED <<results, async, unsent, rx, rows, outcome, flight, server, received,
                     expected, operation>>
  BY <1>1 DEF HandlePollOk
<1> QED
  BY <1>1, <1>2, LoginAnswer

(* PQgetResult reads from the socket while it waits: AnswerInv is kept.    *)
LEMMA GetReadAnswer == ControlInv /\ AnswerInv /\ GetRead => AnswerInv'
<1> SUFFICES ASSUME ControlInv, AnswerInv, GetRead PROVE AnswerInv'
  OBVIOUS
<1>0. SendInv /\ BoundInv
  BY DEF AnswerInv
<1>1. CASE Consume /\ UNCHANGED <<status, async, is_error, pc>>
  <2>1. UNCHANGED <<async, rows, outcome, results, received, expected, server, status,
                    is_error, operation, unsent, flight, reply>>
    BY <1>1 DEF GetRead
  <2> QED
    BY <1>1, <2>1, ConsumeAnswer
<1>2. CASE ConsumeFails /\ status' = "bad" /\ async' = "idle" /\ pc' = "drain"
  <2>1. server' # "up" /\ UNCHANGED <<rows, results, received>>
    BY <1>2 DEF GetRead, ConsumeFails
  <2>2. SendInv'
    BY <2>1 DEF SendInv
  <2>3. BoundInv'
    BY <1>0, <2>1 DEF BoundInv
  <2>4. QuietInv'
    BY <1>2 DEF QuietInv
  <2>5. AnsweringInv'
    BY <1>2 DEF AnsweringInv
  <2>6. ResultInv'
    BY <1>2 DEF ResultInv, OwnAnswer
  <2> QED
    BY <2>2, <2>3, <2>4, <2>5, <2>6 DEF AnswerInv
<1> QED
  BY <1>1, <1>2 DEF GetRead

(* PQgetResult returns NULL and the query is over: AnswerInv is kept.      *)
LEMMA GetNullAnswer == ControlInv /\ AnswerInv /\ GetNull => AnswerInv'
<1> SUFFICES ASSUME ControlInv, AnswerInv, GetNull PROVE AnswerInv'
  OBVIOUS
<1>0. SendInv /\ BoundInv /\ QuietInv /\ ResultInv
  BY DEF AnswerInv
<1>1. /\ UNCHANGED <<is_error, results, status, async, unsent, rx, rows, outcome, inbox, flight,
                     server, received, reply, expected>>
      /\ async = "idle" /\ pc' = "callback" /\ pc \in {"get", "drain"}
  BY DEF GetNull, Getting, objVars, pqVars, netVars
<1>2. ~ Live' /\ Stream' = Stream /\ Broken' = Broken
  BY <1>1 DEF Live, Stream, Broken
<1>3. SendInv'
  BY <1>0, <1>1 DEF SendInv
<1>4. BoundInv'
  BY <1>0, <1>1 DEF BoundInv
<1>5. QuietInv'
  BY <1>0, <1>1, <1>2 DEF QuietInv
<1>6. AnsweringInv'
  BY <1>2 DEF AnsweringInv
<1>7. ResultInv'
  <2>1. pc = "drain" => is_error
    BY DEF ControlInv, QueryInv
  <2>2. pc = "get" => results = expected
    BY <1>0, <1>1 DEF ResultInv
  <2> QED
    BY <1>1, <2>1, <2>2 DEF ResultInv, OwnAnswer
<1> QED
  BY <1>3, <1>4, <1>5, <1>6, <1>7 DEF AnswerInv

(* PQgetResult returns a result, which is stored: AnswerInv is kept.       *)
LEMMA GetResultAnswer == ControlInv /\ AnswerInv /\ GetResult => AnswerInv'
<1> SUFFICES ASSUME ControlInv, AnswerInv, GetResult PROVE AnswerInv'
  OBVIOUS
<1>0. SendInv /\ BoundInv /\ QuietInv /\ AnsweringInv /\ ResultInv
  BY DEF AnswerInv
<1>1. /\ UNCHANGED <<status, unsent, rx, outcome, inbox, flight, server, received, reply, expected,
                     operation>>
      /\ async = "ready" /\ async' = "busy" /\ rows' = 0 /\ pc \in {"get", "drain"}
  BY DEF GetResult, Getting, netVars
<1>2. /\ results \in Seq(Nat) /\ Len(results) \in Nat /\ rows \in Nat /\ outcome \in {"C", "E"}
      /\ received \in Nat
  BY DEF ControlInv, CoreTypeOK
<1>3. /\ operation = "query" /\ Live /\ Stream' = Stream /\ Broken' = Broken
      /\ Stream \in Seq(Messages)
  BY <1>1, StreamType DEF ControlInv, ThreadInv, Live, Stream, Broken
<1>4. \/ pc = "get" /\ outcome = "C" /\ results' = Append(results, rows) /\ pc' = "get"
      \/ (pc = "drain" \/ outcome = "E") /\ pc' = "drain" /\ results' = results
  BY <1>1, <1>2 DEF GetResult, Store, Throw
<1>5. Live'
  BY <1>1, <1>3, <1>4 DEF Live
<1>6. received <= QuerySize /\ (received < QuerySize \/ received = QuerySize)
  BY <1>0, <1>2, Constants DEF BoundInv
<1>7. SendInv'
  BY <1>0, <1>1 DEF SendInv
<1>8. BoundInv'
  <2>1. rows <= MaxRows /\ \A i \in 1..Len(results) : results[i] <= MaxRows
    BY <1>0 DEF BoundInv
  <2>2. \A i \in 1..Len(results') : results'[i] <= MaxRows
    <3>1. CASE results' = results
      BY <2>1, <3>1
    <3>2. CASE results' = Append(results, rows)
      <4>1. Len(results') = Len(results) + 1 /\ results'[Len(results) + 1] = rows
            /\ \A i \in 1..Len(results) : results'[i] = results[i]
        BY <1>2, <3>2
      <4>2. \A i \in 1..(Len(results) + 1) : i \in 1..Len(results) \/ i = Len(results) + 1
        BY <1>2
      <4> QED
        BY <2>1, <4>1, <4>2
    <3> QED
      BY <1>4, <3>1, <3>2
  <2>3. rows' <= MaxRows
    BY <1>1, Constants
  <2> QED
    BY <1>1, <1>6, <2>2, <2>3 DEF BoundInv
<1>9. QuietInv'
  <2>1. ASSUME status' # "bad", received' < QuerySize
        PROVE  NoAnswer(Stream', Broken')
    BY <1>0, <1>1, <1>3, <2>1 DEF QuietInv
  <2>2. ASSUME received' < QuerySize
        PROVE  Broken'
    BY <1>0, <1>1, <1>3, <2>2 DEF QuietInv
  <2> QED
    BY <1>1, <2>1, <2>2 DEF QuietInv
<1>10. ASSUME received = QuerySize, pc = "get", outcome = "C", results' = Append(results, rows),
              pc' = "get"
       PROVE  AnsweringInv' /\ ResultInv'
  <2>1. ~ Errored /\ ~ Errored'
    BY <1>1, <1>10 DEF Errored
  <2>2. /\ IsAnswer(expected) /\ Shape(Stream, Broken)
        /\ Fits(expected, Stream, Over, Counted)
    BY <1>0, <1>1, <1>3, <1>10, <2>1 DEF AnsweringInv
  <2>3. Over = Len(results) + 1 /\ Counted = Total(expected, Len(results) + 1) + 0
    BY <1>1 DEF Over, Counted
  <2>4. Len(results') = Len(results) + 1 /\ results'[Len(results) + 1] = rows
        /\ \A i \in 1..Len(results) : results'[i] = results[i]
    BY <1>2, <1>10
  <2>5. Over' = Len(results) + 1
    BY <1>1, <1>2, <2>4 DEF Over
  <2>6. Counted' = Total(expected, Len(results) + 1) + 0
    BY <1>1, <2>5 DEF Counted
  <2>7. AnsweringInv'
    BY <1>1, <1>3, <2>1, <2>2, <2>3, <2>5, <2>6 DEF AnsweringInv
  <2>8. /\ \A i \in 1..Len(results) : results[i] = expected[i]
        /\ rows = expected[Len(results) + 1]
    BY <1>0, <1>1, <1>10, <2>1 DEF ResultInv
  <2>9. \A i \in 1..Len(results') : results'[i] = expected[i]
    <3>1. \A i \in 1..(Len(results) + 1) : i \in 1..Len(results) \/ i = Len(results) + 1
      BY <1>2
    <3> QED
      BY <2>4, <2>8, <3>1
  <2>10. ResultInv'
    BY <1>1, <1>10, <2>9, Constants DEF ResultInv, OwnAnswer
  <2> QED
    BY <2>7, <2>10
<1>11. ASSUME received < QuerySize
       PROVE  pc' = "drain"
  <2>1. pc = "get" => outcome = "E"
    BY <1>0, <1>1, <1>11 DEF ResultInv
  <2> QED
    BY <1>4, <2>1
<1>12. ASSUME pc = "drain" \/ outcome = "E", pc' = "drain"
       PROVE  AnsweringInv'
  <2>1. Errored /\ Errored'
    BY <1>1, <1>12 DEF Errored
  <2>2. received = QuerySize => IsAnswer(expected) /\ Shape(Stream, Broken) /\ NoRows(Stream)
    BY <1>0, <1>1, <1>3, <2>1 DEF AnsweringInv
  <2> QED
    BY <1>1, <1>3, <2>1, <2>2 DEF AnsweringInv
<1>13. ASSUME pc' = "drain"
       PROVE  ResultInv'
  BY <1>13 DEF ResultInv, OwnAnswer
<1>14. AnsweringInv' /\ ResultInv'
  <2>1. CASE pc' = "drain"
    <3>1. pc = "drain" \/ outcome = "E"
      BY <1>4, <2>1
    <3> QED
      BY <1>12, <1>13, <2>1, <3>1
  <2>2. CASE pc' # "drain"
    BY <1>4, <1>6, <1>10, <1>11, <2>2
  <2> QED
    BY <2>1, <2>2
<1> QED
  BY <1>7, <1>8, <1>9, <1>14 DEF AnswerInv

(* Where three sequences tell of no answer, neither do the first two.      *)
LEMMA NoAnswerJoin ==
  ASSUME NEW a \in Seq(Messages), NEW b \in Seq(Messages), NEW c \in Seq(Messages), NEW broken,
         NoAnswer(a \o b \o c, broken)
  PROVE  a \o b \in Seq(Messages) /\ NoAnswer(a \o b, broken)
<1>1. NoAnswer(a, broken) /\ NoAnswer(b, broken)
  BY NoAnswerParts
<1> DEFINE s == a \o b
<1>2. /\ s \in Seq(Messages) /\ Len(s) = Len(a) + Len(b) /\ Len(a) \in Nat /\ Len(b) \in Nat
      /\ \A i \in 1..Len(a) : s[i] = a[i]
      /\ \A i \in 1..Len(b) : s[Len(a) + i] = b[i]
  BY JoinPair
<1> HIDE DEF s
<1>3. \A i \in 1..Len(s) : s[i] \in {"A", "N"} \/ (broken /\ s[i] = "E")
  <2> TAKE i \in 1..Len(s)
  <2>1. CASE i <= Len(a)
    <3>1. i \in 1..Len(a)
      BY <1>2, <2>1
    <3> QED
      BY <1>1, <1>2, <3>1 DEF NoAnswer
  <2>2. CASE i > Len(a)
    <3>1. i - Len(a) \in 1..Len(b) /\ i = Len(a) + (i - Len(a))
      BY <1>2, <2>2
    <3>2. s[Len(a) + (i - Len(a))] = b[i - Len(a)]
      BY <1>2, <3>1
    <3> QED
      BY <1>1, <3>1, <3>2 DEF NoAnswer
  <2> QED
    BY <1>2, <2>1, <2>2
<1> QED
  BY <1>2, <1>3 DEF s, NoAnswer

(* The last chunk of the query reaches the server, and the answer starts.  *)
LEMMA ServerReceivesAnswer == ControlInv /\ AnswerInv /\ ServerReceives => AnswerInv'
<1> SUFFICES ASSUME ControlInv, AnswerInv, ServerReceives PROVE AnswerInv'
  OBVIOUS
<1>0. SendInv /\ BoundInv /\ QuietInv /\ AnsweringInv /\ ResultInv
  BY DEF AnswerInv
<1>1. /\ UNCHANGED <<is_error, results, status, async, unsent, rx, rows, outcome, inbox, server,
                     pc, operation>>
      /\ server = "up" /\ flight > 0 /\ flight' = flight - 1 /\ received' = received + 1
  BY DEF ServerReceives, ServerFrame, objVars, pqVars
<1>2. /\ unsent \in Nat
      /\ flight \in Nat
      /\ received \in Nat
      /\ async \in {"idle", "busy", "ready"}
      /\ rx \in Seq(Messages) /\ inbox \in Seq(Messages) /\ reply \in Seq(Messages)
  BY Constants DEF ControlInv, CoreTypeOK
<1>3. async # "idle" /\ unsent + flight + received = QuerySize
  BY <1>0, <1>1 DEF SendInv
<1>4. received < QuerySize /\ received' <= QuerySize /\ unsent' + flight' + received' = QuerySize
  BY <1>1, <1>2, <1>3, Constants
<1>5. Live /\ Live' /\ Broken = FALSE /\ Broken' = FALSE /\ status # "bad"
  <2>1. status # "bad"
    BY <1>1 DEF ControlInv, StatusInv
  <2>2. Live
    BY <1>1, <1>3, <2>1 DEF ControlInv, QueryInv
  <2> QED
    BY <1>1, <2>1, <2>2 DEF Live, Broken
<1>6. /\ NoAnswer(Stream, FALSE)
      /\ async = "busy" /\ rows = 0 /\ results = <<>> /\ pc # "drain"
  <2>1. NoAnswer(Stream, Broken)
    BY <1>0, <1>4, <1>5 DEF QuietInv
  <2> QED
    BY <1>0, <1>3, <1>4, <1>5 DEF QuietInv
<1>7. SendInv'
  BY <1>1, <1>3, <1>4 DEF SendInv
<1>8. BoundInv'
  BY <1>0, <1>1, <1>4 DEF BoundInv
<1>9. pc # "get" /\ pc # "callback"
  BY <1>0, <1>4, <1>5, <1>6 DEF ResultInv, Live
<1>10. ResultInv'
  BY <1>1, <1>9 DEF ResultInv, OwnAnswer
<1>11. CASE received' = QuerySize
  <2>1. PICK counts \in Counts, error \in BOOLEAN :
          /\ expected' = counts
          /\ reply' = IF error THEN Result(counts[1]) \o <<"E", "Z">>
                      ELSE Append(Answer(counts), "Z")
    BY <1>11 DEF ServerReceives
  <2>2. IsAnswer(expected') /\ Fits(expected', reply', 0, 0) /\ Shape(reply', FALSE)
    <3>1. /\ IsAnswer(counts)
          /\ Fits(counts, Result(counts[1]) \o <<"E", "Z">>, 0, 0)
          /\ Fits(counts, Append(Answer(counts), "Z"), 0, 0)
      BY FitsAnswer
    <3>2. /\ Shape(Result(counts[1]) \o <<"E", "Z">>, FALSE)
          /\ Shape(Append(Answer(counts), "Z"), FALSE)
      BY ShapeAnswer
    <3> QED
      BY <2>1, <3>1, <3>2
  <2>3. reply' \in Seq(Messages)
    BY <2>1, AnswerType
  <2>4. rx \o inbox \in Seq(Messages) /\ NoAnswer(rx \o inbox, FALSE)
    BY <1>2, <1>6, NoAnswerJoin DEF Stream
  <2>5. Stream' = (rx \o inbox) \o reply'
    BY <1>1 DEF Stream
  <2>6. Shape(Stream', FALSE) /\ Fits(expected', Stream', 0, 0)
    BY <2>2, <2>3, <2>4, <2>5, AnswerStarts
  <2>7. ~ Errored' /\ Over' = 0 /\ Counted' = 0
    <3>1. ~ Errored' /\ Over' = 0
      BY <1>1, <1>6 DEF Errored, Over
    <3>2. Total(expected', 0) = 0
      BY <2>2, TotalStep
    <3> QED
      BY <1>1, <1>6, <3>1, <3>2 DEF Counted
  <2>8. AnsweringInv'
    BY <1>5, <2>2, <2>6, <2>7 DEF AnsweringInv
  <2>9. QuietInv'
    BY <1>1, <1>3, <1>11, Constants DEF QuietInv
  <2> QED
    BY <1>7, <1>8, <1>10, <2>8, <2>9 DEF AnswerInv
<1>12. CASE received' # QuerySize
  <2>1. Stream' = Stream
    BY <1>1, <1>12 DEF Stream, ServerReceives
  <2>2. QuietInv'
    BY <1>1, <1>5, <1>6, <2>1 DEF QuietInv
  <2>3. AnsweringInv'
    BY <1>12 DEF AnsweringInv
  <2> QED
    BY <1>7, <1>8, <1>10, <2>2, <2>3 DEF AnswerInv
<1> QED
  BY <1>11, <1>12

(* What is left after a "Z" tells of no answer, and after an "E" of no     *)
(* row.                                                                    *)
LEMMA AfterTheEnd ==
  ASSUME NEW s \in Seq(Messages), NEW t \in Seq(Messages), NEW u \in 1..Len(s), NEW broken,
         Suffix(t, s, u), Shape(s, broken)
  PROVE  /\ s[u] = "Z" => NoAnswer(t, broken)
         /\ s[u] = "E" => NoRows(t)
<1>1. \A i \in 1..Len(t) : u + i \in 1..Len(s) /\ u < u + i /\ s[u + i] = t[i]
  BY DEF Suffix
<1>2. s[u] = "Z" => NoAnswer(t, broken)
  BY <1>1 DEF Shape, NoAnswer
<1>3. s[u] = "E" => NoRows(t)
  BY <1>1 DEF Shape, NoRows
<1> QED
  BY <1>2, <1>3

(* Parsing stops behind the first end among the first messages of rx.      *)
LEMMA ParseStep ==
  ASSUME ControlInv, Parse
  PROVE  \E u \in 0..Len(rx) :
           /\ rx' = SubSeq(rx, u + 1, Len(rx))
           /\ rows' = rows + Count(rx, "D", u)
           /\ \A i \in 1..u : i < u => rx[i] \notin {"C", "E", "Z"}
           /\ \/ /\ async' = "busy" /\ outcome' = outcome
                 /\ u = 0 \/ rx[u] \notin {"C", "E", "Z"}
              \/ u > 0 /\ async' = "ready" /\ rx[u] \in {"C", "E"} /\ outcome' = rx[u]
              \/ u > 0 /\ async' = "idle" /\ rx[u] = "Z" /\ outcome' = outcome
<1> DEFINE u == IF Ends(rx) = {} THEN Len(rx)
                ELSE CHOOSE i \in Ends(rx) : \A j \in Ends(rx) : i <= j
<1>0. rx \in Seq(Messages) /\ Len(rx) \in Nat /\ DOMAIN rx = 1..Len(rx)
  BY DEF ControlInv, CoreTypeOK
<1>1. Ends(rx) = {i \in 1..Len(rx) : rx[i] \in {"C", "E", "Z"}}
  BY <1>0 DEF Ends
<1>2. CASE Ends(rx) = {}
  <2>1. u = Len(rx)
    BY <1>2
  <2>2. \A i \in 1..Len(rx) : rx[i] \notin {"C", "E", "Z"}
    BY <1>1, <1>2
  <2>3. /\ rx' = SubSeq(rx, Len(rx) + 1, Len(rx))
        /\ rows' = rows + Count(rx, "D", Len(rx))
        /\ outcome' = outcome /\ async' = "busy"
    BY <1>2 DEF Parse, Count
  <2>4. Len(rx) \in 0..Len(rx) /\ (Len(rx) = 0 \/ Len(rx) \in 1..Len(rx))
    BY <1>0
  <2> QED
    BY <2>2, <2>3, <2>4
<1>3. CASE Ends(rx) # {}
  <2>1. Ends(rx) \in SUBSET Nat
    BY <1>1
  <2>2. \E i \in Ends(rx) : \A j \in Ends(rx) : i <= j
    BY <1>3, <2>1, LeastMember
  <2>3. u \in Ends(rx) /\ \A j \in Ends(rx) : u <= j
    BY <1>3, <2>2
  <2>4. /\ rx' = SubSeq(rx, u + 1, Len(rx))
        /\ rows' = rows + Count(rx, "D", u)
        /\ outcome' = IF rx[u] \in {"C", "E"} THEN rx[u] ELSE outcome
        /\ async' = CASE rx[u] = "none" -> "busy" [] rx[u] = "Z" -> "idle" [] OTHER -> "ready"
    BY <1>3 DEF Parse, Count
  <2> HIDE DEF u
  <2>5. u \in 1..Len(rx) /\ rx[u] \in {"C", "E", "Z"} /\ u > 0 /\ u \in 0..Len(rx)
    BY <1>1, <2>3
  <2>6. \A i \in 1..u : i < u => rx[i] \notin {"C", "E", "Z"}
    <3> SUFFICES ASSUME NEW i \in 1..u, i < u, rx[i] \in {"C", "E", "Z"} PROVE FALSE
      OBVIOUS
    <3>1. i \in Ends(rx)
      BY <1>0, <1>1, <2>5
    <3> QED
      BY <2>3, <2>5, <3>1
  <2>7. \/ u > 0 /\ async' = "ready" /\ rx[u] \in {"C", "E"} /\ outcome' = rx[u]
        \/ u > 0 /\ async' = "idle" /\ rx[u] = "Z" /\ outcome' = outcome
    BY <2>4, <2>5
  <2> QED
    BY <2>4, <2>5, <2>6, <2>7
<1> QED
  BY <1>2, <1>3

(* A result, or the end of the query, is found where the answer has it.    *)
LEMMA ParseAnswer ==
  ASSUME ControlInv, ControlInv', AnswerInv, Parse, async = "busy",
         pc \in {"busy", "get", "drain"},
         UNCHANGED <<is_error, results, status, unsent, netVars, operation>>,
         \/ pc = "busy" /\ pc' = IF async' = "busy" THEN "loop" ELSE "get"
         \/ pc # "busy" /\ pc' = pc
  PROVE  AnswerInv'
<1>0. SendInv /\ BoundInv /\ QuietInv /\ AnsweringInv /\ ResultInv
  BY DEF AnswerInv
<1>1. UNCHANGED <<is_error, results, status, unsent, inbox, flight, server, received, reply,
                  expected, operation>>
  BY DEF netVars
<1>2. /\ operation = "query" /\ Live /\ Live' /\ Broken' = Broken /\ status = "ok"
      /\ pc = "busy" => results = <<>>
      /\ pc' \in {"loop", "get", "drain"} /\ (pc' = "drain") = (pc = "drain")
  <2>1. operation = "query" /\ Live
    BY DEF ControlInv, ThreadInv, Live
  <2>2. status = "ok"
    BY <2>1 DEF ControlInv, QueryInv
  <2>3. pc = "busy" => results = <<>>
    BY <2>1 DEF ControlInv, QueryInv
  <2>4. pc' \in {"loop", "get", "drain"} /\ (pc' = "drain") = (pc = "drain")
    OBVIOUS
  <2> QED
    BY <1>1, <2>1, <2>2, <2>3 DEF Live, Broken
<1>3. /\ rx \in Seq(Messages) /\ inbox \in Seq(Messages) /\ reply \in Seq(Messages)
      /\ Stream \in Seq(Messages) /\ Stream' \in Seq(Messages)
  BY StreamType, StreamTypeNext
<1>4. /\ results \in Seq(Nat) /\ Len(results) \in Nat /\ rows \in Nat /\ received \in Nat
      /\ received <= QuerySize /\ (received < QuerySize \/ received = QuerySize)
      /\ unsent \in Nat /\ flight \in Nat /\ expected \in Seq(0..MaxRows)
  <2>1. /\ results \in Seq(Nat) /\ rows \in Nat /\ received \in Nat
        /\ unsent \in Nat /\ flight \in Nat /\ expected \in Seq(0..MaxRows)
    BY Constants DEF ControlInv, CoreTypeOK
  <2> QED
    BY <1>0, <2>1, Constants DEF BoundInv
<1>5. PICK u \in 0..Len(rx) :
        /\ rx' = SubSeq(rx, u + 1, Len(rx))
        /\ rows' = rows + Count(rx, "D", u)
        /\ \A i \in 1..u : i < u => rx[i] \notin {"C", "E", "Z"}
        /\ \/ /\ async' = "busy" /\ outcome' = outcome
              /\ u = 0 \/ rx[u] \notin {"C", "E", "Z"}
           \/ u > 0 /\ async' = "ready" /\ rx[u] \in {"C", "E"} /\ outcome' = rx[u]
           \/ u > 0 /\ async' = "idle" /\ rx[u] = "Z" /\ outcome' = outcome
  BY ParseStep
<1>6. u \in Nat /\ u <= Len(rx) /\ Suffix(Stream', Stream, u)
  <2>1. Suffix(SubSeq(rx, u + 1, Len(rx)) \o inbox \o reply, rx \o inbox \o reply, u)
    BY <1>3, ParsedSuffix
  <2> QED
    BY <1>1, <1>3, <1>5, <2>1 DEF Stream
<1>7. /\ \A i \in 1..u : Stream[i] = rx[i] /\ i \in 1..Len(Stream)
      /\ u > 0 => u \in 1..u /\ u \in 1..Len(Stream) /\ Stream[u] = rx[u]
  <2>1. /\ Len(rx) \in Nat /\ \A i \in 1..Len(rx) : Stream[i] = rx[i]
        /\ Len(Stream) = u + Len(Stream') /\ Len(Stream') \in Nat
    BY <1>3, <1>6, Joins DEF Stream, Suffix
  <2>2. \A i \in 1..u : i \in 1..Len(rx) /\ i \in 1..Len(Stream)
    BY <1>6, <2>1
  <2>3. u > 0 => u \in 1..u
    BY <1>6
  <2> QED
    BY <2>1, <2>2, <2>3
<1>8. Count(rx, "D", u) = Count(Stream, "D", u) /\ Count(rx, "D", u) \in Nat
  BY <1>6, <1>7, CountSame, CountFinite
<1>9. ASSUME \A i \in 1..u : rx[i] # "D"
      PROVE  rows' = rows
  BY <1>4, <1>5, <1>6, <1>9, CountNone
<1>10. SendInv'
  <2>1. ASSUME server = "up", async' = "idle"
        PROVE  unsent' = 0 /\ flight' = 0
    <3>1. unsent + flight + received = QuerySize
      BY <1>0, <2>1 DEF SendInv
    <3>2. u \in 1..Len(Stream) /\ Stream[u] = "Z"
      BY <1>5, <1>7, <2>1
    <3>3. received = QuerySize
      <4>1. ASSUME received < QuerySize
            PROVE  FALSE
        <5>1. NoAnswer(Stream, Broken)
          BY <1>0, <1>2, <4>1 DEF QuietInv
        <5> QED
          BY <3>2, <5>1 DEF NoAnswer
      <4> QED
        BY <1>4, <4>1
    <3> QED
      BY <1>1, <1>4, <3>1, <3>3, Constants
  <2>2. ASSUME server = "up"
        PROVE  unsent + flight + received = QuerySize
    BY <1>0, <2>2 DEF SendInv
  <2> QED
    BY <1>1, <2>1, <2>2 DEF SendInv
<1>11. OwnAnswer'
  BY <1>2 DEF OwnAnswer
<1>12. CASE received < QuerySize
  <2>1. NoAnswer(Stream, Broken)
    BY <1>0, <1>2, <1>12 DEF QuietInv
  <2>2. \A i \in 1..u : rx[i] \in {"A", "N"} \/ (Broken /\ rx[i] = "E")
    BY <1>7, <2>1 DEF NoAnswer
  <2>3. NoAnswer(Stream', Broken')
    BY <1>2, <1>3, <1>6, <2>1, NoAnswerMoves
  <2>4. rows' = rows
    BY <1>9, <2>2
  <2>5. async' = "busy" \/ (async' = "ready" /\ outcome' = "E" /\ Broken)
    BY <1>5, <1>7, <2>2
  <2>6. BoundInv'
    BY <1>0, <1>1, <2>4 DEF BoundInv
  <2>7. QuietInv'
    <3>1. ~ Broken => rows = 0 /\ results = <<>> /\ pc # "drain"
      BY <1>0, <1>2, <1>12 DEF QuietInv
    <3> QED
      BY <1>2, <2>3, <2>4, <2>5, <3>1 DEF QuietInv
  <2>8. AnsweringInv'
    BY <1>1, <1>4, <1>12, Constants DEF AnsweringInv
  <2>9. ResultInv'
    <3>1. pc # "get"
      BY <1>0, <1>12 DEF ResultInv
    <3>2. pc' = "get" => async' = "ready" /\ outcome' = "E"
      BY <2>5, <3>1
    <3> QED
      BY <1>1, <1>11, <1>12, <3>2, Constants DEF ResultInv
  <2> QED
    BY <1>10, <2>6, <2>7, <2>8, <2>9 DEF AnswerInv
<1>13. CASE received = QuerySize
  <2>1. IsAnswer(expected) /\ Shape(Stream, Broken) /\ Shape(Stream', Broken')
    <3>1. IsAnswer(expected) /\ Shape(Stream, Broken)
      BY <1>0, <1>2, <1>13 DEF AnsweringInv
    <3> QED
      BY <1>2, <1>3, <1>6, <3>1, ShapeMoves
  <2>2. QuietInv'
    <3>1. ~ (received' < QuerySize)
      BY <1>1, <1>13, Constants
    <3>2. async' = "idle" => NoAnswer(Stream', Broken')
      BY <1>2, <1>3, <1>5, <1>6, <1>7, <2>1, AfterTheEnd
    <3> QED
      BY <3>1, <3>2 DEF QuietInv
  <2>3. ~ (received' < QuerySize) /\ received' = QuerySize
    BY <1>1, <1>13, Constants
  <2>4. CASE pc = "drain"
    <3>1. Errored /\ Errored'
      BY <1>2, <2>4 DEF Errored
    <3>2. NoRows(Stream) /\ NoRows(Stream')
      <4>1. NoRows(Stream)
        BY <1>0, <1>2, <1>13, <3>1 DEF AnsweringInv
      <4> QED
        BY <1>3, <1>6, <4>1, NoRowsMoves
    <3>3. rows' = rows
      BY <1>7, <1>9, <3>2 DEF NoRows
    <3>4. BoundInv'
      BY <1>0, <1>1, <3>3 DEF BoundInv
    <3>5. AnsweringInv'
      BY <1>1, <2>1, <3>1, <3>2 DEF AnsweringInv
    <3>6. ResultInv'
      BY <1>2, <1>11, <2>4 DEF ResultInv
    <3> QED
      BY <1>10, <2>2, <3>4, <3>5, <3>6 DEF AnswerInv
  <2>5. CASE pc # "drain"
    <3> DEFINE k == Len(results)
    <3>1. ~ Errored
      BY <2>5 DEF Errored
    <3>2. Fits(expected, Stream, Over, Counted)
      BY <1>0, <1>2, <1>13, <3>1 DEF AnsweringInv
    <3>3. Over = k /\ Counted = Total(expected, k) + rows
      BY <1>4 DEF Over, Counted
    <3>4. \A i \in 1..u : i < u => Stream[i] \notin {"C", "E", "Z"}
      BY <1>5, <1>7
    <3>5. \A i \in 1..k : results[i] = expected[i]
      <4>1. CASE pc = "get"
        BY <1>0, <1>13, <3>1, <4>1 DEF ResultInv
      <4>2. CASE pc = "busy"
        BY <1>2, <4>2
      <4> QED
        BY <2>5, <4>1, <4>2
    <3> HIDE DEF k
    <3>6. k \in Nat
      BY <1>4 DEF k
    <3>7. Fits(expected, Stream, k, Total(expected, k) + rows)
      BY <3>2, <3>3
    <3>8. /\ rows + Count(Stream, "D", u) \in 0..MaxRows
          /\ u = 0 \/ Stream[u] \notin {"C", "E", "Z"} =>
               Fits(expected, Stream', k, Total(expected, k) + (rows + Count(Stream, "D", u)))
          /\ u > 0 /\ Stream[u] = "C" =>
               /\ k + 1 <= Len(expected)
               /\ rows + Count(Stream, "D", u) = expected[k + 1]
               /\ Fits(expected, Stream', k + 1, Total(expected, k + 1))
          /\ u > 0 /\ Stream[u] = "Z" => k = Len(expected)
      <4>1. /\ IsAnswer(expected) /\ Stream \in Seq(Messages) /\ Stream' \in Seq(Messages)
            /\ u \in Nat /\ k \in Nat /\ rows \in Nat /\ Suffix(Stream', Stream, u)
        BY <1>3, <1>4, <1>6, <2>1, <3>6
      <4> QED
        BY ONLY <3>4, <3>7, <4>1, ParseFits
    <3>9. rows' = rows + Count(Stream, "D", u)
      BY <1>5, <1>8
    <3>10. BoundInv'
      <4>1. rows' <= MaxRows
        BY <3>8, <3>9, Constants
      <4> QED
        BY <1>0, <1>1, <4>1 DEF BoundInv
    <3>11. CASE async' = "busy"
      <4>1. u = 0 \/ Stream[u] \notin {"C", "E", "Z"}
        BY <1>5, <1>6, <1>7, <3>11
      <4>2. Fits(expected, Stream', k, Total(expected, k) + rows')
        BY <3>8, <3>9, <4>1
      <4>3. ~ Errored' /\ Over' = k /\ Counted' = Total(expected, k) + rows'
        BY <1>1, <2>5, <3>11 DEF Errored, Over, Counted, k
      <4>4. AnsweringInv'
        BY <1>1, <2>1, <4>2, <4>3 DEF AnsweringInv
      <4>5. ResultInv'
        BY <1>1, <1>11, <2>3, <3>5, <3>11 DEF ResultInv, k
      <4> QED
        BY <1>10, <2>2, <3>10, <4>4, <4>5 DEF AnswerInv
    <3>12. CASE async' = "ready" /\ outcome' = "C"
      <4>1. u > 0 /\ Stream[u] = "C"
        BY <1>5, <1>7, <3>12
      <4>2. rows' = expected[k + 1] /\ Fits(expected, Stream', k + 1, Total(expected, k + 1) + 0)
        <5>1. Total(expected, k + 1) + 0 = Total(expected, k + 1)
          BY <2>1, <3>6, TotalStep
        <5> QED
          BY <3>8, <3>9, <4>1, <5>1
      <4>3. ~ Errored' /\ Over' = k + 1 /\ Counted' = Total(expected, k + 1) + 0
        BY <1>1, <2>5, <3>12 DEF Errored, Over, Counted, k
      <4>4. AnsweringInv'
        BY <1>1, <2>1, <4>2, <4>3 DEF AnsweringInv
      <4>5. ResultInv'
        BY <1>1, <1>11, <2>3, <3>5, <3>12, <4>2 DEF ResultInv, k
      <4> QED
        BY <1>10, <2>2, <3>10, <4>4, <4>5 DEF AnswerInv
    <3>13. CASE async' = "ready" /\ outcome' = "E"
      <4>1. u > 0 /\ Stream[u] = "E" /\ u \in 1..Len(Stream)
        BY <1>5, <1>7, <3>13
      <4>2. NoRows(Stream') /\ Errored'
        BY <1>3, <1>6, <2>1, <3>13, <4>1, AfterTheEnd DEF Errored
      <4>3. AnsweringInv'
        BY <1>1, <2>1, <4>2 DEF AnsweringInv
      <4>4. ResultInv'
        BY <1>11, <2>3, <3>13, <4>2 DEF ResultInv
      <4> QED
        BY <1>10, <2>2, <3>10, <4>3, <4>4 DEF AnswerInv
    <3>14. CASE async' = "idle"
      <4>1. u > 0 /\ Stream[u] = "Z"
        BY <1>5, <1>7, <3>14
      <4>2. k = Len(expected)
        BY <3>8, <4>1
      <4>3. results = expected
        <5> DEFINE Bound == 0..MaxRows
        <5>1. expected \in Seq(Bound) /\ \A n \in Bound : n \in Nat
          BY <1>4, Constants
        <5> HIDE DEF Bound
        <5>2. expected \in Seq(Nat)
          BY <5>1
        <5> QED
          BY <1>4, <3>5, <4>2, <5>2 DEF k
      <4>4. AnsweringInv'
        BY <3>14 DEF AnsweringInv
      <4>5. ResultInv'
        BY <1>1, <1>11, <3>14, <4>3 DEF ResultInv
      <4> QED
        BY <1>10, <2>2, <3>10, <4>4, <4>5 DEF AnswerInv
    <3> QED
      BY <1>5, <3>11, <3>12, <3>13, <3>14
  <2> QED
    BY <2>4, <2>5
<1> QED
  BY <1>4, <1>12, <1>13

(* PQisBusy parses what has been read: AnswerInv is kept.                  *)
LEMMA IsBusyAnswer == ControlInv /\ ControlInv' /\ AnswerInv /\ IsBusy => AnswerInv'
<1> SUFFICES ASSUME ControlInv, ControlInv', AnswerInv, IsBusy PROVE AnswerInv'
  OBVIOUS
<1>1. /\ pc = "busy"
      /\ Parse
      /\ UNCHANGED <<is_error, results, status, unsent, netVars, operation>>
      /\ pc' = IF async' = "busy" THEN "loop" ELSE "get"
  BY DEF IsBusy, StillBusy
<1>2. async = "busy"
  BY <1>1 DEF ControlInv, ThreadInv, QueryInv, Live
<1> QED
  BY <1>1, <1>2, ParseAnswer

(* PQgetResult parses what has been read: AnswerInv is kept.               *)
LEMMA GetParseAnswer == ControlInv /\ ControlInv' /\ AnswerInv /\ GetParse => AnswerInv'
<1> SUFFICES ASSUME ControlInv, ControlInv', AnswerInv, GetParse PROVE AnswerInv'
  OBVIOUS
<1>1. /\ pc \in {"get", "drain"} /\ async = "busy" /\ Parse /\ pc' = pc
      /\ UNCHANGED <<is_error, results, status, unsent, netVars, operation>>
  BY DEF GetParse, Getting, objVars
<1> QED
  BY <1>1, ParseAnswer

(* Nothing has happened yet: AnswerInv is kept.                            *)
LEMMA InitAnswer == Init => AnswerInv
<1> SUFFICES ASSUME Init PROVE AnswerInv
  OBVIOUS
<1>1. /\ Stream = <<>> /\ results = <<>> /\ async = "idle" /\ pc = "loop" /\ operation = "none"
      /\ rows = 0 /\ received = 0 /\ unsent = 0 /\ flight = 0
  BY DEF Init, Stream
<1>2. NoAnswer(<<>>, Broken)
  BY DEF NoAnswer
<1>3. SendInv /\ BoundInv
  BY <1>1, Constants DEF SendInv, BoundInv
<1>4. QuietInv /\ AnsweringInv /\ ResultInv
  BY <1>1, <1>2 DEF QuietInv, AnsweringInv, ResultInv, OwnAnswer
<1> QED
  BY <1>3, <1>4 DEF AnswerInv

(* Every step of the system keeps AnswerInv.                               *)
LEMMA NextAnswer == ControlInv /\ AnswerInv /\ [Next]_vars => AnswerInv'
<1> SUFFICES ASSUME ControlInv, AnswerInv, [Next]_vars PROVE AnswerInv'
  OBVIOUS
<1>1. ControlInv'
  BY NextControl
<1>2. CASE Thread
  BY <1>1, <1>2, EpollWaitAnswer, SendQueryPushAnswer, SendQueryPushFailedAnswer, CallBackAnswer,
     HandleErrorAnswer, HandlePollFailedAnswer, HandlePollAnswer, HandlePollOkAnswer,
     HandleFlushAnswer, HandleConsumeAnswer, HandleReadAnswer, IsBusyAnswer, GetParseAnswer,
     GetReadAnswer, GetResultAnswer, GetNullAnswer DEF Thread
<1>3. CASE Server
  BY <1>1, <1>3, ServerAcceptsAnswer, ServerReceivesAnswer, ServerSendsAnswer, ServerNoticeAnswer,
     ServerClosesAnswer, ServerResetsAnswer DEF Server
<1> QED
  BY <1>2, <1>3, ConnectDbAnswer, SendQueryAnswer, SendQueryRefusedAnswer, StutterAnswer DEF Next

(* AnswerInv is an invariant: what is parsed, what libpq and the socket    *)
(* hold and what the server has yet to send are the answer of the query    *)
(* under way.                                                              *)
THEOREM AnswerHolds == Spec => []AnswerInv
<1>1. Init => ControlInv /\ AnswerInv
  BY InitControl, InitAnswer
<1>2. ControlInv /\ AnswerInv /\ [Next]_vars => (ControlInv /\ AnswerInv)'
  BY NextControl, NextAnswer
<1> QED
  BY <1>1, <1>2, PTL DEF Spec

(* OwnAnswer: a callback without an error finds the rows of all statements *)
(* of its own query, in whatever pieces they arrived and whatever notices  *)
(* came between them (db_connection_type.h:194-229, 244-248).              *)
THEOREM OwnAnswers == Spec => []OwnAnswer
<1>1. AnswerInv => OwnAnswer
  BY DEF AnswerInv, ResultInv
<1> QED
  BY <1>1, AnswerHolds, PTL

(* The type invariant follows from the two invariants.                     *)
LEMMA BoundedType ==
  ASSUME ControlInv, AnswerInv
  PROVE  TypeOK
<1>1. /\ rows \in Nat /\ rows <= MaxRows /\ received \in Nat /\ received <= QuerySize
      /\ results \in Seq(Nat) /\ \A i \in 1..Len(results) : results[i] <= MaxRows
  BY DEF ControlInv, CoreTypeOK, AnswerInv, BoundInv
<1>2. rows \in 0..MaxRows /\ received \in 0..QuerySize
  BY <1>1, Constants
<1>3. results \in Seq(0..MaxRows)
  <2> DEFINE Bound == 0..MaxRows
  <2>1. \A i \in 1..Len(results) : results[i] \in Bound
    BY <1>1, Constants
  <2> HIDE DEF Bound
  <2>2. results \in Seq(Bound)
    BY <1>1, <2>1
  <2> QED
    BY <2>2 DEF Bound
<1> QED
  BY <1>2, <1>3 DEF TypeOK, ControlInv, CoreTypeOK

(* TypeOK: the type of every variable.                                     *)
THEOREM TypeCorrect == Spec => []TypeOK
<1> QED
  BY BoundedType, ControlHolds, AnswerHolds, PTL

(***************************************************************************)
(* Wake-ups: an edge is to come for what the operation waits for, as long  *)
(* as an answer fits in one read.                                          *)
(***************************************************************************)

(* The longest answer: two results of MaxRows rows, and "Z".               *)
AnswerSize  == 2 * MaxRows + 3

(* One read takes any answer: the hypothesis under which no wake-up is     *)
(* lost.                                                                   *)
AnswersFit  == ReadSize >= AnswerSize

(* Neither a notice nor the end of the connection.                         *)
Calm == notices = 0 /\ ~ Broken

(* A connection that is reset gets its handler called.                     *)
ResetInv ==
  server = "reset" /\ mask # {} => ready \/ (pc = "handler" /\ "err" \in ev)

(* The state says "sending" only while libpq holds chunks.                 *)
SendingInv ==
  operation = "query" /\ connection_state = "SENDING_QUERY" /\ pc \in {"loop", "handler"} =>
    unsent > 0

(* Of the login at most one message is under way.                          *)
OneAtATime ==
  Calm /\ status \in {"none", "started"} =>
    /\ rx = <<>>
    /\ inbox = <<>> \/ reply = <<>>
    /\ Len(inbox) + Len(reply) <= 1
    /\ rounds > Rounds => inbox = <<>> /\ reply = <<>>

(* There is nothing to be told but answers, and one fits in a read.        *)
Clean(s) == (\A i \in 1..Len(s) : s[i] \notin {"A", "N"}) /\ Len(s) <= AnswerSize

(* As long as the connection is well only answers are under way.           *)
AnswersOnly == Calm /\ status = "ok" => Clean(Stream)

(* The socket has an edge to come for what is in it, or the handler that   *)
(* takes it is under way.                                                  *)
EdgeInv ==
  Calm =>
    /\ pc \notin {"consume", "reflush"}
    /\ pc = "handler" /\ connection_state = "SENDING_QUERY" => "in" \notin ev
    /\ operation = "query" /\ pc \in {"loop", "push", "handler"} => rx = <<>>
    /\ pc \in {"loop", "busy"} /\ "in" \in mask /\ inbox # <<>> => ready
    /\ pc = "handler" /\ "in" \in mask /\ inbox # <<>> => ready \/ "in" \in ev
    /\ pc = "loop" /\ mask = {"out"} /\ server = "up" => ready

(* What the wake-ups keep: resets, sending, the login, the answers and the *)
(* edge.                                                                   *)
WakeInv == ResetInv /\ SendingInv /\ OneAtATime /\ AnswersOnly /\ EdgeInv

(* What is left of an answer is an answer.                                 *)
LEMMA CleanSuffix ==
  ASSUME NEW s \in Seq(Messages), NEW t \in Seq(Messages), NEW u \in Nat,
         Clean(s), Suffix(t, s, u)
  PROVE  Clean(t)
<1>1. Len(t) <= Len(s) /\ \A i \in 1..Len(t) : u + i \in 1..Len(s) /\ s[u + i] = t[i]
  BY DEF Suffix
<1>2. Len(t) \in Nat /\ Len(s) \in Nat /\ AnswerSize \in Nat
  BY Constants DEF AnswerSize
<1> QED
  BY <1>1, <1>2 DEF Clean

(* Where only answers are under way and none is due, there is nothing.     *)
LEMMA CleanQuiet ==
  ASSUME NEW a \in Seq(Messages), NEW b \in Seq(Messages), NEW c \in Seq(Messages),
         Clean(a \o b \o c), NoAnswer(a \o b \o c, FALSE)
  PROVE  a = <<>> /\ b = <<>> /\ c = <<>>
<1> DEFINE s == a \o b \o c
<1>1. s \in Seq(Messages) /\ Len(s) = Len(a) + Len(b) + Len(c)
  BY Joins
<1>2. Len(a) \in Nat /\ Len(b) \in Nat /\ Len(c) \in Nat /\ Len(s) \in Nat
  BY <1>1
<1> HIDE DEF s
<1>3. Clean(s) /\ NoAnswer(s, FALSE)
  BY DEF s
<1>4. Len(s) = 0
  <2> SUFFICES ASSUME Len(s) > 0 PROVE FALSE
    BY <1>2
  <2>1. 1 \in 1..Len(s)
    BY <1>2
  <2> QED
    BY <1>3, <2>1 DEF Clean, NoAnswer
<1>5. Len(a) = 0 /\ Len(b) = 0 /\ Len(c) = 0
  <2>1. Len(a) + Len(b) + Len(c) = 0
    BY <1>1, <1>4
  <2>2. \A i, j, k \in Nat : i + j + k = 0 => i = 0 /\ j = 0 /\ k = 0
    OBVIOUS
  <2> QED
    BY <1>2, <2>1, <2>2
<1> QED
  BY <1>5

(* Both answers the server has for a query are answers and fit in a read.  *)
LEMMA CleanAnswer ==
  ASSUME NEW c \in Counts
  PROVE  /\ Clean(Result(c[1]) \o <<"E", "Z">>)
         /\ Clean(Append(Answer(c), "Z"))
<1>1. Len(c) \in {1, 2} /\ \A i \in 1..Len(c) : c[i] \in Nat /\ c[i] <= MaxRows
  BY CountsType, Constants
<1> DEFINE a == Result(c[1])
           b == Result(c[2])
<1>2. /\ a \in Seq(Messages) /\ \A i \in 1..Len(a) : a[i] \in {"C", "D"}
      /\ Len(a) \in Nat /\ Len(a) <= MaxRows + 1
  <2>1. c[1] \in Nat /\ c[1] <= MaxRows
    BY <1>1
  <2>2. /\ a \in Seq(Messages) /\ Len(a) = c[1] + 1
        /\ \A i \in 1..(c[1] + 1) : a[i] = IF i = c[1] + 1 THEN "C" ELSE "D"
    BY <2>1, ResultType
  <2> HIDE DEF a
  <2> QED
    BY <2>1, <2>2, Constants
<1>3. Len(c) = 2 => /\ b \in Seq(Messages) /\ \A i \in 1..Len(b) : b[i] \in {"C", "D"}
                    /\ Len(b) \in Nat /\ Len(b) <= MaxRows + 1
  <2> SUFFICES ASSUME Len(c) = 2
               PROVE  /\ b \in Seq(Messages) /\ \A i \in 1..Len(b) : b[i] \in {"C", "D"}
                      /\ Len(b) \in Nat /\ Len(b) <= MaxRows + 1
    OBVIOUS
  <2>1. c[2] \in Nat /\ c[2] <= MaxRows
    BY <1>1
  <2>2. /\ b \in Seq(Messages) /\ Len(b) = c[2] + 1
        /\ \A i \in 1..(c[2] + 1) : b[i] = IF i = c[2] + 1 THEN "C" ELSE "D"
    BY <2>1, ResultType
  <2> HIDE DEF b
  <2> QED
    BY <2>1, <2>2, Constants
<1>4. /\ Answer(c) \in Seq(Messages) /\ \A i \in 1..Len(Answer(c)) : Answer(c)[i] \in {"C", "D"}
      /\ Len(Answer(c)) \in Nat /\ Len(Answer(c)) <= 2 * MaxRows + 2
  <2>1. CASE Len(c) = 1
    <3>1. Answer(c) = a
      BY <1>2, <2>1 DEF Answer
    <3> HIDE DEF a
    <3> QED
      BY <1>2, <3>1, Constants
  <2>2. CASE Len(c) = 2
    <3>1. Answer(c) = a \o b
      BY <2>2 DEF Answer
    <3> HIDE DEF a, b
    <3> QED
      BY <1>2, <1>3, <2>2, <3>1, Constants
  <2> QED
    BY <1>1, <2>1, <2>2
<1> HIDE DEF a, b
<1>5. Clean(a \o <<"E", "Z">>)
  <2> DEFINE s == a \o <<"E", "Z">>
  <2>1. \A i \in 1..Len(s) : i <= Len(a) => s[i] \in {"C", "D"}
    BY <1>2
  <2>2. \A i \in 1..Len(s) : i > Len(a) => i = Len(a) + 1 \/ i = Len(a) + 2
    BY <1>2
  <2>3. s[Len(a) + 1] = "E" /\ s[Len(a) + 2] = "Z" /\ Len(s) = Len(a) + 2
    BY <1>2
  <2> HIDE DEF s
  <2>4. \A i \in 1..Len(s) : s[i] \notin {"A", "N"}
    BY <1>2, <2>1, <2>2, <2>3
  <2>5. Len(s) <= AnswerSize
    BY <1>2, <2>3, Constants DEF AnswerSize
  <2> QED
    BY <2>4, <2>5 DEF Clean, s
<1>6. Clean(Append(Answer(c), "Z"))
  <2> DEFINE n == Answer(c)
             s == Append(n, "Z")
  <2> HIDE DEF n
  <2>1. /\ Len(s) = Len(n) + 1 /\ Len(n) \in Nat /\ s[Len(n) + 1] = "Z"
        /\ \A i \in 1..Len(n) : s[i] \in {"C", "D"}
        /\ Len(n) <= 2 * MaxRows + 2
    BY <1>4 DEF n
  <2> HIDE DEF s
  <2>2. \A i \in 1..Len(s) : s[i] \notin {"A", "N"}
    BY <2>1
  <2>3. Len(s) <= AnswerSize
    BY <2>1, Constants DEF AnswerSize
  <2> QED
    BY <2>2, <2>3 DEF Clean, s, n
<1> QED
  BY <1>5, <1>6 DEF a

(* A call of addTrack or modifyTrack that finds an event raises the edge.  *)
LEMMA TrackRaises ==
  ASSUME NEW m, Track(m)
  PROVE  /\ mask' = m /\ ready' \in BOOLEAN
         /\ server' = "reset" => ready'
         /\ "in" \in m /\ inbox' # <<>> => ready'
         /\ "out" \in m /\ server' = "up" /\ flight' < SendRoom => ready'
BY DEF Track, Pending, Readable, Writable

(* Where there is nothing but answers and none is due, there is nothing.   *)
LEMMA NothingDue ==
  ASSUME ControlInv, AnswerInv, WakeInv, Calm, status = "ok",
         async = "idle" \/ (Live /\ received < QuerySize)
  PROVE  rx = <<>> /\ inbox = <<>> /\ reply = <<>>
<1>1. Broken = FALSE
  BY DEF Calm
<1>2. NoAnswer(Stream, FALSE)
  <2>1. NoAnswer(Stream, Broken)
    BY DEF AnswerInv, QuietInv
  <2> QED
    BY <1>1, <2>1
<1>3. Clean(Stream)
  BY DEF WakeInv, AnswersOnly
<1> QED
  BY <1>2, <1>3, StreamType, CleanQuiet DEF Stream

(* While libpq holds chunks of the query, no answer is due.                *)
LEMMA NothingDueYet ==
  ASSUME ControlInv, AnswerInv, WakeInv, Calm, operation = "query",
         connection_state = "SENDING_QUERY", pc \in {"loop", "handler"}
  PROVE  rx = <<>> /\ inbox = <<>> /\ reply = <<>> /\ server = "up" /\ status = "ok"
<1>1. Live /\ status = "ok" /\ async # "idle"
  BY DEF ControlInv, QueryInv, Live
<1>2. server = "up"
  BY DEF ControlInv, CoreTypeOK, StatusInv, Calm, Broken
<1>3. received < QuerySize
  <2>1. unsent + flight + received = QuerySize
    BY <1>1, <1>2 DEF AnswerInv, SendInv
  <2>2. unsent > 0
    BY DEF WakeInv, SendingInv
  <2>3. unsent \in Nat /\ flight \in Nat /\ received \in Nat
    BY Constants DEF ControlInv, CoreTypeOK
  <2> QED
    BY <2>1, <2>2, <2>3, Constants
<1> QED
  BY <1>1, <1>2, <1>3, NothingDue

(* A step that changes no variable: WakeInv is kept.                       *)
LEMMA StutterWake == WakeInv /\ UNCHANGED vars => WakeInv'
<1> SUFFICES ASSUME WakeInv, UNCHANGED vars PROVE WakeInv'
  OBVIOUS
<1>1. Stream' = Stream /\ Broken' = Broken /\ Calm' = Calm
  BY DEF Stream, Broken, Calm, vars, pqVars, netVars
<1>2. ResetInv' /\ SendingInv'
  BY DEF WakeInv, ResetInv, SendingInv, vars, objVars, pqVars, epVars, netVars
<1>3. OneAtATime' /\ AnswersOnly'
  BY <1>1 DEF WakeInv, OneAtATime, AnswersOnly, vars, pqVars, netVars
<1>4. EdgeInv'
  BY <1>1 DEF WakeInv, EdgeInv, vars, objVars, pqVars, epVars, netVars
<1> QED
  BY <1>2, <1>3, <1>4 DEF WakeInv

(* An operation is over, or its results are collected: nothing is tracked. *)
LEMMA UntrackedWake ==
  ASSUME WakeInv, pc' \in {"get", "drain", "callback"}, mask' = {},
         UNCHANGED <<server, notices>>, OneAtATime',
         status' = "ok" => status = "ok" /\ (Clean(Stream) => Clean(Stream'))
  PROVE  WakeInv'
<1>1. Calm' = Calm
  BY DEF Calm, Broken
<1>2. ResetInv' /\ SendingInv'
  BY DEF ResetInv, SendingInv
<1>3. AnswersOnly'
  BY <1>1 DEF WakeInv, AnswersOnly
<1>4. EdgeInv'
  BY DEF EdgeInv
<1> QED
  BY <1>2, <1>3, <1>4 DEF WakeInv

(* An operation that fails stops tracking the socket: WakeInv is kept.     *)
LEMMA GivenUpWake ==
  ASSUME WakeInv, pc' = "callback", mask' = {},
         UNCHANGED <<rx, inbox, reply, rounds, server, notices>>, status' \in {status, "bad"}
  PROVE  WakeInv'
<1>1. Calm' = Calm /\ Stream' = Stream
  BY DEF Calm, Broken, Stream
<1>2. OneAtATime'
  BY <1>1 DEF WakeInv, OneAtATime
<1> QED
  BY <1>1, <1>2, UntrackedWake

(* The flush of sendQuery meets a broken socket: WakeInv is kept.          *)
LEMMA SendQueryPushFailedWake == ControlInv /\ WakeInv /\ SendQueryPushFailed => WakeInv'
<1> SUFFICES ASSUME ControlInv, WakeInv, SendQueryPushFailed PROVE WakeInv'
  OBVIOUS
<1>1. /\ pc' = "callback" /\ status' \in {status, "bad"} /\ mask' = mask /\ pc = "push"
      /\ UNCHANGED <<rx, inbox, reply, rounds, server, notices>>
  BY DEF SendQueryPushFailed, epVars, netVars
<1>2. mask = {}
  BY <1>1 DEF ControlInv, ThreadInv
<1> QED
  BY <1>1, <1>2, GivenUpWake

(* Libpq refuses the query and sendQuery calls back with an error: WakeInv *)
(* is kept.                                                                *)
LEMMA SendQueryRefusedWake == ControlInv /\ WakeInv /\ SendQueryRefused => WakeInv'
<1> SUFFICES ASSUME ControlInv, WakeInv, SendQueryRefused PROVE WakeInv'
  OBVIOUS
<1>1. /\ pc' = "callback" /\ status' \in {status, "bad"} /\ mask' = mask /\ operation = "none"
      /\ UNCHANGED <<rx, inbox, reply, rounds, server, notices>>
  BY DEF SendQueryRefused, epVars, netVars
<1>2. mask = {}
  BY <1>1 DEF ControlInv, ThreadInv
<1> QED
  BY <1>1, <1>2, GivenUpWake

(* The handler sees EPOLLERR and calls back: WakeInv is kept.              *)
LEMMA HandleErrorWake == ControlInv /\ WakeInv /\ HandleError => WakeInv'
<1> SUFFICES ASSUME ControlInv, WakeInv, HandleError PROVE WakeInv'
  OBVIOUS
<1>1. /\ pc' = "callback" /\ status' \in {status, "bad"} /\ mask' = {}
      /\ UNCHANGED <<rx, inbox, reply, rounds, server, notices>>
  BY DEF HandleError, Fail, Untrack, pqVars, netVars
<1> QED
  BY <1>1, GivenUpWake

(* PQconnectPoll reports a failure: WakeInv is kept.                       *)
LEMMA HandlePollFailedWake == ControlInv /\ WakeInv /\ HandlePollFailed => WakeInv'
<1> SUFFICES ASSUME ControlInv, WakeInv, HandlePollFailed PROVE WakeInv'
  OBVIOUS
<1>1. /\ pc' = "callback" /\ status' \in {status, "bad"} /\ mask' = {}
      /\ UNCHANGED <<rx, inbox, reply, rounds, server, notices>>
  BY DEF HandlePollFailed, Fail, Untrack, netVars
<1> QED
  BY <1>1, GivenUpWake

(* The operation is over and its callback runs: WakeInv is kept.           *)
LEMMA CallBackWake == ControlInv /\ WakeInv /\ CallBack => WakeInv'
<1> SUFFICES ASSUME ControlInv, WakeInv, CallBack PROVE WakeInv'
  OBVIOUS
<1>1. /\ pc' = "loop" /\ operation' = "none" /\ pc = "callback"
      /\ UNCHANGED <<status, rx, inbox, reply, rounds, server, notices, mask, ready>>
  BY DEF CallBack, pqVars, epVars, netVars
<1>2. mask' = {}
  BY <1>1 DEF ControlInv, ThreadInv
<1>3. Calm' = Calm /\ Stream' = Stream
  BY <1>1 DEF Calm, Broken, Stream
<1>4. ResetInv' /\ SendingInv'
  BY <1>1, <1>2 DEF ResetInv, SendingInv
<1>5. OneAtATime' /\ AnswersOnly'
  BY <1>1, <1>3 DEF WakeInv, OneAtATime, AnswersOnly
<1>6. EdgeInv'
  BY <1>1, <1>2 DEF EdgeInv
<1> QED
  BY <1>4, <1>5, <1>6 DEF WakeInv

(* A login starts (connectDb): WakeInv is kept.                            *)
LEMMA ConnectDbWake == ControlInv /\ WakeInv /\ ConnectDb => WakeInv'
<1> SUFFICES ASSUME ControlInv, WakeInv, ConnectDb PROVE WakeInv'
  OBVIOUS
<1>1. /\ pc = "loop" /\ pc' = "loop" /\ operation' = "connect" /\ status' = "started"
      /\ connection_state = "NOT_CONNECTED" /\ Track({"out"})
      /\ UNCHANGED <<rx, inbox, reply, rounds, server, notices, flight>>
  BY DEF ConnectDb, netVars
<1>2. status = "none"
  BY <1>1 DEF ControlInv, StatusInv
<1>3. flight' = 0 /\ flight' < SendRoom
  BY <1>1, <1>2, Constants DEF ControlInv, LoginInv
<1>4. /\ mask' = {"out"} /\ (server' = "reset" => ready') /\ (server' = "up" => ready')
  BY <1>1, <1>3, TrackRaises
<1>5. Calm' = Calm
  BY <1>1 DEF Calm, Broken
<1>6. ResetInv' /\ SendingInv'
  BY <1>1, <1>4 DEF ResetInv, SendingInv
<1>7. OneAtATime'
  BY <1>1, <1>2, <1>5 DEF WakeInv, OneAtATime
<1>8. AnswersOnly'
  BY <1>1 DEF AnswersOnly
<1>9. EdgeInv'
  BY <1>1, <1>4 DEF EdgeInv
<1> QED
  BY <1>6, <1>7, <1>8, <1>9 DEF WakeInv

(* Libpq is handed a query (sendQuery): WakeInv is kept.                   *)
LEMMA SendQueryWake == ControlInv /\ AnswerInv /\ WakeInv /\ SendQuery => WakeInv'
<1> SUFFICES ASSUME ControlInv, AnswerInv, WakeInv, SendQuery PROVE WakeInv'
  OBVIOUS
<1>1. /\ pc' = "push" /\ operation = "none" /\ status = "ok" /\ async = "idle"
      /\ UNCHANGED <<status, rx, inbox, reply, server, notices, mask, ready>>
  BY DEF SendQuery, epVars
<1>2. mask' = {}
  BY <1>1 DEF ControlInv, ThreadInv
<1>3. Calm' = Calm /\ Stream' = Stream
  BY <1>1 DEF Calm, Broken, Stream
<1>4. ResetInv' /\ SendingInv'
  BY <1>1, <1>2 DEF ResetInv, SendingInv
<1>5. OneAtATime' /\ AnswersOnly'
  BY <1>1, <1>3 DEF WakeInv, OneAtATime, AnswersOnly
<1>6. Calm => rx' = <<>>
  BY <1>1, NothingDue
<1>7. EdgeInv'
  BY <1>1, <1>3, <1>6 DEF EdgeInv
<1> QED
  BY <1>4, <1>5, <1>7 DEF WakeInv

(* SendQuery flushes what libpq has kept of the query: WakeInv is kept.    *)
LEMMA SendQueryPushWake == ControlInv /\ WakeInv /\ SendQueryPush => WakeInv'
<1> SUFFICES ASSUME ControlInv, WakeInv, SendQueryPush PROVE WakeInv'
  OBVIOUS
<1>1. /\ pc = "push" /\ pc' = "loop" /\ server # "reset" /\ Flush(unsent)
      /\ UNCHANGED <<status, rx, inbox, reply, server, notices, operation>>
      /\ IF unsent' = 0 THEN AllSent ELSE NotAllSent
  BY DEF SendQueryPush, FlushFails
<1>2. operation = "query" /\ Live
  BY <1>1 DEF ControlInv, ThreadInv, Live
<1>3. status = "ok"
  BY <1>1, <1>2 DEF ControlInv, QueryInv
<1>4. Calm' = Calm /\ Stream' = Stream
  BY <1>1 DEF Calm, Broken, Stream
<1>5. unsent' \in Nat
  <2>1. CoreTypeOK /\ unsent \in 0..QuerySize
    BY DEF ControlInv, CoreTypeOK
  <2>2. unsent' \in 0..QuerySize
    BY <1>1, <2>1, FlushType
  <2> QED
    BY <2>2, Constants
<1>6. /\ mask' \in {{"in"}, {"in", "out"}} /\ (inbox' # <<>> => ready')
      /\ unsent' = 0 => connection_state' = "READING_RESPONSE"
  BY <1>1, TrackRaises DEF AllSent, NotAllSent
<1>7. ResetInv' /\ SendingInv'
  BY <1>1, <1>5, <1>6 DEF ResetInv, SendingInv
<1>8. OneAtATime' /\ AnswersOnly'
  BY <1>1, <1>3, <1>4 DEF WakeInv, OneAtATime, AnswersOnly
<1>9. EdgeInv'
  <2>1. Calm => rx = <<>>
    BY <1>1, <1>2 DEF WakeInv, EdgeInv
  <2> QED
    BY <1>1, <1>4, <1>6, <2>1 DEF EdgeInv
<1> QED
  BY <1>7, <1>8, <1>9 DEF WakeInv

(* The events a socket has for the mask it is tracked with.                *)
LEMMA PendingEvents ==
  /\ server = "reset" => "err" \in Pending(mask)
  /\ "in" \in mask /\ inbox # <<>> => "in" \in Pending(mask)
  /\ "in" \in Pending(mask) => inbox # <<>> \/ Broken
  /\ "out" \in mask /\ server = "up" /\ flight < SendRoom => "out" \in Pending(mask)
BY DEF Pending, Readable, Writable, Broken

(* What is pending is reported to the handler (epoll_wait): WakeInv is     *)
(* kept.                                                                   *)
LEMMA EpollWaitWake == ControlInv /\ AnswerInv /\ WakeInv /\ EpollWait => WakeInv'
<1> SUFFICES ASSUME ControlInv, AnswerInv, WakeInv, EpollWait PROVE WakeInv'
  OBVIOUS
<1>1. /\ pc = "loop" /\ ready /\ ev' = Pending(mask)
      /\ pc' = IF ev' = {} THEN "loop" ELSE "handler"
      /\ UNCHANGED <<connection_state, status, unsent, rx, inbox, reply, rounds, server, notices,
                     operation, mask, flight>>
  BY DEF EpollWait, objVars, pqVars, netVars
<1>2. Calm' = Calm /\ Stream' = Stream
  BY <1>1 DEF Calm, Broken, Stream
<1>3. ResetInv'
  BY <1>1, PendingEvents DEF ResetInv
<1>4. SendingInv'
  BY <1>1 DEF WakeInv, SendingInv
<1>5. OneAtATime' /\ AnswersOnly'
  BY <1>1, <1>2 DEF WakeInv, OneAtATime, AnswersOnly
<1>6. operation # "none" /\ (mask = {"out"} => flight < SendRoom)
  <2>1. operation # "none"
    BY <1>1 DEF ControlInv, ThreadInv
  <2>2. mask = {"out"} => operation = "connect"
    BY <1>1, <2>1 DEF ControlInv, CoreTypeOK, ThreadInv
  <2>3. operation = "connect" => flight = 0
    BY <1>1 DEF ControlInv, StatusInv, LoginInv
  <2> QED
    BY <2>1, <2>2, <2>3, Constants
<1>7. Calm /\ connection_state = "SENDING_QUERY" => "in" \notin ev'
  <2> SUFFICES ASSUME Calm, connection_state = "SENDING_QUERY" PROVE "in" \notin ev'
    OBVIOUS
  <2>1. operation = "query"
    BY <1>1, <1>6 DEF ControlInv, CoreTypeOK, ThreadInv
  <2>2. inbox = <<>> /\ ~ Broken
    BY <1>1, <2>1, NothingDueYet DEF Calm
  <2> QED
    BY <1>1, <2>2, PendingEvents
<1>8. EdgeInv'
  <2>1. Calm /\ operation = "query" => rx = <<>>
    BY <1>1 DEF WakeInv, EdgeInv
  <2>2. "in" \in mask /\ inbox # <<>> => "in" \in ev' /\ pc' = "handler"
    BY <1>1, PendingEvents
  <2>3. mask = {"out"} /\ server = "up" => pc' = "handler"
    BY <1>1, <1>6, PendingEvents
  <2>4. pc' \in {"loop", "handler"}
    BY <1>1
  <2> QED
    BY <1>1, <1>2, <1>7, <2>1, <2>2, <2>3 DEF EdgeInv
<1> QED
  BY <1>3, <1>4, <1>5, <1>8 DEF WakeInv

(* The sequences a login leaves under way.                                 *)
LEMMA OneMessage ==
  <<>> \in Seq(Messages) /\ <<"A">> \in Seq(Messages) /\ Len(<<"A">>) = 1 /\ Len(<<>>) = 0
BY DEF Messages

(* PQconnectPoll asks for more of the login: WakeInv is kept.              *)
LEMMA HandlePollWake == ControlInv /\ WakeInv /\ HandlePoll => WakeInv'
<1> SUFFICES ASSUME ControlInv, WakeInv, HandlePoll PROVE WakeInv'
  OBVIOUS
<1>1. /\ pc' = "loop" /\ inbox' = <<>> /\ (Track({"in"}) \/ Track({"out"}))
      /\ UNCHANGED <<status, rx, server, notices, flight, operation>>
      /\ rounds' = IF rounds > Rounds \/ inbox # <<>> THEN rounds - 1 ELSE rounds
      /\ reply' = IF rounds > Rounds \/ inbox # <<>> THEN <<"A">> ELSE reply
  BY DEF HandlePoll
<1>2. operation = "connect" /\ status = "started"
  BY Connecting DEF HandlePoll, Handling
<1>3. flight' < SendRoom
  BY <1>1, <1>2, Constants DEF ControlInv, LoginInv
<1>4. /\ mask' \in {{"in"}, {"out"}} /\ (server' = "reset" => ready')
      /\ mask' = {"out"} /\ server' = "up" => ready'
  BY <1>1, <1>3, TrackRaises
<1>5. Calm' = Calm
  BY <1>1 DEF Calm, Broken
<1>6. ResetInv' /\ SendingInv'
  BY <1>1, <1>2, <1>4 DEF ResetInv, SendingInv
<1>7. OneAtATime'
  <2> SUFFICES ASSUME Calm
               PROVE  /\ rx' = <<>>
                      /\ Len(inbox') + Len(reply') <= 1
                      /\ rounds' > Rounds => reply' = <<>>
    BY <1>1, <1>5 DEF OneAtATime
  <2>1. /\ rx = <<>> /\ Len(inbox) + Len(reply) <= 1
        /\ rounds > Rounds => inbox = <<>> /\ reply = <<>>
    BY <1>2 DEF WakeInv, OneAtATime
  <2>2. rounds \in 0..(Rounds + 1) /\ Len(inbox) \in Nat /\ Len(reply) \in Nat
    BY DEF ControlInv, CoreTypeOK
  <2>3. rounds > Rounds \/ inbox # <<>> => ~ (rounds' > Rounds)
    BY <1>1, <2>1, <2>2, Constants
  <2>4. Len(inbox') + Len(reply') <= 1
    <3>1. CASE rounds > Rounds \/ inbox # <<>>
      BY <1>1, <3>1, OneMessage
    <3>2. CASE ~ (rounds > Rounds \/ inbox # <<>>)
      BY <1>1, <2>1, <3>2
    <3> QED
      BY <3>1, <3>2
  <2>5. rounds' > Rounds => reply' = <<>>
    BY <1>1, <2>1, <2>3
  <2> QED
    BY <1>1, <2>1, <2>4, <2>5
<1>8. AnswersOnly'
  BY <1>1, <1>2 DEF AnswersOnly
<1>9. EdgeInv'
  BY <1>1, <1>2, <1>4 DEF EdgeInv
<1> QED
  BY <1>6, <1>7, <1>8, <1>9 DEF WakeInv

(* PQconnectPoll reports that the login is complete: WakeInv is kept.      *)
LEMMA HandlePollOkWake == ControlInv /\ WakeInv /\ HandlePollOk => WakeInv'
<1> SUFFICES ASSUME ControlInv, WakeInv, HandlePollOk PROVE WakeInv'
  OBVIOUS
<1>1. /\ pc' = "callback" /\ inbox # <<>> /\ inbox' = <<>> /\ mask' = {} /\ status' = "ok"
      /\ UNCHANGED <<rx, reply, server, notices>>
  BY DEF HandlePollOk, Untrack
<1>2. operation = "connect" /\ status = "started"
  BY Connecting DEF HandlePollOk, Handling
<1>3. Calm' = Calm
  BY <1>1 DEF Calm, Broken
<1>4. ASSUME Calm
      PROVE  Clean(Stream')
  <2>1. rx = <<>> /\ (inbox = <<>> \/ reply = <<>>)
    BY <1>2, <1>4 DEF WakeInv, OneAtATime
  <2>2. Stream' = <<>> \o <<>> \o <<>>
    BY <1>1, <2>1 DEF Stream
  <2>3. Stream' = <<>>
    BY <2>2
  <2> QED
    BY <2>3, Constants DEF Clean, AnswerSize
<1>5. ResetInv' /\ SendingInv'
  BY <1>1 DEF ResetInv, SendingInv
<1>6. OneAtATime' /\ AnswersOnly'
  BY <1>1, <1>3, <1>4 DEF OneAtATime, AnswersOnly
<1>7. EdgeInv'
  BY <1>1 DEF EdgeInv
<1> QED
  BY <1>5, <1>6, <1>7 DEF WakeInv

(* A query is sent only after the login.                                   *)
LEMMA SendingStatus ==
  ASSUME ControlInv, connection_state \in {"SENDING_QUERY", "READING_RESPONSE"}
  PROVE  status \notin {"none", "started"}
BY DEF ControlInv, StatusInv

(* The handler flushes the rest of the query: WakeInv is kept.             *)
LEMMA HandleFlushWake == ControlInv /\ WakeInv /\ HandleFlush => WakeInv'
<1> SUFFICES ASSUME ControlInv, WakeInv, HandleFlush PROVE WakeInv'
  OBVIOUS
<1>1. CASE Fail /\ status' = "bad"
  <2>1. /\ pc' = "callback" /\ status' \in {status, "bad"} /\ mask' = {}
        /\ UNCHANGED <<rx, inbox, reply, rounds, server, notices>>
    BY <1>1 DEF HandleFlush, Fail, Untrack
  <2> QED
    BY <2>1, GivenUpWake
<1>2. CASE /\ ~ FlushFails /\ Flush(unsent) /\ UNCHANGED status
           /\ IF pc = "handler" /\ "in" \in ev
              THEN pc' = "consume" /\ UNCHANGED <<connection_state, epVars>>
              ELSE SentOrWait(unsent')
  <2>1. /\ UNCHANGED <<rx, inbox, reply, server, notices, operation>> /\ server' # "reset"
        /\ pc = "reflush" \/ (pc = "handler" /\ connection_state = "SENDING_QUERY")
    BY <1>2 DEF HandleFlush, Handling, FlushFails
  <2>2. operation = "query" /\ connection_state = "SENDING_QUERY" /\ mask = {"in", "out"}
    BY <2>1 DEF ControlInv, CoreTypeOK, ThreadInv
  <2>3. Calm' = Calm /\ Stream' = Stream /\ status \notin {"none", "started"}
    BY <2>1, <2>2, SendingStatus DEF Calm, Broken, Stream
  <2>4. unsent' \in Nat
    <3>1. CoreTypeOK /\ unsent \in 0..QuerySize
      BY DEF ControlInv, CoreTypeOK
    <3>2. unsent' \in 0..QuerySize
      BY <1>2, <3>1, FlushType
    <3> QED
      BY <3>2, Constants
  <2>5. \/ pc = "handler" /\ "in" \in ev /\ pc' = "consume"
        \/ /\ pc' = "loop" /\ unsent' = 0 /\ connection_state' = "READING_RESPONSE"
           /\ mask' = {"in"} /\ (inbox' # <<>> => ready')
        \/ /\ pc' = "loop" /\ unsent' > 0 /\ mask' = {"in", "out"} /\ ready' = ready
           /\ pc = "handler" => "in" \notin ev
    BY <1>2, <2>2, <2>4, TrackRaises DEF SentOrWait, AllSent, epVars
  <2>6. ResetInv'
    BY <2>1 DEF ResetInv
  <2>7. SendingInv'
    BY <2>5 DEF SendingInv
  <2>8. OneAtATime' /\ AnswersOnly'
    BY <1>2, <2>3 DEF WakeInv, OneAtATime, AnswersOnly
  <2>9. ASSUME Calm
        PROVE  /\ pc = "handler" /\ "in" \notin ev /\ rx = <<>>
               /\ inbox # <<>> => ready
    BY <2>1, <2>2, <2>9 DEF WakeInv, EdgeInv
  <2>10. EdgeInv'
    BY <2>1, <2>3, <2>5, <2>9 DEF EdgeInv
  <2> QED
    BY <2>6, <2>7, <2>8, <2>10 DEF WakeInv
<1> QED
  BY <1>1, <1>2 DEF HandleFlush

(* What one read takes, and that it leaves the order as it is.             *)
LEMMA ConsumeStream ==
  ASSUME ControlInv, Consume, reply' = reply
  PROVE  Stream' = Stream /\ (Len(inbox) <= ReadSize => inbox' = <<>>)
<1> DEFINE n == Least(ReadSize, Len(inbox))
<1>1. rx \in Seq(Messages) /\ inbox \in Seq(Messages) /\ reply \in Seq(Messages)
  BY StreamType
<1>2. Len(inbox) \in Nat
  BY <1>1
<1>3. n \in 0..Len(inbox) /\ (Len(inbox) <= ReadSize => n = Len(inbox))
  BY <1>2, Constants DEF Least
<1>4. rx' = rx \o SubSeq(inbox, 1, n) /\ inbox' = SubSeq(inbox, n + 1, Len(inbox))
  BY DEF Consume
<1> HIDE DEF n
<1>5. Stream' = Stream
  <2>1. ReadMoved(rx, inbox, reply, n) = Join3(rx, inbox, reply)
    BY <1>1, <1>3, ReadKeepsOrder
  <2> QED
    BY <1>4, <2>1 DEF Stream, ReadMoved, Join3
<1>6. Len(inbox) <= ReadSize => inbox' = <<>>
  <2> SUFFICES ASSUME Len(inbox) <= ReadSize PROVE inbox' = <<>>
    OBVIOUS
  <2>1. inbox' = SubSeq(inbox, Len(inbox) + 1, Len(inbox))
    BY <1>3, <1>4
  <2> QED
    BY <1>1, <1>2, <2>1
<1> QED
  BY <1>5, <1>6

(* PQconsumeInput reads before the whole query is sent: WakeInv is kept.   *)
LEMMA HandleConsumeWake == ControlInv /\ WakeInv /\ HandleConsume => WakeInv'
<1> SUFFICES ASSUME ControlInv, WakeInv, HandleConsume PROVE WakeInv'
  OBVIOUS
<1>1. CASE Fail /\ status' = "bad" /\ UNCHANGED <<rx, inbox>>
  <2>1. /\ pc' = "callback" /\ status' \in {status, "bad"} /\ mask' = {}
        /\ UNCHANGED <<rx, inbox, reply, rounds, server, notices>>
    BY <1>1 DEF HandleConsume, Fail, Untrack
  <2> QED
    BY <2>1, GivenUpWake
<1>2. CASE pc' = "reflush" /\ UNCHANGED <<is_error, status, epVars>>
  <2>1. /\ UNCHANGED <<connection_state, status, server, notices, operation, mask, ready>>
        /\ \/ pc = "consume"
           \/ pc = "handler" /\ connection_state = "SENDING_QUERY" /\ "in" \in ev /\ "err" \notin ev
    BY <1>2 DEF HandleConsume, Handling, epVars
  <2>2. ~ Calm /\ ~ Calm'
    <3>1. ~ Calm
      BY <2>1 DEF WakeInv, EdgeInv
    <3> QED
      BY <2>1, <3>1 DEF Calm, Broken
  <2>3. ResetInv'
    BY <2>1 DEF WakeInv, ResetInv
  <2>4. SendingInv'
    BY <1>2 DEF SendingInv
  <2>5. OneAtATime' /\ AnswersOnly' /\ EdgeInv'
    BY <2>2 DEF OneAtATime, AnswersOnly, EdgeInv
  <2> QED
    BY <2>3, <2>4, <2>5 DEF WakeInv
<1> QED
  BY <1>1, <1>2 DEF HandleConsume

(* PQconsumeInput reads what the socket has: WakeInv is kept.              *)
LEMMA HandleReadWake == AnswersFit /\ ControlInv /\ WakeInv /\ HandleRead => WakeInv'
<1> SUFFICES ASSUME AnswersFit, ControlInv, WakeInv, HandleRead PROVE WakeInv'
  OBVIOUS
<1>1. CASE Fail /\ status' = "bad" /\ UNCHANGED <<rx, inbox>>
  <2>1. /\ pc' = "callback" /\ status' \in {status, "bad"} /\ mask' = {}
        /\ UNCHANGED <<rx, inbox, reply, rounds, server, notices>>
    BY <1>1 DEF HandleRead, Fail, Untrack
  <2> QED
    BY <2>1, GivenUpWake
<1>2. CASE Consume /\ pc' = "busy" /\ UNCHANGED <<connection_state, is_error, status, epVars>>
  <2>1. /\ UNCHANGED <<status, reply, server, notices, mask, ready>>
        /\ pc = "handler" /\ connection_state = "READING_RESPONSE" /\ "err" \notin ev
    BY <1>2 DEF HandleRead, Handling, epVars
  <2>2. Calm' = Calm /\ Stream' = Stream /\ status \notin {"none", "started"}
    BY <1>2, <2>1, ConsumeStream, SendingStatus DEF Calm, Broken
  <2>3. mask = {"in"}
    BY <2>1 DEF ControlInv, CoreTypeOK, ThreadInv
  <2>4. ASSUME Calm
        PROVE  inbox' = <<>>
    <3>1. status = "ok"
      BY <2>2, <2>4 DEF ControlInv, CoreTypeOK, StatusInv, Calm, Broken
    <3>2. Len(Stream) <= AnswerSize
      BY <2>4, <3>1 DEF WakeInv, AnswersOnly, Clean
    <3>3. Len(Stream) = Len(rx) + Len(inbox) + Len(reply)
          /\ Len(rx) \in Nat /\ Len(inbox) \in Nat /\ Len(reply) \in Nat
      BY StreamType, Joins DEF Stream
    <3>4. Len(inbox) <= ReadSize
      <4>1. AnswerSize \in Nat /\ AnswerSize <= ReadSize /\ ReadSize \in Nat
        BY Constants DEF AnswersFit, AnswerSize
      <4>2. \A a, b, c, m, r \in Nat : a + b + c <= m /\ m <= r => b <= r
        OBVIOUS
      <4> QED
        BY <3>2, <3>3, <4>1, <4>2
    <3> QED
      BY <1>2, <2>1, <3>4, ConsumeStream
  <2>5. ResetInv' /\ SendingInv'
    BY <1>2, <2>1 DEF WakeInv, ResetInv, SendingInv
  <2>6. OneAtATime' /\ AnswersOnly'
    BY <2>1, <2>2 DEF WakeInv, OneAtATime, AnswersOnly
  <2>7. EdgeInv'
    BY <1>2, <2>2, <2>4 DEF EdgeInv
  <2> QED
    BY <2>5, <2>6, <2>7 DEF WakeInv
<1> QED
  BY <1>1, <1>2 DEF HandleRead

(* Parsing moves on in the stream; a libpq still busy has parsed it all.   *)
LEMMA ParseStream ==
  ASSUME ControlInv, ControlInv', Parse, UNCHANGED <<inbox, reply>>
  PROVE  /\ Clean(Stream) => Clean(Stream')
         /\ async' = "busy" => rx' = <<>>
<1>1. /\ rx \in Seq(Messages) /\ inbox \in Seq(Messages) /\ reply \in Seq(Messages)
      /\ Stream \in Seq(Messages) /\ Stream' \in Seq(Messages)
  BY StreamType, StreamTypeNext
<1>2. Clean(Stream) => Clean(Stream')
  <2>1. PICK u \in 0..Len(rx) : rx' = SubSeq(rx, u + 1, Len(rx))
    BY ParseStep
  <2>2. Suffix(SubSeq(rx, u + 1, Len(rx)) \o inbox \o reply, rx \o inbox \o reply, u)
    BY <1>1, ParsedSuffix
  <2>3. Suffix(Stream', Stream, u) /\ u \in Nat
    BY <1>1, <2>1, <2>2 DEF Stream
  <2> QED
    BY <1>1, <2>3, CleanSuffix
<1>3. ASSUME async' = "busy"
      PROVE  rx' = <<>>
  <2>1. Ends(rx) = {}
    <3> SUFFICES ASSUME Ends(rx) # {} PROVE FALSE
      OBVIOUS
    <3> DEFINE m == CHOOSE i \in Ends(rx) : \A j \in Ends(rx) : i <= j
    <3>1. Ends(rx) \in SUBSET Nat
      BY <1>1 DEF Ends
    <3>2. m \in Ends(rx)
      BY <3>1, LeastMember
    <3>3. rx[m] \in {"C", "E", "Z"}
      BY <3>2 DEF Ends
    <3>4. async' = CASE rx[m] = "none" -> "busy" [] rx[m] = "Z" -> "idle" [] OTHER -> "ready"
      BY DEF Parse
    <3> HIDE DEF m
    <3> QED
      BY <1>3, <3>3, <3>4
  <2>2. rx' = SubSeq(rx, Len(rx) + 1, Len(rx))
    BY <2>1 DEF Parse
  <2> QED
    BY <1>1, <2>2
<1> QED
  BY <1>2, <1>3

(* PQisBusy parses what has been read: WakeInv is kept.                    *)
LEMMA IsBusyWake == ControlInv /\ ControlInv' /\ WakeInv /\ IsBusy => WakeInv'
<1> SUFFICES ASSUME ControlInv, ControlInv', WakeInv, IsBusy PROVE WakeInv'
  OBVIOUS
<1>1. /\ pc = "busy" /\ Parse
      /\ UNCHANGED <<status, rounds, inbox, reply, server, notices, operation>>
  BY DEF IsBusy, netVars
<1>2. connection_state = "READING_RESPONSE" /\ mask = {"in"}
  BY <1>1 DEF ControlInv, ThreadInv
<1>3. status \notin {"none", "started"}
  BY <1>2, SendingStatus
<1>4. Calm' = Calm /\ (Clean(Stream) => Clean(Stream'))
  BY <1>1, ParseStream DEF Calm, Broken
<1>5. OneAtATime'
  BY <1>1, <1>3 DEF OneAtATime
<1>6. CASE async' # "busy"
  <2>1. pc' = "get" /\ mask' = {}
    BY <1>6 DEF IsBusy, Untrack
  <2> QED
    BY <1>1, <1>4, <1>5, <2>1, UntrackedWake
<1>7. CASE async' = "busy"
  <2>1. pc' = "loop" /\ UNCHANGED <<connection_state, mask, ready>>
    BY <1>7 DEF IsBusy, StillBusy, epVars
  <2>2. rx' = <<>>
    BY <1>1, <1>7, ParseStream
  <2>3. ResetInv' /\ SendingInv'
    BY <1>1, <1>2, <2>1 DEF WakeInv, ResetInv, SendingInv
  <2>4. AnswersOnly'
    BY <1>1, <1>4 DEF WakeInv, AnswersOnly
  <2>5. EdgeInv'
    BY <1>1, <1>2, <1>4, <2>1, <2>2 DEF WakeInv, EdgeInv
  <2> QED
    BY <1>5, <2>3, <2>4, <2>5 DEF WakeInv
<1> QED
  BY <1>6, <1>7

(* Where the thread collects the results, the query is under way.          *)
LEMMA GettingQuery ==
  ASSUME ControlInv, Getting
  PROVE  mask = {} /\ status \notin {"none", "started"}
<1>1. mask = {} /\ operation = "query" /\ Connected
  BY DEF ControlInv, ThreadInv, Getting
<1> QED
  BY <1>1 DEF ControlInv, StatusInv, Connected

(* PQgetResult parses what has been read: WakeInv is kept.                 *)
LEMMA GetParseWake == ControlInv /\ ControlInv' /\ WakeInv /\ GetParse => WakeInv'
<1> SUFFICES ASSUME ControlInv, ControlInv', WakeInv, GetParse PROVE WakeInv'
  OBVIOUS
<1>1. /\ pc' \in {"get", "drain"} /\ Parse
      /\ UNCHANGED <<status, inbox, reply, server, notices, mask>>
  BY DEF GetParse, Getting, epVars, netVars
<1>2. mask = {} /\ status \notin {"none", "started"}
  BY GettingQuery DEF GetParse
<1>3. Clean(Stream) => Clean(Stream')
  BY <1>1, ParseStream
<1>4. OneAtATime'
  BY <1>1, <1>2 DEF OneAtATime
<1> QED
  BY <1>1, <1>2, <1>3, <1>4, UntrackedWake

(* PQgetResult reads from the socket while it waits: WakeInv is kept.      *)
LEMMA GetReadWake == ControlInv /\ WakeInv /\ GetRead => WakeInv'
<1> SUFFICES ASSUME ControlInv, WakeInv, GetRead PROVE WakeInv'
  OBVIOUS
<1>1. /\ pc \in {"get", "drain"}
      /\ UNCHANGED <<reply, server, notices, mask>>
      /\ \/ Consume /\ UNCHANGED <<status, pc>>
         \/ status' = "bad" /\ pc' = "drain"
  BY DEF GetRead, Getting, epVars
<1>2. mask = {} /\ status \notin {"none", "started"}
  BY GettingQuery DEF GetRead
<1>3. status' = "ok" => status = "ok" /\ Stream' = Stream
  BY <1>1, ConsumeStream
<1>4. OneAtATime'
  BY <1>1, <1>2 DEF OneAtATime
<1>5. pc' \in {"get", "drain"}
  BY <1>1
<1> QED
  BY <1>1, <1>2, <1>3, <1>4, UntrackedWake

(* PQgetResult returns a result, which is stored: WakeInv is kept.         *)
LEMMA GetResultWake == ControlInv /\ WakeInv /\ GetResult => WakeInv'
<1> SUFFICES ASSUME ControlInv, WakeInv, GetResult PROVE WakeInv'
  OBVIOUS
<1>1. /\ pc' \in {"get", "drain"}
      /\ UNCHANGED <<status, rx, inbox, reply, server, notices, mask>>
  BY DEF GetResult, Store, Throw, epVars, netVars
<1>2. mask = {} /\ status \notin {"none", "started"}
  BY GettingQuery DEF GetResult
<1>3. Stream' = Stream
  BY <1>1 DEF Stream
<1>4. OneAtATime'
  BY <1>1, <1>2 DEF OneAtATime
<1> QED
  BY <1>1, <1>2, <1>3, <1>4, UntrackedWake

(* PQgetResult returns NULL and the query is over: WakeInv is kept.        *)
LEMMA GetNullWake == ControlInv /\ WakeInv /\ GetNull => WakeInv'
<1> SUFFICES ASSUME ControlInv, WakeInv, GetNull PROVE WakeInv'
  OBVIOUS
<1>1. /\ pc' = "callback"
      /\ UNCHANGED <<rx, inbox, reply, rounds, status, server, notices, mask>>
  BY DEF GetNull, pqVars, epVars, netVars
<1>2. mask = {}
  BY GettingQuery DEF GetNull
<1> QED
  BY <1>1, <1>2, GivenUpWake

(* The server's steps: an edge is raised, never lost.                      *)

(* The server answers a login: WakeInv is kept.                            *)
LEMMA ServerAcceptsWake == ControlInv /\ WakeInv /\ ServerAccepts => WakeInv'
<1> SUFFICES ASSUME ControlInv, WakeInv, ServerAccepts PROVE WakeInv'
  OBVIOUS
<1>1. /\ server = "away" /\ server' = "up" /\ status = "started"
      /\ ready' = (ready \/ "out" \in mask)
      /\ UNCHANGED <<connection_state, status, unsent, rx, inbox, reply, rounds, notices,
                     operation, mask, pc, ev>>
  BY DEF ServerAccepts, ServerFrame, Edge, objVars, pqVars
<1>2. Calm' = Calm
  BY <1>1 DEF Calm, Broken
<1>3. ResetInv' /\ SendingInv'
  BY <1>1 DEF WakeInv, ResetInv, SendingInv
<1>4. OneAtATime' /\ AnswersOnly'
  BY <1>1, <1>2 DEF WakeInv, OneAtATime, AnswersOnly
<1>5. EdgeInv'
  BY <1>1, <1>2 DEF WakeInv, EdgeInv
<1> QED
  BY <1>3, <1>4, <1>5 DEF WakeInv

(* The server takes chunks of the query out of the socket: WakeInv is      *)
(* kept.                                                                   *)
LEMMA ServerReceivesWake == ControlInv /\ AnswerInv /\ WakeInv /\ ServerReceives => WakeInv'
<1> SUFFICES ASSUME ControlInv, AnswerInv, WakeInv, ServerReceives PROVE WakeInv'
  OBVIOUS
<1>1. /\ server = "up" /\ flight > 0 /\ ready' = (ready \/ "out" \in mask)
      /\ UNCHANGED <<connection_state, status, async, unsent, rx, inbox, rounds, server, notices,
                     operation, mask, pc, ev>>
  BY DEF ServerReceives, ServerFrame, Edge, objVars, pqVars
<1>2. Calm' = Calm
  BY <1>1 DEF Calm, Broken
<1>3. async # "idle" /\ unsent + flight + received = QuerySize
  BY <1>1 DEF AnswerInv, SendInv
<1>4. received < QuerySize
  <2>1. unsent \in Nat /\ flight \in Nat /\ received \in Nat
    BY Constants DEF ControlInv, CoreTypeOK
  <2> QED
    BY <1>1, <1>3, <2>1, Constants
<1>5. Live /\ status = "ok"
  <2>1. status # "bad"
    BY <1>1 DEF ControlInv, StatusInv
  <2>2. Live
    BY <1>1, <1>3, <2>1 DEF ControlInv, QueryInv
  <2>3. status \notin {"none", "started"}
    BY <1>3 DEF ControlInv, QueryInv
  <2> QED
    BY <2>1, <2>2, <2>3 DEF ControlInv, CoreTypeOK
<1>6. ResetInv' /\ SendingInv'
  BY <1>1 DEF WakeInv, ResetInv, SendingInv
<1>7. OneAtATime'
  BY <1>1, <1>5 DEF OneAtATime
<1>8. ASSUME Calm
      PROVE  Clean(Stream')
  <2>1. rx = <<>> /\ inbox = <<>> /\ Clean(Stream)
    BY <1>4, <1>5, <1>8, NothingDue DEF WakeInv, AnswersOnly
  <2>2. reply' = reply => Stream' = Stream
    BY <1>1 DEF Stream
  <2>3. CASE reply' = reply
    BY <2>1, <2>2, <2>3
  <2>4. CASE reply' # reply
    <3>1. PICK counts \in Counts, error \in BOOLEAN :
            reply' = IF error THEN Result(counts[1]) \o <<"E", "Z">>
                     ELSE Append(Answer(counts), "Z")
      BY <2>4 DEF ServerReceives
    <3>2. reply' \in Seq(Messages) /\ Clean(reply')
      BY <3>1, AnswerType, CleanAnswer
    <3>3. Stream' = <<>> \o <<>> \o reply'
      BY <1>1, <2>1 DEF Stream
    <3>4. Stream' = reply'
      BY <3>2, <3>3
    <3> QED
      BY <3>2, <3>4
  <2> QED
    BY <2>3, <2>4
<1>9. AnswersOnly'
  BY <1>2, <1>8 DEF AnswersOnly
<1>10. EdgeInv'
  BY <1>1, <1>2 DEF WakeInv, EdgeInv
<1> QED
  BY <1>6, <1>7, <1>9, <1>10 DEF WakeInv

(* The server's next segment arrives: WakeInv is kept.                     *)
LEMMA ServerSendsWake == ControlInv /\ WakeInv /\ SendsSome => WakeInv'
<1> SUFFICES ASSUME ControlInv, WakeInv, NEW n \in 1..Len(reply), ServerSends(n) PROVE WakeInv'
  BY DEF SendsSome
<1>0. /\ rx \in Seq(Messages) /\ inbox \in Seq(Messages) /\ reply \in Seq(Messages)
      /\ Len(inbox) \in Nat /\ Len(reply) \in Nat
  BY StreamType
<1>1. /\ server = "up" /\ ready' = (ready \/ "in" \in mask)
      /\ inbox' = inbox \o SubSeq(reply, 1, n) /\ reply' = SubSeq(reply, n + 1, Len(reply))
      /\ UNCHANGED <<connection_state, status, unsent, rx, rounds, server, notices,
                     operation, mask, pc, ev>>
  BY DEF ServerSends, ServerFrame, Edge, objVars, pqVars
<1>2. n \in 0..Len(reply) /\ reply # <<>>
  BY <1>0
<1>3. Stream' = Stream
  <2>1. SegmentMoved(rx, inbox, reply, n) = Join3(rx, inbox, reply)
    BY <1>0, <1>2, SegmentKeepsOrder
  <2> QED
    BY <1>1, <2>1 DEF Stream, SegmentMoved, Join3
<1>4. Calm' = Calm
  BY <1>1 DEF Calm, Broken
<1>5. ResetInv' /\ SendingInv'
  BY <1>1 DEF WakeInv, ResetInv, SendingInv
<1>6. OneAtATime'
  <2> SUFFICES ASSUME Calm, status \in {"none", "started"}
               PROVE  /\ rx' = <<>> /\ reply' = <<>>
                      /\ Len(inbox') + Len(reply') <= 1
                      /\ ~ (rounds > Rounds)
    BY <1>1, <1>4 DEF OneAtATime
  <2>1. /\ rx = <<>> /\ inbox = <<>> /\ Len(inbox) + Len(reply) <= 1
        /\ ~ (rounds > Rounds)
    BY <1>2 DEF WakeInv, OneAtATime
  <2>2. Len(inbox) = 0 /\ Len(reply) <= 1 /\ n = 1 /\ Len(reply) = 1
    BY <1>0, <2>1
  <2>3. SubSeq(reply, 1, n) \in Seq(Messages) /\ Len(SubSeq(reply, 1, n)) = 1
    BY <1>0, <1>2, <2>2, Split
  <2>4. reply' = <<>> /\ Len(reply') = 0
    BY <1>0, <1>1, <2>2
  <2>5. Len(inbox') = 1
    BY <1>0, <1>1, <2>1, <2>3, JoinPair
  <2> QED
    BY <1>1, <2>1, <2>4, <2>5
<1>7. AnswersOnly'
  BY <1>1, <1>3, <1>4 DEF WakeInv, AnswersOnly
<1>8. EdgeInv'
  BY <1>1, <1>4 DEF WakeInv, EdgeInv
<1> QED
  BY <1>5, <1>6, <1>7, <1>8 DEF WakeInv

(* A notice, or the end: the promise holds no more.                        *)
LEMMA DisturbedWake ==
  ASSUME WakeInv, ~ Calm', server' = "reset" => mask' = {} \/ ready',
         UNCHANGED <<connection_state, unsent, operation, pc>>
  PROVE  WakeInv'
<1>1. ResetInv'
  BY DEF ResetInv
<1>2. SendingInv'
  BY DEF WakeInv, SendingInv
<1> QED
  BY <1>1, <1>2 DEF WakeInv, OneAtATime, AnswersOnly, EdgeInv

(* The server sends a notice nobody asked for: WakeInv is kept.            *)
LEMMA ServerNoticeWake == ControlInv /\ WakeInv /\ ServerNotice => WakeInv'
<1> SUFFICES ASSUME ControlInv, WakeInv, ServerNotice PROVE WakeInv'
  OBVIOUS
<1>1. /\ UNCHANGED <<connection_state, unsent, operation, pc>>
      /\ server' = "up" /\ notices' = notices + 1
  BY DEF ServerNotice, ServerFrame, objVars, pqVars
<1>2. notices' # 0
  BY <1>1, Constants DEF ControlInv, CoreTypeOK
<1> QED
  BY <1>1, <1>2, DisturbedWake DEF Calm

(* The server closes the connection: WakeInv is kept.                      *)
LEMMA ServerClosesWake == ControlInv /\ WakeInv /\ ServerCloses => WakeInv'
<1> SUFFICES ASSUME ControlInv, WakeInv, ServerCloses PROVE WakeInv'
  OBVIOUS
<1>1. UNCHANGED <<connection_state, unsent, operation, pc>> /\ server' = "closed"
  BY DEF ServerCloses, ServerFrame, objVars, pqVars
<1> QED
  BY <1>1, DisturbedWake DEF Calm, Broken

(* The server resets the connection: WakeInv is kept.                      *)
LEMMA ServerResetsWake == ControlInv /\ WakeInv /\ ServerResets => WakeInv'
<1> SUFFICES ASSUME ControlInv, WakeInv, ServerResets PROVE WakeInv'
  OBVIOUS
<1>1. /\ UNCHANGED <<connection_state, unsent, operation, pc, mask>>
      /\ server' = "reset" /\ ready' = (mask # {})
  BY DEF ServerResets, ServerFrame, objVars, pqVars
<1>2. mask' = {} \/ ready'
  BY <1>1
<1> QED
  BY <1>1, <1>2, DisturbedWake DEF Calm, Broken

(* Nothing has happened yet: WakeInv is kept.                              *)
LEMMA InitWake == Init => WakeInv
<1> SUFFICES ASSUME Init PROVE WakeInv
  OBVIOUS
<1>1. ResetInv /\ SendingInv /\ AnswersOnly /\ EdgeInv
  BY DEF Init, ResetInv, SendingInv, AnswersOnly, EdgeInv
<1>2. OneAtATime
  BY OneMessage DEF Init, OneAtATime
<1> QED
  BY <1>1, <1>2 DEF WakeInv

(* Every step of the system keeps WakeInv where answers fit in a read.     *)
LEMMA NextWake ==
  AnswersFit /\ ControlInv /\ AnswerInv /\ WakeInv /\ [Next]_vars => WakeInv'
<1> SUFFICES ASSUME AnswersFit, ControlInv, AnswerInv, WakeInv, [Next]_vars PROVE WakeInv'
  OBVIOUS
<1>1. ControlInv'
  BY NextControl
<1>2. CASE Thread
  BY <1>1, <1>2, EpollWaitWake, SendQueryPushWake, SendQueryPushFailedWake, CallBackWake,
     HandleErrorWake, HandlePollFailedWake, HandlePollWake, HandlePollOkWake, HandleFlushWake,
     HandleConsumeWake, HandleReadWake, IsBusyWake, GetParseWake, GetReadWake, GetResultWake,
     GetNullWake DEF Thread
<1>3. CASE Server
  BY <1>3, ServerAcceptsWake, ServerReceivesWake, ServerSendsWake, ServerNoticeWake,
     ServerClosesWake, ServerResetsWake DEF Server
<1> QED
  BY <1>2, <1>3, ConnectDbWake, SendQueryWake, SendQueryRefusedWake, StutterWake DEF Next

(* NoLostWakeup: when the handler is left, what the operation waits for is *)
(* neither in the socket without an edge to come nor in libpq's buffer     *)
(* (db_connection_type.h:155-188), if every answer fits in one read; for   *)
(* longer ones it does not hold.                                           *)
THEOREM NoWakeupLost == AnswersFit => (Spec => []NoLostWakeup)
<1> SUFFICES ASSUME AnswersFit PROVE Spec => []NoLostWakeup
  OBVIOUS
<1>1. Init => ControlInv /\ AnswerInv /\ WakeInv
  BY InitControl, InitAnswer, InitWake
<1>2. ControlInv /\ AnswerInv /\ WakeInv /\ [Next]_vars => (ControlInv /\ AnswerInv /\ WakeInv)'
  BY NextControl, NextAnswer, NextWake
<1>3. ControlInv /\ AnswerInv /\ WakeInv => NoLostWakeup
  <2> SUFFICES ASSUME ControlInv, AnswerInv, WakeInv, pc = "loop", operation # "none", OnlyAnswers,
                      ~ ready
               PROVE  inbox = <<>> /\ Ends(rx) = {}
    BY DEF NoLostWakeup
  <2>1. mask # {}
    BY DEF ControlInv, CoreTypeOK, ThreadInv
  <2>2. server # "reset"
    BY <2>1 DEF WakeInv, ResetInv
  <2>3. Calm /\ Broken = FALSE
    BY <2>2 DEF OnlyAnswers, Calm, Broken
  <2>4. inbox = <<>>
    <3>1. CASE server = "up"
      <4>1. mask # {"out"} /\ ("in" \in mask => inbox = <<>>)
        BY <2>3, <3>1 DEF WakeInv, EdgeInv
      <4>2. "in" \in mask
        BY <2>1, <4>1 DEF ControlInv, CoreTypeOK
      <4> QED
        BY <4>1, <4>2
    <3>2. CASE server # "up"
      BY <2>3, <3>2 DEF ControlInv, CoreTypeOK, StatusInv, Broken
    <3> QED
      BY <3>1, <3>2
  <2>5. Ends(rx) = {}
    <3>1. CASE operation = "query"
      <4>1. rx = <<>>
        BY <2>3, <3>1 DEF WakeInv, EdgeInv
      <4> QED
        BY <4>1 DEF Ends
    <3>2. CASE operation = "connect"
      <4>1. status = "started"
        BY <3>2 DEF ControlInv, StatusInv
      <4>2. rx = <<>>
        BY <2>3, <4>1 DEF WakeInv, OneAtATime
      <4> QED
        BY <4>2 DEF Ends
    <3> QED
      BY <3>1, <3>2 DEF ControlInv, CoreTypeOK
  <2> QED
    BY <2>4, <2>5
<1> QED
  BY <1>1, <1>2, <1>3, PTL DEF Spec

====
