------------------------------- MODULE DBpooler -------------------------------
(***************************************************************************)
(* include/db_pooler.h: a fixed pool of PostgreSQL connections shared by   *)
(* all requests, and the queue of the queries that found none idle.        *)
(*                                                                         *)
(* Everything runs on the reactor's thread, but a query can end inside the *)
(* call that submits it: when libpq refuses a query, Dbconnection calls    *)
(* back at once, the pool's callback runs the user's callback, gives the   *)
(* connection back and serves the pending queries, each of which may end   *)
(* the same way.  These nested activations are the frames of stack; the    *)
(* reactor hands out another event only when the stack is empty.           *)
(*                                                                         *)
(* The user's callbacks are those of example/server.cpp: a client's first  *)
(* query (INSERT), when it succeeds and the client is still there, submits *)
(* its second one (SELECT) from within its callback.                       *)
(***************************************************************************)
EXTENDS Integers, Sequences, FiniteSets

CONSTANTS
  Conns,     \* the Dbconnection objects the constructor makes: pool_size
  Clients,   \* client requests that reach the database
  None

ASSUME PoolAssumption ==
  /\ IsFiniteSet(Conns) /\ Conns # {}
  /\ None \notin Conns \cup Clients \cup [client : Clients, stmt : {"insert", "select"}]

PoolSize == Cardinality(Conns)

(* A PendingQuery, or the query a connection executes: whose it is, and    *)
(* which of the two statements.                                            *)
Queries == [client : Clients, stmt : {"insert", "select"}]
First(cl) == [client |-> cl, stmt |-> "insert"]
FollowUp(q) == [q EXCEPT !.stmt = "select"]

VARIABLES
  connected_count, idle_count, is_ready,
  connected_conns, available_conns, pending_queries,
  phase,      \* Dbconnection: connectDb outstanding, done, or failed
  usable,     \* libpq: connections that would still accept a query
  parent,     \* Dbconnection::parent; None is "#"
  is_error,   \* Dbconnection::is_error
  results,    \* Dbconnection::results: the queries whose rows it holds
  inflight,   \* the query whose callback the reactor holds for this socket
  stack,      \* activations of the pool's callback, innermost last
  submitted,  \* history: queries passed to sendQuery, in order
  started,    \* history: queries given to a connection, in order
  failed,     \* history: queries that did not succeed
  calls       \* history: times each query's callback has been called

poolVars == <<connected_count, idle_count, is_ready,
              connected_conns, available_conns, pending_queries>>
connVars == <<phase, usable, parent, is_error, results, inflight>>
history  == <<submitted, started, failed, calls>>
vars == <<poolVars, connVars, stack, history>>

Frame == [conn : Conns, query : Queries,
          at : {"callback", "user", "recycle", "drain"}]
Top == stack[Len(stack)]
TopAt(loc) == [stack EXCEPT ![Len(stack)].at = loc]
Running(loc) == stack # <<>> /\ Top.at = loc
Elems(s) == {s[i] : i \in DOMAIN s}

TypeOK ==
  /\ connected_count \in Nat
  /\ idle_count \in Nat
  /\ is_ready \in BOOLEAN
  /\ connected_conns \in Seq(Conns)
  /\ available_conns \in Seq(Conns)
  /\ pending_queries \in Seq(Queries)
  /\ phase \in [Conns -> {"connecting", "connected", "failed"}]
  /\ usable \subseteq Conns
  /\ parent \in [Conns -> Clients \cup {None}]
  /\ is_error \in [Conns -> BOOLEAN]
  /\ results \in [Conns -> SUBSET Queries]
  /\ inflight \in [Conns -> Queries \cup {None}]
  /\ stack \in Seq(Frame)
  /\ submitted \in Seq(Queries)
  /\ started \in Seq(Queries)
  /\ failed \subseteq Queries
  /\ calls \in [Queries -> Nat]

QuietInit ==
  /\ pending_queries = <<>>
  /\ parent = [c \in Conns |-> None]
  /\ is_error = [c \in Conns |-> FALSE]
  /\ results = [c \in Conns |-> {}]
  /\ inflight = [c \in Conns |-> None]
  /\ stack = <<>>
  /\ submitted = <<>>
  /\ started = <<>>
  /\ failed = {}
  /\ calls = [q \in Queries |-> 0]

(* The constructor: pool_size connections are being opened. *)
Init ==
  /\ connected_count = 0
  /\ idle_count = 0
  /\ is_ready = FALSE
  /\ connected_conns = <<>>
  /\ available_conns = <<>>
  /\ phase = [c \in Conns |-> "connecting"]
  /\ usable = {}
  /\ QuietInit

(* The state Init leads to when all connections come up before the first   *)
(* query is submitted.                                                     *)
WarmInit ==
  /\ connected_count = PoolSize
  /\ idle_count = PoolSize
  /\ is_ready = TRUE
  /\ connected_conns \in [1..PoolSize -> Conns]
  /\ Elems(connected_conns) = Conns
  /\ available_conns = connected_conns
  /\ phase = [c \in Conns |-> "connected"]
  /\ usable = Conns
  /\ QuietInit

-----------------------------------------------------------------------------
(* The callback the constructor gives to connectDb.  It does not look at   *)
(* pending_queries.                                                        *)
ConnectDone(c) ==
  /\ stack = <<>>
  /\ phase[c] = "connecting"
  /\ phase' = [phase EXCEPT ![c] = "connected"]
  /\ usable' = usable \cup {c}
  /\ connected_conns' = Append(connected_conns, c)
  /\ available_conns' = Append(available_conns, c)
  /\ connected_count' = connected_count + 1
  /\ idle_count' = idle_count + 1
  /\ is_ready' = (is_ready \/ connected_count + 1 = PoolSize)
  /\ UNCHANGED <<pending_queries, parent, is_error, results, inflight, stack, history>>

ConnectFailed(c) ==
  /\ stack = <<>>
  /\ phase[c] = "connecting"
  /\ phase' = [phase EXCEPT ![c] = "failed"]
  /\ is_error' = [is_error EXCEPT ![c] = TRUE]
  /\ UNCHANGED <<poolVars, usable, parent, results, inflight, stack, history>>

(* Faulty variant: front() without pop().                                  *)
KeepFront == idle_count' = idle_count - 1 /\ UNCHANGED available_conns

TakeFront == idle_count' = idle_count - 1 /\ available_conns' = Tail(available_conns)

(* sendQuery when a connection is idle: the front one takes the query.     *)
(* Either libpq accepts it and the connection's socket is tracked, or it   *)
(* refuses (always, when the connection is broken) and the callback is     *)
(* called before sendQuery returns: a new frame on top of base.            *)
Dispatch(q, rest, base) ==
  LET c == Head(available_conns) IN
  /\ idle_count > 0
  /\ TakeFront
  /\ pending_queries' = rest
  /\ parent' = [parent EXCEPT ![c] = q.client]
  /\ started' = Append(started, q)
  /\ \/ /\ c \in usable
        /\ inflight' = [inflight EXCEPT ![c] = q]
        /\ stack' = base
        /\ UNCHANGED <<usable, is_error, failed>>
     \/ /\ is_error' = [is_error EXCEPT ![c] = TRUE]
        /\ stack' = Append(base, [conn |-> c, query |-> q, at |-> "callback"])
        /\ usable' \in {usable, usable \ {c}}
        /\ failed' = failed \cup {q}
        /\ UNCHANGED inflight

(* Faulty variant: the last query queued is the first one served.          *)
QueuedFirst(q, rest) == <<q>> \o rest

Queued(q, rest) == Append(rest, q)

(* sendQuery when none is idle. *)
Enqueue(q, rest, base) ==
  /\ idle_count = 0
  /\ pending_queries' = Queued(q, rest)
  /\ stack' = base
  /\ UNCHANGED <<idle_count, available_conns, usable, parent, is_error, inflight, started, failed>>

SendQuery(q, rest, base) ==
  /\ Dispatch(q, rest, base) \/ Enqueue(q, rest, base)
  /\ UNCHANGED <<connected_count, is_ready, connected_conns, phase, results>>

(* The program submits a client's first query from its read callback. *)
Submit(cl) ==
  /\ stack = <<>>
  /\ First(cl) \notin Elems(submitted)
  /\ submitted' = Append(submitted, First(cl))
  /\ SendQuery(First(cl), pending_queries, stack)
  /\ UNCHANGED calls

(* Dbconnection::handleEvent finishes the query: it removes the tracking   *)
(* and calls the pool's callback.  A query may fail and leave a healthy    *)
(* connection (an SQL error), or fail with the connection; a failed one    *)
(* leaves in results the rows that were stored before the failure.         *)
Complete(c, outcome) ==
  LET q == inflight[c] IN
  /\ stack = <<>>
  /\ q # None
  /\ inflight' = [inflight EXCEPT ![c] = None]
  /\ stack' = <<[conn |-> c, query |-> q, at |-> "callback"]>>
  /\ \/ results' = [results EXCEPT ![c] = @ \cup {q}]
     \/ outcome # "ok" /\ UNCHANGED results
  /\ is_error' = [is_error EXCEPT ![c] = @ \/ outcome # "ok"]
  /\ failed' = IF outcome = "ok" THEN failed ELSE failed \cup {q}
  /\ usable' = IF outcome = "broken" THEN usable \ {c} ELSE usable
  /\ UNCHANGED <<poolVars, phase, parent, submitted, started, calls>>

(* resetConnection; a faulty variant keeps the rows of the query.          *)
ResetKeepsResults(c) ==
  /\ parent' = [parent EXCEPT ![c] = None]
  /\ is_error' = [is_error EXCEPT ![c] = FALSE]
  /\ UNCHANGED results

ResetConnection(c) ==
  /\ parent' = [parent EXCEPT ![c] = None]
  /\ results' = [results EXCEPT ![c] = {}]
  /\ is_error' = [is_error EXCEPT ![c] = FALSE]

(* Faulty variant: resetConnection before the user's callback.             *)
CallUserAfterReset ==
  /\ Running("callback")
  /\ stack' = TopAt("user")
  /\ calls' = [calls EXCEPT ![Top.query] = @ + 1]
  /\ ResetConnection(Top.conn)
  /\ UNCHANGED <<poolVars, phase, usable, inflight, submitted, started, failed>>

(* cb(dbconn): the user's callback is entered. *)
CallUser ==
  /\ Running("callback")
  /\ stack' = TopAt("user")
  /\ calls' = [calls EXCEPT ![Top.query] = @ + 1]
  /\ UNCHANGED <<poolVars, connVars, submitted, started, failed>>

(* The user's callback submits the follow-up query and returns. *)
UserChains ==
  /\ Running("user")
  /\ ~ is_error[Top.conn]
  /\ Top.query.stmt = "insert"
  /\ LET next == [FollowUp(Top.query) EXCEPT !.client = parent[Top.conn]] IN
       /\ submitted' = Append(submitted, next)
       /\ SendQuery(next, pending_queries, TopAt("recycle"))
  /\ UNCHANGED calls

(* The user's callback returns without another query: an error, the last   *)
(* statement, or a client that is gone.                                    *)
UserReturns ==
  /\ Running("user")
  /\ stack' = TopAt("recycle")
  /\ UNCHANGED <<poolVars, connVars, history>>

(* Faulty variants: the connection is not given back, or idle_count is not *)
(* incremented.                                                            *)
GiveNothingBack(c)   == UNCHANGED <<idle_count, available_conns>>
GiveBackUncounted(c) == available_conns' = Append(available_conns, c) /\ UNCHANGED idle_count

GiveBack(c) == available_conns' = Append(available_conns, c) /\ idle_count' = idle_count + 1

(* resetConnection, and the connection goes back to the pool. *)
Recycle ==
  /\ Running("recycle")
  /\ stack' = TopAt("drain")
  /\ ResetConnection(Top.conn)
  /\ GiveBack(Top.conn)
  /\ UNCHANGED <<connected_count, is_ready, connected_conns, pending_queries,
                 phase, usable, inflight, history>>

(* Faulty variants: the callback returns without serving what is pending;  *)
(* pending_queries.front() without pop().                                  *)
NoMoreToServe == FALSE
UnpoppedQueries == pending_queries

MoreToServe == idle_count > 0 /\ pending_queries # <<>>
PoppedQueries == Tail(pending_queries)

(* One round of the while loop that serves the pending queries. *)
ServePending ==
  /\ Running("drain")
  /\ MoreToServe
  /\ SendQuery(Head(pending_queries), PoppedQueries, stack)
  /\ UNCHANGED <<submitted, calls>>

(* The loop ends, the activation returns to the one that called it. *)
Finish ==
  /\ Running("drain")
  /\ ~ MoreToServe
  /\ stack' = SubSeq(stack, 1, Len(stack) - 1)
  /\ UNCHANGED <<poolVars, connVars, history>>

Thread == CallUser \/ UserChains \/ UserReturns \/ Recycle \/ ServePending \/ Finish
Outcomes == {"ok", "error", "broken"}
Answer(c) == \E outcome \in Outcomes : Complete(c, outcome)

Next ==
  \/ \E c \in Conns : ConnectDone(c) \/ ConnectFailed(c) \/ Answer(c)
  \/ \E cl \in Clients : Submit(cl)
  \/ Thread

Spec == Init /\ [][Next]_vars
WarmSpec == WarmInit /\ [][Next]_vars

(* The thread does not stop inside a callback; the database answers every  *)
(* query it was sent and the reactor delivers the answer (IOReactor,       *)
(* ReadyIsServed), however often other events are served before it.        *)
Fairness == WF_vars(Thread) /\ \A c \in Conns : SF_vars(Answer(c))
FairSpec == Spec /\ Fairness
FairWarmSpec == WarmSpec /\ Fairness
-----------------------------------------------------------------------------
(***************************************************************************)
(* Properties                                                              *)
(***************************************************************************)
Positions(s, P(_)) == {i \in DOMAIN s : P(s[i])}
Count(s, P(_)) == Cardinality(Positions(s, P))

Idle == Elems(available_conns)
Busy == {c \in Conns : inflight[c] # None}
Holding == {i \in DOMAIN stack : stack[i].at # "drain"}
Held == {stack[i].conn : i \in Holding}

(* The counters sendQuery trusts agree with the containers it pops from,   *)
(* at every point of every nested activation (db_pooler.h:65-68, 80-81, *)
(* 42-48).                                                                 *)
CountersAgree ==
  /\ idle_count = Len(available_conns)
  /\ connected_count = Len(connected_conns)
  /\ is_ready <=> connected_count = PoolSize

(* A connected connection is in exactly one place: idle in the pool,       *)
(* executing a query, or held by an activation that will give it back; it  *)
(* is never lost, and never idle and busy, or idle twice, so two requests  *)
(* cannot share one (db_pooler.h:66-67, 75-81).                            *)
OnePlacePerConnection ==
  /\ Idle \cup Busy \cup Held = {c \in Conns : phase[c] = "connected"}
  /\ Idle \cap Busy = {}
  /\ Held \cap (Idle \cup Busy) = {}
  /\ \A i, j \in Holding : stack[i].conn = stack[j].conn => i = j
  /\ \A i, j \in DOMAIN available_conns : available_conns[i] = available_conns[j] => i = j

(* A query submitted is, until its callback runs, in exactly one place:    *)
(* pending, executing, or about to be called back; its callback never runs *)
(* twice (db_pooler.h:72-89, 91-97).                                       *)
OnePlacePerQuery ==
  \A q \in Queries :
    LET Is(x) == x = q
        Due(f) == f.query = q /\ f.at = "callback"
    IN Count(pending_queries, Is) + Cardinality({c \in Conns : inflight[c] = q})
         + Count(stack, Due) + calls[q] = Count(submitted, Is)

(* While a user's callback runs, the connection it is given carries that   *)
(* query's client, its rows and its outcome, and nothing of an earlier     *)
(* query or of one started meanwhile.  A query that failed may have left   *)
(* some of its own rows (db_pooler.h:77-79; db_connection_type.h:194-227,  *)
(* 244-248).                                                               *)
CallbackSeesOwnQuery ==
  Running("user") =>
    LET c == Top.conn  q == Top.query IN
    /\ parent[c] = q.client
    /\ results[c] \subseteq {q}
    /\ q \notin failed => results[c] = {q}
    /\ is_error[c] <=> q \in failed

(* Between callbacks, a query waits only while every connection is in use. *)
(* It holds once the pool was ready before the first query; the            *)
(* constructor's callback (db_pooler.h:39-54) breaks it otherwise.       *)
NoStrandedQuery == stack = <<>> => pending_queries = <<>> \/ idle_count = 0

(* Queries reach the database in the order of their sendQuery calls, also  *)
(* when a callback submits one while others are pending                    *)
(* (db_pooler.h:64-98).                                                  *)
FirstComeFirstServed == submitted = started \o pending_queries

(* Once the pool is ready, every query has its callback called, whether it *)
(* was submitted before or after (db_pooler.h:39-54, 64-98).               *)
EveryQueryAnswered ==
  \A q \in Queries : (is_ready /\ q \in Elems(submitted)) ~> (calls[q] > 0)

(* The pool as its callers are promised it: QueryService with one slot per *)
(* connection.  A query runs from the moment it is given a connection to   *)
(* the moment its callback is called.                                      *)
Executing == {inflight[c] : c \in Conns} \ {None}
Due == {stack[i].query : i \in {j \in DOMAIN stack : stack[j].at = "callback"}}
Service == INSTANCE QueryService WITH
  Slots    <- PoolSize,
  waiting  <- pending_queries,
  running  <- Executing \cup Due,
  answered <- {q \in Queries : calls[q] > 0}
ImplementsService == Service!Spec

-----------------------------------------------------------------------------
(***************************************************************************)
(* The inductive invariant behind TypeOK, CountersAgree and                *)
(* OnePlacePerConnection.  It adds that only the innermost activation can  *)
(* be in a user callback, and whose query a busy connection executes.      *)
(***************************************************************************)
ConnectedCounted ==
  connected_count = Cardinality({c \in Conns : phase[c] = "connected"})

OnlyTopInCallback ==
  \A i \in DOMAIN stack : i < Len(stack) => stack[i].at \in {"recycle", "drain"}

ParentIsClient ==
  /\ \A c \in Busy : parent[c] = inflight[c].client
  /\ Running("callback") \/ Running("user") => parent[Top.conn] = Top.query.client

IInv ==
  /\ TypeOK
  /\ CountersAgree
  /\ ConnectedCounted
  /\ OnePlacePerConnection
  /\ OnlyTopInCallback
  /\ ParentIsClient

(* Behind NoStrandedQuery and FirstComeFirstServed, for a pool that was    *)
(* ready first: whoever may submit a query (main, or a callback that was   *)
(* not told of an error) sees no query pending beside an idle connection.  *)
AllConnected == \A c \in Conns : phase[c] = "connected"

SubmitterSeesQueueServed ==
  Running("callback") \/ Running("user") =>
    is_error[Top.conn] \/ pending_queries = <<>> \/ idle_count = 0

IInvWarm ==
  /\ IInv
  /\ AllConnected
  /\ NoStrandedQuery
  /\ FirstComeFirstServed
  /\ SubmitterSeesQueueServed
=============================================================================
