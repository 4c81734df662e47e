------------------------------ MODULE BooksServer ------------------------------
(***************************************************************************)
(* example/server.cpp: the program composed of an HttpServer               *)
(* (include/listening_server.h), its client connections and a pool of      *)
(* database connections, on one reactor thread.  A client is accepted,     *)
(* its request read; "/" is answered with its own body, any other path     *)
(* inserts a book, lists the table and answers with the rows.              *)
(*                                                                         *)
(* A callback is one action, or two where a query's result is delivered to *)
(* it.  Clientconnection shows that a read and a write call back once,     *)
(* DBpooler that a pool which is ready is the QueryService used here,      *)
(* IOReactor that every ready socket gets its handler run.  A client's     *)
(* connection has a descriptor as long as its object is alive, and the     *)
(* book it inserts is named after it.                                      *)
(***************************************************************************)
EXTENDS Integers, Sequences, FiniteSets

CONSTANTS
  Clients,        \* the clients, each of which connects once
  MaxConnections, \* descriptors the process may have for its clients
  PoolSize,       \* connections of the pool
  MayFail,        \* may a query fail?
  None

Statements == [client : Clients, text : {"INSERT", "SELECT"}]
Insert(c) == [client |-> c, text |-> "INSERT"]
Select(c) == [client |-> c, text |-> "SELECT"]

(* A response, and the result of a query: an echo of the body a client     *)
(* sent, or rows of the table.                                             *)
Echo(c) == [kind |-> "echo", body |-> c]
Failed  == [kind |-> "failed", rows |-> {}]
Rows(r) == [kind |-> "rows", rows |-> r]
Responses == {Echo(c) : c \in Clients} \cup {Rows(r) : r \in SUBSET Clients}
Requests == {"root", "unparsable", "book"}

ASSUME ServerAssumption ==
  /\ IsFiniteSet(Clients)
  /\ {MaxConnections, PoolSize} \subseteq Nat \ {0}
  /\ MayFail \in BOOLEAN
  /\ None \notin Clients \cup Statements \cup Requests

VARIABLES
  backlog,   \* kernel: clients that are connected and not accepted
  sent,      \* client -> the request it has sent, or None
  gone,      \* clients that have disconnected
  received,  \* client -> the response it has received, or None
  isAlive,   \* the clients whose Clientconnection exists
  tracked,   \* client -> "none", or the operation its socket is registered for
  sendBuffer,\* client -> the response its connection holds, or None
  waiting, running, answered,  \* the pool (QueryService)
  result,    \* query -> what the database returned, or None
  books,     \* the table
  callback   \* the query whose callback runs, or None

peerVars == <<sent, gone, received>>
connVars == <<isAlive, tracked, sendBuffer>>
poolVars == <<waiting, running, answered>>
dbVars   == <<result, books>>
vars == <<backlog, peerVars, connVars, poolVars, dbVars, callback>>

Pool == INSTANCE QueryService WITH Queries <- Statements, Slots <- PoolSize

Backlogged == {backlog[i] : i \in DOMAIN backlog}
InService  == {waiting[i] : i \in DOMAIN waiting} \cup running
                \cup (IF callback = None THEN {} ELSE {callback})
HasFailed(c) == \E q \in answered : q.client = c /\ result[q] = Failed /\ callback # q

TypeOK ==
  /\ backlog \in Seq(Clients)
  /\ sent \in [Clients -> Requests \cup {None}]
  /\ {gone, isAlive, books} \subseteq SUBSET Clients
  /\ Cardinality(isAlive) <= MaxConnections
  /\ {received, sendBuffer} \subseteq [Clients -> Responses \cup {None}]
  /\ tracked \in [Clients -> {"none", "read", "write"}]
  /\ waiting \in Seq(Statements)
  /\ {running, answered} \subseteq SUBSET Statements
  /\ result \in [Statements -> Responses \cup {Failed, None}]
  /\ callback \in Statements \cup {None}

Init ==
  /\ backlog = <<>>
  /\ sent = [c \in Clients |-> None]
  /\ gone = {}
  /\ received = [c \in Clients |-> None]
  /\ isAlive = {}
  /\ tracked = [c \in Clients |-> "none"]
  /\ sendBuffer = [c \in Clients |-> None]
  /\ Pool!Init
  /\ result = [q \in Statements |-> None]
  /\ books = {}
  /\ callback = None

-----------------------------------------------------------------------------
(* The clients.                                                            *)
ServerFrame == UNCHANGED <<connVars, poolVars, dbVars, callback>>
Connected(c) == c \in Backlogged \cup isAlive /\ c \notin gone

Connects(c) ==
  /\ c \notin Backlogged \cup isAlive \cup gone
  /\ sent[c] = None
  /\ backlog' = Append(backlog, c)
  /\ UNCHANGED peerVars
  /\ ServerFrame

SendsRequest(c) ==
  /\ Connected(c)
  /\ sent[c] = None
  /\ \E r \in Requests : sent' = [sent EXCEPT ![c] = r]
  /\ UNCHANGED <<backlog, gone, received>>
  /\ ServerFrame

Leaves(c) ==
  /\ Connected(c)
  /\ gone' = gone \cup {c}
  /\ UNCHANGED <<backlog, sent, received>>
  /\ ServerFrame

-----------------------------------------------------------------------------
(* The listening socket.                                                   *)
InLoop == callback = None

(* Faulty variant: accept does not run out of descriptors. *)
AcceptUnchecked == TRUE

HasDescriptor == Cardinality(isAlive) < MaxConnections

(* HttpServer::listen's handler accepts one client per event; cb starts a  *)
(* read on it.  Without a free descriptor accept returns -1, the handler   *)
(* returns, and the level-triggered socket stays ready.                    *)
Accept ==
  /\ InLoop
  /\ backlog # <<>>
  /\ HasDescriptor
  /\ backlog' = Tail(backlog)
  /\ isAlive' = isAlive \cup {Head(backlog)}
  /\ tracked' = [tracked EXCEPT ![Head(backlog)] = "read"]
  /\ UNCHANGED <<peerVars, sendBuffer, poolVars, dbVars, callback>>

-----------------------------------------------------------------------------
(* The callback of read.                                                   *)

(* Faulty variants: the object is forgotten, not deleted; the socket stays *)
(* registered when the read has ended.                                     *)
Forget(c) ==
  /\ tracked' = [tracked EXCEPT ![c] = "none"]
  /\ UNCHANGED <<isAlive, sendBuffer>>

Untrack(c) == tracked' = [tracked EXCEPT ![c] = "none"]

KeepReading(c) == UNCHANGED tracked

(* The handler's removeTrack, before the callback it ends with. *)
StopReading(c) == Untrack(c)

(* delete client: its descriptor is closed, its entry of isAlive erased. *)
Delete(c) ==
  /\ isAlive' = isAlive \ {c}
  /\ Untrack(c)
  /\ sendBuffer' = [sendBuffer EXCEPT ![c] = None]

Respond(c, response) ==
  /\ sendBuffer' = [sendBuffer EXCEPT ![c] = response]
  /\ tracked' = [tracked EXCEPT ![c] = "write"]
  /\ UNCHANGED isAlive

ReadFrame == UNCHANGED <<backlog, peerVars, dbVars, callback>>

ReadFailed(c) ==
  /\ InLoop /\ tracked[c] = "read"
  /\ c \in gone
  /\ Delete(c)
  /\ UNCHANGED poolVars /\ ReadFrame

ReadRoot(c) ==
  /\ InLoop /\ tracked[c] = "read"
  /\ sent[c] = "root"
  /\ Respond(c, Echo(c))
  /\ UNCHANGED poolVars /\ ReadFrame

ReadUnparsable(c) ==
  /\ InLoop /\ tracked[c] = "read"
  /\ sent[c] = "unparsable"
  /\ Delete(c)
  /\ UNCHANGED poolVars /\ ReadFrame

SendQuery(q) == Pool!Submit(q) \/ Pool!SubmitAndStart(q)

(* While its queries run, nothing is registered for the client. *)
ReadBook(c) ==
  /\ InLoop /\ tracked[c] = "read"
  /\ sent[c] = "book"
  /\ StopReading(c)
  /\ SendQuery(Insert(c))
  /\ UNCHANGED <<isAlive, sendBuffer>> /\ ReadFrame

-----------------------------------------------------------------------------
(* The database, which may fail a query before or after it took effect.    *)
Execute(q) ==
  /\ q \in running
  /\ result[q] = None
  /\ \E r \in {Rows(IF q.text = "SELECT" THEN books ELSE {})}
                 \cup (IF MayFail THEN {Failed} ELSE {}) :
       /\ result' = [result EXCEPT ![q] = r]
       /\ \/ q.text = "INSERT" /\ books' = books \cup {q.client}
          \/ (q.text = "SELECT" \/ r = Failed) /\ UNCHANGED books
  /\ UNCHANGED <<backlog, peerVars, connVars, poolVars, callback>>

(* The pool. *)
PoolStarts ==
  /\ Pool!Start
  /\ UNCHANGED <<backlog, peerVars, connVars, dbVars, callback>>

Answer(q) ==
  /\ InLoop
  /\ result[q] # None
  /\ Pool!Answer(q)
  /\ callback' = q
  /\ UNCHANGED <<backlog, peerVars, connVars, dbVars>>

-----------------------------------------------------------------------------
(* The callbacks of the two queries.                                       *)
Returns == callback' = None /\ UNCHANGED <<backlog, peerVars, dbVars>>

(* Faulty variant: the parent of the connection is some other query's.     *)
AnyClient(q) == isAlive

IsError(q) == result[q] = Failed

(* getParent: the client, or nothing when it is gone. *)
Parent(q) == {q.client} \cap isAlive

(* "db query error", or the client is gone: the callback just returns. *)
QueryFailed ==
  /\ callback # None
  /\ IsError(callback) \/ Parent(callback) = {}
  /\ UNCHANGED <<connVars, poolVars>>
  /\ Returns

Inserted ==
  /\ callback # None
  /\ callback.text = "INSERT" /\ ~ IsError(callback)
  /\ \E c \in Parent(callback) : SendQuery(Select(c))
  /\ UNCHANGED connVars
  /\ Returns

Selected ==
  /\ callback # None
  /\ callback.text = "SELECT" /\ ~ IsError(callback)
  /\ \E c \in Parent(callback) : Respond(c, result[callback])
  /\ UNCHANGED poolVars
  /\ Returns

-----------------------------------------------------------------------------
(* The response is written, or the client is gone; the callback of write   *)
(* deletes the client either way.                                          *)
Written(c) ==
  /\ InLoop /\ tracked[c] = "write"
  /\ Delete(c)
  /\ received' = [received EXCEPT ![c] = IF c \in gone THEN None ELSE sendBuffer[c]]
  /\ UNCHANGED <<backlog, sent, gone, poolVars, dbVars, callback>>

-----------------------------------------------------------------------------
ReadDone(c) == ReadFailed(c) \/ ReadRoot(c) \/ ReadUnparsable(c) \/ ReadBook(c)
UserCallback == QueryFailed \/ Inserted \/ Selected
PeerActs(c) == SendsRequest(c) \/ Leaves(c)

Thread ==
  \/ Accept \/ UserCallback
  \/ \E c \in Clients : ReadDone(c) \/ Written(c)
  \/ \E q \in Statements : Answer(q)
Database == PoolStarts \/ \E q \in Statements : Execute(q)
Peers    == \E c \in Clients : PeerActs(c)

Next == Thread \/ Database \/ Peers \/ \E c \in Clients : Connects(c)

Spec == Init /\ [][Next]_vars

(* The thread serves every ready socket (ReadyIsServed of IOReactor), the  *)
(* database executes and the pool answers (EveryQueryAnswered of           *)
(* DBpooler), and a client that is connected sends its request, or leaves. *)
(* A client connects once and sends one request, so there are finitely     *)
(* many steps to take in all, and none of them is passed over for ever     *)
(* when some step is always taken.                                         *)
Fairness == WF_vars(Thread \/ Database \/ Peers)
FairSpec == Spec /\ Fairness

-----------------------------------------------------------------------------
(***************************************************************************)
(* Properties                                                              *)
(***************************************************************************)

(* Of a client that is alive exactly one thing is under way: its read, its *)
(* write, or one of its queries; unless a query of it has failed, after    *)
(* which nothing ever happens to it (server.cpp:60-162).  So no operation  *)
(* is started on a descriptor that is in another one, nothing is           *)
(* registered for a deleted client, no client is forgotten, and the client *)
(* a callback of a query looks up is alive, although it may have           *)
(* disconnected (server.cpp:116, 128, db_connection_type.h:237-242).       *)
UnderWay(c) == {q \in InService : q.client = c}
OneThingUnderWay ==
  \A c \in Clients :
    Cardinality(UnderWay(c)) + (IF tracked[c] # "none" THEN 1 ELSE 0)
      = IF c \in isAlive /\ ~ HasFailed(c) THEN 1 ELSE 0

(* A client receives the answer to its own request: the body it sent, or a *)
(* table that holds the book it inserted itself and only books that        *)
(* clients asked to insert, however the queries of others come between     *)
(* (server.cpp:66-96, 108-151).                                            *)
OwnResponse ==
  \A c \in Clients : received[c] # None =>
    \/ sent[c] = "root" /\ received[c] = Echo(c)
    \/ /\ sent[c] = "book"
       /\ received[c].kind = "rows"
       /\ c \in received[c].rows
       /\ \A b \in received[c].rows : sent[b] = "book"

(* A client that is accepted is sooner or later deleted, unless a query of *)
(* it failed (server.cpp:62-65, 91-93, 100-103, 154-157); and a client     *)
(* that is connected is accepted, unless clients whose query failed hold   *)
(* every descriptor (listening_server.h:31-33).                            *)
Stranded == {d \in isAlive : HasFailed(d)}
EveryClientEnds ==
  \A c \in Clients :
    /\ (c \in isAlive) ~> (c \notin isAlive \/ c \in Stranded)
    /\ (c \in Backlogged)
         ~> (c \notin Backlogged \/ Cardinality(Stranded) = MaxConnections)
=============================================================================
