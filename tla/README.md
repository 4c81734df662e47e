# Verification of the FiberConn library

FiberConn (`src/include/*.h`) is a single-threaded, callback-based HTTP server
library for Linux: an epoll reactor, HTTP server and client connections parsed
by llhttp, PostgreSQL connections driven through libpq's non-blocking calls,
and a pool of them. `src/example/server.cpp` and `src/example/client.cpp` are
its two programs. This directory holds TLA+ models of the library, the TLC
configurations that check them, and TLAPS proofs about them.

Run everything from this directory:

    tlc -config MCIOReactor_tables.cfg MCIOReactor      # any run of the table below
    tlapm IOReactorProofs.tla                           # the proofs of a module

## 1. Inventory

| Component | Source | State it keeps | Operations | Model |
|---|---|---|---|---|
| `IOReactor` | `reactor.h` | `event_callback_`, `event_priority_` (by descriptor), `event_queue_` (the batch), the epoll descriptor | `asyncAccept`, `addTrack`, `modifyTrack`, `removeTrack`, `reactorRun`, `runCallback` | `IOReactor` |
| `ThreadSafeMap` | `thread_safe_map.h` | a map under a `shared_mutex` | `insert`, `remove`, `get`, `getSize` | the two functions of `IOReactor`; the locks are not modelled |
| socket utilities | `socket_utilities.h` | none | epoll_ctl wrappers, accept, connect, close, bind, resolve | `Watch`, `Forget`, `Open` of `IOReactor`, `CreateConnection`, `Close` of `APIconnection`, `HasDescriptor` of `BooksServer` |
| `HttpServer` | `listening_server.h` | the listening socket | `listen`, the accept handler | its registration in `IOReactor`, backlog and accept in `BooksServer` |
| `Clientconnection` | `http_server_type.h` | the request being parsed, the parser, `sendBuffer`, `sent_bytes`, `is_error`, an entry in `isAlive` | `read`, `write`, `handleEvent`, the `on_` callbacks, the destructor | `HttpStream`, `Clientconnection`; its protocol with the reactor in `IOReactor`, its life in `BooksServer` |
| `APIconnection` | `request_connection_type.h` | the same for an outgoing request and its response | `connectApi`, `sendRequest`, `handleEvent`, the destructor | `HttpStream`, `APIconnection`; its protocol in `IOReactor` |
| `Dbconnection` | `db_connection_type.h` | `connection_state`, `results`, `is_error`, `parent`, the `PGconn` | `connectDb`, `sendQuery`, `handleEvent`, `getParent`, `resetConnection` | `Dbconnection`; `getParent` in `BooksServer` |
| `DBpooler` | `db_pooler.h` | `available_conns`, `connected_conns`, `pending_queries`, `idle_count`, `connected_count`, `is_ready` | the constructor and its callback, `sendQuery` and its callback | `DBpooler`, `QueryService` |
| example server | `example/server.cpp` | none of its own | reads a request, chains an INSERT and a SELECT, writes the response, deletes the client | `BooksServer`; its queries are the user callbacks of `DBpooler` |
| example client | `example/client.cpp` | none of its own | connects, sends one request, deletes the object in the last callback | the program of `APIconnection` |
| llhttp, nlohmann json, uuid_v4, libpq, the kernel | vendored or external | | | llhttp, libpq and the kernel as external actions of the modules that use them |

How they interact. There is one thread. An object starts an operation by
registering its socket with `addTrack` and a lambda that captures `this`;
`reactorRun` takes a batch of events from `epoll_wait`, orders it by priority
and runs, for each, the callback registered for the descriptor *at that
moment*. The handler either leaves the registration, replaces it
(`modifyTrack`), or calls `removeTrack` and then the user's callback, which may
start or delete anything. All sockets but the listening one are
edge-triggered. A connection given to the pool is in one of three places, and
its callback runs nested in the call that submitted the query whenever libpq
refuses the query at once. A database connection knows its client by
identifier only and looks it up in `isAlive`.

What is hard here:

* **Stale state.** Objects and descriptors die between `epoll_wait` and the
  dispatch of the event; descriptor numbers are given out again.
* **Ordering and lost wakeups.** Edge-triggered readiness must be consumed to
  the end, whatever pieces the data comes in and whatever arrives between two
  system calls of the handler.
* **Reentrancy.** Pool callbacks nest inside `sendQuery` and inside the loop
  that serves pending queries.
* **Failure.** Peers close or reset between any two calls; epoll may refuse a
  registration; SQL errors come in the middle of an answer and leave the rows
  stored before them.
* **Liveness.** The process exits when nothing is registered, so a lost
  registration is a request never answered; a pending query is served only
  when somebody gives a connection back.

What makes each component correct: *reactor*: no callback outlives its object
or runs for somebody else's event, the tables agree, no readiness is lost, the
loop stops only when nothing is pending, a small batch starves nobody;
*client connection*: only whole requests are delivered, the response arrives
complete and in order, each operation calls back; *database connection*: a
callback sees its own query's answer, a failed query leaves a usable
connection, each operation calls back, the thread never blocks; *API
connection*: state and registration agree, a request hands over one whole
response, nothing is left behind; *example server*: a client has exactly one
thing under way from accept to delete, gets the answer to its own request, and
is deleted in the end; *pool*:
connections and queries are conserved, queries are served in order, every one
is answered, and a callback sees its own connection state.

## 2. Modules

| Module | Role |
|---|---|
| `IOReactor` | the event loop, the part of epoll it uses, and the protocol all connection classes follow with it |
| `IOReactorProofs` | TLAPS proofs about `IOReactor` |
| `MCIOReactor` | symmetry for TLC |
| `QueryService` | abstract: what a pool promises its callers |
| `DBpooler` | the pool, its nested callbacks, and the mapping that shows it implements `QueryService` |
| `DBpoolerProofs` | TLAPS proofs about `DBpooler`: its connections |
| `DBpoolerQueryProofs` | TLAPS proofs about `DBpooler`: its queries, and that it implements `QueryService` |
| `MCDBpooler` | symmetry for TLC |
| `Dbconnection` | one database connection, libpq, its socket and the server |
| `DbconnectionProofs` | TLAPS proofs about `Dbconnection` |
| `HttpStream` | what the two HTTP classes share: the byte stream, the parser, the loops over recv and send, the socket and the peer |
| `HttpStreamProofs` | what the proofs about the two classes have in common |
| `Clientconnection` | an accepted connection on `HttpStream`: read, write, delete |
| `ClientconnectionProofs` | TLAPS proofs about `Clientconnection` |
| `APIconnection` | an outgoing connection on `HttpStream`, with the example client as its program |
| `APIconnectionProofs` | TLAPS proofs about `APIconnection` |
| `BooksServer` | the example server: accept, reads, queries and writes of all clients, composed with `QueryService` as its pool |
| `BooksServerProofs` | TLAPS proofs about `BooksServer` |

The composition is by assume/guarantee: `IOReactor` shows that a handler is run
for every ready socket (`ReadyIsServed`), for objects that behave as
`HandlerPending`, `HandlerModify` and `HandlerDone` say; `Dbconnection`,
`Clientconnection` and `APIconnection` model those handlers in full and show
that they leave their descriptor registered while an operation is pending
(`CallbackIsDue`, `OperationHasItsMask`, `StateHasItsMask`), which is what the
reactor's protocol takes for granted. A handler of `IOReactor` whose operation
goes on has drained its socket (`Drain`). That is what the HTTP handlers do, as
their `NoLostWakeup` shows, and so what `IOReactor`'s `NoLostWakeup` is about;
the handler of `Dbconnection` does so only when an answer fits one
`PQconsumeInput` and nothing but answers arrives, and `dbconn_large` shows it
waiting for an event that does not come when one does not fit. `DBpooler` takes
from `Dbconnection` that an operation calls back once, or at once when it is
refused. `BooksServer` stands on top: it uses the abstract `QueryService`, which
`pooler_warm` shows a ready pool to implement, and reads and writes that call
back once (`OperationEnds`); what those modules assume of their program, one
operation per connection and deletion only between operations, is what
`OneThingUnderWay` shows of it.

Each module also holds *faulty variants* of some of its operators (a dropped
guard, a swapped order, a forgotten reset), placed before the one they vary. No
specification uses them: they stand for the bugs the properties are there to
catch, and each property is known to fail when one of them takes its place.

### IOReactor

Variables with a trailing underscore are the members of the class.
`event_callback_` maps a descriptor to the *object* the registered lambda
captured, which is what tells a good callback from a dangling one. `epoll`,
`level` and `rdllist` are the kernel's: how a descriptor is watched, whether it
satisfies its mask, whether it is queued as ready; `EPOLL_CTL_ADD` and `MOD`
queue it at once when it is ready already, `epoll_wait` dequeues it if it is
edge-triggered. `socket` and `born` are the heap and the descriptor table:
`Connect`, `HandlerAccept` take any free number, `Delete` frees one. `pc` is
where the thread is: in user code (`main` or a callback), in the dispatch loop,
in a handler, or out of `reactorRun`. The actions are `Listen`,
`StartOperation`, `Connect`, `Delete`, `Return` (user code), `RunCallback`,
`EpollWait`, `EpollError`, `Exit` (`reactorRun`), the `Handler...` actions (the
three ways a handler can leave the registration, and the accept handler) and
`BecomeReady` (the peers). Assumed of the program: it starts an operation only
on an object that has none, and deletes only such objects, as both examples do.

### DBpooler

The members of `DBpooler` and of its connections are variables of the same
name; `inflight` is the query whose callback the reactor holds, `usable` what
libpq knows of the connection. A query that fails may leave in `results` the
rows stored before the failure (`Complete`), as `GetRead` and `Throw` do in
`Dbconnection`. `stack` is the C++ stack: one frame per activation of the
pool's callback, with the point it is at (`callback`, `user`, `recycle`, `drain`
for lines 76-89). `Dispatch` pushes a frame when libpq refuses the query, so
that `ServePending` and `UserChains` nest.
`Submit` and `Complete`, which come from the reactor, need an empty stack.
`Spec` starts at the constructor, `WarmSpec` in the state reached when all
connections came up before the first query.

### Dbconnection

`pc` is where the thread is between two libpq calls, and the server acts at
each of these points. A query is `QuerySize` chunks, an answer a sequence of
messages; one `PQconsumeInput` takes at most `ReadSize` of them, as libpq reads
what its buffer has room for. `PQisBusy` and `PQgetResult` parse up to the end
of a result (`Parse`); `Blocked` is the state in which `PQgetResult` waits in
`poll(2)`.

### HttpStream, Clientconnection, APIconnection

The bytes of the stream are tokens `[msg, part, last]`, at most `MsgLen` of
them per message; a message without a last token is one that only the end of
the connection ends. A `recv` takes up to `RecvMax`. `pc` is where the thread
is between two system calls, and the peer acts at each of these points.
`HttpStream` holds the steps that are the same, line by line, in the two
classes; each class adds its operations, its dispatch of events
(`Clientconnection` by event, `APIconnection` by `state`) and what follows the
last byte sent: `Clientconnection` calls back, `APIconnection` switches its
registration from inside the loop over `send` and goes round once more
(`HandleRequestSent`, `HandleNothingLeft`).

The parser is the state machine llhttp shows to the callbacks. These facts
about it were established by running the vendored library:

* the first byte after a complete message makes it call `on_reset`, which
  clears the very buffer it is reading, or, after `Connection: close`, is an
  error without it: a second message is always an error (`ParseError`), even
  in the `recv` that completes the first;
* an error stays: everything after it is an error;
* empty lines around a message are skipped without `on_reset`
  (`ParseEmptyLine`), so a read or a request that sees only that finds
  `is_request_complete` still set and hands over the first message again;
* an interim response (1xx) is a message of its own, and a response without a
  length never completes, as `llhttp_finish` is never called.

`OnlyWholeRequests` and `OnlyWholeResponses` state exactly that.

`fds` in `APIconnection` counts the descriptors the object has opened:
`createConnection` returns -1 without closing the one for which `fcntl` or
`connect` failed. `SendRequest` is also allowed after a response, which the
class permits and the example client does not do.

### BooksServer

One action per user callback of `example/server.cpp` (`ReadFailed`, `ReadRoot`,
`ReadUnparsable`, `ReadBook`, `QueryFailed`, `Inserted`, `Selected`,
`Written`); a query's callback takes two steps, the pool's `Answer` and what
the callback does, because the answer arrives inside the reactor's loop and
`callback` names it. A connection is identified with its client, its
descriptor with its being alive; `tracked` is the operation its socket is
registered for. `Accept` is the handler of the listening socket: one client per
event, nothing at all when no descriptor is free. `books` is the table, a set
of the clients whose INSERT took effect; a query may fail before or after it
did. `Parent` is `getParent`. The response to a request for `/` names the
client whose body it echoes.

## 3. Runs

| Run | Instance | Checked |
|---|---|---|
| `reactor_tables` | 4 descriptors, 4 connections, batches of 2, registrations may be refused, `epoll_wait` may fail | `TypeOK`, `NoDanglingCallback`, `TablesAgree`, `NoStaleEvent` |
| `reactor_live` | 3 descriptors, 3 connections, batches of 2, nothing refused | `AwaitingIsTracked`, `NoLostWakeup`, `DeadReactorHasNoWork`, `ReadyIsServed` |
| `reactor_refused` | 2 descriptors, 1 connection, registrations may be refused | `DeadReactorHasNoWork` is violated |
| `pooler_cold` | 2 connections, 3 clients (6 queries), from the constructor | `TypeOK`, `CountersAgree`, `OnePlacePerConnection`, `OnePlacePerQuery`, `CallbackSeesOwnQuery` |
| `pooler_warm` | 1 connection, 3 clients, a ready pool | `NoStrandedQuery`, `FirstComeFirstServed`, `EveryQueryAnswered`, `ImplementsService` |
| `pooler_stranded` | 1 connection, 1 client, from the constructor | `EveryQueryAnswered` is violated |
| `dbconn_answers` | 3 queries of 2 chunks, 1 chunk of send buffer, 2 login rounds, 1 notice, close and reset | `TypeOK`, `OwnAnswer`, `CallbackIsDue`, `NoLostWakeup`, `RefusedOnlyWhenBroken`, `OperationEnds` |
| `dbconn_large` | reads of 2 messages, results of up to 2 rows | `EveryOperationEnds` is violated |
| `dbconn_blocks` | 1 query | `NeverBlocks` is violated |
| `client_io` | 2 requests of up to 2 tokens, reads of 2, 3 tokens written through a send buffer of 1, an empty line, garbage, close and reset | `TypeOK`, `OnlyWholeRequests`, `WrittenInOrder`, `OperationHasItsMask`, `NoLostWakeup`, `OperationEnds` |
| `api_io` | the same stream from the other side, connections refused, made at once or later | `TypeOK`, `OnlyWholeResponses`, `WrittenInOrder`, `StateHasItsMask`, `NoLostWakeup`, `NothingLeftBehind`, `OperationEnds` |
| `server_serve` | 3 clients, 2 descriptors, 1 database connection, queries may fail | `TypeOK`, `OneThingUnderWay`, `OwnResponse`, `EveryClientEnds` |

**Why the bounds are enough.** *Reactor*: a stale event takes one object that
runs, one that is destroyed meanwhile and one that is given its number; four
descriptors and connections leave one more beside the listening socket, and
batches of two make both the full batch and the one that leaves ready
descriptors behind. *Pool*: two connections are the fewest of which one can be
broken and one healthy, three clients the fewest that leave a query pending
behind another, and with two statements each a callback's query competes with
the pending ones. The ready pool is run with one connection, where a query
must wait for another: the same run with two takes minutes and passes. *Database
connection*: two chunks against one of send buffer give both outcomes of every
flush; one or two statements per query and an answer cut at every message give
every state of the parser; three queries let an answer meet what the two
before it left behind. *HTTP connections*: two tokens per message and reads
of two give a message in one piece, in two, two messages in a read, and one
without an end; three tokens written through a buffer of one give writes that
take one call, several, and several events. *Example server*: with two
descriptors one client can be stranded while others are served, or two can so
that the third is never accepted; one database connection makes the queries of
two clients wait for and overtake each other, and a third client's come
between an INSERT and its SELECT.

**Fairness.** The thread is weakly fair: it runs while it can, and no user
callback of the examples loops. `reactor_live` adds strong fairness of being
reported, per descriptor, because the kernel appends to its ready list and
takes from its head, so a ready descriptor is reported after finitely many
calls. In the pool, an answer is strongly fair because the thread may be busy
with other events whenever it is there to be delivered. A server that is up
reads the whole query and sends the whole answer; a peer that is there
takes what it is sent but never has to send anything; a connection attempt has
an outcome. Nothing is assumed of closes, resets, garbage, notices or refusals.
In `BooksServer` a client that is connected sends its request or leaves, and
weak fairness of the whole system is enough, because a client connects once
and there are finitely many steps to take: it only says that the system does
not stop while one of them can be taken.

`CHECK_DEADLOCK FALSE` is set where the system may stop for good: `reactorRun`
has returned, all clients are served, or the object was deleted.

## 4. What the runs show to be wrong

* `reactor_refused`: no caller looks at what `addTrack` returns, so when epoll
  refuses a registration the operation never calls back, and with nothing else
  registered the process ends "with no more work pending".
* `pooler_stranded`: the constructor's callback does not look at
  `pending_queries`. A query that arrived before the first connection was up
  waits until a *later* query finishes.
* `dbconn_large`: `PQconsumeInput` is called once per edge. A first result
  larger than what it takes leaves data in the socket for which no edge comes.
* `dbconn_blocks`: `PQisBusy` is asked once before the loop over `PQgetResult`,
  which then waits inside libpq for the rest of the answer, and every client
  with it.

Not runs of their own, but visible in the conditions of properties:

`EveryClientEnds` of `BooksServer` excepts the clients a query of which has
failed: its callback returns without answering or deleting the client
(`server.cpp:111-114`, `124-127`), nothing is registered for it any more, and
its descriptor is never closed. When such clients hold every descriptor no
other client is accepted again, although `readme.md:34` has the server
"continue handling other clients". Without the exception the property fails
with two clients and one descriptor; with `MayFail = FALSE` it holds.

`NothingLeftBehind` of `APIconnection` excepts the socket `createConnection`
does not close when it returns -1 (`socket_utilities.h:225-237`).

`NoLostWakeup` and `OperationEnds` of `Dbconnection` hold of a server that
sends nothing but answers (`OnlyAnswers`). A notice that wakes the handler in
SENDING_QUERY can make it consume an answer that came with it; the handler
then waits for another edge without asking `PQisBusy`
(`db_connection_type.h:155-172`). And a stream that ends with half an answer
is seen as the end only at the next event.

## 5. Proofs

All theorems hold for every value of the constants allowed by the named
assumptions (`ReactorAssumption`, `PoolAssumption`, `ServerAssumption`,
`StreamAssumption`, `DbconnectionAssumption`: finite sets, distinct sentinels,
a positive batch size, a pool and a descriptor table that are not empty,
messages, reads, chunks and socket buffers of at least one). Three theorems
about the reactor and one about `Dbconnection` have a hypothesis of their own,
named below; each comes with a run that shows what happens without it. Every
inductive invariant was an invariant of a TLC run before it was proved.

**IOReactorProofs.** `TypeCorrect`, `CallbacksLive`, `TablesConsistent` and
`EventsFresh` prove `TypeOK`, `NoDanglingCallback`, `TablesAgree` and
`NoStaleEvent` from one inductive invariant, `IInv`. None of them is inductive
alone: that a callback is not dangling after a descriptor number is reused
needs one owner per number (`OneOwnerPerFd`) and that objects not yet
allocated own nothing (`UnbornOwnNothing`); that a handler's `removeTrack`
makes no queued event stale needs one event per descriptor in a batch
(`OneEventPerFd`) and that the running handler's own event has left the queue
(`HandlerOwnsEvent`). `IInvStep` has one step per action. Under the further
assumption that epoll refuses nothing (`~ EpollCtlMayFail`),
`OperationsTracked`, `WakeupsKept` and `ExitsWithoutWork` prove
`AwaitingIsTracked`, `NoLostWakeup` and `DeadReactorHasNoWork` from
`IInvKept`, which adds that the listening socket alone is level-triggered and
stays on the ready list while it is served. `reactor_refused` shows the
assumption to be needed.

**DBpoolerProofs.** `TypeCorrect`, `CountersCorrect` and `ConnectionsConserved`
prove `TypeOK`, `CountersAgree` and `OnePlacePerConnection` from the
constructor on. The invariant `IInv` adds that `connected_count` is the number
of connections that are up, that only the innermost activation is in a user
callback, and that a connection's `parent` is its query's client. The heart is
`SendQueryStep`: dispatching or queueing a query from *any* stack whose frames
hold the same connections keeps the invariant; `Submit`, `UserChains` and
`ServePending` are instances of it. `NoneStranded` and `ServedInOrder` prove
`NoStrandedQuery` and `FirstComeFirstServed` of a pool that was ready first
(`WarmSpec`), from `IInvWarm`: whoever may submit a query, and was not told of
an error, sees no query pending beside an idle connection
(`SubmitterSeesQueueServed`).

**DBpoolerQueryProofs.** `QueriesConserved` and `OwnConnection` prove
`OnePlacePerQuery` and `CallbackSeesOwnQuery` from `QueryInv`, which extends the
`IInv` of the connections. `OnePlace` says where a query is by cases rather
than by counting: pending, on one connection, or in the frame of one activation.
It is preserved because a user's follow-up is always a query nobody has seen
(`FollowUpsAreNew`), and the outcome a callback reads is its own because a
query that failed is neither pending nor executed (`FailedAreOver`) and a
connection is given a query only in the state `resetConnection` leaves it in
(`OwnOutcome`): the rows a failed query leaves are its own, and are gone before
the next one starts. As for the connections, the heart is one pair of lemmas about
dispatching a query from any stack, `SendQueryPlaces` and `SendQueryMoves`,
which `Submit`, `UserChains` and `ServePending` share.

`PoolIsService` proves that a pool that was ready first (`WarmSpec`) implements
the safety part of `QueryService` under the mapping of `DBpooler`. Its steps
map as follows: `CallUser` is `Answer`; `Submit` and `UserChains` are
`SubmitAndStart` when a connection takes the query at once and `Submit`
otherwise; `ServePending` is `Start`; every other step, and every step of the
stack's bookkeeping, is a stutter. `Start` and `SubmitAndStart` have guards to
show: that the query is the oldest waiting one is `FirstComeFirstServed`'s
invariant, that nothing waits when a new query starts is
`SubmitterSeesQueueServed`, and that a slot is free is `SlotIsFree`, since each
query executed keeps a connection of its own busy.

**HttpStreamProofs, ClientconnectionProofs, APIconnectionProofs.** The two HTTP
classes share most of their handlers, and so do their proofs: `StreamInv` is
about the stream alone, and every step of `HttpStream` preserves it, whatever
class takes it. It holds together the tokens in the socket and in the chunk
being parsed (`ParserInv`: from the last one parsed on they are the messages of
the peer, in order, each once, so a message the parser calls whole is the first
one), what was written and what the peer got (`WrittenInOrder`), and that an
error of the socket is reported or will be (`ErrorInv`). Each class adds
`ThreadInv`, the agreement of the thread, the operation, the state and the
mask, and `DeliveryInv`, when a first message may be handed over again.
`TypeCorrect`, `WholeRequests`, `ResponseInOrder`, `RightMask` and
`NoWakeupLost` prove every safety property of `Clientconnection`, `TypeCorrect`,
`WholeResponses`, `RequestsInOrder`, `RightMask`, `NoWakeupLost` and
`NothingLeft` every one of `APIconnection`. Where `Clientconnection` calls back
after its last byte, `APIconnection` switches its registration inside the loop
over `send`, so its `NoLostWakeup` needs more than itself: `ReadyInv` says it
of that point of the loop as well.

**DbconnectionProofs.** Three invariants, each resting on the ones before it.
`ControlInv` relates the thread, the operation, the connection's state, the
mask and what libpq knows of the session; `CallbackDue` and `RefusedBroken`
prove `CallbackIsDue` and `RefusedOnlyWhenBroken` from it. The first is needed
for the second: that a refusal means a broken connection takes that libpq is
busy only while a query is under way, across every way a query can fail.

`AnswerInv` is about the messages of the answer, wherever they are: `Stream` is
what libpq has read, what the socket holds and what the server has yet to send,
in this order. `Fits(x, s, k, d)` says that the messages `s` continue an answer
`x` of which `k` results and `d` rows are done: at each of its prefixes the rows
lie between what the completed results have and what the next one has, a
completion comes exactly where its result is full, and the end of the query
only behind the last result. A read or a segment moves a message within the
stream and changes nothing (`SegmentKeepsOrder`); a notice is an insertion
(`FitsInsert`), the end of the connection a cut (`FitsCut`), and parsing takes
a prefix, whose rows and completions are what is added to `rows` and `results`
(`FitsSuffix`). Before the server has the whole query the stream tells of no
answer at all (`QuietInv`), which is why nothing of an earlier query can be
left in it. So the NULL that ends a query finds all its results stored:
`OwnAnswers` proves `OwnAnswer`, for answers of any length cut at any message,
and `TypeCorrect` proves `TypeOK`, whose bound on rows is a bound on what the
answer can hold.

`NoWakeupLost` proves `NoLostWakeup` under the hypothesis `AnswersFit`, that a
read takes the longest answer. `dbconn_large` is why it is there: the handler
calls `PQconsumeInput` once per edge. `WakeInv` says that while the server
sends nothing but answers, an edge is to come for what the socket holds, or the
handler that will read it is under way (`EdgeInv`); it rests on there being at
most one answer under way (`AnswersOnly`), at most one message of a login
(`OneAtATime`), and on the state being SENDING_QUERY only while libpq still
holds chunks (`SendingInv`).

**BooksServerProofs.** `TypeCorrect`, `OneAtATime` and `OwnAnswers` prove
`TypeOK`, `OneThingUnderWay` and `OwnResponse` of any number of clients, from
one invariant, `IInv`. `OneThingUnderWay` counts; `OneThing` says the same by
cases, which is what a step can be reasoned about with. It needs
`QueriesConserved`, that a query is waiting, running or answered and in one
place, so that the query whose callback returns is under way no longer, and
`ClientsConserved`, that a client is in the backlog or alive but not both and
has queries only for a book it asked for. `CallbackFinds` draws the consequence
every callback of a query lives on: its client is alive and has nothing else
under way. A response is the client's own because `RightResponses` follows from
`InsertedFirst`: a client's SELECT enters the pool only after its INSERT took
effect, and books are never removed, so the rows it gets hold the client's book
whatever other queries the database executed between the two. The pool is
taken at its word, as `QueryService`.

**Only model-checked.** All liveness: `ReadyIsServed`, `EveryQueryAnswered`,
`OperationEnds`, `EveryClientEnds`, and the fairness part of
`ImplementsService`, whose safety part `PoolIsService` proves. TLAPS does not
reason about ENABLED, and so not about fairness. Every other property that a
passing run checks is a theorem.

## 6. Not modelled, and why

* The vendored libraries: `json.hpp`, `json_fwd.hpp`, `llhttp.h`, `uuid_v4.h`
  and `endianness.h` are 27,000 of the repository's 28,800 lines of code and
  none of them is FiberConn's own. llhttp appears as the external state machine
  of `HttpStream`; identifiers are taken to be distinct; whether a body parses
  as JSON is an input of `BooksServer`.
* The locks of `ThreadSafeMap`: only the reactor's thread uses the maps, so no
  two of its calls overlap.
* The addresses `getEndpoint` copies, socket options, `bindAndListen`:
  straight-line calls made once at start, whose results `HttpServer` ignores.
  (A server whose port is taken goes on with a socket nobody reaches. The
  readme names SO_REUSEPORT, `getSocket` sets SO_REUSEADDR.)
* The text of requests, responses and queries. JSON bodies with a field of
  another type, for which `j.value` throws and the process ends
  (`server.cpp:73`, `105`).
* A write of nothing, which never calls back (`http_server_type.h:193`).
* `~DBpooler` and `~Dbconnection`: no program of the repository runs them.
  (`~DBpooler` indexes `connected_conns` up to `pool_size`, which is wrong when
  a connection failed.)
* A `PGconn` whose socket changes while connecting, and one that starts in
  CONNECTION_BAD: the connection string of the repository names one host by
  address.
* The size of the C++ stack.

## 7. Plan

Done, in this order: `IOReactor` and its proofs; `DBpooler` with `QueryService`
and its proofs; `Dbconnection`; `HttpStream` with `Clientconnection` and
`APIconnection`; `BooksServer` and its proofs; the proofs about the two HTTP
classes, the pool's queries and refinement, and `Dbconnection`.

Every safety property the runs check is proved, and so is the step simulation
of `QueryService` by `DBpooler`. What could still be added: an abstract
specification of a connection's operation (started, then called back once) that
`Clientconnection`, `APIconnection` and `Dbconnection` implement, with the step
simulations proved, so that what `BooksServer` and `DBpooler` take for granted
of them becomes a refinement; and the safety part of `OneThingUnderWay` from the
pool's side, `BooksServer` with `DBpooler` in the place of `QueryService`.
