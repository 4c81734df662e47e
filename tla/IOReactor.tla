------------------------------ MODULE IOReactor ------------------------------
(***************************************************************************)
(* include/reactor.h: the single-threaded event loop every connection of   *)
(* the library is driven by, with the part of the Linux epoll interface it *)
(* uses (include/socket_utilities.h).                                      *)
(*                                                                         *)
(* The connection classes are seen here only through the protocol they     *)
(* follow with the reactor.  An object starts an operation by addTrack on  *)
(* its socket; a handler run for an event either leaves the registration   *)
(* in place, replaces it with modifyTrack, or calls removeTrack and then   *)
(* the user's callback.  In a callback (and in main(), before reactorRun)  *)
(* the program may start operations on any object that is not already in   *)
(* one, delete such an object, or connect a new one; descriptor numbers    *)
(* of closed sockets are given out again.                                  *)
(***************************************************************************)
EXTENDS Integers, FiniteSets

CONSTANTS
  Fds,              \* descriptor numbers the process can hold
  Conns,            \* connection objects that are ever allocated
  Listener,         \* the HttpServer, owner of the listening socket
  MaxEvents,        \* max_events_
  EpollCtlMayFail,  \* may epoll_ctl refuse a registration?
  Interrupts,       \* may epoll_wait return -1 (EINTR)?
  None

ASSUME ReactorAssumption ==
  /\ IsFiniteSet(Fds)
  /\ Listener \notin Conns
  /\ None \notin Conns \cup {Listener} \cup Fds \cup {0, 1, 2}
  /\ MaxEvents \in Nat \ {0}
  /\ EpollCtlMayFail \in BOOLEAN
  /\ Interrupts \in BOOLEAN

(* enum EventPriority *)
LISTEN_SOCK == 0
NEW_SOCK    == 1
HELPER_SOCK == 2
EventPriority == {LISTEN_SOCK, NEW_SOCK, HELPER_SOCK}

Objects == Conns \cup {Listener}

VARIABLES
  event_callback_,  \* fd -> the object whose handler the callback runs
  event_priority_,  \* fd -> its EventPriority
  event_queue_,     \* the events of the current batch not yet dispatched
  epoll,            \* kernel: fd -> "none", "LT" or "ET", how it is watched
  level,            \* kernel: does fd satisfy what its mask asks for?
  rdllist,          \* kernel: descriptors queued as ready
  socket,           \* object -> its descriptor while it is open
  born,             \* objects allocated so far
  awaiting,         \* objects with an operation whose callback is still due
  pc,               \* where the reactor's thread is
  cur,              \* the running handler: its object and its event's fd
  stale             \* history: queued events whose registration is gone

reactorVars == <<event_callback_, event_priority_, event_queue_>>
kernelVars  == <<epoll, level, rdllist>>
objectVars  == <<socket, born, awaiting>>
vars == <<reactorVars, kernelVars, objectVars, pc, cur, stale>>

Alive   == {o \in Objects : socket[o] # None}
FreeFds == {f \in Fds : \A o \in Objects : socket[o] # f}
Queued  == {e.fd : e \in event_queue_}
NoHandler == [obj |-> None, fd |-> None]

TypeOK ==
  /\ event_callback_ \in [Fds -> Objects \cup {None}]
  /\ event_priority_ \in [Fds -> EventPriority \cup {None}]
  /\ event_queue_ \subseteq [prio : EventPriority, fd : Fds]
  /\ epoll \in [Fds -> {"none", "LT", "ET"}]
  /\ level \in [Fds -> BOOLEAN]
  /\ rdllist \subseteq Fds
  /\ socket \in [Objects -> Fds \cup {None}]
  /\ born \subseteq Objects
  /\ awaiting \subseteq Objects
  /\ pc \in {"callback", "dispatch", "handler", "exited", "failed"}
  /\ cur \in [obj : Objects \cup {None}, fd : Fds \cup {None}]
  /\ stale \subseteq Fds

(***************************************************************************)
(* main() runs before reactorRun(): the HttpServer exists with its socket, *)
(* nothing is registered, and the program is free to start operations.     *)
(***************************************************************************)
Init ==
  /\ event_callback_ = [f \in Fds |-> None]
  /\ event_priority_ = [f \in Fds |-> None]
  /\ event_queue_ = {}
  /\ epoll = [f \in Fds |-> "none"]
  /\ level = [f \in Fds |-> FALSE]
  /\ rdllist = {}
  /\ \E f \in Fds : socket = [o \in Objects |-> IF o = Listener THEN f ELSE None]
  /\ born = {Listener}
  /\ awaiting = {}
  /\ pc = "callback"
  /\ cur = NoHandler
  /\ stale = {}

-----------------------------------------------------------------------------
(* The reactor's registration operations.                                  *)

(* epoll_ctl(ADD or MOD): the descriptor is watched, and it is put on the  *)
(* ready list at once when it already satisfies the new mask.              *)
Watch(f, mode) ==
  /\ epoll' = [epoll EXCEPT ![f] = mode]
  /\ \E now \in BOOLEAN :
       /\ level' = [level EXCEPT ![f] = now]
       /\ rdllist' = IF now THEN rdllist \cup {f} ELSE rdllist \ {f}

Insert(f, o, priority) ==
  /\ event_callback_' = [event_callback_ EXCEPT ![f] = o]
  /\ event_priority_' = [event_priority_ EXCEPT ![f] = priority]

(* addTrack and asyncAccept: the maps are written only after EPOLL_CTL_ADD *)
(* succeeded; on failure they return -1, which no caller looks at.         *)
AddTrack(f, o, mode, priority) ==
  \/ /\ epoll[f] = "none"
     /\ Watch(f, mode)
     /\ Insert(f, o, priority)
  \/ /\ epoll[f] # "none" \/ EpollCtlMayFail
     /\ UNCHANGED <<kernelVars, event_callback_, event_priority_>>

(* modifyTrack: EPOLL_CTL_MOD, which re-arms an edge-triggered descriptor. *)
ModifyTrack(f, o, priority) ==
  \/ /\ epoll[f] # "none"
     /\ Watch(f, "ET")
     /\ Insert(f, o, priority)
  \/ /\ epoll[f] = "none" \/ EpollCtlMayFail
     /\ UNCHANGED <<kernelVars, event_callback_, event_priority_>>

(* What EPOLL_CTL_DEL and close(2) do to the kernel's interest list.  An   *)
(* event of f that is still in event_queue_ outlives its registration.     *)
Forget(f) ==
  /\ epoll' = [epoll EXCEPT ![f] = "none"]
  /\ level' = [level EXCEPT ![f] = FALSE]
  /\ rdllist' = rdllist \ {f}
  /\ stale' = IF f \in Queued THEN stale \cup {f} ELSE stale

(* Faulty variants: removeTrack leaves one of the two maps as it was.      *)
KeepCallback(f) == UNCHANGED event_callback_
KeepPriority(f) == UNCHANGED event_priority_

EraseCallback(f) == event_callback_' = [event_callback_ EXCEPT ![f] = None]
ErasePriority(f) == event_priority_' = [event_priority_ EXCEPT ![f] = None]

RemoveTrack(f) == Forget(f) /\ EraseCallback(f) /\ ErasePriority(f)

-----------------------------------------------------------------------------
(* What the program does in main() and in user callbacks.                  *)

(* HttpServer::listen: the only level-triggered registration. *)
Listen ==
  /\ pc = "callback"
  /\ Listener \notin awaiting
  /\ AddTrack(socket[Listener], Listener, "LT", LISTEN_SOCK)
  /\ awaiting' = awaiting \cup {Listener}
  /\ UNCHANGED <<event_queue_, socket, born, pc, cur, stale>>

(* read, write, sendRequest, sendQuery on an object with no operation. *)
StartOperation(o) ==
  /\ pc = "callback"
  /\ o \in Alive \ (awaiting \cup {Listener})
  /\ \E priority \in {NEW_SOCK, HELPER_SOCK} : AddTrack(socket[o], o, "ET", priority)
  /\ awaiting' = awaiting \cup {o}
  /\ UNCHANGED <<event_queue_, socket, born, pc, cur, stale>>

(* Faulty variant: the -1 of createConnection is not looked at.            *)
OpenUnchecked(o, f) == socket' = [socket EXCEPT ![o] = -1]

(* A new socket takes any descriptor number that is free. *)
Open(o, f) == f \in FreeFds /\ socket' = [socket EXCEPT ![o] = f]

(* connectApi, connectDb: a new object with a new socket, tracked at once. *)
Connect(o, f) ==
  /\ pc = "callback"
  /\ o \in Conns \ born
  /\ Open(o, f)
  /\ born' = born \cup {o}
  /\ AddTrack(f, o, "ET", HELPER_SOCK)
  /\ awaiting' = awaiting \cup {o}
  /\ UNCHANGED <<event_queue_, pc, cur, stale>>

(* Faulty variant: the program deletes a connection that is being read.    *)
InAnyState(o) == TRUE

(* What a callback that fires after removeTrack lets the program rely on. *)
NotInOperation(o) == o \notin awaiting

(* delete: the destructor closes the socket and does not touch the maps.   *)
(* The program deletes an object only when no operation of it is running.  *)
Delete(o) ==
  /\ pc = "callback"
  /\ o \in Alive \ {Listener}
  /\ NotInOperation(o)
  /\ Forget(socket[o])
  /\ socket' = [socket EXCEPT ![o] = None]
  /\ UNCHANGED <<reactorVars, born, awaiting, pc, cur>>

(* The callback (or main) returns to the loop of reactorRun. *)
Return ==
  /\ pc = "callback"
  /\ pc' = "dispatch"
  /\ cur' = NoHandler
  /\ UNCHANGED <<reactorVars, kernelVars, objectVars, stale>>

-----------------------------------------------------------------------------
(* reactorRun.                                                             *)

(* Faulty variant: top() without pop().                                    *)
PopNothing(e) == UNCHANGED <<event_queue_, stale>>

Pop(e) == event_queue_' = event_queue_ \ {e} /\ stale' = stale \ {e.fd}

(* The top of the priority queue is run.  Nothing is pushed while a        *)
(* callback runs, so popping it before or after makes no difference.       *)
RunCallback(e) ==
  /\ pc = "dispatch"
  /\ e \in event_queue_
  /\ \A x \in event_queue_ : x.prio <= e.prio
  /\ Pop(e)
  /\ LET owner == event_callback_[e.fd] IN
       IF owner = None                     \* "No callback found for fd"
       THEN UNCHANGED <<pc, cur>>
       ELSE pc' = "handler" /\ cur' = [obj |-> owner, fd |-> e.fd]
  /\ UNCHANGED <<event_callback_, event_priority_, kernelVars, objectVars>>

Reported == {f \in rdllist : level[f]}

(* epoll_wait returns as many ready descriptors as fit; a level-triggered  *)
(* one stays on the ready list.                                            *)
EpollWait(batch) ==
  /\ pc = "dispatch"
  /\ event_queue_ = {}
  /\ \E f \in Fds : event_callback_[f] # None
  /\ batch \subseteq Reported
  /\ batch # {}
  /\ batch = Reported \/ Cardinality(batch) = MaxEvents
  /\ Cardinality(batch) <= MaxEvents
  /\ event_queue_' = {[fd   |-> f,
                       prio |-> IF event_priority_[f] = None
                                THEN NEW_SOCK ELSE event_priority_[f]] : f \in batch}
  /\ rdllist' = rdllist \ {f \in batch : epoll[f] = "ET"}
  /\ UNCHANGED <<event_callback_, event_priority_, epoll, level, objectVars, pc, cur, stale>>

EpollError ==
  /\ Interrupts
  /\ pc = "dispatch"
  /\ event_queue_ = {}
  /\ \E f \in Fds : event_callback_[f] # None
  /\ pc' = "failed"
  /\ UNCHANGED <<reactorVars, kernelVars, objectVars, cur, stale>>

(* Faulty variant: a loop that stops one registration too early.           *)
OnePending == Cardinality({f \in Fds : event_callback_[f] # None}) <= 1

NothingPending == \A f \in Fds : event_callback_[f] = None

(* "Dead reactor": nothing is registered any more. *)
Exit ==
  /\ pc = "dispatch"
  /\ event_queue_ = {}
  /\ NothingPending
  /\ pc' = "exited"
  /\ UNCHANGED <<reactorVars, kernelVars, objectVars, cur, stale>>

-----------------------------------------------------------------------------
(* The handlers the callbacks run, as far as the reactor sees them.        *)

(* Faulty variants: one recv per event, and removeTrack before EAGAIN is   *)
(* ruled out.                                                              *)
DrainOnce ==
  UNCHANGED <<event_callback_, event_priority_, kernelVars, stale>>
DrainUntracked == RemoveTrack(socket[cur.obj])

Drain ==
  /\ level' = [level EXCEPT ![cur.fd] = FALSE]
  /\ UNCHANGED <<event_callback_, event_priority_, epoll, rdllist, stale>>

(* recv or send until EAGAIN, as the HTTP handlers do: the operation goes  *)
(* on, the socket is drained.  The handler of Dbconnection, which may      *)
(* leave data in its socket, is modelled in full in that module.           *)
HandlerPending ==
  /\ pc = "handler"
  /\ cur.obj \in Conns
  /\ Drain
  /\ pc' = "dispatch"
  /\ cur' = NoHandler
  /\ UNCHANGED <<event_queue_, objectVars>>

(* The request is sent, or libpq asks for the other direction. *)
HandlerModify ==
  /\ pc = "handler"
  /\ cur.obj \in Conns
  /\ \E priority \in {NEW_SOCK, HELPER_SOCK} :
       ModifyTrack(socket[cur.obj], cur.obj, priority)
  /\ pc' = "dispatch"
  /\ cur' = NoHandler
  /\ UNCHANGED <<event_queue_, objectVars, stale>>

(* The operation ended, well or not: removeTrack, then cb(this). *)
HandlerDone ==
  /\ pc = "handler"
  /\ cur.obj \in Conns
  /\ RemoveTrack(socket[cur.obj])
  /\ awaiting' = awaiting \ {cur.obj}
  /\ pc' = "callback"
  /\ UNCHANGED <<event_queue_, socket, born, cur>>

(* One connection is accepted per event and handed to the user's callback; *)
(* more may be waiting in the backlog.                                     *)
HandlerAccept(o, f) ==
  /\ pc = "handler"
  /\ cur.obj = Listener
  /\ o \in Conns \ born
  /\ Open(o, f)
  /\ born' = born \cup {o}
  /\ \E more \in BOOLEAN : level' = [level EXCEPT ![cur.fd] = more]
  /\ pc' = "callback"
  /\ UNCHANGED <<reactorVars, epoll, rdllist, awaiting, cur, stale>>

(* accept returned -1 (or the event was EPOLLERR): the handler just returns.*)
HandlerAcceptFailed ==
  /\ pc = "handler"
  /\ cur.obj = Listener
  /\ \E more \in BOOLEAN : level' = [level EXCEPT ![cur.fd] = more]
  /\ pc' = "dispatch"
  /\ cur' = NoHandler
  /\ UNCHANGED <<reactorVars, epoll, rdllist, objectVars, stale>>

-----------------------------------------------------------------------------
(* The peers: data, room in a send buffer, an error or a new connection.   *)
BecomeReady(f) ==
  /\ epoll[f] # "none"
  /\ level' = [level EXCEPT ![f] = TRUE]
  /\ rdllist' = rdllist \cup {f}
  /\ UNCHANGED <<reactorVars, epoll, objectVars, pc, cur, stale>>

Program ==
  \/ Listen
  \/ \E o \in Conns : StartOperation(o) \/ Delete(o)
  \/ \E o \in Conns, f \in Fds : Connect(o, f)
  \/ Return

Handler ==
  \/ HandlerPending
  \/ HandlerModify
  \/ HandlerDone
  \/ \E o \in Conns, f \in Fds : HandlerAccept(o, f)
  \/ HandlerAcceptFailed

Loop ==
  \/ \E e \in event_queue_ : RunCallback(e)
  \/ \E batch \in SUBSET Fds : EpollWait(batch)
  \/ Exit

Thread == Program \/ Handler \/ Loop

Next ==
  \/ Thread
  \/ EpollError
  \/ \E f \in Fds : BecomeReady(f)

Spec == Init /\ [][Next]_vars

(* The thread never stops while it can run, and the kernel rotates its     *)
(* ready list, so a descriptor that stays ready is reported eventually     *)
(* even when more are ready than max_events_ admits.                       *)
Reports(f) == \E batch \in SUBSET Fds : f \in batch /\ EpollWait(batch)
Fairness ==
  /\ WF_vars(Thread)
  /\ \A f \in Fds : SF_vars(Reports(f))
FairSpec == Spec /\ Fairness

-----------------------------------------------------------------------------
(***************************************************************************)
(* Properties                                                              *)
(***************************************************************************)

(* A callback registered for a descriptor captures the `this` of an object *)
(* that is still allocated, still owns that very descriptor and still      *)
(* waits for its operation: no event can reach a deleted connection, nor   *)
(* one that was given the number of a closed socket (reactor.h:91-105).    *)
NoDanglingCallback ==
  \A f \in Fds : event_callback_[f] # None =>
    /\ socket[event_callback_[f]] = f
    /\ event_callback_[f] \in awaiting

(* The two maps and the kernel's interest list never disagree, although    *)
(* every operation updates the three one after the other                   *)
(* (reactor.h:61-89).                                                      *)
TablesAgree ==
  \A f \in Fds :
    /\ event_callback_[f] # None <=> event_priority_[f] # None
    /\ event_callback_[f] # None <=> epoll[f] # "none"

(* An event waiting in event_queue_ is never left over from a registration *)
(* that an earlier callback of the same batch removed, so no handler runs  *)
(* for an event meant for another one and "No callback found" is never     *)
(* reached (reactor.h:111-115, 100-102).                                   *)
NoStaleEvent ==
  /\ stale = {}
  /\ \A f \in Queued : event_callback_[f] # None

(* Every accepted obligation is kept: an object whose operation has not    *)
(* called back yet is registered, with a callback that leads to it.        *)
AwaitingIsTracked ==
  \A o \in awaiting :
    /\ socket[o] # None
    /\ event_callback_[socket[o]] = o

(* Edge-triggered readiness is never lost: a watched descriptor that is    *)
(* ready is on the kernel's ready list, in the current batch, or being     *)
(* handled right now (http_server_type.h:162, 193; reactor.h:120-133).     *)
NoLostWakeup ==
  \A f \in Fds : epoll[f] # "none" /\ level[f] =>
    f \in rdllist \/ f \in Queued \/ (pc = "handler" /\ cur.fd = f)

(* reactorRun returns 0 only when "no more work pending" (reactor.h:136):  *)
(* no operation is still waiting for its callback.                         *)
DeadReactorHasNoWork == pc = "exited" => awaiting = {}

(* An object whose socket is ready gets its handler run, whatever the      *)
(* other connections do and however small max_events_ is.                  *)
ReadyIsServed ==
  \A o \in Objects :
    (o \in awaiting /\ level[socket[o]]) ~> (pc = "handler" /\ cur.obj = o)

-----------------------------------------------------------------------------
(***************************************************************************)
(* The inductive invariant behind NoDanglingCallback, TablesAgree and      *)
(* NoStaleEvent.  What it adds: a descriptor number has one owner although *)
(* numbers are reused, a batch holds one event per descriptor, and the     *)
(* handler that runs is the one of the object that owns the descriptor.    *)
(***************************************************************************)
OneOwnerPerFd ==
  \A o, p \in Objects : socket[o] # None /\ socket[o] = socket[p] => o = p

OneEventPerFd == \A e, x \in event_queue_ : e.fd = x.fd => e = x

HandlerOwnsEvent ==
  pc = "handler" =>
    /\ cur.fd \in Fds \ Queued
    /\ event_callback_[cur.fd] = cur.obj
    /\ cur.obj # None

ListenerStays == socket[Listener] # None /\ Listener \in born

UnbornOwnNothing == \A o \in Objects \ born : socket[o] = None /\ o \notin awaiting

ReadyIsWatched == \A f \in rdllist : epoll[f] # "none"

IInv ==
  /\ TypeOK
  /\ NoDanglingCallback
  /\ TablesAgree
  /\ NoStaleEvent
  /\ OneOwnerPerFd
  /\ OneEventPerFd
  /\ HandlerOwnsEvent
  /\ ListenerStays
  /\ UnbornOwnNothing
  /\ ReadyIsWatched

(* Behind AwaitingIsTracked, NoLostWakeup and DeadReactorHasNoWork, when   *)
(* registrations are not refused: the listening socket alone is watched    *)
(* level-triggered, and it stays on the ready list while it is served.     *)
ListenerIsLevelTriggered ==
  \A f \in Fds :
    /\ epoll[f] = "LT" <=> event_callback_[f] = Listener
    /\ epoll[f] = "LT" /\ (f \in Queued \/ (pc = "handler" /\ cur.fd = f))
         => f \in rdllist

IInvKept ==
  /\ IInv
  /\ AwaitingIsTracked
  /\ NoLostWakeup
  /\ DeadReactorHasNoWork
  /\ ListenerIsLevelTriggered
=============================================================================
