--------------------------- MODULE IOReactorProofs ---------------------------
(***************************************************************************)
(* Proofs about IOReactor, for every set of descriptors and connections,   *)
(* every max_events_, and whatever the kernel does with the readiness of   *)
(* the sockets.                                                            *)
(***************************************************************************)
EXTENDS IOReactor, TLAPS

(* main() enters reactorRun with empty maps, an empty queue and one socket.*)
LEMMA IInvInit == Init => IInv
<1> SUFFICES ASSUME Init PROVE IInv
  OBVIOUS
<1> PICK f \in Fds : socket = [o \in Objects |-> IF o = Listener THEN f ELSE None]
  BY DEF Init
<1> QED
  BY ReactorAssumption DEF Init, IInv, TypeOK, NoDanglingCallback, TablesAgree, NoStaleEvent,
            OneOwnerPerFd, OneEventPerFd, HandlerOwnsEvent, ListenerStays,
            UnbornOwnNothing, ReadyIsWatched, Queued, NoHandler,
            Objects, EventPriority, LISTEN_SOCK, NEW_SOCK, HELPER_SOCK

(* Every step keeps the three tables, the batch and the descriptors' owners*)
(* consistent with each other.  The steps that carry the weight are        *)
(* HandlerDone (removeTrack before the callback), Delete and HandlerAccept *)
(* (a closed number is given out again), and RunCallback.                  *)
LEMMA IInvStep == IInv /\ [Next]_vars => IInv'
<1> SUFFICES ASSUME IInv, [Next]_vars PROVE IInv'
  OBVIOUS
<1> USE ReactorAssumption DEF IInv, TypeOK, NoDanglingCallback, TablesAgree, NoStaleEvent,
            OneOwnerPerFd, OneEventPerFd, HandlerOwnsEvent, ListenerStays,
            UnbornOwnNothing, ReadyIsWatched, Queued, NoHandler,
            Objects, EventPriority, LISTEN_SOCK, NEW_SOCK, HELPER_SOCK,
            reactorVars, kernelVars, objectVars
<1>1. CASE Listen
  BY <1>1 DEF Listen, AddTrack, Watch, Insert
<1>2. ASSUME NEW o \in Conns, StartOperation(o) PROVE IInv'
  BY <1>2 DEF StartOperation, AddTrack, Watch, Insert, Alive
<1>3. ASSUME NEW o \in Conns, Delete(o) PROVE IInv'
  BY <1>3 DEF Delete, NotInOperation, Forget, Alive
<1>4. ASSUME NEW o \in Conns, NEW f \in Fds, Connect(o, f) PROVE IInv'
  BY <1>4 DEF Connect, Open, AddTrack, Watch, Insert, FreeFds
<1>5. CASE Return
  BY <1>5 DEF Return
<1>6. CASE HandlerPending
  BY <1>6 DEF HandlerPending, Drain
<1>7. CASE HandlerModify
  BY <1>7 DEF HandlerModify, ModifyTrack, Watch, Insert
<1>8. CASE HandlerDone
  BY <1>8 DEF HandlerDone, RemoveTrack, EraseCallback, ErasePriority, Forget
<1>9. ASSUME NEW o \in Conns, NEW f \in Fds, HandlerAccept(o, f) PROVE IInv'
  BY <1>9 DEF HandlerAccept, Open, FreeFds
<1>10. CASE HandlerAcceptFailed
  BY <1>10 DEF HandlerAcceptFailed
<1>11. ASSUME NEW e \in event_queue_, RunCallback(e) PROVE IInv'
  BY <1>11 DEF RunCallback, Pop
<1>12. ASSUME NEW batch \in SUBSET Fds, EpollWait(batch) PROVE IInv'
  BY <1>12 DEF EpollWait, Reported
<1>13. CASE Exit
  BY <1>13 DEF Exit, NothingPending
<1>14. CASE EpollError
  BY <1>14 DEF EpollError
<1>15. ASSUME NEW f \in Fds, BecomeReady(f) PROVE IInv'
  BY <1>15 DEF BecomeReady
<1>16. CASE UNCHANGED vars
  BY <1>16 DEF vars
<1> QED
  BY <1>1, <1>2, <1>3, <1>4, <1>5, <1>6, <1>7, <1>8,
     <1>9, <1>10, <1>11, <1>12, <1>13, <1>14, <1>15, <1>16
  DEF Next, Thread, Program, Handler, Loop

(* The invariant of every reactor.                                         *)
LEMMA IInvHolds == Spec => []IInv
<1> QED
  BY IInvInit, IInvStep, PTL DEF Spec

(* The variables of the reactor, the kernel's tables and the program keep  *)
(* their types; in particular no table is ever indexed by the descriptor   *)
(* of a closed socket.                                                     *)
THEOREM TypeCorrect == Spec => []TypeOK
<1>1. IInv => TypeOK
  BY DEF IInv
<1> QED
  BY IInvHolds, <1>1, PTL

(* No callback left in event_callback_ leads to a deleted connection or to *)
(* one that owns another descriptor (reactor.h:91-105).                    *)
THEOREM CallbacksLive == Spec => []NoDanglingCallback
<1>1. IInv => NoDanglingCallback
  BY DEF IInv
<1> QED
  BY IInvHolds, <1>1, PTL

(* event_callback_, event_priority_ and epoll's interest list agree,       *)
(* whichever registrations the kernel refuses (reactor.h:61-89).           *)
THEOREM TablesConsistent == Spec => []TablesAgree
<1>1. IInv => TablesAgree
  BY DEF IInv
<1> QED
  BY IInvHolds, <1>1, PTL

(* No event of a batch is dispatched to a registration made after the      *)
(* event was reported (reactor.h:109-115).                                 *)
THEOREM EventsFresh == Spec => []NoStaleEvent
<1>1. IInv => NoStaleEvent
  BY DEF IInv
<1> QED
  BY IInvHolds, <1>1, PTL

-----------------------------------------------------------------------------
(* When epoll_ctl refuses nothing, every operation stays registered until  *)
(* its callback and no readiness is lost.                                  *)
LEMMA IInvKeptInit == Init => IInvKept
<1> SUFFICES ASSUME Init PROVE IInvKept
  OBVIOUS
<1>1. IInv
  BY IInvInit
<1> QED
  BY <1>1, ReactorAssumption
  DEF Init, IInvKept, AwaitingIsTracked, NoLostWakeup, DeadReactorHasNoWork,
      ListenerIsLevelTriggered

(* One step per action, when epoll refuses nothing.                        *)
LEMMA IInvKeptStep ==
  ASSUME ~ EpollCtlMayFail PROVE IInvKept /\ [Next]_vars => IInvKept'
<1> SUFFICES ASSUME IInvKept, [Next]_vars PROVE IInvKept'
  OBVIOUS
<1>0. IInv /\ IInv'
  BY IInvStep DEF IInvKept
<1> DEFINE Kept == /\ AwaitingIsTracked
                   /\ NoLostWakeup
                   /\ DeadReactorHasNoWork
                   /\ ListenerIsLevelTriggered
<1> SUFFICES Kept'
  BY <1>0 DEF IInvKept
<1> USE <1>0, ReactorAssumption
    DEF IInvKept, AwaitingIsTracked, NoLostWakeup, DeadReactorHasNoWork,
            ListenerIsLevelTriggered,
            IInv, TypeOK, NoDanglingCallback, TablesAgree, NoStaleEvent,
            OneOwnerPerFd, OneEventPerFd, HandlerOwnsEvent, ListenerStays,
            UnbornOwnNothing, ReadyIsWatched, Queued, NoHandler,
            Objects, EventPriority, LISTEN_SOCK, NEW_SOCK, HELPER_SOCK,
            reactorVars, kernelVars, objectVars
<1>1. CASE Listen
  BY <1>1 DEF Listen, AddTrack, Watch, Insert
<1>2. ASSUME NEW o \in Conns, StartOperation(o) PROVE Kept'
  BY <1>2 DEF StartOperation, AddTrack, Watch, Insert, Alive
<1>3. ASSUME NEW o \in Conns, Delete(o) PROVE Kept'
  BY <1>3 DEF Delete, NotInOperation, Forget, Alive
<1>4. ASSUME NEW o \in Conns, NEW f \in Fds, Connect(o, f) PROVE Kept'
  BY <1>4 DEF Connect, Open, AddTrack, Watch, Insert, FreeFds
<1>5. CASE Return
  BY <1>5 DEF Return
<1>6. CASE HandlerPending
  BY <1>6 DEF HandlerPending, Drain
<1>7. CASE HandlerModify
  BY <1>7 DEF HandlerModify, ModifyTrack, Watch, Insert
<1>8. CASE HandlerDone
  BY <1>8 DEF HandlerDone, RemoveTrack, EraseCallback, ErasePriority, Forget
<1>9. ASSUME NEW o \in Conns, NEW f \in Fds, HandlerAccept(o, f) PROVE Kept'
  BY <1>9 DEF HandlerAccept, Open, FreeFds
<1>10. CASE HandlerAcceptFailed
  BY <1>10 DEF HandlerAcceptFailed
<1>11. ASSUME NEW e \in event_queue_, RunCallback(e) PROVE Kept'
  BY <1>11 DEF RunCallback, Pop
<1>12. ASSUME NEW batch \in SUBSET Fds, EpollWait(batch) PROVE Kept'
  <2> USE <1>12 DEF EpollWait
  <2>1. Queued' = batch
    <3>1. \A f \in Queued' : f \in batch
      OBVIOUS
    <3>2. ASSUME NEW f \in batch PROVE f \in Queued'
      <4> DEFINE e == [fd   |-> f,
                       prio |-> IF event_priority_[f] = None
                                THEN NEW_SOCK ELSE event_priority_[f]]
      <4>1. e \in event_queue_' /\ e.fd = f
        OBVIOUS
      <4> HIDE DEF e
      <4> QED
        BY ONLY <4>1 DEF Queued
    <3> QED
      BY ONLY <3>1, <3>2
  <2>2. AwaitingIsTracked' /\ DeadReactorHasNoWork'
    OBVIOUS
  <2>3. NoLostWakeup'
    BY <2>1
  <2>4. ListenerIsLevelTriggered'
    BY <2>1 DEF Reported
  <2> QED
    BY <2>2, <2>3, <2>4
<1>13. CASE Exit
  BY <1>13 DEF Exit, NothingPending
<1>14. CASE EpollError
  BY <1>14 DEF EpollError
<1>15. ASSUME NEW f \in Fds, BecomeReady(f) PROVE Kept'
  BY <1>15 DEF BecomeReady
<1>16. CASE UNCHANGED vars
  BY <1>16 DEF vars
<1> QED
  BY <1>1, <1>2, <1>3, <1>4, <1>5, <1>6, <1>7, <1>8,
     <1>9, <1>10, <1>11, <1>12, <1>13, <1>14, <1>15, <1>16
  DEF Next, Thread, Program, Handler, Loop

(* The invariant of a reactor whose epoll refuses nothing.                 *)
LEMMA IInvKeptHolds == ASSUME ~ EpollCtlMayFail PROVE Spec => []IInvKept
<1> QED
  BY IInvKeptInit, IInvKeptStep, PTL DEF Spec

(* Every operation begun is registered until its callback is called.       *)
THEOREM OperationsTracked ==
  ASSUME ~ EpollCtlMayFail PROVE Spec => []AwaitingIsTracked
<1>1. IInvKept => AwaitingIsTracked
  BY DEF IInvKept
<1> QED
  BY IInvKeptHolds, <1>1, PTL

(* No edge of an edge-triggered socket is lost (reactor.h:109-139).        *)
THEOREM WakeupsKept == ASSUME ~ EpollCtlMayFail PROVE Spec => []NoLostWakeup
<1>1. IInvKept => NoLostWakeup
  BY DEF IInvKept
<1> QED
  BY IInvKeptHolds, <1>1, PTL

(* reactorRun returns 0 only with no operation outstanding                 *)
(* (reactor.h:134-138).                                                    *)
THEOREM ExitsWithoutWork ==
  ASSUME ~ EpollCtlMayFail PROVE Spec => []DeadReactorHasNoWork
<1>1. IInvKept => DeadReactorHasNoWork
  BY DEF IInvKept
<1> QED
  BY IInvKeptHolds, <1>1, PTL
=============================================================================
