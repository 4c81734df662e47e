----------------------------- MODULE QueryService -----------------------------
(***************************************************************************)
(* What a connection pool promises its callers: at most Slots queries are  *)
(* executed at a time, queries start in the order they were submitted, and *)
(* every query submitted is answered, exactly once.                        *)
(***************************************************************************)
EXTENDS Integers, Sequences, FiniteSets

CONSTANTS Queries, Slots

VARIABLES
  waiting,   \* submitted, not started, in the order of submission
  running,   \* being executed
  answered   \* their callback has run

vars == <<waiting, running, answered>>

Waiting  == {waiting[i] : i \in DOMAIN waiting}
Unknown  == Queries \ (Waiting \cup running \cup answered)
SlotFree == Cardinality(running) < Slots

Init == waiting = <<>> /\ running = {} /\ answered = {}

Submit(q) ==
  /\ q \in Unknown
  /\ waiting' = Append(waiting, q)
  /\ UNCHANGED <<running, answered>>

(* A query that nobody is ahead of may start as it is submitted. *)
SubmitAndStart(q) ==
  /\ q \in Unknown
  /\ waiting = <<>>
  /\ SlotFree
  /\ running' = running \cup {q}
  /\ UNCHANGED <<waiting, answered>>

Start ==
  /\ waiting # <<>>
  /\ SlotFree
  /\ running' = running \cup {Head(waiting)}
  /\ waiting' = Tail(waiting)
  /\ UNCHANGED answered

Answer(q) ==
  /\ q \in running
  /\ running' = running \ {q}
  /\ answered' = answered \cup {q}
  /\ UNCHANGED waiting

Next ==
  \/ \E q \in Queries : Submit(q) \/ SubmitAndStart(q) \/ Answer(q)
  \/ Start

Safety == Init /\ [][Next]_vars
Spec == Safety /\ WF_vars(Start) /\ \A q \in Queries : WF_vars(Answer(q))
=============================================================================
