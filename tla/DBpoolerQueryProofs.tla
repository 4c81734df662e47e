------------------------- MODULE DBpoolerQueryProofs -------------------------
(***************************************************************************)
(* What becomes of the queries given to the pool, for every pool size and  *)
(* every set of clients: each is in one place, its callback is given its   *)
(* own outcome, and a pool that was ready first implements QueryService.   *)
(* The lemmas about connections and frames are those of DBpoolerProofs.    *)
(***************************************************************************)
EXTENDS DBpoolerProofs

Pending   == Elems(pending_queries)
Submitted == Elems(submitted)
Called    == {q \in Queries : calls[q] = 1}

(* A submitted query is in one of four places, and in one of them only.    *)
OnePlace ==
  /\ Distinct(submitted)
  /\ Distinct(pending_queries)
  /\ \A c, d \in Busy : inflight[c] = inflight[d] => c = d
  /\ \A q \in Queries : calls[q] \in {0, 1}
  /\ Submitted = Pending \cup Executing \cup Due \cup Called
  /\ Pending \cap Executing = {}
  /\ Pending \cap Due = {}
  /\ Executing \cap Due = {}
  /\ Called \cap (Pending \cup Executing \cup Due) = {}

(* A second query has been submitted by the callback of the first one,     *)
(* which has gone on; so a callback that submits one submits a new one.    *)
FollowUpsAreNew ==
  /\ Running("user") => Top.query \in Called
  /\ \A q \in Queries :
       q.stmt = "insert" /\ FollowUp(q) \in Submitted =>
         q \in Called /\ ~ (Running("user") /\ Top.query = q)

FailedAreOver == failed \subseteq Submitted /\ failed \cap (Pending \cup Executing) = {}

(* A connection that may be given a query, or executes one, holds nothing  *)
(* of an earlier one; the one in a callback holds its query's outcome.     *)
Clean == {c \in Conns : phase[c] = "connecting"} \cup Idle \cup Busy

OwnOutcome ==
  /\ \A c \in Clean : results[c] = {} /\ ~ is_error[c]
  /\ Running("callback") \/ Running("user") =>
       /\ results[Top.conn] \subseteq {Top.query}
       /\ Top.query \notin failed => results[Top.conn] = {Top.query}
       /\ is_error[Top.conn] <=> Top.query \in failed

QueryInv == IInv /\ OnePlace /\ FollowUpsAreNew /\ FailedAreOver /\ OwnOutcome

-----------------------------------------------------------------------------
(* Whether an element of a sequence without repetition occurs in it.       *)
LEMMA CountDistinct ==
  ASSUME NEW S, NEW s \in Seq(S), Distinct(s), NEW e
  PROVE  Cardinality({i \in DOMAIN s : s[i] = e}) = IF e \in Elems(s) THEN 1 ELSE 0
<1>1. CASE e \in Elems(s)
  <2>1. PICK i \in DOMAIN s : s[i] = e
    BY <1>1 DEF Elems
  <2>2. {j \in DOMAIN s : s[j] = e} = {i}
    BY <2>1 DEF Distinct
  <2> QED
    BY <1>1, <2>2, FS_Singleton
<1>2. CASE e \notin Elems(s)
  <2>1. {j \in DOMAIN s : s[j] = e} = {}
    BY <1>2 DEF Elems
  <2> QED
    BY <1>2, <2>1, FS_EmptySet
<1> QED
  BY <1>1, <1>2

(* Only the innermost activation is about to call back.                    *)
LEMMA OnlyTopDue ==
  ASSUME NEW s \in Seq(Frame),
         \A i \in DOMAIN s : i < Len(s) => s[i].at \in {"recycle", "drain"}
  PROVE  {i \in DOMAIN s : s[i].at = "callback"} =
           IF s # <<>> /\ s[Len(s)].at = "callback" THEN {Len(s)} ELSE {}
<1>1. /\ Len(s) \in Nat
      /\ DOMAIN s = 1..Len(s)
      /\ s # <<>> <=> Len(s) \in DOMAIN s
  OBVIOUS
<1> QED
  BY <1>1

(* The query about to be called back is that of the innermost activation.  *)
LEMMA DueIsTop ==
  ASSUME TypeOK, OnlyTopInCallback
  PROVE  Due = IF Running("callback") THEN {Top.query} ELSE {}
<1>1. {i \in DOMAIN stack : stack[i].at = "callback"} =
        IF Running("callback") THEN {Len(stack)} ELSE {}
  BY OnlyTopDue DEF TypeOK, OnlyTopInCallback, Running, Top
<1> QED
  BY <1>1 DEF Due, Top

(* The same after a step.                                                  *)
LEMMA DueIsTopNext ==
  ASSUME TypeOK', OnlyTopInCallback'
  PROVE  Due' = IF Running("callback")' THEN {Top'.query} ELSE {}
<1>1. {i \in DOMAIN stack' : stack'[i].at = "callback"} =
        IF Running("callback")' THEN {Len(stack')} ELSE {}
  BY OnlyTopDue DEF TypeOK, OnlyTopInCallback, Running, Top
<1> QED
  BY <1>1 DEF Due, Top

(* A query given to an idle connection becomes one that is executed.       *)
LEMMA ExecutingGrows ==
  ASSUME TypeOK, NEW c \in Conns, c \notin Busy, NEW q \in Queries,
         inflight' = [inflight EXCEPT ![c] = q]
  PROVE  Executing' = Executing \cup {q} /\ Busy' = Busy \cup {c}
<1>1. q # None
  BY PoolAssumption DEF Queries
<1>2. inflight[c] = None
  BY DEF Busy
<1>3. /\ inflight'[c] = q
      /\ \A d \in Conns : d # c => inflight'[d] = inflight[d]
  BY DEF TypeOK
<1>4. Executing' = Executing \cup {q}
  BY <1>1, <1>2, <1>3 DEF Executing
<1>5. Busy' = Busy \cup {c}
  BY <1>1, <1>3 DEF Busy
<1> QED
  BY <1>4, <1>5

(* The queries executed, and the connections that execute them.            *)
LEMMA ExecutingIsBusy ==
  ASSUME TypeOK
  PROVE  /\ Executing = {inflight[c] : c \in Busy}
         /\ Executing \subseteq Queries
BY DEF TypeOK, Executing, Busy

(* The three ways sendQuery can go, and where they leave the query.        *)
Queues(q, rest) ==
  /\ idle_count = 0
  /\ pending_queries' = Append(rest, q)
  /\ Due' = {}
  /\ UNCHANGED <<inflight, available_conns, is_error, failed>>
Starts(q, rest, c) ==
  /\ idle_count > 0
  /\ pending_queries' = rest
  /\ Due' = {}
  /\ inflight' = [inflight EXCEPT ![c] = q]
  /\ Idle' = Idle \ {c}
  /\ UNCHANGED <<is_error, failed>>
Fails(q, rest, c) ==
  /\ idle_count > 0
  /\ pending_queries' = rest
  /\ Due' = {q}
  /\ Idle' = Idle \ {c}
  /\ Top'.conn = c /\ Top'.query = q
  /\ is_error' = [is_error EXCEPT ![c] = TRUE]
  /\ failed' = failed \cup {q}
  /\ UNCHANGED inflight

(* One of the three happens in every call of sendQuery.                    *)
LEMMA SendQueryMoves ==
  ASSUME IInv, IInv',
         NEW q \in Queries, NEW rest, NEW base,
         SameFrames(base), SendQuery(q, rest, base)
  PROVE  /\ ~ Running("user")'
         /\ Running("callback")' => \E c \in Idle : Fails(q, rest, c)
         /\ Queues(q, rest) \/ \E c \in Idle : Starts(q, rest, c) \/ Fails(q, rest, c)
<1>1. /\ TypeOK /\ CountersAgree /\ OnePlacePerConnection
      /\ TypeOK' /\ OnlyTopInCallback'
  BY DEF IInv
<1>2. Due' = IF Running("callback")' THEN {Top'.query} ELSE {}
  BY <1>1, DueIsTopNext
<1>3. CASE Enqueue(q, rest, base)
  <2>1. ~ Running("callback")' /\ ~ Running("user")'
    BY <1>1, <1>3, SameFramesHold DEF Enqueue
  <2> QED
    BY <1>2, <1>3, <2>1 DEF Enqueue, Queued, Queues
<1>4. CASE Dispatch(q, rest, base)
  <2> DEFINE c == Head(available_conns)
             frame == [conn |-> c, query |-> q, at |-> "callback"]
  <2>1. /\ available_conns \in Seq(Conns)
        /\ available_conns # <<>>
        /\ Distinct(available_conns)
        /\ available_conns' = Tail(available_conns)
        /\ idle_count > 0 /\ pending_queries' = rest
    BY <1>1, <1>4 DEF Dispatch, TakeFront, TypeOK, CountersAgree, OnePlacePerConnection, Distinct
  <2>2. c \in Idle /\ c \in Conns /\ Idle' = Idle \ {c}
    BY <2>1, TailElems DEF Idle
  <2>3. \/ /\ inflight' = [inflight EXCEPT ![c] = q]
           /\ stack' = base
           /\ UNCHANGED <<usable, is_error, failed>>
        \/ /\ is_error' = [is_error EXCEPT ![c] = TRUE]
           /\ stack' = Append(base, frame)
           /\ failed' = failed \cup {q}
           /\ UNCHANGED inflight
    BY <1>4 DEF Dispatch
  <2>4. frame \in Frame
    BY <2>2 DEF Frame
  <2>5. base \in Seq(Frame)
    BY DEF SameFrames
  <2> HIDE DEF c
  <2>6. CASE stack' = base /\ inflight' = [inflight EXCEPT ![c] = q]
                           /\ UNCHANGED <<usable, is_error, failed>>
    <3>1. ~ Running("callback")' /\ ~ Running("user")'
      BY <1>1, <2>6, SameFramesHold
    <3>2. Starts(q, rest, c)
      BY <1>2, <2>1, <2>2, <2>6, <3>1 DEF Starts
    <3> QED
      BY <2>2, <3>1, <3>2
  <2>7. CASE /\ is_error' = [is_error EXCEPT ![c] = TRUE]
             /\ stack' = Append(base, frame)
             /\ failed' = failed \cup {q}
             /\ UNCHANGED inflight
    <3>1. Top' = frame /\ stack' # <<>>
      <4> HIDE DEF frame
      <4> QED
        BY <2>4, <2>5, <2>7 DEF Top
    <3>2. Running("callback")' /\ ~ Running("user")' /\ Top'.conn = c /\ Top'.query = q
      BY <3>1 DEF Running
    <3>3. Fails(q, rest, c)
      BY <1>2, <2>1, <2>2, <2>7, <3>2 DEF Fails
    <3> QED
      BY <2>2, <3>2, <3>3
  <2> QED
    BY <2>3, <2>6, <2>7
<1> QED
  BY <1>3, <1>4 DEF SendQuery

(* sendQuery leaves every query in one place: the one it is called for,    *)
(* new or taken from the front of the queue, and the others.               *)
LEMMA SendQueryPlaces ==
  ASSUME IInv, IInv', OnePlace, FailedAreOver, OwnOutcome, ~ Running("callback"),
         NEW q \in Queries, NEW rest \in Seq(Queries), NEW base,
         SameFrames(base), SendQuery(q, rest, base), UNCHANGED calls,
         Distinct(submitted'), Submitted' = Submitted \cup {q},
         Distinct(rest), Elems(rest) = Pending \ {q},
         q \notin Executing \cup Called \cup failed
  PROVE  OnePlace' /\ FailedAreOver' /\ OwnOutcome'
<1>1. /\ TypeOK /\ TypeOK' /\ OnePlacePerConnection /\ OnePlacePerConnection'
      /\ OnlyTopInCallback
  BY DEF IInv
<1>2. /\ Due = {}
      /\ Called' = Called
  BY <1>1, DueIsTop DEF Called
<1>3. /\ UNCHANGED <<phase, results>>
      /\ Clean = {c \in Conns : phase[c] = "connecting"} \cup Idle \cup Busy
      /\ Clean' = {c \in Conns : phase[c] = "connecting"} \cup Idle' \cup Busy'
  BY DEF SendQuery, Clean
<1>4. /\ ~ Running("user")'
      /\ Running("callback")' => \E c \in Idle : Fails(q, rest, c)
      /\ Queues(q, rest) \/ \E c \in Idle : Starts(q, rest, c) \/ Fails(q, rest, c)
  BY SendQueryMoves
<1>5. Idle \subseteq Conns
  <2>1. available_conns \in Seq(Conns)
    BY <1>1 DEF TypeOK
  <2> QED
    BY ONLY <2>1 DEF Idle, Elems
<1>6. CASE Queues(q, rest)
  <2>1. /\ Pending' = Pending \cup {q}
        /\ Distinct(pending_queries')
    BY <1>6, AppendElems DEF Queues, Pending
  <2>2. Executing' = Executing /\ Busy' = Busy /\ Idle' = Idle /\ Due' = {}
    BY <1>6 DEF Queues, Executing, Busy, Idle
  <2>3. OnePlace'
    BY <1>2, <1>6, <2>1, <2>2 DEF OnePlace, Queues
  <2>4. FailedAreOver'
    BY <1>6, <2>1, <2>2 DEF FailedAreOver, Queues
  <2>5. ~ Running("callback")'
    BY <1>4, <1>6 DEF Queues, Fails
  <2>6. OwnOutcome'
    BY <1>3, <1>4, <1>6, <2>2, <2>5 DEF OwnOutcome, Queues
  <2> QED
    BY <2>3, <2>4, <2>6
<1>7. ASSUME NEW c \in Idle, Starts(q, rest, c) PROVE OnePlace' /\ FailedAreOver' /\ OwnOutcome'
  <2>1. c \in Conns /\ c \notin Busy
    BY <1>1, <1>5 DEF OnePlacePerConnection
  <2>2. Executing' = Executing \cup {q} /\ Busy' = Busy \cup {c}
    BY <1>1, <1>7, <2>1, ExecutingGrows DEF Starts
  <2>3. Pending' = Pending \ {q} /\ Distinct(pending_queries') /\ Due' = {}
    BY <1>7 DEF Starts, Pending
  <2>4. \A d, e \in Busy' : inflight'[d] = inflight'[e] => d = e
    <3>1. \A d \in Busy : inflight[d] \in Executing /\ inflight[d] # q
      BY DEF Executing, Busy
    <3>2. inflight'[c] = q /\ \A d \in Busy : inflight'[d] = inflight[d]
      BY <1>1, <1>7, <2>1 DEF Starts, TypeOK, Busy
    <3> QED
      BY <2>2, <3>1, <3>2 DEF OnePlace
  <2>5. OnePlace'
    BY <1>2, <2>2, <2>3, <2>4 DEF OnePlace
  <2>6. FailedAreOver'
    BY <1>7, <2>2, <2>3 DEF FailedAreOver, Starts
  <2>7. ~ Running("callback")'
    BY <1>1, <1>7, DueIsTopNext DEF Starts, IInv
  <2>8. Clean' \subseteq Clean
    BY <1>3, <1>7, <2>2 DEF Starts
  <2>9. OwnOutcome'
    BY <1>3, <1>4, <1>7, <2>7, <2>8 DEF OwnOutcome, Starts
  <2> QED
    BY <2>5, <2>6, <2>9
<1>8. ASSUME NEW c \in Idle, Fails(q, rest, c) PROVE OnePlace' /\ FailedAreOver' /\ OwnOutcome'
  <2>1. c \in Conns /\ c \notin Busy /\ phase[c] = "connected"
    BY <1>1, <1>5 DEF OnePlacePerConnection
  <2>2. Executing' = Executing /\ Busy' = Busy
    BY <1>8 DEF Fails, Executing, Busy
  <2>3. Pending' = Pending \ {q} /\ Distinct(pending_queries') /\ Due' = {q}
    BY <1>8 DEF Fails, Pending
  <2>4. OnePlace'
    BY <1>2, <1>8, <2>2, <2>3 DEF OnePlace, Fails
  <2>5. FailedAreOver'
    BY <1>8, <2>2, <2>3 DEF FailedAreOver, Fails
  <2>6. Clean' \subseteq Clean \ {c} /\ c \in Clean
    BY <1>3, <1>8, <2>1, <2>2 DEF Fails
  <2>7. is_error'[c] /\ \A d \in Conns : d # c => is_error'[d] = is_error[d]
    BY <1>1, <1>8, <2>1 DEF Fails, TypeOK
  <2>8. Clean' \subseteq Conns
    BY <1>1, <1>3, <1>5, <2>2, <1>8 DEF Fails, Busy
  <2>9. \A d \in Clean' : results'[d] = {} /\ ~ is_error'[d]
    BY <1>3, <2>6, <2>7, <2>8 DEF OwnOutcome
  <2>10. results'[c] = {}
    BY <1>3, <2>6 DEF OwnOutcome
  <2>11. Top'.conn = c /\ Top'.query = q /\ q \in failed'
    BY <1>8 DEF Fails
  <2>12. OwnOutcome'
    BY <2>7, <2>9, <2>10, <2>11 DEF OwnOutcome
  <2> QED
    BY <2>4, <2>5, <2>12
<1> QED
  BY <1>4, <1>6, <1>7, <1>8

(* A step that moves no query.                                             *)
LEMMA QueriesStay ==
  ASSUME OnePlace, FailedAreOver, Due' = Due,
         UNCHANGED <<pending_queries, inflight, submitted, failed, calls>>
  PROVE  OnePlace' /\ FailedAreOver' /\ Submitted' = Submitted /\ Called' = Called
<1>1. /\ Pending' = Pending /\ Submitted' = Submitted /\ Called' = Called
      /\ Executing' = Executing /\ Busy' = Busy
  BY DEF Pending, Submitted, Called, Executing, Busy
<1> QED
  BY <1>1 DEF OnePlace, FailedAreOver

(* The submission of a query never submitted before, by main or by the     *)
(* callback of the query it follows.                                       *)
LEMMA NewQueryStep ==
  ASSUME QueryInv, IInv', ~ Running("callback"),
         NEW q \in Queries, q \notin Submitted, NEW base, SameFrames(base),
         SendQuery(q, pending_queries, base),
         submitted' = Append(submitted, q), UNCHANGED calls,
         \A p \in Queries : p.stmt = "insert" /\ FollowUp(p) = q => p \in Called
  PROVE  QueryInv'
<1>1. /\ IInv /\ TypeOK /\ OnePlace /\ FollowUpsAreNew /\ FailedAreOver /\ OwnOutcome
      /\ pending_queries \in Seq(Queries) /\ submitted \in Seq(Queries)
  BY DEF QueryInv, IInv, TypeOK
<1>2. Distinct(submitted') /\ Submitted' = Submitted \cup {q}
  BY <1>1, AppendElems DEF Submitted, OnePlace
<1>3. Distinct(pending_queries) /\ Elems(pending_queries) = Pending \ {q}
  BY <1>1 DEF OnePlace, Pending
<1>4. q \notin Executing \cup Called \cup failed
  BY <1>1 DEF OnePlace, FailedAreOver
<1>5. OnePlace' /\ FailedAreOver' /\ OwnOutcome'
  BY <1>1, <1>2, <1>3, <1>4, SendQueryPlaces
<1>6. ~ Running("user")'
  BY <1>1, SendQueryMoves
<1>7. Called' = Called
  BY DEF Called
<1>8. FollowUpsAreNew'
  BY <1>1, <1>2, <1>6, <1>7 DEF FollowUpsAreNew
<1> QED
  BY <1>5, <1>8 DEF QueryInv

(* The query at the front of the queue is given to an idle connection.     *)
LEMMA NextQueryStep ==
  ASSUME QueryInv, IInv', ServePending
  PROVE  QueryInv'
<1>1. /\ IInv /\ TypeOK /\ OnlyTopInCallback
      /\ OnePlace /\ FollowUpsAreNew /\ FailedAreOver /\ OwnOutcome
      /\ pending_queries \in Seq(Queries)
  BY DEF QueryInv, IInv, TypeOK
<1> DEFINE q == Head(pending_queries)
<1>2. /\ Running("drain") /\ pending_queries # <<>>
      /\ SendQuery(q, Tail(pending_queries), stack)
      /\ UNCHANGED <<submitted, calls>>
  BY DEF ServePending, MoreToServe, PoppedQueries
<1>3. /\ q \in Pending /\ q \in Queries
      /\ Tail(pending_queries) \in Seq(Queries)
      /\ Distinct(Tail(pending_queries))
      /\ Elems(Tail(pending_queries)) = Pending \ {q}
  BY <1>1, <1>2, TailElems DEF OnePlace, Pending
<1> HIDE DEF q
<1>4. SameFrames(stack) /\ ~ Running("callback")
  BY <1>1, <1>2, BasesAreSameFrames DEF Running
<1>5. q \in Submitted /\ q \notin Executing \cup Called \cup failed
  BY <1>1, <1>3 DEF OnePlace, FailedAreOver
<1>6. Submitted' = Submitted \cup {q} /\ Distinct(submitted') /\ Called' = Called
  BY <1>1, <1>2, <1>5 DEF Submitted, OnePlace, Called
<1>7. OnePlace' /\ FailedAreOver' /\ OwnOutcome'
  BY <1>1, <1>2, <1>3, <1>4, <1>5, <1>6, SendQueryPlaces
<1>8. ~ Running("user")'
  BY <1>1, <1>2, <1>3, <1>4, SendQueryMoves
<1>9. FollowUpsAreNew'
  BY <1>1, <1>5, <1>6, <1>8 DEF FollowUpsAreNew
<1> QED
  BY <1>7, <1>9 DEF QueryInv

(* The answer of a query: from executed to about to be called back.        *)
LEMMA CompleteStep ==
  ASSUME QueryInv, IInv', NEW c \in Conns, NEW outcome \in Outcomes, Complete(c, outcome)
  PROVE  /\ QueryInv'
         /\ Executing' \cup Due' = Executing \cup Due
<1>1. /\ IInv /\ TypeOK /\ OnlyTopInCallback /\ OnePlacePerConnection
      /\ OnePlace /\ FollowUpsAreNew /\ FailedAreOver /\ OwnOutcome
      /\ TypeOK' /\ OnlyTopInCallback'
  BY DEF QueryInv, IInv
<1> DEFINE q == inflight[c]
           frame == [conn |-> c, query |-> q, at |-> "callback"]
<1>2. /\ q \in Queries /\ q # None /\ c \in Busy /\ q \in Executing
      /\ stack = <<>> /\ stack' = <<frame>>
      /\ inflight' = [inflight EXCEPT ![c] = None]
      /\ UNCHANGED <<pending_queries, available_conns, phase, submitted, calls>>
  BY <1>1 DEF Complete, TypeOK, Busy, Executing, poolVars
<1>3. /\ Top' = frame /\ Running("callback")' /\ ~ Running("user")'
      /\ ~ Running("callback") /\ ~ Running("user")
  BY <1>2 DEF Top, Running
<1>4. Top'.conn = c /\ Top'.query = q
  BY <1>3
<1>5. Due = {} /\ Due' = {q}
  BY <1>1, <1>3, <1>4, DueIsTop, DueIsTopNext
<1>6. /\ \/ results' = [results EXCEPT ![c] = @ \cup {q}]
         \/ outcome # "ok" /\ UNCHANGED results
      /\ is_error' = [is_error EXCEPT ![c] = @ \/ outcome # "ok"]
      /\ failed' = IF outcome = "ok" THEN failed ELSE failed \cup {q}
  BY DEF Complete
<1> HIDE DEF q, frame
<1>7. Busy' = Busy \ {c} /\ Idle' = Idle /\ Pending' = Pending
      /\ Submitted' = Submitted /\ Called' = Called
  BY <1>1, <1>2 DEF TypeOK, Busy, Idle, Pending, Submitted, Called
<1>8. Executing' = Executing \ {q}
  <2>1. Executing = {inflight[d] : d \in Busy}
    BY <1>1, ExecutingIsBusy
  <2>2. Executing' = {inflight'[d] : d \in Busy'}
    BY DEF Executing, Busy
  <2>3. \A d \in Busy \ {c} : inflight'[d] = inflight[d] /\ inflight[d] # inflight[c]
    BY <1>1, <1>2 DEF TypeOK, Busy, OnePlace
  <2> QED
    BY <1>2, <1>7, <2>1, <2>2, <2>3 DEF q
<1>9. OnePlace'
  <2>1. \A d, e \in Busy' : inflight'[d] = inflight'[e] => d = e
    BY <1>1, <1>2, <1>7 DEF OnePlace, TypeOK, Busy
  <2> QED
    BY <1>1, <1>2, <1>5, <1>7, <1>8, <2>1 DEF OnePlace
<1>10. FailedAreOver'
  BY <1>1, <1>2, <1>6, <1>7, <1>8 DEF FailedAreOver, OnePlace
<1>11. FollowUpsAreNew'
  BY <1>1, <1>3, <1>7 DEF FollowUpsAreNew
<1>12. c \in Clean /\ results[c] = {} /\ ~ is_error[c] /\ q \notin failed
  BY <1>1, <1>2 DEF OwnOutcome, Clean, FailedAreOver
<1>13. c \notin Idle /\ phase[c] = "connected"
  BY <1>1, <1>2 DEF OnePlacePerConnection
<1>14. Clean' \subseteq Clean \ {c} /\ Clean \subseteq Conns
  <2>1. Idle \subseteq Conns
    BY <1>1 DEF TypeOK, Idle, Elems
  <2> QED
    BY <1>2, <1>7, <1>13, <2>1 DEF Clean, Busy
<1>15. \A d \in Clean' : results'[d] = {} /\ ~ is_error'[d]
  BY <1>1, <1>6, <1>14 DEF OwnOutcome, TypeOK
<1>16. results'[c] \subseteq {q} /\ (q \notin failed' => results'[c] = {q})
  BY <1>1, <1>6, <1>12 DEF TypeOK
<1>17. is_error'[c] = (outcome # "ok")
  <2>1. is_error'[c] = (is_error[c] \/ outcome # "ok")
    BY <1>1, <1>6 DEF TypeOK
  <2> QED
    BY <1>12, <2>1
<1>18. q \in failed' <=> outcome # "ok"
  BY <1>6, <1>12
<1>19. OwnOutcome'
  BY <1>4, <1>15, <1>16, <1>17, <1>18 DEF OwnOutcome
<1> QED
  BY <1>1, <1>2, <1>5, <1>8, <1>9, <1>10, <1>11, <1>19 DEF QueryInv

(* The user's callback is entered: its query has been called back.         *)
LEMMA CallUserStep ==
  ASSUME QueryInv, IInv', CallUser
  PROVE  /\ QueryInv'
         /\ Top.query \in Due
         /\ Executing' \cup Due' = (Executing \cup Due) \ {Top.query}
         /\ Called' = Called \cup {Top.query}
<1>1. /\ IInv /\ TypeOK /\ OnlyTopInCallback
      /\ OnePlace /\ FollowUpsAreNew /\ FailedAreOver /\ OwnOutcome
      /\ TypeOK' /\ OnlyTopInCallback'
  BY DEF QueryInv, IInv
<1> DEFINE q == Top.query
<1>2. /\ Running("callback") /\ stack # <<>> /\ Top.at = "callback"
      /\ stack' = TopAt("user")
      /\ calls' = [calls EXCEPT ![q] = @ + 1]
      /\ UNCHANGED <<pending_queries, available_conns, inflight, submitted, failed,
                     phase, results, is_error>>
  BY DEF CallUser, Running, poolVars, connVars
<1>3. Top'.conn = Top.conn /\ Top'.query = q
  BY <1>1, <1>2, TopAtHold
<1>4. Running("user")' /\ ~ Running("callback")' /\ q \in Queries
  <2>1. /\ Len(stack') = Len(stack) /\ Len(stack) \in DOMAIN stack
        /\ stack'[Len(stack)].at = "user" /\ Top \in Frame
    BY <1>1, <1>2, TopAtFrames DEF TypeOK
  <2>2. Top'.at = "user" /\ stack' # <<>>
    BY <1>1, <1>2, <2>1 DEF Top, TypeOK
  <2> QED
    BY <2>1, <2>2 DEF Running, Frame
<1>5. Due = {q} /\ Due' = {}
  BY <1>1, <1>2, <1>4, DueIsTop, DueIsTopNext
<1> HIDE DEF q
<1>6. calls[q] = 0
  BY <1>1, <1>4, <1>5 DEF OnePlace, Called
<1>7. /\ calls'[q] = 1
      /\ \A p \in Queries : p # q => calls'[p] = calls[p]
  BY <1>1, <1>2, <1>4, <1>6 DEF TypeOK
<1>8. Called' = Called \cup {q}
  BY <1>4, <1>7 DEF Called
<1>9. /\ Pending' = Pending /\ Submitted' = Submitted /\ Executing' = Executing
      /\ Busy' = Busy /\ Clean' = Clean
  BY <1>2 DEF Pending, Submitted, Executing, Busy, Clean, Idle
<1>10. \A p \in Queries : calls'[p] \in {0, 1}
  BY <1>1, <1>7 DEF OnePlace
<1>11. OnePlace'
  BY <1>1, <1>2, <1>5, <1>8, <1>9, <1>10 DEF OnePlace
<1>12. FailedAreOver'
  BY <1>1, <1>2, <1>9 DEF FailedAreOver
<1>13. FollowUpsAreNew'
  <2>1. q \notin Called
    BY <1>1, <1>5 DEF OnePlace
  <2> QED
    BY <1>1, <1>3, <1>8, <1>9, <2>1 DEF FollowUpsAreNew
<1>14. OwnOutcome'
  BY <1>1, <1>2, <1>3, <1>9 DEF OwnOutcome, q
<1>15. Executing' \cup Due' = (Executing \cup Due) \ {q}
  BY <1>1, <1>5, <1>9 DEF OnePlace
<1> QED
  BY <1>1, <1>5, <1>8, <1>11, <1>12, <1>13, <1>14, <1>15 DEF QueryInv, q

(* The user's callback submits the query that follows its own.             *)
LEMMA UserChainsStep ==
  ASSUME QueryInv, IInv', UserChains
  PROVE  /\ QueryInv'
         /\ \E q \in Queries :
              /\ q \notin Submitted
              /\ SendQuery(q, pending_queries, TopAt("recycle"))
              /\ SameFrames(TopAt("recycle"))
<1>1. /\ IInv /\ TypeOK /\ OnlyTopInCallback /\ ParentIsClient
      /\ FollowUpsAreNew
  BY DEF QueryInv, IInv
<1> DEFINE next == [FollowUp(Top.query) EXCEPT !.client = parent[Top.conn]]
<1>2. /\ Running("user") /\ Top.query.stmt = "insert"
      /\ submitted' = Append(submitted, next)
      /\ SendQuery(next, pending_queries, TopAt("recycle"))
      /\ UNCHANGED calls
  BY DEF UserChains
<1>3. stack # <<>> /\ Top \in Frame /\ ~ Running("callback")
  <2>1. stack # <<>> /\ ~ Running("callback")
    BY <1>2 DEF Running
  <2> QED
    BY <1>1, <2>1, TopAtFrames DEF TypeOK
<1>4. Top.query \in Queries /\ parent[Top.conn] = Top.query.client
  BY <1>1, <1>2, <1>3 DEF ParentIsClient, Frame
<1>5. next = FollowUp(Top.query) /\ next \in Queries
  BY <1>4 DEF FollowUp, Queries
<1> HIDE DEF next
<1>6. next \notin Submitted
  BY <1>1, <1>2, <1>4, <1>5 DEF FollowUpsAreNew
<1>7. SameFrames(TopAt("recycle"))
  BY <1>1, <1>2, BasesAreSameFrames
<1>8. \A p \in Queries : p.stmt = "insert" /\ FollowUp(p) = next => p \in Called
  <2> SUFFICES ASSUME NEW p \in Queries, p.stmt = "insert", FollowUp(p) = next
               PROVE  p \in Called
    OBVIOUS
  <2>1. p = Top.query
    BY <1>2, <1>4, <1>5 DEF FollowUp, Queries
  <2> QED
    BY <1>1, <1>2, <2>1 DEF FollowUpsAreNew
<1>9. QueryInv'
  BY <1>2, <1>3, <1>5, <1>6, <1>7, <1>8, NewQueryStep
<1> QED
  BY <1>2, <1>5, <1>6, <1>7, <1>9

(* main submits the first query of a client it has not heard of.           *)
LEMMA SubmitStep ==
  ASSUME QueryInv, IInv', NEW cl \in Clients, Submit(cl)
  PROVE  /\ QueryInv'
         /\ First(cl) \in Queries /\ First(cl) \notin Submitted
         /\ SameFrames(stack) /\ ~ Running("callback")
<1>1. First(cl) \in Queries /\ First(cl).stmt = "insert"
  BY DEF First, Queries
<1>2. IInv /\ TypeOK /\ OnlyTopInCallback
  BY DEF QueryInv, IInv
<1>3. /\ stack = <<>> /\ First(cl) \notin Submitted
      /\ SendQuery(First(cl), pending_queries, stack)
      /\ submitted' = Append(submitted, First(cl))
      /\ UNCHANGED calls
  BY DEF Submit, Submitted
<1>4. SameFrames(stack) /\ ~ Running("callback")
  BY <1>2, <1>3, BasesAreSameFrames DEF Running
<1>5. \A p \in Queries : p.stmt = "insert" /\ FollowUp(p) = First(cl) => p \in Called
  BY DEF FollowUp, First, Queries
<1>6. QueryInv'
  BY <1>1, <1>3, <1>4, <1>5, NewQueryStep
<1> QED
  BY <1>1, <1>3, <1>4, <1>6

(* A connection comes up, or fails.                                        *)
LEMMA ConnectStep ==
  ASSUME QueryInv, IInv', NEW c \in Conns, ConnectDone(c) \/ ConnectFailed(c)
  PROVE  /\ QueryInv'
         /\ UNCHANGED <<pending_queries, inflight, stack, calls>>
<1>1. /\ IInv /\ TypeOK /\ OnePlacePerConnection
      /\ OnePlace /\ FollowUpsAreNew /\ FailedAreOver /\ OwnOutcome
  BY DEF QueryInv, IInv
<1>2. /\ stack = <<>> /\ phase[c] = "connecting"
      /\ UNCHANGED <<pending_queries, inflight, stack, submitted, failed, calls, results>>
  BY DEF ConnectDone, ConnectFailed, poolVars, history
<1>3. Due' = Due /\ ~ Running("user")' /\ ~ Running("callback")' /\ Busy' = Busy
  BY <1>2 DEF Due, Running, Busy
<1>4. OnePlace' /\ FailedAreOver' /\ Submitted' = Submitted /\ Called' = Called
  BY <1>1, <1>2, <1>3, QueriesStay
<1>5. FollowUpsAreNew'
  BY <1>1, <1>3, <1>4 DEF FollowUpsAreNew
<1>6. c \notin Idle /\ c \notin Busy /\ c \in Clean
  BY <1>1, <1>2 DEF OnePlacePerConnection, Clean
<1>7. CASE ConnectDone(c)
  <2>1. Idle' = Idle \cup {c}
    BY <1>1, <1>7, AppendElems DEF ConnectDone, TypeOK, Idle
  <2>2. Clean' \subseteq Clean
    BY <1>1, <1>3, <1>6, <1>7, <2>1 DEF Clean, ConnectDone, TypeOK
  <2>3. is_error' = is_error
    BY <1>7 DEF ConnectDone
  <2>4. OwnOutcome'
    BY <1>1, <1>2, <1>3, <2>2, <2>3 DEF OwnOutcome
  <2> QED
    BY <1>1, <1>2, <1>4, <1>5, <2>4 DEF QueryInv
<1>8. CASE ConnectFailed(c)
  <2>1. Idle' = Idle
    BY <1>8 DEF ConnectFailed, poolVars, Idle
  <2>2. Clean' \subseteq Clean \ {c} /\ Clean \subseteq Conns
    <3>1. Idle \subseteq Conns
      BY <1>1 DEF TypeOK, Idle, Elems
    <3> QED
      BY <1>1, <1>3, <1>6, <1>8, <2>1, <3>1 DEF Clean, ConnectFailed, TypeOK, Busy
  <2>3. \A d \in Conns \ {c} : is_error'[d] = is_error[d]
    BY <1>1, <1>8 DEF ConnectFailed, TypeOK
  <2>4. OwnOutcome'
    BY <1>1, <1>2, <1>3, <2>2, <2>3 DEF OwnOutcome
  <2> QED
    BY <1>1, <1>2, <1>4, <1>5, <2>4 DEF QueryInv
<1> QED
  BY <1>7, <1>8

(* The innermost activation goes on to recycle its connection, or to serve *)
(* what is pending, or returns: no query moves.                            *)
LEMMA ReturnsStep ==
  ASSUME QueryInv, IInv', UserReturns \/ Recycle \/ Finish
  PROVE  /\ QueryInv'
         /\ Due' = Due /\ UNCHANGED <<pending_queries, inflight, calls>>
<1>1. /\ IInv /\ TypeOK /\ OnlyTopInCallback /\ OnePlacePerConnection
      /\ OnePlace /\ FollowUpsAreNew /\ FailedAreOver /\ OwnOutcome
      /\ TypeOK' /\ OnlyTopInCallback'
  BY DEF QueryInv, IInv
<1>2. UNCHANGED <<pending_queries, inflight, submitted, failed, calls, phase>>
  BY DEF UserReturns, Recycle, ResetConnection, GiveBack, Finish, poolVars, connVars, history
<1>3. ~ Running("callback") /\ stack # <<>>
  BY DEF UserReturns, Recycle, ResetConnection, GiveBack, Finish, Running
<1>4. Len(stack) \in Nat \ {0} /\ DOMAIN stack = 1..Len(stack) /\ Top \in Frame
  <2>1. stack \in Seq(Frame)
    BY <1>1 DEF TypeOK
  <2> QED
    BY ONLY <1>3, <2>1 DEF Top
<1>5. ~ Running("callback")' /\ ~ Running("user")'
  <2>1. CASE UserReturns \/ Recycle
    <3>1. PICK loc \in {"recycle", "drain"} : stack' = TopAt(loc)
      BY <2>1 DEF UserReturns, Recycle, ResetConnection, GiveBack
    <3>2. Len(stack') = Len(stack) /\ stack'[Len(stack)].at = loc
      BY <1>1, <1>3, <3>1, TopAtFrames DEF TypeOK
    <3>3. Top'.at = loc
      BY <3>2 DEF Top
    <3> QED
      BY <3>3 DEF Running
  <2>2. CASE Finish
    <3>1. stack' = SubSeq(stack, 1, Len(stack) - 1)
      BY <2>2 DEF Finish
    <3>2. /\ Len(stack') = Len(stack) - 1
          /\ \A i \in 1..(Len(stack) - 1) : stack'[i] = stack[i]
      BY <1>1, <1>4, <3>1 DEF TypeOK
    <3>3. stack' # <<>> => Len(stack') \in 1..(Len(stack) - 1)
      BY <1>1, <1>4, <3>2 DEF TypeOK
    <3>4. stack' # <<>> => Top'.at \in {"recycle", "drain"}
      BY <1>1, <1>4, <3>2, <3>3 DEF Top, OnlyTopInCallback
    <3> QED
      BY <3>4 DEF Running
  <2> QED
    BY <2>1, <2>2
<1>6. Due = {} /\ Due' = {}
  BY <1>1, <1>3, <1>5, DueIsTop, DueIsTopNext
<1>7. /\ OnePlace' /\ FailedAreOver' /\ Submitted' = Submitted /\ Called' = Called
      /\ Busy' = Busy
  BY <1>1, <1>2, <1>6, QueriesStay DEF Busy
<1>8. FollowUpsAreNew'
  BY <1>1, <1>5, <1>7 DEF FollowUpsAreNew
<1>9. CASE UserReturns \/ Finish
  <2>1. UNCHANGED <<available_conns, results, is_error>>
    BY <1>9 DEF UserReturns, Finish, poolVars, connVars
  <2>2. Clean' = Clean
    BY <1>2, <1>7, <2>1 DEF Clean, Idle
  <2>3. OwnOutcome'
    BY <1>1, <1>5, <2>1, <2>2 DEF OwnOutcome
  <2> QED
    BY <1>2, <1>6, <1>7, <1>8, <2>3 DEF QueryInv
<1>10. CASE Recycle
  <2> DEFINE c == Top.conn
  <2>1. /\ results' = [results EXCEPT ![c] = {}]
        /\ is_error' = [is_error EXCEPT ![c] = FALSE]
        /\ available_conns' = Append(available_conns, c)
    BY <1>10 DEF Recycle, ResetConnection, GiveBack
  <2>2. c \in Conns
    BY <1>4 DEF Frame
  <2> HIDE DEF c
  <2>3. Idle' = Idle \cup {c}
    BY <1>1, <2>1, <2>2, AppendElems DEF TypeOK, Idle
  <2>4. Clean' = Clean \cup {c}
    BY <1>2, <1>7, <2>3 DEF Clean
  <2>5. Clean \subseteq Conns
    BY <1>1 DEF Clean, Idle, Elems, Busy, TypeOK
  <2>6. /\ results'[c] = {} /\ ~ is_error'[c]
        /\ \A d \in Conns : d # c => results'[d] = results[d] /\ is_error'[d] = is_error[d]
    BY <1>1, <2>1, <2>2 DEF TypeOK
  <2>7. OwnOutcome'
    BY <1>1, <1>5, <2>4, <2>5, <2>6 DEF OwnOutcome
  <2> QED
    BY <1>2, <1>6, <1>7, <1>8, <2>7 DEF QueryInv
<1> QED
  BY <1>9, <1>10

(* No query has been submitted.                                            *)
LEMMA QueryInvInit ==
  ASSUME IInv, QuietInit
  PROVE  QueryInv
<1>1. /\ pending_queries = <<>> /\ submitted = <<>> /\ stack = <<>> /\ failed = {}
      /\ inflight = [c \in Conns |-> None]
      /\ is_error = [c \in Conns |-> FALSE]
      /\ results = [c \in Conns |-> {}]
      /\ calls = [q \in Queries |-> 0]
  BY DEF QuietInit
<1>2. /\ Pending = {} /\ Submitted = {} /\ Executing = {} /\ Busy = {} /\ Called = {}
      /\ Due = {}
  BY <1>1 DEF Pending, Submitted, Elems, Executing, Busy, Called, Due
<1>3. OnePlace
  BY <1>1, <1>2 DEF OnePlace, Distinct
<1>4. FollowUpsAreNew /\ FailedAreOver
  BY <1>1, <1>2 DEF FollowUpsAreNew, FailedAreOver, Running
<1>5. Clean \subseteq Conns
  BY <1>2 DEF Clean, IInv, TypeOK, Idle, Elems
<1>6. OwnOutcome
  BY <1>1, <1>5 DEF OwnOutcome, Running
<1> QED
  BY <1>3, <1>4, <1>6 DEF QueryInv

(* One step per action, from the lemmas above.                             *)
LEMMA QueryInvStep == QueryInv /\ [Next]_vars => QueryInv'
<1> SUFFICES ASSUME QueryInv, [Next]_vars PROVE QueryInv'
  OBVIOUS
<1>0. IInv'
  BY IInvStep DEF QueryInv
<1>1. ASSUME NEW c \in Conns, ConnectDone(c) \/ ConnectFailed(c) PROVE QueryInv'
  BY <1>0, <1>1, ConnectStep
<1>2. ASSUME NEW c \in Conns, NEW outcome \in Outcomes, Complete(c, outcome) PROVE QueryInv'
  BY <1>0, <1>2, CompleteStep
<1>3. ASSUME NEW cl \in Clients, Submit(cl) PROVE QueryInv'
  BY <1>0, <1>3, SubmitStep
<1>4. CASE CallUser
  BY <1>0, <1>4, CallUserStep
<1>5. CASE UserChains
  BY <1>0, <1>5, UserChainsStep
<1>6. CASE UserReturns \/ Recycle \/ Finish
  BY <1>0, <1>6, ReturnsStep
<1>7. CASE ServePending
  BY <1>0, <1>7, NextQueryStep
<1>8. CASE UNCHANGED vars
  <2>1. UNCHANGED <<pending_queries, available_conns, phase, is_error, results, inflight,
                    stack, submitted, failed, calls>>
    BY <1>8 DEF vars, poolVars, connVars, history
  <2>2. Due' = Due /\ Clean' = Clean /\ UNCHANGED Top
        /\ Running("user")' = Running("user") /\ Running("callback")' = Running("callback")
    BY <2>1 DEF Due, Clean, Idle, Busy, Top, Running
  <2>3. OnePlace' /\ FailedAreOver' /\ Submitted' = Submitted /\ Called' = Called
    BY <2>1, <2>2, QueriesStay DEF QueryInv
  <2>4. FollowUpsAreNew'
    BY <2>2, <2>3 DEF QueryInv, FollowUpsAreNew
  <2>5. OwnOutcome'
    BY <2>1, <2>2 DEF QueryInv, OwnOutcome
  <2> QED
    BY <1>0, <2>3, <2>4, <2>5 DEF QueryInv
<1> QED
  BY <1>1, <1>2, <1>3, <1>4, <1>5, <1>6, <1>7, <1>8 DEF Next, Answer, Thread

(* The invariant of every pool, from the constructor on.                   *)
LEMMA QueryInvHolds == Spec => []QueryInv
<1>1. Init => QueryInv
  BY IInvInit, QueryInvInit DEF Init
<1> QED
  BY <1>1, QueryInvStep, PTL DEF Spec

(* Every query passed to sendQuery is, until its callback runs, pending,   *)
(* executed or about to be called back, once, and its callback never runs  *)
(* twice, whatever fails and however deep the callbacks nest               *)
(* (db_pooler.h:64-98).                                                    *)
THEOREM QueriesConserved == Spec => []OnePlacePerQuery
<1>1. QueryInv => OnePlacePerQuery
  <2> SUFFICES ASSUME QueryInv, NEW q \in Queries
               PROVE  Cardinality({i \in DOMAIN pending_queries : pending_queries[i] = q})
                        + Cardinality({c \in Conns : inflight[c] = q})
                        + Cardinality({i \in DOMAIN stack :
                                         stack[i].query = q /\ stack[i].at = "callback"})
                        + calls[q]
                        = Cardinality({i \in DOMAIN submitted : submitted[i] = q})
    BY DEF OnePlacePerQuery, Count, Positions
  <2>1. /\ TypeOK /\ OnlyTopInCallback /\ OnePlace
        /\ pending_queries \in Seq(Queries) /\ submitted \in Seq(Queries)
    BY DEF QueryInv, IInv, TypeOK
  <2>2. Cardinality({i \in DOMAIN pending_queries : pending_queries[i] = q})
          = IF q \in Pending THEN 1 ELSE 0
    BY <2>1, CountDistinct DEF OnePlace, Pending
  <2>3. Cardinality({i \in DOMAIN submitted : submitted[i] = q})
          = IF q \in Submitted THEN 1 ELSE 0
    BY <2>1, CountDistinct DEF OnePlace, Submitted
  <2>4. Cardinality({c \in Conns : inflight[c] = q}) = IF q \in Executing THEN 1 ELSE 0
    <3>1. q # None
      BY PoolAssumption DEF Queries
    <3>2. CASE q \in Executing
      <4>1. PICK c \in Conns : inflight[c] = q
        BY <3>2 DEF Executing
      <4>2. {d \in Conns : inflight[d] = q} = {c}
        BY <2>1, <3>1, <4>1 DEF OnePlace, Busy
      <4> QED
        BY <3>2, <4>2, FS_Singleton
    <3>3. CASE q \notin Executing
      <4>1. {d \in Conns : inflight[d] = q} = {}
        BY <3>1, <3>3 DEF Executing
      <4> QED
        BY <3>3, <4>1, FS_EmptySet
    <3> QED
      BY <3>2, <3>3
  <2>5. Cardinality({i \in DOMAIN stack : stack[i].query = q /\ stack[i].at = "callback"})
          = IF q \in Due THEN 1 ELSE 0
    <3>1. {i \in DOMAIN stack : stack[i].at = "callback"} =
            IF Running("callback") THEN {Len(stack)} ELSE {}
      BY <2>1, OnlyTopDue DEF TypeOK, OnlyTopInCallback, Running, Top
    <3>2. CASE q \in Due
      <4>1. Running("callback") /\ Top.query = q
        BY <2>1, <3>2, DueIsTop
      <4>2. {i \in DOMAIN stack : stack[i].query = q /\ stack[i].at = "callback"} = {Len(stack)}
        BY <3>1, <4>1 DEF Top
      <4> QED
        BY <3>2, <4>2, FS_Singleton
    <3>3. CASE q \notin Due
      <4>1. {i \in DOMAIN stack : stack[i].query = q /\ stack[i].at = "callback"} = {}
        BY <3>3 DEF Due
      <4> QED
        BY <3>3, <4>1, FS_EmptySet
    <3> QED
      BY <3>2, <3>3
  <2>6. calls[q] = IF q \in Called THEN 1 ELSE 0
    BY <2>1 DEF OnePlace, Called
  <2> QED
    BY <2>1, <2>2, <2>3, <2>4, <2>5, <2>6 DEF OnePlace
<1> QED
  BY QueryInvHolds, <1>1, PTL

(* A user's callback is given a connection that carries its query's client *)
(* and outcome, and the rows of no other query (db_pooler.h:77-79;         *)
(* db_connection_type.h:244-248).                                          *)
THEOREM OwnConnection == Spec => []CallbackSeesOwnQuery
<1>1. QueryInv => CallbackSeesOwnQuery
  BY DEF QueryInv, IInv, ParentIsClient, OwnOutcome, CallbackSeesOwnQuery
<1> QED
  BY QueryInvHolds, <1>1, PTL

-----------------------------------------------------------------------------
(* The pool that was ready first is a QueryService.                        *)

(* A connection is idle and no query is about to be called back: fewer     *)
(* queries are executed than there are connections.                        *)
LEMMA SlotIsFree ==
  ASSUME QueryInv, idle_count > 0, Due = {}
  PROVE  Service!SlotFree
<1>1. /\ TypeOK /\ CountersAgree /\ OnePlacePerConnection
  BY DEF QueryInv, IInv
<1>2. PICK c \in Idle : TRUE
  <2>1. available_conns \in Seq(Conns) /\ Len(available_conns) > 0
    BY <1>1 DEF TypeOK, CountersAgree
  <2>2. 1 \in DOMAIN available_conns
    BY <2>1
  <2> QED
    BY <2>2 DEF Idle, Elems
<1>3. c \in Conns /\ c \notin Busy
  BY <1>1, <1>2 DEF TypeOK, OnePlacePerConnection, Idle, Elems
<1>4. /\ IsFiniteSet(Conns \ {c})
      /\ Cardinality(Conns \ {c}) = PoolSize - 1
      /\ PoolSize \in Nat
  BY <1>3, PoolAssumption, PoolSizeType, FS_RemoveElement DEF PoolSize
<1>5. Busy \in SUBSET (Conns \ {c})
  BY <1>3 DEF Busy
<1>6. IsFiniteSet(Busy) /\ Cardinality(Busy) <= PoolSize - 1 /\ Cardinality(Busy) \in Nat
  BY <1>4, <1>5, FS_Subset, FS_CardinalityType
<1> DEFINE f == [d \in Busy |-> inflight[d]]
<1>7. f \in Surjection(Busy, Executing)
  <2>1. Executing = {inflight[d] : d \in Busy}
    BY <1>1, ExecutingIsBusy
  <2> QED
    BY <2>1 DEF Surjection
<1>8. Cardinality(Executing) <= Cardinality(Busy) /\ Cardinality(Executing) \in Nat
  BY <1>6, <1>7, FS_Surjection, FS_CardinalityType
<1>9. Executing \cup Due = Executing
  OBVIOUS
<1>10. Cardinality(Executing) < PoolSize
  BY <1>4, <1>6, <1>8
<1>11. \A S : Service!Cardinality(S) = Cardinality(S)
  BY DEF Service!Cardinality, Cardinality
<1> QED
  BY <1>9, <1>10, <1>11 DEF Service!SlotFree

(* What the service knows of is what was submitted.                        *)
LEMMA ServiceKnows ==
  ASSUME QueryInv
  PROVE  /\ Service!Unknown = Queries \ Submitted
         /\ {q \in Queries : calls[q] > 0} = Called
<1>1. OnePlace
  BY DEF QueryInv
<1>2. {q \in Queries : calls[q] > 0} = Called
  BY <1>1 DEF OnePlace, Called
<1> QED
  BY <1>1, <1>2 DEF Service!Unknown, Service!Waiting, Pending, Elems, OnePlace

(* A new query is submitted to the service, or starts at once, in which    *)
(* case no other was waiting.                                              *)
LEMMA ServiceSubmits ==
  ASSUME QueryInv, QueryInv', ~ Running("callback"),
         pending_queries = <<>> \/ idle_count = 0,
         NEW q \in Queries, q \notin Submitted, NEW base, SameFrames(base),
         SendQuery(q, pending_queries, base), UNCHANGED calls
  PROVE  Service!Submit(q) \/ Service!SubmitAndStart(q)
<1>1. /\ IInv /\ IInv' /\ TypeOK /\ OnlyTopInCallback /\ OnePlacePerConnection
  BY DEF QueryInv, IInv
<1>2. q \in Service!Unknown
  BY ServiceKnows
<1>3. Due = {}
  BY <1>1, DueIsTop
<1>4. CASE Queues(q, pending_queries)
  <2>1. Executing' = Executing /\ Due' = Due
    BY <1>3, <1>4 DEF Queues, Executing
  <2> QED
    BY <1>2, <1>4, <2>1 DEF Queues, Service!Submit
<1>5. ASSUME NEW c \in Idle, Starts(q, pending_queries, c) \/ Fails(q, pending_queries, c)
      PROVE  Service!SubmitAndStart(q)
  <2>1. idle_count > 0 /\ pending_queries' = pending_queries
    BY <1>5 DEF Starts, Fails
  <2>2. Service!SlotFree
    BY <1>3, <2>1, SlotIsFree
  <2>3. c \in Conns /\ c \notin Busy
    BY <1>1 DEF TypeOK, OnePlacePerConnection, Idle, Elems
  <2>4. Executing' \cup Due' = Executing \cup Due \cup {q}
    <3>1. CASE Starts(q, pending_queries, c)
      <4>1. Executing' = Executing \cup {q}
        BY <1>1, <2>3, <3>1, ExecutingGrows DEF Starts
      <4> QED
        BY <1>3, <3>1, <4>1 DEF Starts
    <3>2. CASE Fails(q, pending_queries, c)
      <4>1. Executing' = Executing /\ Due' = {q}
        BY <3>2 DEF Fails, Executing
      <4> QED
        BY <1>3, <4>1
    <3> QED
      BY <1>5, <3>1, <3>2
  <2>5. idle_count # 0
    BY <2>1
  <2> QED
    BY <1>2, <2>1, <2>2, <2>4, <2>5 DEF Service!SubmitAndStart
<1> QED
  BY <1>1, <1>4, <1>5, SendQueryMoves

(* The query at the front of the queue starts.                             *)
LEMMA ServiceStarts ==
  ASSUME QueryInv, QueryInv', ServePending
  PROVE  Service!Start
<1>1. /\ IInv /\ IInv' /\ TypeOK /\ OnlyTopInCallback /\ OnePlacePerConnection
      /\ pending_queries \in Seq(Queries)
  BY DEF QueryInv, IInv, TypeOK
<1> DEFINE q == Head(pending_queries)
           rest == Tail(pending_queries)
<1>2. /\ Running("drain") /\ idle_count > 0 /\ pending_queries # <<>>
      /\ SendQuery(q, rest, stack)
      /\ UNCHANGED calls
  BY DEF ServePending, MoreToServe, PoppedQueries
<1>3. q \in Queries /\ SameFrames(stack) /\ ~ Running("callback")
  BY <1>1, <1>2, BasesAreSameFrames DEF Running
<1>4. Due = {}
  BY <1>1, <1>3, DueIsTop
<1>5. Service!SlotFree
  BY <1>2, <1>4, SlotIsFree
<1>6. idle_count # 0
  BY <1>2
<1> HIDE DEF q, rest
<1>7. PICK c \in Idle : Starts(q, rest, c) \/ Fails(q, rest, c)
  <2>1. ~ Queues(q, rest)
    BY <1>6 DEF Queues
  <2> QED
    BY <1>1, <1>2, <1>3, <2>1, SendQueryMoves
<1>8. c \in Conns /\ c \notin Busy
  BY <1>1 DEF TypeOK, OnePlacePerConnection, Idle, Elems
<1>9. pending_queries' = rest
  BY <1>7 DEF Starts, Fails
<1>10. Executing' \cup Due' = Executing \cup Due \cup {q}
  <2>1. CASE Starts(q, rest, c)
    <3>1. Executing' = Executing \cup {q}
      BY <1>1, <1>3, <1>8, <2>1, ExecutingGrows DEF Starts
    <3> QED
      BY <1>4, <2>1, <3>1 DEF Starts
  <2>2. CASE Fails(q, rest, c)
    <3>1. Executing' = Executing /\ Due' = {q}
      BY <2>2 DEF Fails, Executing
    <3> QED
      BY <1>4, <3>1
  <2> QED
    BY <1>7, <2>1, <2>2
<1> QED
  BY <1>2, <1>5, <1>9, <1>10 DEF Service!Start, q, rest

(* Every step of the pool is a step of the service or leaves it as it is.  *)
LEMMA ServiceStep ==
  IInvWarm /\ QueryInv /\ QueryInv' /\ [Next]_vars => [Service!Next]_(Service!vars)
<1> SUFFICES ASSUME IInvWarm, QueryInv, QueryInv', [Next]_vars
             PROVE  [Service!Next]_(Service!vars)
  OBVIOUS
<1>0. /\ IInv /\ IInv' /\ NoStrandedQuery /\ SubmitterSeesQueueServed
  BY DEF IInvWarm, QueryInv
<1>a. ASSUME pending_queries' = pending_queries,
             Executing' \cup Due' = Executing \cup Due, Called' = Called
      PROVE  UNCHANGED Service!vars
  <2>1. {q \in Queries : calls[q] > 0} = Called
    BY ServiceKnows
  <2>2. {q \in Queries : calls'[q] > 0} = Called'
    BY DEF QueryInv, OnePlace, Called
  <2> QED
    BY <1>a, <2>1, <2>2 DEF Service!vars
<1>1. ASSUME NEW c \in Conns, ConnectDone(c) \/ ConnectFailed(c) PROVE UNCHANGED Service!vars
  <2>1. UNCHANGED <<pending_queries, inflight, stack, calls>>
    BY <1>0, <1>1, ConnectStep
  <2>2. Executing' = Executing /\ Due' = Due /\ Called' = Called
    BY <2>1 DEF Executing, Due, Called
  <2> QED
    BY <1>a, <2>1, <2>2
<1>2. ASSUME NEW c \in Conns, NEW outcome \in Outcomes, Complete(c, outcome)
      PROVE  UNCHANGED Service!vars
  <2>1. Executing' \cup Due' = Executing \cup Due
    BY <1>0, <1>2, CompleteStep
  <2>2. UNCHANGED <<pending_queries, calls>>
    BY <1>2 DEF Complete, poolVars
  <2> QED
    BY <1>a, <2>1, <2>2 DEF Called
<1>3. ASSUME NEW cl \in Clients, Submit(cl) PROVE Service!Next
  <2> DEFINE q == First(cl)
  <2>1. /\ q \in Queries /\ q \notin Submitted /\ SameFrames(stack) /\ ~ Running("callback")
    BY <1>0, <1>3, SubmitStep
  <2>2. /\ stack = <<>> /\ SendQuery(q, pending_queries, stack) /\ UNCHANGED calls
    BY <1>3 DEF Submit
  <2> HIDE DEF q
  <2>3. pending_queries = <<>> \/ idle_count = 0
    BY <1>0, <2>2 DEF NoStrandedQuery
  <2>4. Service!Submit(q) \/ Service!SubmitAndStart(q)
    BY <2>1, <2>2, <2>3, ServiceSubmits
  <2> QED
    BY <2>1, <2>4 DEF Service!Next
<1>4. CASE CallUser
  <2>1. PICK q \in Queries : q = Top.query
    <3>1. Top.query \in Due
      BY <1>0, <1>4, CallUserStep
    <3>2. OnePlace /\ submitted \in Seq(Queries)
      BY DEF QueryInv, IInv, TypeOK
    <3>3. Submitted \subseteq Queries
      BY <3>2 DEF Submitted, Elems
    <3> QED
      BY <3>1, <3>2, <3>3 DEF OnePlace
  <2>2. pending_queries' = pending_queries
    BY <1>4 DEF CallUser, poolVars
  <2>3. /\ q \in Due
        /\ Executing' \cup Due' = (Executing \cup Due) \ {q}
        /\ Called' = Called \cup {q}
    BY <1>0, <1>4, <2>1, CallUserStep
  <2>4. {p \in Queries : calls'[p] > 0} = {p \in Queries : calls[p] > 0} \cup {q}
    <3>1. {p \in Queries : calls[p] > 0} = Called
      BY ServiceKnows
    <3>2. {p \in Queries : calls'[p] > 0} = Called'
      BY DEF QueryInv, OnePlace, Called
    <3> QED
      BY <2>3, <3>1, <3>2
  <2>5. Service!Answer(q)
    BY <2>2, <2>3, <2>4 DEF Service!Answer
  <2> QED
    BY <2>5 DEF Service!Next
<1>5. CASE UserChains
  <2>1. PICK q \in Queries : /\ q \notin Submitted
                             /\ SendQuery(q, pending_queries, TopAt("recycle"))
                             /\ SameFrames(TopAt("recycle"))
    BY <1>0, <1>5, UserChainsStep
  <2>2. ~ Running("callback") /\ UNCHANGED calls
    BY <1>5 DEF UserChains, Running
  <2>3. pending_queries = <<>> \/ idle_count = 0
    BY <1>0, <1>5 DEF UserChains, SubmitterSeesQueueServed
  <2>4. Service!Submit(q) \/ Service!SubmitAndStart(q)
    BY <2>1, <2>2, <2>3, ServiceSubmits
  <2> QED
    BY <2>1, <2>4 DEF Service!Next
<1>6. CASE UserReturns \/ Recycle \/ Finish
  <2>1. Due' = Due /\ UNCHANGED <<pending_queries, inflight, calls>>
    BY <1>0, <1>6, ReturnsStep
  <2>2. Executing' = Executing /\ Called' = Called
    BY <2>1 DEF Executing, Called
  <2> QED
    BY <1>a, <2>1, <2>2
<1>7. CASE ServePending
  BY <1>7, ServiceStarts DEF Service!Next
<1>8. CASE UNCHANGED vars
  <2>1. UNCHANGED <<pending_queries, inflight, stack, calls>>
    BY <1>8 DEF vars, poolVars, connVars, history
  <2>2. Executing' = Executing /\ Due' = Due /\ Called' = Called
    BY <2>1 DEF Executing, Due, Called
  <2> QED
    BY <1>a, <2>1, <2>2
<1> QED
  BY <1>1, <1>2, <1>3, <1>4, <1>5, <1>6, <1>7, <1>8 DEF Next, Answer, Thread

(* A ready pool is a service nobody has asked anything yet.                *)
LEMMA ServiceInit == WarmInit => QueryInv /\ Service!Init
<1> SUFFICES ASSUME WarmInit PROVE QueryInv /\ Service!Init
  OBVIOUS
<1>1. QueryInv
  BY IInvWarmInit, QueryInvInit DEF WarmInit, IInvWarm
<1>2. Due = {} /\ Executing = {} /\ pending_queries = <<>>
  BY DEF WarmInit, QuietInit, Due, Executing
<1>3. {q \in Queries : calls[q] > 0} = {}
  BY DEF WarmInit, QuietInit
<1> QED
  BY <1>1, <1>2, <1>3 DEF Service!Init

(* A pool whose connections were up before its first query implements the  *)
(* safety part of QueryService: at most one query per connection is        *)
(* executed at a time, queries start in the order of their submission, and *)
(* each is answered at most once, after it started (db_pooler.h:64-98).    *)
THEOREM PoolIsService == WarmSpec => Service!Safety
<1>1. WarmSpec => []QueryInv
  <2>1. WarmInit => QueryInv
    BY ServiceInit
  <2> QED
    BY <2>1, QueryInvStep, PTL DEF WarmSpec
<1>2. WarmInit => Service!Init
  BY ServiceInit
<1> QED
  BY <1>1, <1>2, IInvWarmHolds, ServiceStep, PTL DEF WarmSpec, Service!Safety
=============================================================================
