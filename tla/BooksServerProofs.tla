-------------------------- MODULE BooksServerProofs ---------------------------
(***************************************************************************)
(* Proofs about BooksServer, for every set of clients, every number of     *)
(* descriptors and every size of the pool.                                 *)
(***************************************************************************)
EXTENDS BooksServer, FiniteSetTheorems, TLAPS

Distinct(s) == \A i, j \in DOMAIN s : s[i] = s[j] => i = j
Members(s)  == {s[i] : i \in DOMAIN s}

(* Appending an element that is not there adds it and repeats nothing.     *)
LEMMA AppendMembers ==
  ASSUME NEW S, NEW s \in Seq(S), NEW e \in S, Distinct(s), e \notin Members(s)
  PROVE  /\ Append(s, e) \in Seq(S)
         /\ Members(Append(s, e)) = Members(s) \cup {e}
         /\ Distinct(Append(s, e))
<1>1. /\ Append(s, e) \in Seq(S)
      /\ DOMAIN Append(s, e) = 1..(Len(s) + 1)
      /\ DOMAIN s = 1..Len(s) /\ Len(s) \in Nat
      /\ \A i \in 1..Len(s) : Append(s, e)[i] = s[i]
      /\ Append(s, e)[Len(s) + 1] = e
  OBVIOUS
<1>2. Members(Append(s, e)) \subseteq Members(s) \cup {e}
  BY <1>1 DEF Members
<1>3. Members(s) \subseteq Members(Append(s, e))
  BY <1>1 DEF Members
<1>4. e \in Members(Append(s, e))
  <2> Len(s) + 1 \in DOMAIN Append(s, e)
    BY <1>1
  <2> QED
    BY <1>1 DEF Members
<1>5. Distinct(Append(s, e))
  BY <1>1 DEF Distinct, Members
<1> QED
  BY <1>1, <1>2, <1>3, <1>4, <1>5

(* Without its head, a sequence that repeats nothing lacks just the head.  *)
LEMMA TailMembers ==
  ASSUME NEW S, NEW s \in Seq(S), s # <<>>, Distinct(s)
  PROVE  /\ Tail(s) \in Seq(S)
         /\ Head(s) \in Members(s)
         /\ Head(s) \in S
         /\ Members(Tail(s)) = Members(s) \ {Head(s)}
         /\ Distinct(Tail(s))
<1>1. /\ Len(s) \in Nat \ {0} /\ DOMAIN s = 1..Len(s)
      /\ Head(s) = s[1]
      /\ Tail(s) \in Seq(S)
      /\ DOMAIN Tail(s) = 1..(Len(s) - 1)
      /\ \A i \in 1..(Len(s) - 1) : Tail(s)[i] = s[i + 1]
  OBVIOUS
<1>2. Head(s) \in Members(s) /\ Head(s) \in S
  BY <1>1 DEF Members
<1>3. ASSUME NEW x \in Members(Tail(s))
      PROVE  x \in Members(s) \ {Head(s)}
  <2> PICK i \in 1..(Len(s) - 1) : x = Tail(s)[i]
    BY <1>1 DEF Members
  <2> i + 1 \in DOMAIN s /\ x = s[i + 1] /\ i + 1 # 1 /\ 1 \in DOMAIN s
    BY <1>1
  <2> QED
    BY <1>1 DEF Members, Distinct
<1>4. ASSUME NEW x \in Members(s) \ {Head(s)}
      PROVE  x \in Members(Tail(s))
  <2> PICK i \in DOMAIN s : x = s[i]
    BY DEF Members
  <2> i - 1 \in DOMAIN Tail(s) /\ Tail(s)[i - 1] = x
    BY <1>1
  <2> QED
    BY DEF Members
<1>5. Distinct(Tail(s))
  BY <1>1 DEF Distinct
<1> QED
  BY <1>1, <1>2, <1>3, <1>4, <1>5

-----------------------------------------------------------------------------
(* The inductive invariant.                                                *)

(* A query is in one place of the pool at a time.                          *)
InPool == Members(waiting) \cup running
QueriesConserved ==
  /\ Distinct(waiting)
  /\ Members(waiting) \cap running = {}
  /\ InPool \cap answered = {}
  /\ callback # None => callback \in answered
  /\ \A q \in answered : result[q] # None

(* A client connects once, and what it has queries for is its request.     *)
ClientsConserved ==
  /\ Distinct(backlog)
  /\ Backlogged \cap isAlive = {}
  /\ \A q \in InPool \cup answered :
       sent[q.client] = "book" /\ q.client \notin Backlogged

(* The one thing that is under way, case by case.                          *)
OneThingOf(c) ==
  /\ tracked[c] # "none" => c \in isAlive /\ UnderWay(c) = {} /\ ~ HasFailed(c)
  /\ \A q \in UnderWay(c) : c \in isAlive /\ ~ HasFailed(c) /\ UnderWay(c) = {q}
  /\ c \in isAlive /\ ~ HasFailed(c) /\ tracked[c] = "none" => UnderWay(c) # {}
OneThing == \A c \in Clients : OneThingOf(c)

(* The table, the results and the responses hold what was asked for.       *)
AskedFor(B) == \A b \in B : b \in Clients /\ sent[b] = "book"
RightAnswer(c, response) ==
  \/ sent[c] = "root" /\ response = Echo(c)
  \/ /\ sent[c] = "book"
     /\ response.kind = "rows"
     /\ c \in response.rows
     /\ AskedFor(response.rows)

InsertedFirst ==
  /\ AskedFor(books)
  /\ \A c \in Clients :
       /\ Select(c) \in InPool \cup answered => c \in books
       /\ result[Insert(c)] \notin {None, Failed} => c \in books
       /\ result[Select(c)] \notin {None, Failed} =>
            /\ result[Select(c)].kind = "rows"
            /\ c \in result[Select(c)].rows
            /\ AskedFor(result[Select(c)].rows)

RightResponses ==
  \A c \in Clients :
    /\ sendBuffer[c] # None => RightAnswer(c, sendBuffer[c])
    /\ received[c] # None => RightAnswer(c, received[c])

IInv ==
  /\ TypeOK /\ QueriesConserved /\ ClientsConserved /\ OneThing
  /\ InsertedFirst /\ RightResponses

(* The program starts with no client and no query.                         *)
THEOREM InitIInv == Init => IInv
<1> SUFFICES ASSUME Init PROVE IInv
  OBVIOUS
<1> USE ServerAssumption
<1>1. Members(waiting) = {} /\ running = {} /\ answered = {} /\ callback = None
  BY DEF Init, Pool!Init, Members
<1>2. TypeOK
  <2>1. Cardinality(isAlive) <= MaxConnections
    BY FS_EmptySet DEF Init
  <2>2. waiting \in Seq(Statements) /\ backlog \in Seq(Clients)
    BY DEF Init, Pool!Init
  <2> QED
    BY <1>1, <2>1, <2>2 DEF Init, TypeOK
<1>3. QueriesConserved
  BY <1>1 DEF QueriesConserved, InPool, Distinct, Init, Pool!Init
<1>4. ClientsConserved
  BY <1>1 DEF ClientsConserved, InPool, Distinct, Backlogged, Init
<1>5. OneThing
  <2>1. InService = {}
    BY <1>1 DEF InService, Members
  <2> QED
    BY <1>1, <2>1 DEF OneThing, OneThingOf, UnderWay, Init
<1>6. InsertedFirst
  BY <1>1 DEF InsertedFirst, AskedFor, InPool, Init, Insert, Select, Statements
<1>7. RightResponses
  BY DEF RightResponses, Init
<1> QED
  BY <1>2, <1>3, <1>4, <1>5, <1>6, <1>7 DEF IInv

-----------------------------------------------------------------------------
(* What the actions have in common.                                        *)

(* A query is the INSERT or the SELECT of its client.                      *)
LEMMA StatementsDiffer ==
  /\ \A c \in Clients : Insert(c) \in Statements /\ Select(c) \in Statements
  /\ \A c, d \in Clients : Insert(c) # Select(d)
  /\ \A c \in Clients : Insert(c).client = c /\ Select(c).client = c
  /\ \A q \in Statements :
       /\ q.client \in Clients
       /\ q.text = "INSERT" => q = Insert(q.client)
       /\ q.text # "INSERT" => q.text = "SELECT" /\ q = Select(q.client)
BY DEF Statements, Insert, Select

(* The steps of clients, of the listening socket and of a write, and those *)
(* of a read that submits nothing, leave the queries alone.                *)
LEMMA QueriesKept ==
  ASSUME UNCHANGED <<poolVars, dbVars, callback>>
  PROVE  /\ InPool' = InPool
         /\ \A c \in Clients : UnderWay(c)' = UnderWay(c) /\ (HasFailed(c)' <=> HasFailed(c))
         /\ QueriesConserved => QueriesConserved'
<1>1. InPool' = InPool
  BY DEF InPool, Members, poolVars
<1>2. InService' = InService
  BY DEF InService, poolVars
<1>3. \A c \in Clients : UnderWay(c)' = UnderWay(c) /\ (HasFailed(c)' <=> HasFailed(c))
  BY <1>2 DEF UnderWay, HasFailed, poolVars, dbVars
<1>4. QueriesConserved => QueriesConserved'
  BY <1>1 DEF QueriesConserved, Members, Distinct, poolVars, dbVars
<1> QED
  BY <1>1, <1>3, <1>4

(* sendQuery: the query is in the pool, waiting or running.                *)
LEMMA SendQueryStep ==
  ASSUME TypeOK, QueriesConserved, NEW q \in Statements, SendQuery(q)
  PROVE  /\ q \notin InPool \cup answered
         /\ InPool' = InPool \cup {q}
         /\ answered' = answered
         /\ waiting' \in Seq(Statements) /\ running' \subseteq Statements
         /\ Distinct(waiting') /\ Members(waiting') \cap running' = {}
<1>1. q \notin InPool \cup answered /\ answered' = answered
  BY DEF SendQuery, Pool!Submit, Pool!SubmitAndStart, Pool!Unknown, Pool!Waiting, InPool, Members
<1>2. waiting \in Seq(Statements) /\ running \subseteq Statements /\ Distinct(waiting)
      /\ q \notin Members(waiting) /\ Members(waiting) \cap running = {} /\ q \notin running
  BY <1>1 DEF TypeOK, QueriesConserved, InPool
<1>3. CASE Pool!Submit(q)
  <2>1. waiting' = Append(waiting, q) /\ running' = running
    BY <1>3 DEF Pool!Submit
  <2>2. /\ Append(waiting, q) \in Seq(Statements)
        /\ Members(Append(waiting, q)) = Members(waiting) \cup {q}
        /\ Distinct(Append(waiting, q))
    BY <1>2, AppendMembers
  <2>3. Members(waiting') = Members(waiting) \cup {q}
    BY <2>1, <2>2
  <2>4. InPool' = InPool \cup {q}
    BY <2>1, <2>3 DEF InPool
  <2> QED
    BY <1>1, <1>2, <2>1, <2>2, <2>3, <2>4
<1>4. CASE Pool!SubmitAndStart(q)
  <2>1. waiting' = waiting /\ running' = running \cup {q}
    BY <1>4 DEF Pool!SubmitAndStart
  <2>2. InPool' = InPool \cup {q}
    BY <2>1 DEF InPool
  <2> QED
    BY <1>1, <1>2, <2>1, <2>2
<1> QED
  BY <1>3, <1>4 DEF SendQuery

-----------------------------------------------------------------------------
(* The steps.                                                              *)

(* Closing a connection does not raise the number of those open.           *)
LEMMA CountKept ==
  ASSUME TypeOK, NEW c \in Clients
  PROVE  Cardinality(isAlive \ {c}) <= MaxConnections
<1>1. IsFiniteSet(isAlive)
  BY FS_Subset, ServerAssumption DEF TypeOK
<1>2. /\ IsFiniteSet(isAlive \ {c})
      /\ Cardinality(isAlive \ {c})
           = IF c \in isAlive THEN Cardinality(isAlive) - 1 ELSE Cardinality(isAlive)
  BY <1>1, FS_RemoveElement
<1> QED
  BY <1>1, <1>2, FS_CardinalityType, ServerAssumption DEF TypeOK

(* A client connects, sends its request, or leaves.                        *)
LEMMA PeerStep ==
  ASSUME IInv, NEW c \in Clients, Connects(c) \/ SendsRequest(c) \/ Leaves(c)
  PROVE  IInv'
<1> USE ServerAssumption
<1>1. /\ TypeOK /\ QueriesConserved /\ ClientsConserved /\ OneThing
      /\ InsertedFirst /\ RightResponses
  BY DEF IInv
<1>2. UNCHANGED <<connVars, poolVars, dbVars, callback, received>>
  BY DEF Connects, SendsRequest, Leaves, ServerFrame, peerVars
<1>3. \/ sent' = sent
      \/ \E r \in Requests : sent[c] = None /\ sent' = [sent EXCEPT ![c] = r]
  BY DEF Connects, SendsRequest, Leaves, peerVars
<1>4. \A d \in Clients : sent[d] # None => sent'[d] = sent[d]
  BY <1>1, <1>3 DEF TypeOK
<1>5. /\ InPool' = InPool /\ QueriesConserved'
      /\ \A d \in Clients : UnderWay(d)' = UnderWay(d) /\ (HasFailed(d)' <=> HasFailed(d))
  BY <1>1, <1>2, QueriesKept
<1>6. \/ backlog' = backlog
      \/ /\ backlog' = Append(backlog, c)
         /\ c \notin Backlogged \cup isAlive
         /\ sent[c] = None
  BY DEF Connects, SendsRequest, Leaves
<1>7. /\ backlog' \in Seq(Clients) /\ Distinct(backlog')
      /\ Backlogged' \subseteq Backlogged \cup {c}
      /\ c \in Backlogged' => c \in Backlogged \/ (c \notin isAlive /\ sent[c] = None)
  <2>1. CASE backlog' = backlog
    BY <1>1, <2>1 DEF Backlogged, TypeOK, ClientsConserved
  <2>2. CASE backlog' = Append(backlog, c) /\ c \notin Backlogged \cup isAlive /\ sent[c] = None
    <3>1. backlog \in Seq(Clients) /\ Distinct(backlog) /\ c \notin Members(backlog)
      BY <1>1, <2>2 DEF TypeOK, ClientsConserved, Backlogged, Members
    <3>2. /\ backlog' \in Seq(Clients) /\ Distinct(backlog')
          /\ Members(backlog') = Members(backlog) \cup {c}
      BY <2>2, <3>1, AppendMembers
    <3> QED
      BY <2>2, <3>2 DEF Backlogged, Members
  <2> QED
    BY <1>6, <2>1, <2>2
<1>8. TypeOK'
  <2>1. sent' \in [Clients -> Requests \cup {None}]
    BY <1>1, <1>3 DEF TypeOK
  <2>2. gone' \subseteq Clients
    BY <1>1 DEF TypeOK, Connects, SendsRequest, Leaves, peerVars
  <2> QED
    BY <1>1, <1>2, <1>7, <2>1, <2>2 DEF TypeOK, connVars, poolVars, dbVars
<1>9. ClientsConserved'
  <2>1. \A q \in InPool \cup answered : q.client \in Clients
    BY <1>1, StatementsDiffer DEF TypeOK, InPool, Members
  <2>2. \A q \in InPool \cup answered : sent'[q.client] = "book" /\ q.client \notin Backlogged'
    BY <1>1, <1>4, <1>7, <2>1 DEF ClientsConserved, Requests
  <2> QED
    BY <1>1, <1>2, <1>5, <1>7, <2>2 DEF ClientsConserved, connVars, poolVars
<1>10. OneThing'
  BY <1>1, <1>2, <1>5 DEF OneThing, OneThingOf, connVars
<1>11. ASSUME NEW B, AskedFor(B)
       PROVE  AskedFor(B)'
  BY <1>4, <1>11 DEF AskedFor, Requests
<1>12. InsertedFirst'
  <2>1. AskedFor(books)'
    BY <1>1, <1>2, <1>11 DEF InsertedFirst, dbVars, AskedFor
  <2>2. ASSUME NEW d \in Clients, AskedFor(result[Select(d)].rows)
        PROVE  AskedFor(result[Select(d)].rows)'
    BY <1>2, <1>11, <2>2 DEF dbVars, AskedFor
  <2> QED
    BY <1>1, <1>2, <1>5, <2>1, <2>2 DEF InsertedFirst, dbVars, poolVars
<1>13. RightResponses'
  <2>1. ASSUME NEW d \in Clients, NEW r, RightAnswer(d, r)
        PROVE  RightAnswer(d, r)'
    <3>1. sent[d] \in Requests /\ sent'[d] = sent[d]
      BY <1>4, <2>1 DEF RightAnswer, Requests
    <3>2. CASE r.kind = "rows" /\ d \in r.rows /\ AskedFor(r.rows) /\ sent[d] = "book"
      BY <1>11, <3>1, <3>2 DEF RightAnswer, AskedFor
    <3>3. CASE sent[d] = "root" /\ r = Echo(d)
      BY <3>1, <3>3 DEF RightAnswer
    <3> QED
      BY <2>1, <3>2, <3>3 DEF RightAnswer
  <2> QED
    BY <1>1, <1>2, <2>1 DEF RightResponses, RightAnswer, AskedFor, connVars
<1> QED
  BY <1>5, <1>8, <1>9, <1>10, <1>12, <1>13 DEF IInv

(* What was asked for depends on the requests sent alone.                  *)
LEMMA SentKept ==
  ASSUME UNCHANGED sent
  PROVE  /\ \A B : AskedFor(B)' <=> AskedFor(B)
         /\ \A c \in Clients : \A r : RightAnswer(c, r)' <=> RightAnswer(c, r)
BY DEF AskedFor, RightAnswer

(* Steps that leave the queries and the table alone keep what they hold.   *)
LEMMA InsertedKept ==
  ASSUME UNCHANGED <<sent, poolVars, dbVars, callback>>, InsertedFirst
  PROVE  InsertedFirst'
BY QueriesKept DEF InsertedFirst, AskedFor, poolVars, dbVars

(* The listening socket's handler.                                         *)
LEMMA AcceptStep ==
  ASSUME IInv, Accept
  PROVE  IInv'
<1> USE ServerAssumption
<1>1. /\ TypeOK /\ QueriesConserved /\ ClientsConserved /\ OneThing
      /\ InsertedFirst /\ RightResponses
  BY DEF IInv
<1> DEFINE c == Head(backlog)
<1>2. /\ UNCHANGED <<sent, gone, received, sendBuffer, poolVars, dbVars, callback>>
      /\ backlog # <<>> /\ Cardinality(isAlive) < MaxConnections
      /\ backlog' = Tail(backlog)
      /\ isAlive' = isAlive \cup {c}
      /\ tracked' = [tracked EXCEPT ![c] = "read"]
  BY DEF Accept, HasDescriptor, peerVars
<1>3. /\ c \in Clients /\ c \in Backlogged /\ c \notin isAlive
      /\ backlog' \in Seq(Clients) /\ Distinct(backlog')
      /\ Backlogged' = Backlogged \ {c}
  <2>1. backlog \in Seq(Clients) /\ Distinct(backlog) /\ Backlogged = Members(backlog)
    BY <1>1 DEF TypeOK, ClientsConserved, Backlogged, Members
  <2>2. /\ Tail(backlog) \in Seq(Clients) /\ c \in Members(backlog) /\ c \in Clients
        /\ Members(Tail(backlog)) = Members(backlog) \ {c} /\ Distinct(Tail(backlog))
    BY <1>2, <2>1, TailMembers
  <2>3. Backlogged' = Members(Tail(backlog))
    BY <1>2 DEF Backlogged, Members
  <2> QED
    BY <1>1, <1>2, <2>1, <2>2, <2>3 DEF ClientsConserved
<1> HIDE DEF c
<1>4. /\ InPool' = InPool /\ QueriesConserved'
      /\ \A d \in Clients : UnderWay(d)' = UnderWay(d) /\ (HasFailed(d)' <=> HasFailed(d))
  BY <1>1, <1>2, QueriesKept
<1>5. TypeOK'
  <2>1. IsFiniteSet(isAlive) /\ Cardinality(isAlive) \in Nat
    BY <1>1, FS_Subset, FS_CardinalityType DEF TypeOK
  <2>2. Cardinality(isAlive \cup {c}) = Cardinality(isAlive) + 1
    BY <1>3, <2>1, FS_AddElement
  <2>3. Cardinality(isAlive') <= MaxConnections
    BY <1>2, <2>1, <2>2
  <2> QED
    BY <1>1, <1>2, <1>3, <2>3 DEF TypeOK, poolVars, dbVars
<1>6. ClientsConserved'
  BY <1>1, <1>2, <1>3, <1>4 DEF ClientsConserved, poolVars
<1>7. OneThing'
  <2>1. UnderWay(c) = {} /\ ~ HasFailed(c)
    <3>1. \A q \in InPool \cup answered : q.client # c
      BY <1>1, <1>3 DEF ClientsConserved
    <3>2. \A q \in InService : q \in InPool \cup answered
      BY <1>1 DEF InService, InPool, Members, QueriesConserved
    <3> QED
      BY <3>1, <3>2 DEF UnderWay, HasFailed
  <2> QED
    BY <1>1, <1>2, <1>3, <1>4, <2>1 DEF OneThing, OneThingOf, TypeOK
<1>8. InsertedFirst'
  BY <1>1, <1>2, InsertedKept
<1>9. RightResponses'
  BY <1>1, <1>2, SentKept DEF RightResponses
<1> QED
  BY <1>4, <1>5, <1>6, <1>7, <1>8, <1>9 DEF IInv

(* A read or a write ends and its callback deletes the client.             *)
LEMMA DeleteStep ==
  ASSUME IInv, NEW c \in Clients, ReadFailed(c) \/ ReadUnparsable(c) \/ Written(c)
  PROVE  IInv'
<1>1. /\ TypeOK /\ QueriesConserved /\ ClientsConserved /\ OneThing
      /\ InsertedFirst /\ RightResponses
  BY DEF IInv
<1>2. /\ UNCHANGED <<backlog, sent, gone, poolVars, dbVars, callback>>
      /\ tracked[c] # "none"
      /\ isAlive' = isAlive \ {c}
      /\ tracked' = [tracked EXCEPT ![c] = "none"]
      /\ sendBuffer' = [sendBuffer EXCEPT ![c] = None]
  BY DEF ReadFailed, ReadUnparsable, Written, Delete, Untrack, ReadFrame, peerVars
<1>3. /\ received' \in [Clients -> Responses \cup {None}]
      /\ \A d \in Clients : received'[d] \in {received[d], None, sendBuffer[d]}
  BY <1>1 DEF ReadFailed, ReadUnparsable, Written, ReadFrame, peerVars, TypeOK
<1>4. /\ InPool' = InPool /\ QueriesConserved'
      /\ \A d \in Clients : UnderWay(d)' = UnderWay(d) /\ (HasFailed(d)' <=> HasFailed(d))
  BY <1>1, <1>2, QueriesKept
<1>5. TypeOK'
  <2>1. Cardinality(isAlive') <= MaxConnections
    BY <1>1, <1>2, CountKept
  <2> QED
    BY <1>1, <1>2, <1>3, <2>1 DEF TypeOK, poolVars, dbVars
<1>6. ClientsConserved'
  BY <1>1, <1>2, <1>4 DEF ClientsConserved, Backlogged, Distinct, poolVars
<1>7. OneThing'
  BY <1>1, <1>2, <1>4 DEF OneThing, OneThingOf, TypeOK
<1>8. InsertedFirst'
  BY <1>1, <1>2, InsertedKept
<1>9. RightResponses'
  BY <1>1, <1>2, <1>3, SentKept DEF RightResponses, TypeOK
<1> QED
  BY <1>4, <1>5, <1>6, <1>7, <1>8, <1>9 DEF IInv

(* The read of a request for the root ends with the echo being written.    *)
LEMMA ReadRootStep ==
  ASSUME IInv, NEW c \in Clients, ReadRoot(c)
  PROVE  IInv'
<1>1. /\ TypeOK /\ QueriesConserved /\ ClientsConserved /\ OneThing
      /\ InsertedFirst /\ RightResponses
  BY DEF IInv
<1>2. /\ UNCHANGED <<backlog, sent, gone, received, isAlive, poolVars, dbVars, callback>>
      /\ tracked[c] # "none" /\ sent[c] = "root"
      /\ tracked' = [tracked EXCEPT ![c] = "write"]
      /\ sendBuffer' = [sendBuffer EXCEPT ![c] = Echo(c)]
  BY DEF ReadRoot, Respond, ReadFrame, peerVars
<1>3. /\ InPool' = InPool /\ QueriesConserved'
      /\ \A d \in Clients : UnderWay(d)' = UnderWay(d) /\ (HasFailed(d)' <=> HasFailed(d))
  BY <1>1, <1>2, QueriesKept
<1>4. TypeOK'
  BY <1>1, <1>2 DEF TypeOK, poolVars, dbVars, Responses
<1>5. ClientsConserved'
  BY <1>1, <1>2, <1>3 DEF ClientsConserved, Backlogged, Distinct, poolVars
<1>6. OneThing'
  BY <1>1, <1>2, <1>3 DEF OneThing, OneThingOf, TypeOK
<1>7. InsertedFirst'
  BY <1>1, <1>2, InsertedKept
<1>8. RightResponses'
  <2>1. RightAnswer(c, Echo(c))
    BY <1>2 DEF RightAnswer
  <2> QED
    BY <1>1, <1>2, <2>1, SentKept DEF RightResponses, TypeOK
<1> QED
  BY <1>3, <1>4, <1>5, <1>6, <1>7, <1>8 DEF IInv

(* What is in service, by place.                                           *)
LEMMA ServicePlaces ==
  /\ \A q : q \in InService <=> q \in InPool \/ (callback # None /\ q = callback)
  /\ \A q : q \in InService' <=> q \in InPool' \/ (callback' # None /\ q = callback')
BY DEF InService, InPool, Members

(* The read of a book's request ends with its INSERT in the pool.          *)
LEMMA ReadBookStep ==
  ASSUME IInv, NEW c \in Clients, ReadBook(c)
  PROVE  IInv'
<1> USE ServerAssumption
<1>1. /\ TypeOK /\ QueriesConserved /\ ClientsConserved /\ OneThing
      /\ InsertedFirst /\ RightResponses
  BY DEF IInv
<1> DEFINE q == Insert(c)
<1>2. /\ UNCHANGED <<backlog, sent, gone, received, isAlive, sendBuffer, dbVars, callback>>
      /\ callback = None
      /\ tracked[c] = "read" /\ sent[c] = "book"
      /\ tracked' = [tracked EXCEPT ![c] = "none"]
      /\ SendQuery(q)
  BY DEF ReadBook, InLoop, StopReading, Untrack, ReadFrame, peerVars
<1>3. /\ q \in Statements /\ q.client = c
      /\ \A d \in Clients : q # Select(d)
  BY StatementsDiffer
<1> HIDE DEF q
<1>4. /\ q \notin InPool \cup answered
      /\ InPool' = InPool \cup {q}
      /\ answered' = answered
      /\ waiting' \in Seq(Statements) /\ running' \subseteq Statements
      /\ Distinct(waiting') /\ Members(waiting') \cap running' = {}
  BY <1>1, <1>2, <1>3, SendQueryStep
<1>5. TypeOK'
  BY <1>1, <1>2, <1>4 DEF TypeOK, dbVars
<1>6. QueriesConserved'
  BY <1>1, <1>2, <1>4 DEF QueriesConserved, dbVars
<1>7. c \in isAlive /\ UnderWay(c) = {} /\ ~ HasFailed(c)
  BY <1>1, <1>2 DEF OneThing, OneThingOf
<1>8. ClientsConserved'
  BY <1>1, <1>2, <1>3, <1>4, <1>7 DEF ClientsConserved, Backlogged, Distinct
<1>9. OneThing'
  <2>1. \A d \in Clients : HasFailed(d)' <=> HasFailed(d)
    BY <1>2, <1>4 DEF HasFailed, dbVars
  <2>2. \A x : x \in InService' <=> x \in InService \/ x = q
    BY <1>2, <1>4, ServicePlaces
  <2>3. UnderWay(c)' = {q}
    BY <1>3, <1>7, <2>2 DEF UnderWay
  <2>4. \A d \in Clients \ {c} : UnderWay(d)' = UnderWay(d)
    BY <1>3, <2>2 DEF UnderWay
  <2>5. tracked'[c] = "none" /\ \A d \in Clients \ {c} : tracked'[d] = tracked[d]
    BY <1>1, <1>2 DEF TypeOK
  <2>6. ASSUME NEW d \in Clients
        PROVE  OneThingOf(d)'
    <3>1. CASE d = c
      BY <1>2, <1>7, <2>1, <2>3, <2>5, <3>1 DEF OneThingOf
    <3>2. CASE d # c
      BY <1>1, <1>2, <2>1, <2>4, <2>5, <3>2 DEF OneThing, OneThingOf
    <3> QED
      BY <3>1, <3>2
  <2> QED
    BY <2>6 DEF OneThing
<1>10. InsertedFirst'
  BY <1>1, <1>2, <1>3, <1>4, SentKept DEF InsertedFirst, dbVars
<1>11. RightResponses'
  BY <1>1, <1>2, SentKept DEF RightResponses
<1> QED
  BY <1>5, <1>6, <1>8, <1>9, <1>10, <1>11 DEF IInv

(* The database executes a query.                                          *)
LEMMA ExecuteStep ==
  ASSUME IInv, NEW q \in Statements, Execute(q)
  PROVE  IInv'
<1> USE ServerAssumption
<1>1. /\ TypeOK /\ QueriesConserved /\ ClientsConserved /\ OneThing
      /\ InsertedFirst /\ RightResponses
  BY DEF IInv
<1> DEFINE rows == Rows(IF q.text = "SELECT" THEN books ELSE {})
<1>2. /\ UNCHANGED <<backlog, sent, gone, received, isAlive, tracked,
                     sendBuffer, poolVars, callback>>
      /\ q \in running /\ result[q] = None
  BY DEF Execute, peerVars, connVars
<1>3. PICK r \in {rows, Failed} :
        /\ result' = [result EXCEPT ![q] = r]
        /\ \/ q.text = "INSERT" /\ books' = books \cup {q.client}
           \/ (q.text = "SELECT" \/ r = Failed) /\ books' = books
  BY DEF Execute
<1>4. q \in InPool /\ q \notin answered /\ q.client \in Clients /\ sent[q.client] = "book"
  BY <1>1, <1>2, StatementsDiffer DEF InPool, QueriesConserved, ClientsConserved
<1>5. InPool' = InPool /\ answered' = answered /\ InService' = InService
  BY <1>2 DEF InPool, InService, Members, poolVars
<1>6. TypeOK'
  <2>1. r \in Responses \cup {Failed}
    BY <1>1 DEF TypeOK, Responses
  <2> QED
    BY <1>1, <1>2, <1>3, <1>4, <2>1 DEF TypeOK, poolVars
<1>7. QueriesConserved'
  BY <1>1, <1>2, <1>3, <1>4, <1>5 DEF QueriesConserved, Members, Distinct, TypeOK, poolVars
<1>8. ClientsConserved'
  BY <1>1, <1>2, <1>5 DEF ClientsConserved, Backlogged, Distinct
<1>9. OneThing'
  <2>1. \A d \in Clients : UnderWay(d)' = UnderWay(d)
    BY <1>5 DEF UnderWay
  <2>2. \A x \in answered : result'[x] = result[x]
    BY <1>1, <1>3, <1>4 DEF TypeOK
  <2>3. \A d \in Clients : HasFailed(d)' <=> HasFailed(d)
    BY <1>2, <1>5, <2>2 DEF HasFailed
  <2> QED
    BY <1>1, <1>2, <2>1, <2>3 DEF OneThing, OneThingOf
<1>10. AskedFor(books') /\ books \subseteq books'
  BY <1>1, <1>3, <1>4 DEF InsertedFirst, AskedFor
<1>11. \A x \in Statements : result'[x] = IF x = q THEN r ELSE result[x]
  BY <1>1, <1>3 DEF TypeOK
<1>12. ASSUME NEW d \in Clients, result'[Insert(d)] \notin {None, Failed}
       PROVE  d \in books'
  <2>1. CASE q = Insert(d)
    <3>1. q.text = "INSERT" /\ q.client = d
      BY <2>1 DEF Insert
    <3>2. r # Failed
      BY <1>11, <1>12, <2>1
    <3> QED
      BY <1>3, <3>1, <3>2
  <2>2. CASE q # Insert(d)
    <3>1. result'[Insert(d)] = result[Insert(d)]
      BY <1>11, <2>2, StatementsDiffer
    <3> QED
      BY <1>1, <1>10, <1>12, <3>1 DEF InsertedFirst
  <2> QED
    BY <2>1, <2>2
<1>13. ASSUME NEW d \in Clients, result'[Select(d)] \notin {None, Failed}
       PROVE  /\ result'[Select(d)].kind = "rows"
              /\ d \in result'[Select(d)].rows
              /\ AskedFor(result'[Select(d)].rows)
  <2>1. CASE q = Select(d)
    <3>1. q.text = "SELECT" /\ d \in books
      BY <1>1, <1>4, <2>1 DEF Select, InsertedFirst
    <3>2. result'[Select(d)] = Rows(books)
      BY <1>11, <1>13, <2>1, <3>1
    <3>3. Rows(books).kind = "rows" /\ Rows(books).rows = books
      BY DEF Rows
    <3> QED
      BY <1>1, <3>1, <3>2, <3>3 DEF InsertedFirst
  <2>2. CASE q # Select(d)
    <3>1. result'[Select(d)] = result[Select(d)]
      BY <1>11, <2>2, StatementsDiffer
    <3> QED
      BY <1>1, <1>13, <3>1 DEF InsertedFirst
  <2> QED
    BY <2>1, <2>2
<1>14. InsertedFirst'
  <2>1. AskedFor(books)'
    BY <1>2, <1>10 DEF AskedFor
  <2>2. ASSUME NEW d \in Clients, AskedFor(result'[Select(d)].rows)
        PROVE  AskedFor(result[Select(d)].rows)'
    BY <1>2, <2>2 DEF AskedFor
  <2>3. \A d \in Clients : Select(d) \in InPool' \cup answered' => d \in books'
    BY <1>1, <1>5, <1>10 DEF InsertedFirst
  <2> QED
    BY <1>12, <1>13, <2>1, <2>2, <2>3 DEF InsertedFirst
<1>15. RightResponses'
  BY <1>1, <1>2, SentKept DEF RightResponses
<1> QED
  BY <1>6, <1>7, <1>8, <1>9, <1>14, <1>15 DEF IInv

(* The oldest pending query is given to a connection.                      *)
LEMMA PoolStartsStep ==
  ASSUME IInv, PoolStarts
  PROVE  IInv'
<1>1. /\ TypeOK /\ QueriesConserved /\ ClientsConserved /\ OneThing
      /\ InsertedFirst /\ RightResponses
  BY DEF IInv
<1> DEFINE q == Head(waiting)
<1>2. /\ UNCHANGED <<backlog, sent, gone, received, isAlive, tracked, sendBuffer, dbVars, callback,
                     answered>>
      /\ waiting # <<>> /\ waiting' = Tail(waiting) /\ running' = running \cup {q}
  BY DEF PoolStarts, Pool!Start, peerVars, connVars
<1>3. /\ waiting' \in Seq(Statements) /\ q \in Members(waiting) /\ q \in Statements
      /\ Members(waiting') = Members(waiting) \ {q} /\ Distinct(waiting')
  BY <1>1, <1>2, TailMembers DEF TypeOK, QueriesConserved
<1> HIDE DEF q
<1>4. InPool' = InPool /\ Members(waiting') \cap running' = {}
  BY <1>1, <1>2, <1>3 DEF InPool, QueriesConserved
<1>5. TypeOK'
  BY <1>1, <1>2, <1>3 DEF TypeOK, dbVars
<1>6. QueriesConserved'
  BY <1>1, <1>2, <1>3, <1>4 DEF QueriesConserved, dbVars
<1>7. ClientsConserved'
  BY <1>1, <1>2, <1>4 DEF ClientsConserved, Backlogged, Distinct
<1>8. OneThing'
  <2>1. \A d \in Clients : UnderWay(d)' = UnderWay(d)
    BY <1>2, <1>4, ServicePlaces DEF UnderWay
  <2>2. \A d \in Clients : HasFailed(d)' <=> HasFailed(d)
    BY <1>2 DEF HasFailed, dbVars
  <2> QED
    BY <1>1, <1>2, <2>1, <2>2 DEF OneThing, OneThingOf
<1>9. InsertedFirst'
  BY <1>1, <1>2, <1>4, SentKept DEF InsertedFirst, dbVars
<1>10. RightResponses'
  BY <1>1, <1>2, SentKept DEF RightResponses
<1> QED
  BY <1>5, <1>6, <1>7, <1>8, <1>9, <1>10 DEF IInv

(* The callback of a query is entered.                                     *)
LEMMA AnswerStep ==
  ASSUME IInv, NEW q \in Statements, Answer(q)
  PROVE  IInv'
<1> USE ServerAssumption
<1>1. /\ TypeOK /\ QueriesConserved /\ ClientsConserved /\ OneThing
      /\ InsertedFirst /\ RightResponses
  BY DEF IInv
<1>2. /\ UNCHANGED <<backlog, sent, gone, received, isAlive, tracked, sendBuffer, dbVars, waiting>>
      /\ callback = None /\ callback' = q /\ q # None
      /\ result[q] # None
      /\ q \in running /\ running' = running \ {q} /\ answered' = answered \cup {q}
  BY DEF Answer, InLoop, Pool!Answer, peerVars, connVars
<1>3. /\ q \in InPool /\ q \notin answered /\ q \notin Members(waiting)
      /\ InPool' = InPool \ {q}
      /\ InPool' \cup answered' = InPool \cup answered
  BY <1>1, <1>2 DEF InPool, QueriesConserved, Members
<1>4. TypeOK'
  BY <1>1, <1>2 DEF TypeOK, dbVars
<1>5. QueriesConserved'
  BY <1>1, <1>2, <1>3 DEF QueriesConserved, Members, Distinct, dbVars
<1>6. ClientsConserved'
  BY <1>1, <1>2, <1>3 DEF ClientsConserved, Backlogged, Distinct
<1>7. OneThing'
  <2>1. \A x : x \in InService' <=> x \in InService
    BY <1>2, <1>3, ServicePlaces
  <2>2. \A d \in Clients : UnderWay(d)' = UnderWay(d)
    BY <2>1 DEF UnderWay
  <2>3. None \notin answered
    BY <1>1 DEF TypeOK, ServerAssumption
  <2>4. result' = result
    BY <1>2 DEF dbVars
  <2>5. \A d \in Clients : HasFailed(d)' <=> HasFailed(d)
    BY <1>2, <1>3, <2>3, <2>4 DEF HasFailed
  <2> QED
    BY <1>1, <1>2, <2>2, <2>5 DEF OneThing, OneThingOf
<1>8. InsertedFirst'
  BY <1>1, <1>2, <1>3, SentKept DEF InsertedFirst, dbVars
<1>9. RightResponses'
  BY <1>1, <1>2, SentKept DEF RightResponses
<1> QED
  BY <1>4, <1>5, <1>6, <1>7, <1>8, <1>9 DEF IInv

(* What a callback of a query q of client c finds: the client is alive and *)
(* this query is all that is under way for it.                             *)
LEMMA CallbackFinds ==
  ASSUME TypeOK, QueriesConserved, ClientsConserved, OneThing, callback # None
  PROVE  \E q \in Statements, c \in Clients :
           /\ callback = q /\ q.client = c /\ q # None
           /\ q \in answered /\ q \notin InPool /\ result[q] # None
           /\ Parent(q) = {c}
           /\ c \in isAlive /\ sent[c] = "book"
           /\ ~ HasFailed(c) /\ UnderWay(c) = {q} /\ tracked[c] = "none"
<1>1. PICK q \in Statements, c \in Clients : callback = q /\ q.client = c
  BY StatementsDiffer DEF TypeOK
<1>2. q \in answered /\ q \notin InPool /\ result[q] # None
  BY <1>1 DEF QueriesConserved
<1>3. sent[c] = "book"
  BY <1>1, <1>2 DEF ClientsConserved
<1>4. q \in UnderWay(c)
  BY <1>1, ServicePlaces DEF UnderWay
<1>5. c \in isAlive /\ ~ HasFailed(c) /\ UnderWay(c) = {q} /\ tracked[c] = "none"
  BY <1>1, <1>4 DEF OneThing, OneThingOf
<1>6. Parent(q) = {c}
  BY <1>1, <1>5 DEF Parent
<1> QED
  BY <1>1, <1>2, <1>3, <1>5, <1>6

(* What is left of it when it returns: the query is no longer in service,  *)
(* and has failed now if its result says so.                               *)
LEMMA CallbackLeaves ==
  ASSUME NEW q \in Statements, callback = q, q # None, callback' = None,
         q \in answered, q \notin InPool', UNCHANGED <<answered, result>>,
         None \notin answered
  PROVE  /\ \A x : x \in InService' => x # q
         /\ \A d \in Clients \ {q.client} : HasFailed(d)' <=> HasFailed(d)
         /\ IsError(q) => HasFailed(q.client)'
         /\ ~ IsError(q) => (HasFailed(q.client)' <=> HasFailed(q.client))
<1>1. \A x : x \in InService' => x # q
  BY ServicePlaces
<1>2. \A d \in Clients \ {q.client} : HasFailed(d)' <=> HasFailed(d)
  BY DEF HasFailed
<1>3. IsError(q) => HasFailed(q.client)'
  BY DEF HasFailed, IsError
<1>4. ~ IsError(q) => (HasFailed(q.client)' <=> HasFailed(q.client))
  BY DEF HasFailed, IsError
<1> QED
  BY <1>1, <1>2, <1>3, <1>4

(* The callback returns without doing anything.                            *)
LEMMA QueryFailedStep ==
  ASSUME IInv, QueryFailed
  PROVE  IInv'
<1>1. /\ TypeOK /\ QueriesConserved /\ ClientsConserved /\ OneThing
      /\ InsertedFirst /\ RightResponses
  BY DEF IInv
<1>2. /\ UNCHANGED <<backlog, sent, gone, received, isAlive, tracked, sendBuffer, poolVars, dbVars>>
      /\ callback # None /\ callback' = None
      /\ IsError(callback) \/ Parent(callback) = {}
  BY DEF QueryFailed, Returns, peerVars, connVars
<1>3. PICK q \in Statements, c \in Clients :
        /\ callback = q /\ q.client = c /\ q # None
        /\ q \in answered /\ q \notin InPool /\ result[q] # None
        /\ Parent(q) = {c}
        /\ c \in isAlive /\ sent[c] = "book"
        /\ ~ HasFailed(c) /\ UnderWay(c) = {q} /\ tracked[c] = "none"
  BY <1>1, <1>2, CallbackFinds
<1>4. InPool' = InPool /\ answered' = answered /\ result' = result
  BY <1>2 DEF InPool, Members, poolVars, dbVars
<1>5. TypeOK'
  BY <1>1, <1>2 DEF TypeOK, poolVars, dbVars
<1>6. QueriesConserved'
  BY <1>1, <1>2, <1>4 DEF QueriesConserved, Members, Distinct, poolVars
<1>7. ClientsConserved'
  BY <1>1, <1>2, <1>4 DEF ClientsConserved, Backlogged, Distinct
<1>8. OneThing'
  <2>1. IsError(q)
    BY <1>2, <1>3
  <2>2. None \notin answered
    BY <1>1, ServerAssumption DEF TypeOK
  <2>3. /\ \A x : x \in InService' => x # q
        /\ \A d \in Clients \ {c} : HasFailed(d)' <=> HasFailed(d)
        /\ HasFailed(c)'
    BY <1>2, <1>3, <1>4, <2>1, <2>2, CallbackLeaves
  <2>4. \A x : x \in InService' <=> x \in InService /\ x # q
    BY <1>2, <1>3, <1>4, <2>3, ServicePlaces
  <2>5. UnderWay(c)' = {}
    BY <1>3, <2>4 DEF UnderWay
  <2>6. \A d \in Clients \ {c} : UnderWay(d)' = UnderWay(d)
    BY <1>3, <2>4 DEF UnderWay
  <2>7. ASSUME NEW d \in Clients
        PROVE  OneThingOf(d)'
    <3>1. CASE d = c
      BY <1>2, <1>3, <2>3, <2>5, <3>1 DEF OneThingOf
    <3>2. CASE d # c
      BY <1>1, <1>2, <2>3, <2>6, <3>2 DEF OneThing, OneThingOf
    <3> QED
      BY <3>1, <3>2
  <2> QED
    BY <2>7 DEF OneThing
<1>9. InsertedFirst'
  BY <1>1, <1>2, <1>4, SentKept DEF InsertedFirst, dbVars
<1>10. RightResponses'
  BY <1>1, <1>2, SentKept DEF RightResponses
<1> QED
  BY <1>5, <1>6, <1>7, <1>8, <1>9, <1>10 DEF IInv

(* The callback of the INSERT submits the SELECT.                          *)
LEMMA InsertedStep ==
  ASSUME IInv, Inserted
  PROVE  IInv'
<1>1. /\ TypeOK /\ QueriesConserved /\ ClientsConserved /\ OneThing
      /\ InsertedFirst /\ RightResponses
  BY DEF IInv
<1>2. /\ UNCHANGED <<backlog, sent, gone, received, isAlive, tracked, sendBuffer, dbVars>>
      /\ callback # None /\ callback' = None
      /\ callback.text = "INSERT" /\ ~ IsError(callback)
  BY DEF Inserted, Returns, peerVars, connVars
<1>3. PICK q \in Statements, c \in Clients :
        /\ callback = q /\ q.client = c /\ q # None
        /\ q \in answered /\ q \notin InPool /\ result[q] # None
        /\ Parent(q) = {c}
        /\ c \in isAlive /\ sent[c] = "book"
        /\ ~ HasFailed(c) /\ UnderWay(c) = {q} /\ tracked[c] = "none"
  BY <1>1, <1>2, CallbackFinds
<1>4. PICK s \in Statements : s = Select(c) /\ SendQuery(s) /\ s.client = c /\ s # q
  BY <1>2, <1>3, StatementsDiffer DEF Inserted
<1>5. /\ s \notin InPool \cup answered
      /\ InPool' = InPool \cup {s}
      /\ answered' = answered
      /\ waiting' \in Seq(Statements) /\ running' \subseteq Statements
      /\ Distinct(waiting') /\ Members(waiting') \cap running' = {}
  BY <1>1, <1>4, SendQueryStep
<1>6. TypeOK'
  BY <1>1, <1>2, <1>5 DEF TypeOK, dbVars
<1>7. QueriesConserved'
  BY <1>1, <1>2, <1>5 DEF QueriesConserved, dbVars
<1>8. ClientsConserved'
  <2>1. c \notin Backlogged /\ Backlogged' = Backlogged
    BY <1>1, <1>2, <1>3 DEF ClientsConserved, Backlogged
  <2> QED
    BY <1>1, <1>2, <1>3, <1>4, <1>5, <2>1 DEF ClientsConserved, Distinct
<1>9. OneThing'
  <2>1. ~ IsError(q)
    BY <1>2, <1>3
  <2>2. None \notin answered
    BY <1>1, ServerAssumption DEF TypeOK
  <2>3. q \notin InPool' /\ result' = result
    BY <1>2, <1>3, <1>4, <1>5 DEF dbVars
  <2>4. /\ \A x : x \in InService' => x # q
        /\ \A d \in Clients \ {c} : HasFailed(d)' <=> HasFailed(d)
        /\ HasFailed(c)' <=> HasFailed(c)
    BY <1>2, <1>3, <1>5, <2>1, <2>2, <2>3, CallbackLeaves
  <2>5. \A x : x \in InService' <=> (x \in InService /\ x # q) \/ x = s
    BY <1>2, <1>3, <1>5, <2>4, ServicePlaces
  <2>6. UnderWay(c)' = {s}
    BY <1>3, <1>4, <2>5 DEF UnderWay
  <2>7. \A d \in Clients \ {c} : UnderWay(d)' = UnderWay(d)
    BY <1>3, <1>4, <2>5 DEF UnderWay
  <2>8. ASSUME NEW d \in Clients
        PROVE  OneThingOf(d)'
    <3>1. CASE d = c
      BY <1>2, <1>3, <2>4, <2>6, <3>1 DEF OneThingOf
    <3>2. CASE d # c
      BY <1>1, <1>2, <2>4, <2>7, <3>2 DEF OneThing, OneThingOf
    <3> QED
      BY <3>1, <3>2
  <2> QED
    BY <2>8 DEF OneThing
<1>10. InsertedFirst'
  <2>1. q = Insert(c)
    BY <1>2, <1>3, StatementsDiffer
  <2>2. c \in books
    BY <1>1, <1>2, <1>3, <2>1 DEF InsertedFirst, IsError
  <2>3. \A d \in Clients : Select(d) = s => d = c
    BY <1>4, StatementsDiffer
  <2> QED
    BY <1>1, <1>2, <1>5, <2>2, <2>3, SentKept DEF InsertedFirst, dbVars
<1>11. RightResponses'
  BY <1>1, <1>2, SentKept DEF RightResponses
<1> QED
  BY <1>6, <1>7, <1>8, <1>9, <1>10, <1>11 DEF IInv

(* The callback of the SELECT starts to write the rows.                    *)
LEMMA SelectedStep ==
  ASSUME IInv, Selected
  PROVE  IInv'
<1>1. /\ TypeOK /\ QueriesConserved /\ ClientsConserved /\ OneThing
      /\ InsertedFirst /\ RightResponses
  BY DEF IInv
<1>2. /\ UNCHANGED <<backlog, sent, gone, received, poolVars, dbVars>>
      /\ callback # None /\ callback' = None
      /\ callback.text = "SELECT" /\ ~ IsError(callback)
  BY DEF Selected, Returns, peerVars
<1>3. PICK q \in Statements, c \in Clients :
        /\ callback = q /\ q.client = c /\ q # None
        /\ q \in answered /\ q \notin InPool /\ result[q] # None
        /\ Parent(q) = {c}
        /\ c \in isAlive /\ sent[c] = "book"
        /\ ~ HasFailed(c) /\ UnderWay(c) = {q} /\ tracked[c] = "none"
  BY <1>1, <1>2, CallbackFinds
<1>4. /\ isAlive' = isAlive
      /\ tracked' = [tracked EXCEPT ![c] = "write"]
      /\ sendBuffer' = [sendBuffer EXCEPT ![c] = result[q]]
  BY <1>2, <1>3 DEF Selected, Respond
<1>5. InPool' = InPool /\ answered' = answered /\ result' = result
  BY <1>2 DEF InPool, Members, poolVars, dbVars
<1>6. result[q] \in Responses
  BY <1>1, <1>2, <1>3 DEF TypeOK, IsError
<1>7. TypeOK'
  BY <1>1, <1>2, <1>4, <1>6 DEF TypeOK, poolVars, dbVars
<1>8. QueriesConserved'
  BY <1>1, <1>2, <1>5 DEF QueriesConserved, Members, Distinct, poolVars
<1>9. ClientsConserved'
  BY <1>1, <1>2, <1>4, <1>5 DEF ClientsConserved, Backlogged, Distinct
<1>10. OneThing'
  <2>1. ~ IsError(q)
    BY <1>2, <1>3
  <2>2. None \notin answered
    BY <1>1, ServerAssumption DEF TypeOK
  <2>3. /\ \A x : x \in InService' => x # q
        /\ \A d \in Clients \ {c} : HasFailed(d)' <=> HasFailed(d)
        /\ HasFailed(c)' <=> HasFailed(c)
    BY <1>2, <1>3, <1>5, <2>1, <2>2, CallbackLeaves
  <2>4. \A x : x \in InService' <=> x \in InService /\ x # q
    BY <1>2, <1>3, <1>5, <2>3, ServicePlaces
  <2>5. UnderWay(c)' = {}
    BY <1>3, <2>4 DEF UnderWay
  <2>6. \A d \in Clients \ {c} : UnderWay(d)' = UnderWay(d)
    BY <1>3, <2>4 DEF UnderWay
  <2>7. tracked'[c] = "write" /\ \A d \in Clients \ {c} : tracked'[d] = tracked[d]
    BY <1>1, <1>4 DEF TypeOK
  <2>8. ASSUME NEW d \in Clients
        PROVE  OneThingOf(d)'
    <3>1. CASE d = c
      BY <1>3, <1>4, <2>3, <2>5, <2>7, <3>1 DEF OneThingOf
    <3>2. CASE d # c
      BY <1>1, <1>4, <2>3, <2>6, <2>7, <3>2 DEF OneThing, OneThingOf
    <3> QED
      BY <3>1, <3>2
  <2> QED
    BY <2>8 DEF OneThing
<1>11. InsertedFirst'
  BY <1>1, <1>2, <1>5, SentKept DEF InsertedFirst, dbVars
<1>12. RightResponses'
  <2>1. q = Select(c)
    BY <1>2, <1>3, StatementsDiffer
  <2>2. RightAnswer(c, result[q])
    BY <1>1, <1>2, <1>3, <2>1 DEF InsertedFirst, RightAnswer, IsError
  <2>3. \A d \in Clients : sendBuffer'[d] = IF d = c THEN result[q] ELSE sendBuffer[d]
    BY <1>1, <1>4 DEF TypeOK
  <2>4. \A d \in Clients : \A r : RightAnswer(d, r)' <=> RightAnswer(d, r)
    BY <1>2, SentKept
  <2> QED
    BY <1>1, <1>2, <2>2, <2>3, <2>4 DEF RightResponses
<1> QED
  BY <1>7, <1>8, <1>9, <1>10, <1>11, <1>12 DEF IInv

-----------------------------------------------------------------------------
(* Every step of the program preserves the invariant.                      *)
THEOREM NextIInv ==
  ASSUME IInv, [Next]_vars
  PROVE  IInv'
<1>1. CASE Accept
  BY <1>1, AcceptStep
<1>2. CASE UserCallback
  BY <1>2, QueryFailedStep, InsertedStep, SelectedStep DEF UserCallback
<1>3. ASSUME NEW c \in Clients, ReadDone(c) \/ Written(c)
      PROVE  IInv'
  BY <1>3, DeleteStep, ReadRootStep, ReadBookStep DEF ReadDone
<1>4. ASSUME NEW q \in Statements, Answer(q)
      PROVE  IInv'
  BY <1>4, AnswerStep
<1>5. CASE PoolStarts
  BY <1>5, PoolStartsStep
<1>6. ASSUME NEW q \in Statements, Execute(q)
      PROVE  IInv'
  BY <1>6, ExecuteStep
<1>7. ASSUME NEW c \in Clients, PeerActs(c) \/ Connects(c)
      PROVE  IInv'
  BY <1>7, PeerStep DEF PeerActs
<1>8. CASE UNCHANGED vars
  <2>1. UNCHANGED <<backlog, sent, gone, received, isAlive, tracked, sendBuffer,
                    poolVars, dbVars, callback>>
    BY <1>8 DEF vars, peerVars, connVars
  <2>2. QueriesConserved'
    BY <2>1, QueriesKept DEF IInv
  <2>3. TypeOK'
    BY <2>1 DEF IInv, TypeOK, poolVars, dbVars
  <2>4. ClientsConserved'
    BY <2>1, QueriesKept DEF IInv, ClientsConserved, Backlogged, Distinct, poolVars
  <2>5. OneThing'
    BY <2>1, QueriesKept DEF IInv, OneThing, OneThingOf
  <2>6. InsertedFirst'
    BY <2>1, InsertedKept DEF IInv
  <2>7. RightResponses'
    BY <2>1, SentKept DEF IInv, RightResponses
  <2> QED
    BY <2>2, <2>3, <2>4, <2>5, <2>6, <2>7 DEF IInv
<1> QED
  BY <1>1, <1>2, <1>3, <1>4, <1>5, <1>6, <1>7, <1>8 DEF Next, Thread, Database, Peers

(* The invariant holds in every state of every behaviour of the program.   *)
THEOREM Invariance == Spec => []IInv
<1> QED
  BY InitIInv, NextIInv, PTL DEF Spec

-----------------------------------------------------------------------------
(* What follows from it.                                                   *)

(* The state is well formed: in particular no more connections exist than  *)
(* the process has descriptors (listening_server.h:31-36).                 *)
THEOREM TypeCorrect == Spec => []TypeOK
<1>1. IInv => TypeOK
  BY DEF IInv
<1> QED
  BY <1>1, Invariance, PTL

(* One thing is under way of every client that is alive, whatever the      *)
(* clients, the queries and their failures (server.cpp:60-162): counted,   *)
(* the cases of OneThing are those of OneThingUnderWay.                    *)
THEOREM OneAtATime == Spec => []OneThingUnderWay
<1>1. ASSUME OneThing
      PROVE  OneThingUnderWay
  <2> SUFFICES ASSUME NEW c \in Clients
               PROVE  Cardinality(UnderWay(c)) + (IF tracked[c] # "none" THEN 1 ELSE 0)
                        = IF c \in isAlive /\ ~ HasFailed(c) THEN 1 ELSE 0
    BY DEF OneThingUnderWay
  <2>1. OneThingOf(c)
    BY <1>1 DEF OneThing
  <2>2. CASE UnderWay(c) = {}
    <3>1. Cardinality(UnderWay(c)) = 0
      BY <2>2, FS_EmptySet
    <3> QED
      BY <2>1, <2>2, <3>1 DEF OneThingOf
  <2>3. CASE UnderWay(c) # {}
    <3>1. PICK q : q \in UnderWay(c)
      BY <2>3
    <3>2. UnderWay(c) = {q} /\ c \in isAlive /\ ~ HasFailed(c) /\ tracked[c] = "none"
      BY <2>1, <3>1 DEF OneThingOf
    <3>3. Cardinality(UnderWay(c)) = 1
      BY <3>2, FS_Singleton
    <3> QED
      BY <3>2, <3>3
  <2> QED
    BY <2>2, <2>3
<1>2. IInv => OneThingUnderWay
  BY <1>1 DEF IInv
<1> QED
  BY <1>2, Invariance, PTL

(* A client receives the answer to its own request, whatever the requests  *)
(* of others and the order in which the queries are executed               *)
(* (server.cpp:108-151).                                                   *)
THEOREM OwnAnswers == Spec => []OwnResponse
<1>1. IInv => OwnResponse
  BY DEF IInv, RightResponses, RightAnswer, AskedFor, OwnResponse
<1> QED
  BY <1>1, Invariance, PTL
=============================================================================
