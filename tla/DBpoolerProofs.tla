---------------------------- MODULE DBpoolerProofs ----------------------------
(***************************************************************************)
(* Proofs about DBpooler, for every pool size and every set of clients.    *)
(***************************************************************************)
EXTENDS DBpooler, FiniteSetTheorems, TLAPS

Distinct(s) == \A i, j \in DOMAIN s : s[i] = s[j] => i = j

(* push on the queue of idle connections. *)
LEMMA AppendElems ==
  ASSUME NEW S, NEW s \in Seq(S), NEW e \in S
  PROVE  /\ Append(s, e) \in Seq(S)
         /\ Len(Append(s, e)) = Len(s) + 1
         /\ Elems(Append(s, e)) = Elems(s) \cup {e}
         /\ Distinct(s) /\ e \notin Elems(s) => Distinct(Append(s, e))
<1>1. /\ Append(s, e) \in Seq(S)
      /\ Len(Append(s, e)) = Len(s) + 1
      /\ \A i \in 1..Len(s) : Append(s, e)[i] = s[i]
      /\ Append(s, e)[Len(s) + 1] = e
  OBVIOUS
<1>2. Elems(Append(s, e)) = Elems(s) \cup {e}
  <2>1. \A x \in Elems(Append(s, e)) : x \in Elems(s) \cup {e}
    BY <1>1 DEF Elems
  <2>2. \A x \in Elems(s) : x \in Elems(Append(s, e))
    <3> TAKE x \in Elems(s)
    <3> PICK i \in 1..Len(s) : x = s[i]
      BY DEF Elems
    <3> i \in DOMAIN Append(s, e) /\ Append(s, e)[i] = x
      BY <1>1
    <3> QED
      BY DEF Elems
  <2>3. e \in Elems(Append(s, e))
    <3> Len(s) + 1 \in DOMAIN Append(s, e)
      BY <1>1
    <3> QED
      BY <1>1 DEF Elems
  <2> QED
    BY <2>1, <2>2, <2>3
<1>3. Distinct(s) /\ e \notin Elems(s) => Distinct(Append(s, e))
  BY <1>1 DEF Distinct, Elems
<1> QED
  BY <1>1, <1>2, <1>3

(* front and pop. *)
LEMMA TailElems ==
  ASSUME NEW S, NEW s \in Seq(S), s # <<>>, Distinct(s)
  PROVE  /\ Head(s) \in Elems(s)
         /\ Head(s) \in S
         /\ Tail(s) \in Seq(S)
         /\ Len(Tail(s)) = Len(s) - 1
         /\ Elems(Tail(s)) = Elems(s) \ {Head(s)}
         /\ Distinct(Tail(s))
<1>1. /\ Len(s) \in Nat \ {0}
      /\ Head(s) = s[1]
      /\ Tail(s) \in Seq(S)
      /\ Len(Tail(s)) = Len(s) - 1
      /\ \A i \in 1..(Len(s) - 1) : Tail(s)[i] = s[i + 1]
  OBVIOUS
<1>2. Head(s) \in Elems(s) /\ Head(s) \in S
  BY <1>1 DEF Elems
<1>3. \A x \in Elems(Tail(s)) : x \in Elems(s) \ {Head(s)}
  <2> TAKE x \in Elems(Tail(s))
  <2> PICK i \in 1..(Len(s) - 1) : x = Tail(s)[i]
    BY <1>1 DEF Elems
  <2> i + 1 \in DOMAIN s /\ x = s[i + 1] /\ i + 1 # 1 /\ 1 \in DOMAIN s
    BY <1>1
  <2> QED
    BY <1>1 DEF Elems, Distinct
<1>4. \A x \in Elems(s) \ {Head(s)} : x \in Elems(Tail(s))
  <2> TAKE x \in Elems(s) \ {Head(s)}
  <2> PICK i \in DOMAIN s : x = s[i]
    BY DEF Elems
  <2> i - 1 \in DOMAIN Tail(s) /\ Tail(s)[i - 1] = x
    BY <1>1
  <2> QED
    BY DEF Elems
<1>5. Distinct(Tail(s))
  BY <1>1 DEF Distinct
<1> QED
  BY <1>1, <1>2, <1>3, <1>4, <1>5

(* An activation goes on to another place of the pool's callback. *)
LEMMA TopAtFrames ==
  ASSUME stack \in Seq(Frame), stack # <<>>,
         NEW loc \in {"callback", "user", "recycle", "drain"}
  PROVE  /\ TopAt(loc) \in Seq(Frame)
         /\ Len(TopAt(loc)) = Len(stack)
         /\ Len(stack) \in DOMAIN stack
         /\ Top \in Frame
         /\ \A i \in DOMAIN stack :
              /\ TopAt(loc)[i].conn = stack[i].conn
              /\ TopAt(loc)[i].query = stack[i].query
              /\ TopAt(loc)[i].at = IF i = Len(stack) THEN loc ELSE stack[i].at
<1>1. /\ Len(stack) \in Nat \ {0}
      /\ DOMAIN stack = 1..Len(stack)
      /\ \A i \in DOMAIN stack : stack[i] \in Frame
  OBVIOUS
<1>2. \A i \in DOMAIN stack :
        TopAt(loc)[i] = IF i = Len(stack) THEN [stack[i] EXCEPT !.at = loc] ELSE stack[i]
  BY <1>1 DEF TopAt
<1>3. \A i \in DOMAIN stack :
        /\ TopAt(loc)[i] \in Frame
        /\ TopAt(loc)[i].conn = stack[i].conn
        /\ TopAt(loc)[i].query = stack[i].query
        /\ TopAt(loc)[i].at = IF i = Len(stack) THEN loc ELSE stack[i].at
  BY <1>1, <1>2 DEF Frame
<1>4. TopAt(loc) \in [1..Len(stack) -> Frame]
  BY <1>1, <1>3 DEF TopAt
<1>5. TopAt(loc) \in Seq(Frame) /\ Len(TopAt(loc)) = Len(stack)
  BY <1>1, <1>4
<1> QED
  BY <1>1, <1>3, <1>5 DEF Top

(* What a call of sendQuery may be made on top of: the activations as they *)
(* are, none of them in a user callback any more.                          *)
SameFrames(base) ==
  /\ base \in Seq(Frame)
  /\ Len(base) = Len(stack)
  /\ \A i \in DOMAIN stack :
       /\ base[i].conn = stack[i].conn
       /\ base[i].at = "drain" <=> stack[i].at = "drain"
       /\ base[i].at \in {"recycle", "drain"}

(* On top of such frames the same connections are held as before.          *)
LEMMA SameFramesHold ==
  ASSUME TypeOK, NEW base, SameFrames(base), stack' = base
  PROVE  /\ Holding' = Holding
         /\ \A i \in Holding : stack'[i].conn = stack[i].conn
         /\ Held' = Held
         /\ ~ (Running("callback") \/ Running("user"))'
<1>1. /\ Len(stack) \in Nat
      /\ DOMAIN stack = 1..Len(stack)
      /\ DOMAIN base = 1..Len(stack)
      /\ base # <<>> => Len(stack) \in DOMAIN stack
  BY DEF TypeOK, SameFrames
<1>2. Holding' = Holding
  BY <1>1 DEF Holding, SameFrames
<1>3. \A i \in Holding : stack'[i].conn = stack[i].conn
  BY <1>1 DEF Holding, SameFrames
<1>4. ~ (Running("callback") \/ Running("user"))'
  BY <1>1 DEF Running, Top, SameFrames
<1> QED
  BY <1>2, <1>3, <1>4 DEF Held

(* sendQuery keeps the invariant whichever way it goes. *)
LEMMA SendQueryStep ==
  ASSUME IInv,
         NEW q \in Queries, NEW rest \in Seq(Queries), NEW base,
         SameFrames(base), SendQuery(q, rest, base),
         submitted' \in Seq(Queries), calls' \in [Queries -> Nat]
  PROVE  IInv'
<1>1. /\ TypeOK /\ CountersAgree /\ ConnectedCounted
      /\ OnePlacePerConnection /\ OnlyTopInCallback /\ ParentIsClient
  BY DEF IInv
<1>2. /\ Len(stack) \in Nat
      /\ DOMAIN stack = 1..Len(stack)
      /\ DOMAIN base = 1..Len(stack)
  BY <1>1 DEF TypeOK, SameFrames
<1>3. CASE Enqueue(q, rest, base)
  <2>1. TypeOK'
    BY <1>1, <1>3 DEF TypeOK, Enqueue, Queued, SendQuery, SameFrames
  <2>2. CountersAgree' /\ ConnectedCounted'
    BY <1>1, <1>3 DEF CountersAgree, ConnectedCounted, Enqueue, Queued, SendQuery
  <2>3. Idle' = Idle /\ Busy' = Busy /\ Holding' = Holding /\ Held' = Held
    <3>1. Idle' = Idle /\ Busy' = Busy /\ Holding' = Holding
      BY <1>2, <1>3 DEF Idle, Busy, Holding, Elems, Enqueue, Queued, SameFrames
    <3> QED
      BY <1>1, <1>3, <3>1, SameFramesHold DEF Enqueue, Queued
  <2>4. OnePlacePerConnection'
    <3>1. \A i \in Holding : stack'[i].conn = stack[i].conn
      BY <1>1, <1>3, SameFramesHold DEF Enqueue, Queued
    <3> QED
      BY <1>1, <1>3, <2>3, <3>1 DEF OnePlacePerConnection, Enqueue, Queued, SendQuery
  <2>5. OnlyTopInCallback'
    BY <1>2, <1>3 DEF OnlyTopInCallback, Enqueue, Queued, SameFrames
  <2>6. ParentIsClient'
    BY <1>1, <1>3, <2>3, SameFramesHold DEF ParentIsClient, Enqueue, Queued
  <2> QED
    BY <2>1, <2>2, <2>4, <2>5, <2>6 DEF IInv
<1>4. CASE Dispatch(q, rest, base)
  <2> DEFINE c == Head(available_conns)
             frame == [conn |-> c, query |-> q, at |-> "callback"]
             Accepted == /\ c \in usable
                         /\ inflight' = [inflight EXCEPT ![c] = q]
                         /\ stack' = base
                         /\ UNCHANGED <<usable, is_error, failed>>
             Refused == /\ is_error' = [is_error EXCEPT ![c] = TRUE]
                        /\ stack' = Append(base, frame)
                        /\ usable' \in {usable, usable \ {c}}
                        /\ failed' = failed \cup {q}
                        /\ UNCHANGED inflight
  <2>1. /\ Accepted \/ Refused
        /\ idle_count > 0
        /\ available_conns' = Tail(available_conns)
        /\ idle_count' = idle_count - 1
        /\ pending_queries' = rest
        /\ parent' = [parent EXCEPT ![c] = q.client]
        /\ started' = Append(started, q)
        /\ UNCHANGED <<connected_count, is_ready, connected_conns, phase, results>>
    BY <1>4 DEF Dispatch, TakeFront, SendQuery
  <2>2. /\ available_conns \in Seq(Conns)
        /\ available_conns # <<>>
        /\ Distinct(available_conns)
    BY <1>1, <2>1 DEF TypeOK, CountersAgree, OnePlacePerConnection, Distinct
  <2>3. /\ c \in Conns
        /\ c \in Idle
        /\ available_conns' \in Seq(Conns)
        /\ Len(available_conns') = Len(available_conns) - 1
        /\ Idle' = Idle \ {c}
        /\ Distinct(available_conns')
    BY <2>1, <2>2, TailElems DEF Idle
  <2>4. frame \in Frame
    BY <2>3 DEF Frame
  <2> HIDE DEF c
  <2>5. CountersAgree' /\ ConnectedCounted'
    BY <1>1, <2>1, <2>3 DEF TypeOK, CountersAgree, ConnectedCounted
  <2>6. c \notin Busy /\ c \notin Held
    BY <1>1, <2>3 DEF OnePlacePerConnection
  <2>7. q.client \in Clients /\ q # None
    BY PoolAssumption DEF Queries
  <2>8. CASE Accepted
    <3>1. TypeOK'
      BY <1>1, <2>1, <2>3, <2>7, <2>8 DEF TypeOK, CountersAgree, SameFrames
    <3>2. Busy' = Busy \cup {c}
      BY <1>1, <2>3, <2>7, <2>8 DEF TypeOK, Busy
    <3>3. /\ Holding' = Holding
          /\ \A i \in Holding : stack'[i].conn = stack[i].conn
          /\ Held' = Held
      BY <1>1, <2>8, SameFramesHold
    <3>4. OnePlacePerConnection'
      BY <1>1, <2>1, <2>3, <2>6, <3>2, <3>3 DEF OnePlacePerConnection, Distinct
    <3>5. OnlyTopInCallback'
      BY <1>2, <2>8 DEF OnlyTopInCallback, SameFrames
    <3>6. ParentIsClient'
      <4>1. \A d \in Busy' : parent'[d] = inflight'[d].client
        BY <1>1, <2>1, <2>3, <2>8, <3>2 DEF TypeOK, ParentIsClient, Busy
      <4> QED
        BY <1>1, <2>8, <4>1, SameFramesHold DEF ParentIsClient
    <3> QED
      BY <2>5, <3>1, <3>4, <3>5, <3>6 DEF IInv
  <2>9. CASE Refused
    <3>1. /\ stack' \in Seq(Frame)
          /\ Len(stack') = Len(stack) + 1
          /\ DOMAIN stack' = 1..(Len(stack) + 1)
          /\ \A i \in DOMAIN stack : stack'[i] = base[i]
          /\ stack'[Len(stack) + 1] = frame
      BY <1>2, <2>4, <2>9 DEF SameFrames
    <3>2. TypeOK'
      BY <1>1, <2>1, <2>3, <2>7, <2>9, <3>1 DEF TypeOK, CountersAgree
    <3>3. Busy' = Busy
      BY <2>9 DEF Busy
    <3>4. Holding' = Holding \cup {Len(stack) + 1}
      BY <1>2, <3>1 DEF Holding, SameFrames
    <3>5. /\ \A i \in Holding : stack'[i].conn = stack[i].conn /\ i \in DOMAIN stack
          /\ stack'[Len(stack) + 1].conn = c
      BY <1>2, <3>1 DEF Holding, SameFrames
    <3>6. OnePlacePerConnection'
      <4>1. Held' = Held \cup {c}
        BY <3>4, <3>5 DEF Held
      <4>2. \A i, j \in Holding' : stack'[i].conn = stack'[j].conn => i = j
        <5>1. \A i \in Holding : stack[i].conn # c
          BY <2>6 DEF Held
        <5> QED
          BY <1>1, <3>4, <3>5, <5>1 DEF OnePlacePerConnection
      <4> QED
        BY <1>1, <2>1, <2>3, <2>6, <3>3, <4>1, <4>2 DEF OnePlacePerConnection, Distinct
    <3>7. OnlyTopInCallback'
      BY <1>2, <3>1 DEF OnlyTopInCallback, SameFrames
    <3>8. ParentIsClient'
      <4>1. \A d \in Busy' : parent'[d] = inflight'[d].client
        BY <1>1, <2>1, <2>6, <2>9, <3>3 DEF TypeOK, ParentIsClient, Busy
      <4>2. Top' = frame
        BY <1>2, <3>1 DEF Top
      <4> QED
        BY <1>1, <2>1, <2>3, <4>1, <4>2 DEF TypeOK, ParentIsClient, Running
    <3> QED
      BY <2>5, <3>2, <3>6, <3>7, <3>8 DEF IInv
  <2> QED
    BY <2>1, <2>8, <2>9
<1> QED
  BY <1>3, <1>4 DEF SendQuery

(* The innermost activation moves on within the part in which it holds its *)
(* connection: nothing changes hands.                                      *)
LEMMA TopAtHold ==
  ASSUME TypeOK, OnlyTopInCallback, stack # <<>>, Top.at # "drain",
         NEW loc \in {"callback", "user", "recycle"}, stack' = TopAt(loc)
  PROVE  /\ stack' \in Seq(Frame)
         /\ Holding' = Holding
         /\ \A i \in Holding : stack'[i].conn = stack[i].conn
         /\ Held' = Held
         /\ OnlyTopInCallback'
         /\ Top'.conn = Top.conn /\ Top'.query = Top.query
<1>1. /\ stack' \in Seq(Frame)
      /\ Len(stack') = Len(stack)
      /\ Len(stack) \in Nat \ {0}
      /\ DOMAIN stack = 1..Len(stack)
      /\ DOMAIN stack' = 1..Len(stack)
      /\ \A i \in DOMAIN stack :
              /\ stack'[i].conn = stack[i].conn
              /\ stack'[i].query = stack[i].query
              /\ stack'[i].at = IF i = Len(stack) THEN loc ELSE stack[i].at
  BY TopAtFrames DEF TypeOK
<1>2. Holding' = Holding
  BY <1>1 DEF Holding, Top
<1>3. \A i \in Holding : stack'[i].conn = stack[i].conn
  BY <1>1 DEF Holding
<1>4. Held' = Held
  BY <1>2, <1>3 DEF Held
<1>5. OnlyTopInCallback'
  BY <1>1 DEF OnlyTopInCallback
<1>6. Top'.conn = Top.conn /\ Top'.query = Top.query
  BY <1>1 DEF Top
<1> QED
  BY <1>1, <1>2, <1>3, <1>4, <1>5, <1>6

(* What sendQuery is called on top of, in its three uses. *)
LEMMA BasesAreSameFrames ==
  ASSUME TypeOK, OnlyTopInCallback
  PROVE  /\ stack = <<>> \/ Running("drain") => SameFrames(stack)
         /\ Running("user") => SameFrames(TopAt("recycle"))
<1>1. /\ stack \in Seq(Frame)
      /\ Len(stack) \in Nat
      /\ DOMAIN stack = 1..Len(stack)
      /\ stack # <<>> => Len(stack) \in DOMAIN stack
  BY DEF TypeOK
<1>2. stack = <<>> \/ Running("drain") => SameFrames(stack)
  BY <1>1 DEF Running, Top, SameFrames, OnlyTopInCallback
<1>3. ASSUME Running("user") PROVE SameFrames(TopAt("recycle"))
  <2>1. stack # <<>> /\ stack[Len(stack)].at = "user"
    BY <1>3 DEF Running, Top
  <2> QED
    BY <1>1, <2>1, TopAtFrames DEF SameFrames, OnlyTopInCallback
<1> QED
  BY <1>2, <1>3

(* A step that only moves the innermost activation on.                     *)
LEMMA MovesOnly ==
  ASSUME IInv,
         stack' \in Seq(Frame), Holding' = Holding,
         \A i \in Holding : stack'[i].conn = stack[i].conn,
         Held' = Held, OnlyTopInCallback', ParentIsClient',
         UNCHANGED <<poolVars, connVars, submitted, started, failed>>,
         calls' \in [Queries -> Nat]
  PROVE  IInv'
<1>1. TypeOK'
  BY DEF IInv, TypeOK, poolVars, connVars
<1>2. CountersAgree' /\ ConnectedCounted'
  BY DEF IInv, CountersAgree, ConnectedCounted, poolVars, connVars
<1>3. Idle' = Idle /\ Busy' = Busy
  BY DEF Idle, Busy, poolVars, connVars
<1>4. OnePlacePerConnection'
  BY <1>3 DEF IInv, OnePlacePerConnection, poolVars, connVars
<1> QED
  BY <1>1, <1>2, <1>4 DEF IInv

(* The constructor's state.                                                *)
LEMMA IInvInit == Init => IInv
<1> SUFFICES ASSUME Init PROVE IInv
  OBVIOUS
<1>1. /\ Idle = {} /\ Busy = {} /\ Held = {} /\ Holding = {}
      /\ {c \in Conns : phase[c] = "connected"} = {}
  BY DEF Init, QuietInit, Idle, Elems, Busy, Held, Holding
<1>2. TypeOK
  <2>1. /\ connected_conns \in Seq(Conns) /\ available_conns \in Seq(Conns)
        /\ pending_queries \in Seq(Queries) /\ stack \in Seq(Frame)
        /\ submitted \in Seq(Queries) /\ started \in Seq(Queries)
    BY DEF Init, QuietInit
  <2>2. /\ phase \in [Conns -> {"connecting", "connected", "failed"}]
        /\ parent \in [Conns -> Clients \cup {None}]
        /\ is_error \in [Conns -> BOOLEAN]
        /\ results \in [Conns -> SUBSET Queries]
        /\ inflight \in [Conns -> Queries \cup {None}]
        /\ calls \in [Queries -> Nat]
    BY DEF Init, QuietInit
  <2>3. /\ connected_count \in Nat /\ idle_count \in Nat /\ is_ready \in BOOLEAN
        /\ usable \subseteq Conns /\ failed \subseteq Queries
    BY DEF Init, QuietInit
  <2> QED
    BY <2>1, <2>2, <2>3 DEF TypeOK
<1>3. PoolSize \in Nat \ {0}
  BY PoolAssumption, FS_CardinalityType, FS_EmptySet DEF PoolSize
<1>4. CountersAgree /\ ConnectedCounted
  BY <1>1, <1>3, FS_EmptySet DEF Init, CountersAgree, ConnectedCounted
<1>5. OnePlacePerConnection
  BY <1>1 DEF Init, OnePlacePerConnection
<1>6. OnlyTopInCallback /\ ParentIsClient
  BY <1>1 DEF Init, QuietInit, OnlyTopInCallback, ParentIsClient, Running
<1> QED
  BY <1>2, <1>4, <1>5, <1>6 DEF IInv

(* One step per action of the pool, its connections and its users.         *)
LEMMA IInvStep == IInv /\ [Next]_vars => IInv'
<1> SUFFICES ASSUME IInv, [Next]_vars PROVE IInv'
  OBVIOUS
<1>0. /\ TypeOK /\ CountersAgree /\ ConnectedCounted
      /\ OnePlacePerConnection /\ OnlyTopInCallback /\ ParentIsClient
  BY DEF IInv
<1>a. /\ Len(stack) \in Nat
      /\ DOMAIN stack = 1..Len(stack)
      /\ stack # <<>> => Len(stack) \in DOMAIN stack /\ Top \in Frame
      /\ \A i \in DOMAIN stack : stack[i] \in Frame
  BY <1>0 DEF TypeOK, Top
<1>1. ASSUME NEW c \in Conns, ConnectDone(c) PROVE IInv'
  <2> DEFINE Connected == {d \in Conns : phase[d] = "connected"}
  <2>1. c \notin Connected /\ Connected' = Connected \cup {c}
    BY <1>0, <1>1 DEF ConnectDone, TypeOK
  <2>2. /\ IsFiniteSet(Connected)
        /\ Cardinality(Connected') = Cardinality(Connected) + 1
        /\ Cardinality(Connected) \in Nat
        /\ Cardinality(Connected') <= PoolSize
        /\ PoolSize \in Nat
    <3>1. IsFiniteSet(Connected) /\ IsFiniteSet(Connected') /\ Connected' \subseteq Conns
      BY PoolAssumption, FS_Subset
    <3> HIDE DEF Connected
    <3> QED
      BY <2>1, <3>1, PoolAssumption, FS_AddElement, FS_CardinalityType, FS_Subset DEF PoolSize
  <2>3. c \notin Idle /\ c \notin Busy /\ c \notin Held
    BY <1>0, <2>1 DEF OnePlacePerConnection
  <2>4. /\ available_conns' \in Seq(Conns)
        /\ connected_conns' \in Seq(Conns)
        /\ Len(available_conns') = Len(available_conns) + 1
        /\ Len(connected_conns') = Len(connected_conns) + 1
        /\ Idle' = Idle \cup {c}
        /\ Distinct(available_conns) => Distinct(available_conns')
    BY <1>0, <1>1, <2>3, AppendElems DEF ConnectDone, TypeOK, Idle
  <2>5. TypeOK'
    BY <1>0, <1>1, <2>4 DEF ConnectDone, TypeOK, history
  <2>6. CountersAgree' /\ ConnectedCounted'
    <3>1. connected_count = Cardinality(Connected)
      BY <1>0 DEF ConnectedCounted
    <3> HIDE DEF Connected
    <3>2. /\ connected_count' = Cardinality(Connected')
          /\ connected_count < PoolSize
      BY <1>1, <2>2, <3>1 DEF ConnectDone
    <3>3. idle_count' = Len(available_conns') /\ connected_count' = Len(connected_conns')
      BY <1>0, <1>1, <2>4 DEF ConnectDone, CountersAgree
    <3>4. PoolSize' = PoolSize
      BY DEF PoolSize
    <3>5. is_ready' <=> connected_count' = PoolSize
      <4>1. ~ is_ready
        <5>1. connected_count # PoolSize
          BY <1>0, <2>2, <3>2 DEF TypeOK
        <5> QED
          BY <1>0, <5>1 DEF CountersAgree
      <4>2. /\ is_ready' = (is_ready \/ connected_count + 1 = PoolSize)
            /\ connected_count' = connected_count + 1
        BY <1>1 DEF ConnectDone
      <4> QED
        BY <4>1, <4>2, Zenon
    <3> QED
      BY <3>2, <3>3, <3>4, <3>5 DEF CountersAgree, ConnectedCounted, Connected
  <2>7. OnePlacePerConnection'
    BY <1>0, <1>1, <2>1, <2>3, <2>4
    DEF ConnectDone, OnePlacePerConnection, Busy, Held, Holding, Distinct
  <2>8. OnlyTopInCallback' /\ ParentIsClient'
    BY <1>0, <1>1 DEF ConnectDone, OnlyTopInCallback, ParentIsClient, Running, Busy
  <2> QED
    BY <2>5, <2>6, <2>7, <2>8 DEF IInv
<1>2. ASSUME NEW c \in Conns, ConnectFailed(c) PROVE IInv'
  <2>1. TypeOK'
    BY <1>0, <1>2 DEF ConnectFailed, TypeOK, poolVars, history
  <2>2. {d \in Conns : phase[d] = "connected"}' = {d \in Conns : phase[d] = "connected"}
    BY <1>0, <1>2 DEF ConnectFailed, TypeOK
  <2>3. CountersAgree' /\ ConnectedCounted'
    BY <1>0, <1>2, <2>2 DEF ConnectFailed, poolVars, CountersAgree, ConnectedCounted
  <2>5. Idle' = Idle /\ Busy' = Busy /\ Held' = Held /\ Holding' = Holding
    BY <1>2 DEF ConnectFailed, poolVars, Idle, Busy, Held, Holding
  <2>6. OnePlacePerConnection'
    BY <1>0, <1>2, <2>2, <2>5 DEF ConnectFailed, poolVars, OnePlacePerConnection
  <2>4. OnlyTopInCallback' /\ ParentIsClient'
    BY <1>0, <1>2 DEF ConnectFailed, OnlyTopInCallback, ParentIsClient, Running, Busy
  <2> QED
    BY <2>1, <2>3, <2>4, <2>6 DEF IInv
<1>3. ASSUME NEW cl \in Clients, Submit(cl) PROVE IInv'
  <2>1. First(cl) \in Queries
    BY DEF First, Queries
  <2>2. submitted' \in Seq(Queries) /\ calls' \in [Queries -> Nat]
    BY <1>0, <1>3, <2>1 DEF Submit, TypeOK
  <2>3. SameFrames(stack)
    BY <1>0, <1>3, BasesAreSameFrames DEF Submit
  <2> QED
    BY <1>0, <1>3, <2>1, <2>2, <2>3, SendQueryStep DEF Submit, TypeOK
<1>4. ASSUME NEW c \in Conns, NEW outcome \in Outcomes, Complete(c, outcome) PROVE IInv'
  <2> DEFINE frame == [conn |-> c, query |-> inflight[c], at |-> "callback"]
  <2>1. inflight[c] \in Queries /\ frame \in Frame /\ c \in Busy
    BY <1>0, <1>4 DEF Complete, TypeOK, Frame, Busy
  <2>2. /\ stack = <<>> /\ stack' = <<frame>>
        /\ Top' = frame
        /\ inflight' = [inflight EXCEPT ![c] = None]
        /\ UNCHANGED <<poolVars, phase, parent, submitted, started, calls>>
    BY <1>4 DEF Complete, Top
  <2> HIDE DEF frame
  <2>3. TypeOK'
    <3>1. results' \in [Conns -> SUBSET Queries]
      BY <1>0, <1>4, <2>1 DEF Complete, TypeOK
    <3>2. /\ is_error' \in [Conns -> BOOLEAN]
          /\ failed' \subseteq Queries /\ usable' \subseteq Conns
      BY <1>0, <1>4, <2>1 DEF Complete, TypeOK
    <3>3. inflight' \in [Conns -> Queries \cup {None}] /\ stack' \in Seq(Frame)
      BY <1>0, <2>1, <2>2 DEF TypeOK
    <3> QED
      BY <1>0, <2>2, <3>1, <3>2, <3>3 DEF TypeOK, poolVars
  <2>4. CountersAgree' /\ ConnectedCounted'
    BY <1>0, <2>2 DEF CountersAgree, ConnectedCounted, poolVars
  <2>5. Idle' = Idle /\ Busy' = Busy \ {c} /\ Held = {} /\ Held' = {c} /\ Holding' = {1}
    <3>1. Idle' = Idle /\ Busy' = Busy \ {c} /\ Holding = {} /\ Held = {}
      BY <1>0, <2>2 DEF TypeOK, Idle, Busy, Holding, Held, poolVars
    <3>2. Holding' = {1}
      BY <2>2 DEF Holding, frame
    <3>3. Held' = {c}
      BY <2>2, <3>2 DEF Held, frame
    <3> QED
      BY <3>1, <3>2, <3>3
  <2>6. OnePlacePerConnection'
    BY <1>0, <2>1, <2>2, <2>5 DEF OnePlacePerConnection, poolVars
  <2>7. OnlyTopInCallback'
    BY <2>2 DEF OnlyTopInCallback
  <2>8. ParentIsClient'
    BY <1>0, <2>1, <2>2, <2>5 DEF ParentIsClient, TypeOK, Busy, frame
  <2> QED
    BY <2>3, <2>4, <2>6, <2>7, <2>8 DEF IInv
<1>5. CASE CallUser
  <2>1. stack # <<>> /\ Top.at = "callback" /\ stack' = TopAt("user") /\ Top.query \in Queries
    BY <1>a, <1>5 DEF CallUser, Running, Frame
  <2>2. /\ stack' \in Seq(Frame)
        /\ Holding' = Holding
        /\ \A i \in Holding : stack'[i].conn = stack[i].conn
        /\ Held' = Held
        /\ OnlyTopInCallback'
        /\ Top'.conn = Top.conn /\ Top'.query = Top.query
    BY <1>0, <2>1, TopAtHold
  <2>3. UNCHANGED <<poolVars, connVars, submitted, started, failed>>
        /\ calls' \in [Queries -> Nat]
    BY <1>0, <1>5, <2>1 DEF CallUser, TypeOK
  <2>4. ParentIsClient'
    BY <1>0, <2>1, <2>2, <2>3 DEF ParentIsClient, Running, Busy, connVars
  <2> QED
    BY <1>0, <2>2, <2>3, <2>4, MovesOnly
<1>6. CASE UserChains
  <2> DEFINE next == [FollowUp(Top.query) EXCEPT !.client = parent[Top.conn]]
  <2>1. next \in Queries
    BY <1>0, <1>a, <1>6 DEF UserChains, Running, ParentIsClient, FollowUp, Frame, Queries
  <2>2. submitted' \in Seq(Queries) /\ calls' \in [Queries -> Nat]
    BY <1>0, <1>6, <2>1 DEF UserChains, TypeOK
  <2>3. SameFrames(TopAt("recycle"))
    BY <1>0, <1>6, BasesAreSameFrames DEF UserChains
  <2>4. SendQuery(next, pending_queries, TopAt("recycle"))
    BY <1>6 DEF UserChains
  <2> HIDE DEF next
  <2> QED
    BY <1>0, <2>1, <2>2, <2>3, <2>4, SendQueryStep DEF TypeOK
<1>7. CASE UserReturns
  <2>1. stack # <<>> /\ Top.at = "user" /\ stack' = TopAt("recycle")
    BY <1>a, <1>7 DEF UserReturns, Running
  <2>2. /\ stack' \in Seq(Frame)
        /\ Holding' = Holding
        /\ \A i \in Holding : stack'[i].conn = stack[i].conn
        /\ Held' = Held
        /\ OnlyTopInCallback'
    BY <1>0, <2>1, TopAtHold
  <2>3. UNCHANGED <<poolVars, connVars, submitted, started, failed>>
        /\ calls' \in [Queries -> Nat]
    BY <1>0, <1>7 DEF UserReturns, TypeOK, history
  <2>4. ~ (Running("callback") \/ Running("user"))'
    BY <1>0, <1>a, <2>1, TopAtFrames DEF TypeOK, Running, Top
  <2>5. ParentIsClient'
    BY <1>0, <2>3, <2>4 DEF ParentIsClient, Busy, connVars
  <2> QED
    BY <1>0, <2>2, <2>3, <2>5, MovesOnly
<1>8. CASE Recycle
  <2> DEFINE c == Top.conn
  <2>1. /\ stack # <<>> /\ Top.at = "recycle"
        /\ Len(stack) \in Holding
        /\ c \in Conns /\ c \in Held
        /\ stack[Len(stack)].conn = c
    BY <1>a, <1>8 DEF Recycle, ResetConnection, GiveBack, Running, Frame, Top, Holding, Held
  <2>2. c \notin Idle /\ c \notin Busy
    BY <1>0, <2>1 DEF OnePlacePerConnection
  <2>3. /\ stack' = TopAt("drain")
        /\ parent' = [parent EXCEPT ![c] = None]
        /\ results' = [results EXCEPT ![c] = {}]
        /\ is_error' = [is_error EXCEPT ![c] = FALSE]
        /\ idle_count' = idle_count + 1
        /\ available_conns' = Append(available_conns, c)
        /\ UNCHANGED <<connected_count, is_ready, connected_conns, pending_queries,
                       phase, usable, inflight, submitted, started, failed, calls>>
    BY <1>8 DEF Recycle, ResetConnection, GiveBack, history
  <2> HIDE DEF c
  <2>4. /\ available_conns' \in Seq(Conns)
        /\ Len(available_conns') = Len(available_conns) + 1
        /\ Idle' = Idle \cup {c}
        /\ Distinct(available_conns) => Distinct(available_conns')
    BY <1>0, <2>1, <2>2, <2>3, AppendElems DEF TypeOK, Idle
  <2>5. /\ stack' \in Seq(Frame)
        /\ Len(stack') = Len(stack)
        /\ DOMAIN stack' = 1..Len(stack)
        /\ \A i \in DOMAIN stack :
             /\ stack'[i].conn = stack[i].conn
             /\ stack'[i].at = IF i = Len(stack) THEN "drain" ELSE stack[i].at
    BY <1>0, <1>a, <2>1, <2>3, TopAtFrames DEF TypeOK
  <2>6. TypeOK'
    BY <1>0, <2>1, <2>3, <2>4, <2>5 DEF TypeOK
  <2>7. CountersAgree' /\ ConnectedCounted'
    BY <1>0, <2>3, <2>4 DEF CountersAgree, ConnectedCounted
  <2>8. Holding' = Holding \ {Len(stack)}
    BY <1>a, <2>5 DEF Holding
  <2>9. \A i \in Holding : stack'[i].conn = stack[i].conn
    BY <2>5 DEF Holding
  <2>10. Held' = Held \ {c}
    <3>1. \A i \in Holding \ {Len(stack)} : stack[i].conn # c
      BY <1>0, <2>1 DEF OnePlacePerConnection
    <3> QED
      BY <2>1, <2>8, <2>9, <3>1 DEF Held
  <2>11. OnePlacePerConnection'
    <3>1. Busy' = Busy
      BY <2>3 DEF Busy
    <3> QED
      BY <1>0, <2>1, <2>2, <2>3, <2>4, <2>8, <2>9, <2>10, <3>1
      DEF OnePlacePerConnection, Distinct
  <2>12. OnlyTopInCallback'
    BY <1>0, <2>5 DEF OnlyTopInCallback
  <2>13. ParentIsClient'
    <3>1. ~ (Running("callback") \/ Running("user"))'
      BY <1>a, <2>1, <2>5 DEF Running, Top
    <3>2. \A d \in Busy' : parent'[d] = inflight'[d].client
      BY <1>0, <2>2, <2>3 DEF TypeOK, ParentIsClient, Busy
    <3> QED
      BY <3>1, <3>2 DEF ParentIsClient
  <2> QED
    BY <2>6, <2>7, <2>11, <2>12, <2>13 DEF IInv
<1>9. CASE ServePending
  <2>1. Head(pending_queries) \in Queries /\ Tail(pending_queries) \in Seq(Queries)
    BY <1>0, <1>9 DEF ServePending, PoppedQueries, MoreToServe, TypeOK
  <2>2. SameFrames(stack)
    BY <1>0, <1>9, BasesAreSameFrames DEF ServePending, PoppedQueries
  <2>3. submitted' \in Seq(Queries) /\ calls' \in [Queries -> Nat]
    BY <1>0, <1>9 DEF ServePending, PoppedQueries, TypeOK
  <2> QED
    BY <1>9, <2>1, <2>2, <2>3, SendQueryStep DEF ServePending, PoppedQueries
<1>10. CASE Finish
  <2>1. /\ stack # <<>> /\ stack[Len(stack)].at = "drain"
        /\ stack' = SubSeq(stack, 1, Len(stack) - 1)
        /\ UNCHANGED <<poolVars, connVars, submitted, started, failed, calls>>
    BY <1>10 DEF Finish, Running, Top, history
  <2>2. /\ stack' \in Seq(Frame)
        /\ Len(stack') = Len(stack) - 1
        /\ DOMAIN stack' = 1..(Len(stack) - 1)
        /\ \A i \in 1..(Len(stack) - 1) : stack'[i] = stack[i]
    BY <1>0, <1>a, <2>1 DEF TypeOK
  <2>3. Holding' = Holding /\ \A i \in Holding : stack'[i].conn = stack[i].conn
    BY <1>a, <2>1, <2>2 DEF Holding
  <2>4. Held' = Held
    BY <2>3 DEF Held
  <2>5. OnlyTopInCallback'
    BY <1>0, <1>a, <2>2 DEF OnlyTopInCallback
  <2>6. ParentIsClient'
    <3>1. ~ (Running("callback") \/ Running("user"))'
      BY <1>0, <1>a, <2>1, <2>2 DEF OnlyTopInCallback, Running, Top
    <3> QED
      BY <1>0, <2>1, <3>1 DEF ParentIsClient, Busy, connVars
  <2> QED
    BY <1>0, <2>1, <2>2, <2>3, <2>4, <2>5, <2>6, MovesOnly DEF TypeOK
<1>11. CASE UNCHANGED vars
  <2>1. UNCHANGED <<poolVars, connVars, stack, submitted, started, failed, calls>>
    BY <1>11 DEF vars, history
  <2>2. OnlyTopInCallback' /\ ParentIsClient' /\ Holding' = Holding /\ Held' = Held
    BY <1>0, <2>1 DEF OnlyTopInCallback, ParentIsClient, Running, Top, Holding, Held, Busy, connVars
  <2> QED
    BY <1>0, <2>1, <2>2, MovesOnly DEF TypeOK
<1> QED
  BY <1>1, <1>2, <1>3, <1>4, <1>5, <1>6, <1>7, <1>8, <1>9, <1>10, <1>11
  DEF Next, Answer, Thread

(* The invariant of every pool, from the constructor on.                   *)
LEMMA IInvHolds == Spec => []IInv
<1> QED
  BY IInvInit, IInvStep, PTL DEF Spec

(* The pool's state keeps its types; in particular a query submitted from  *)
(* a callback always names the client of the query that called back.       *)
THEOREM TypeCorrect == Spec => []TypeOK
<1>1. IInv => TypeOK
  BY DEF IInv
<1> QED
  BY IInvHolds, <1>1, PTL

(* idle_count, connected_count and is_ready always tell the truth about    *)
(* the containers, so front() and pop() never meet an empty queue          *)
(* (db_pooler.h:65-68).                                                    *)
THEOREM CountersCorrect == Spec => []CountersAgree
<1>1. IInv => CountersAgree
  BY DEF IInv
<1> QED
  BY IInvHolds, <1>1, PTL

(* No connection is lost, shared or returned twice, however deep the       *)
(* callbacks nest (db_pooler.h:64-98).                                     *)
THEOREM ConnectionsConserved == Spec => []OnePlacePerConnection
<1>1. IInv => OnePlacePerConnection
  BY DEF IInv
<1> QED
  BY IInvHolds, <1>1, PTL

-----------------------------------------------------------------------------
(* The pool that was ready before its first query.                         *)
LEMMA PoolSizeType == PoolSize \in Nat \ {0}
<1> QED
  BY PoolAssumption, FS_CardinalityType, FS_EmptySet DEF PoolSize

(* What Injection says, pointwise.                                         *)
LEMMA InjectionDistinct ==
  ASSUME NEW S, NEW T, NEW f \in Injection(S, T)
  PROVE  \A i, j \in S : f[i] = f[j] => i = j
<1> QED
  BY DEF Injection, IsInjective

(* A pool whose connections are all up and idle.                           *)
LEMMA IInvWarmInit == WarmInit => IInvWarm
<1> SUFFICES ASSUME WarmInit PROVE IInvWarm
  OBVIOUS
<1>1. PoolSize \in Nat \ {0} /\ PoolSize = Cardinality(Conns) /\ IsFiniteSet(Conns)
  BY PoolSizeType, PoolAssumption DEF PoolSize
<1>2. /\ connected_conns \in [1..PoolSize -> Conns]
      /\ connected_conns \in Seq(Conns)
      /\ Len(connected_conns) = PoolSize
      /\ Elems(connected_conns) = Conns
      /\ available_conns = connected_conns
  BY <1>1 DEF WarmInit
<1>3. Distinct(connected_conns)
  <2>1. connected_conns \in Surjection(1..PoolSize, Conns)
    <3>1. \A c \in Conns : \E i \in 1..PoolSize : connected_conns[i] = c
      BY <1>2 DEF Elems
    <3> QED
      BY <1>2, <3>1 DEF Surjection
  <2>2. IsFiniteSet(1..PoolSize) /\ Cardinality(1..PoolSize) = Cardinality(Conns)
    BY <1>1, FS_Interval
  <2>3. connected_conns \in Injection(1..PoolSize, Conns)
    BY <2>1, <2>2, FS_SurjSameCardinalityImpliesInj
  <2>4. \A i, j \in 1..PoolSize : connected_conns[i] = connected_conns[j] => i = j
    BY <2>3, InjectionDistinct
  <2>5. DOMAIN connected_conns = 1..PoolSize
    BY <1>2
  <2> QED
    BY <2>4, <2>5 DEF Distinct
<1>4. /\ Idle = Conns /\ Busy = {} /\ Held = {} /\ Holding = {}
      /\ {c \in Conns : phase[c] = "connected"} = Conns
  BY <1>2 DEF WarmInit, QuietInit, Idle, Busy, Held, Holding
<1>5. TypeOK
  <2>1. /\ connected_conns \in Seq(Conns) /\ available_conns \in Seq(Conns)
        /\ pending_queries \in Seq(Queries) /\ stack \in Seq(Frame)
        /\ submitted \in Seq(Queries) /\ started \in Seq(Queries)
    BY <1>2 DEF WarmInit, QuietInit
  <2>2. /\ phase \in [Conns -> {"connecting", "connected", "failed"}]
        /\ parent \in [Conns -> Clients \cup {None}]
        /\ is_error \in [Conns -> BOOLEAN]
        /\ results \in [Conns -> SUBSET Queries]
        /\ inflight \in [Conns -> Queries \cup {None}]
        /\ calls \in [Queries -> Nat]
    BY DEF WarmInit, QuietInit
  <2>3. /\ connected_count \in Nat /\ idle_count \in Nat /\ is_ready \in BOOLEAN
        /\ usable \subseteq Conns /\ failed \subseteq Queries
    BY <1>1 DEF WarmInit, QuietInit
  <2> QED
    BY <2>1, <2>2, <2>3 DEF TypeOK
<1>6. CountersAgree /\ ConnectedCounted
  BY <1>1, <1>2, <1>4 DEF WarmInit, CountersAgree, ConnectedCounted
<1>7. OnePlacePerConnection
  BY <1>2, <1>3, <1>4 DEF OnePlacePerConnection, Distinct
<1>8. OnlyTopInCallback /\ ParentIsClient
  BY <1>4 DEF WarmInit, QuietInit, OnlyTopInCallback, ParentIsClient, Running
<1>9. AllConnected /\ NoStrandedQuery /\ FirstComeFirstServed /\ SubmitterSeesQueueServed
  BY DEF WarmInit, QuietInit, AllConnected, NoStrandedQuery, FirstComeFirstServed,
         SubmitterSeesQueueServed, Running
<1> QED
  BY <1>5, <1>6, <1>7, <1>8, <1>9 DEF IInv, IInvWarm

(* How the order of the queries survives the three moves of sendQuery.     *)
LEMMA OrderKept ==
  ASSUME NEW S, NEW a \in Seq(S), NEW b \in Seq(S), NEW e \in S
  PROVE  /\ Append(a \o b, e) = a \o Append(b, e)
         /\ Append(a, e) \o <<>> = Append(a \o <<>>, e)
         /\ b # <<>> => Append(a, Head(b)) \o Tail(b) = a \o b
<1>1. Append(a \o b, e) = a \o Append(b, e)
  OBVIOUS
<1>2. Append(a, e) \o <<>> = Append(a \o <<>>, e)
  OBVIOUS
<1>3. b # <<>> => Append(a, Head(b)) \o Tail(b) = a \o b
  OBVIOUS
<1> QED
  BY <1>1, <1>2, <1>3

(* sendQuery keeps the order, whichever way it goes.                       *)
LEMMA SendQueryOrder ==
  ASSUME IInv, FirstComeFirstServed,
         NEW q \in Queries, NEW rest \in Seq(Queries), NEW base,
         SameFrames(base), SendQuery(q, rest, base),
         \/ /\ rest = pending_queries
            /\ submitted' = Append(submitted, q)
            /\ pending_queries = <<>> \/ idle_count = 0
         \/ /\ pending_queries # <<>>
            /\ q = Head(pending_queries)
            /\ rest = Tail(pending_queries)
            /\ idle_count > 0
            /\ submitted' = submitted
  PROVE  FirstComeFirstServed' /\ SubmitterSeesQueueServed'
<1>1. /\ started \in Seq(Queries) /\ pending_queries \in Seq(Queries)
      /\ submitted = started \o pending_queries
      /\ TypeOK /\ idle_count \in Nat
  BY DEF IInv, TypeOK, FirstComeFirstServed
<1>2. CASE Enqueue(q, rest, base)
  <2>1. /\ idle_count = 0 /\ stack' = base
        /\ pending_queries' = Append(rest, q) /\ started' = started
    BY <1>2 DEF Enqueue, Queued
  <2>2. rest = pending_queries /\ submitted' = Append(submitted, q)
    BY <2>1
  <2>3. FirstComeFirstServed'
    <3>1. Append(started \o pending_queries, q) = started \o Append(pending_queries, q)
      <4>1. started \in Seq(Queries) /\ pending_queries \in Seq(Queries) /\ q \in Queries
        BY <1>1
      <4> QED
        BY ONLY <4>1
    <3> QED
      BY <1>1, <2>1, <2>2, <3>1 DEF FirstComeFirstServed
  <2>4. ~ (Running("callback") \/ Running("user"))'
    BY <1>1, <2>1, SameFramesHold
  <2> QED
    BY <2>3, <2>4 DEF SubmitterSeesQueueServed
<1>3. CASE Dispatch(q, rest, base)
  <2>1. idle_count > 0 /\ pending_queries' = rest /\ started' = Append(started, q)
    BY <1>3 DEF Dispatch, TakeFront
  <2>2. FirstComeFirstServed'
    <3>1. CASE rest = pending_queries /\ submitted' = Append(submitted, q) /\ pending_queries = <<>>
      BY <1>1, <2>1, <3>1, OrderKept DEF FirstComeFirstServed
    <3>2. CASE /\ pending_queries # <<>> /\ q = Head(pending_queries)
               /\ rest = Tail(pending_queries) /\ submitted' = submitted
      BY <1>1, <2>1, <3>2, OrderKept DEF FirstComeFirstServed
    <3> QED
      BY <2>1, <3>1, <3>2
  <2> DEFINE c == Head(available_conns)
             frame == [conn |-> c, query |-> q, at |-> "callback"]
  <2>3. CASE stack' = base
    <3>1. ~ (Running("callback") \/ Running("user"))'
      BY <1>1, <2>3, SameFramesHold
    <3> QED
      BY <2>2, <3>1 DEF SubmitterSeesQueueServed
  <2>4. CASE stack' = Append(base, frame) /\ is_error' = [is_error EXCEPT ![c] = TRUE]
    <3>1. base \in Seq(Frame) /\ available_conns \in Seq(Conns) /\ available_conns # <<>>
      BY <1>1, <2>1 DEF IInv, TypeOK, CountersAgree, SameFrames
    <3>2. c \in Conns
      BY <3>1
    <3> HIDE DEF c
    <3>3. frame \in Frame
      BY <3>2 DEF Frame
    <3> HIDE DEF frame
    <3>4. Top' = frame
      BY <2>4, <3>1, <3>3 DEF Top
    <3>5. Top'.conn = c
      BY <3>4 DEF frame
    <3>6. is_error'[c]
      BY <1>1, <2>4, <3>2 DEF TypeOK
    <3> QED
      BY <2>2, <3>5, <3>6 DEF SubmitterSeesQueueServed
  <2> QED
    BY <1>3, <2>2, <2>3, <2>4 DEF Dispatch, TakeFront
<1> QED
  BY <1>2, <1>3 DEF SendQuery

(* One step per action.                                                    *)
LEMMA IInvWarmStep == IInvWarm /\ [Next]_vars => IInvWarm'
<1> SUFFICES ASSUME IInvWarm, [Next]_vars PROVE IInvWarm'
  OBVIOUS
<1>0. /\ IInv /\ IInv' /\ TypeOK /\ TypeOK' /\ CountersAgree /\ OnlyTopInCallback
      /\ AllConnected /\ NoStrandedQuery /\ FirstComeFirstServed
      /\ SubmitterSeesQueueServed
  BY IInvStep DEF IInvWarm, IInv
<1>a. /\ Len(stack) \in Nat
      /\ DOMAIN stack = 1..Len(stack)
      /\ stack # <<>> => Len(stack) \in DOMAIN stack /\ Top \in Frame
  BY <1>0 DEF TypeOK, Top
<1> DEFINE Warm == /\ AllConnected
                   /\ NoStrandedQuery
                   /\ FirstComeFirstServed
                   /\ SubmitterSeesQueueServed
<1> SUFFICES Warm'
  BY <1>0 DEF IInvWarm
<1>1. ASSUME NEW c \in Conns, ConnectDone(c) \/ ConnectFailed(c) PROVE Warm'
  BY <1>0, <1>1 DEF AllConnected, ConnectDone, ConnectFailed
<1>2. ASSUME NEW cl \in Clients, Submit(cl) PROVE Warm'
  <2>1. First(cl) \in Queries
    BY DEF First, Queries
  <2>2. /\ stack = <<>>
        /\ pending_queries = <<>> \/ idle_count = 0
        /\ submitted' = Append(submitted, First(cl))
        /\ SendQuery(First(cl), pending_queries, stack)
    BY <1>0, <1>2 DEF Submit, NoStrandedQuery
  <2>3. FirstComeFirstServed' /\ SubmitterSeesQueueServed'
    BY <1>0, <2>1, <2>2, BasesAreSameFrames, SendQueryOrder DEF TypeOK
  <2>4. NoStrandedQuery'
    <3>1. CASE Enqueue(First(cl), pending_queries, stack)
      BY <1>0, <2>2, <3>1 DEF Enqueue, Queued, NoStrandedQuery
    <3>2. CASE Dispatch(First(cl), pending_queries, stack)
      BY <1>0, <2>2, <3>2 DEF Dispatch, TakeFront, NoStrandedQuery, TypeOK
    <3> QED
      BY <2>2, <3>1, <3>2 DEF SendQuery
  <2>5. AllConnected'
    BY <1>0, <2>2 DEF SendQuery, AllConnected
  <2> QED
    BY <2>3, <2>4, <2>5
<1>3. ASSUME NEW c \in Conns, NEW outcome \in Outcomes, Complete(c, outcome) PROVE Warm'
  <2>1. stack = <<>> /\ stack' # <<>> /\ UNCHANGED <<poolVars, phase, submitted, started>>
    BY <1>3 DEF Complete
  <2> QED
    BY <1>0, <2>1 DEF poolVars, AllConnected, NoStrandedQuery, FirstComeFirstServed,
                      SubmitterSeesQueueServed
<1>4. CASE CallUser
  <2>1. /\ stack # <<>> /\ Top.at = "callback" /\ stack' = TopAt("user")
        /\ UNCHANGED <<poolVars, connVars, submitted, started>>
    BY <1>a, <1>4 DEF CallUser, Running
  <2>2. Top'.conn = Top.conn
    BY <1>0, <2>1, TopAtHold
  <2>3. stack' # <<>>
    BY <1>0, <1>a, <2>1, TopAtFrames DEF TypeOK
  <2>4. SubmitterSeesQueueServed'
    BY <1>0, <2>1, <2>2 DEF SubmitterSeesQueueServed, Running, poolVars, connVars
  <2> QED
    BY <1>0, <2>1, <2>3, <2>4
    DEF poolVars, connVars, AllConnected, NoStrandedQuery, FirstComeFirstServed
<1>5. CASE UserChains
  <2> DEFINE next == [FollowUp(Top.query) EXCEPT !.client = parent[Top.conn]]
  <2>1. next \in Queries
    BY <1>0, <1>a, <1>5
    DEF UserChains, Running, IInv, ParentIsClient, FollowUp, Frame, Queries
  <2>2. /\ Running("user") /\ ~ is_error[Top.conn]
        /\ submitted' = Append(submitted, next)
        /\ SendQuery(next, pending_queries, TopAt("recycle"))
    BY <1>5 DEF UserChains
  <2> HIDE DEF next
  <2>3. pending_queries = <<>> \/ idle_count = 0
    BY <1>0, <2>2 DEF SubmitterSeesQueueServed
  <2>4. SameFrames(TopAt("recycle"))
    BY <1>0, <2>2, BasesAreSameFrames
  <2>5. FirstComeFirstServed' /\ SubmitterSeesQueueServed'
    BY <1>0, <2>1, <2>2, <2>3, <2>4, SendQueryOrder DEF TypeOK
  <2>6. stack' # <<>>
    <3>1. stack # <<>> /\ TopAt("recycle") # <<>> /\ TopAt("recycle") \in Seq(Frame)
      BY <1>0, <1>a, <2>2, TopAtFrames DEF Running, TypeOK
    <3> QED
      BY <2>2, <3>1 DEF SendQuery, Dispatch, TakeFront, Enqueue, Queued
  <2>7. AllConnected'
    BY <1>0, <2>2 DEF SendQuery, AllConnected
  <2> QED
    BY <2>5, <2>6, <2>7 DEF NoStrandedQuery
<1>6. ASSUME UserReturns \/ Recycle PROVE Warm'
  <2>1. PICK loc \in {"recycle", "drain"} : stack' = TopAt(loc)
    BY <1>6 DEF UserReturns, Recycle, ResetConnection, GiveBack
  <2>2. stack # <<>> /\ UNCHANGED <<pending_queries, phase, submitted, started>>
    BY <1>6 DEF UserReturns, Recycle, ResetConnection, GiveBack, Running, poolVars, connVars, history
  <2>3. stack' # <<>> /\ ~ (Running("callback") \/ Running("user"))'
    <3>1. /\ Len(stack') = Len(stack)
          /\ Len(stack) \in DOMAIN stack
          /\ stack'[Len(stack)].at = loc
      BY <1>0, <1>a, <2>1, <2>2, TopAtFrames DEF TypeOK
    <3>2. Top'.at = loc /\ stack' # <<>>
      BY <1>a, <3>1 DEF Top
    <3> QED
      BY <3>2 DEF Running
  <2> QED
    BY <1>0, <2>2, <2>3
    DEF AllConnected, NoStrandedQuery, FirstComeFirstServed, SubmitterSeesQueueServed
<1>7. CASE ServePending
  <2>1. /\ Running("drain") /\ idle_count > 0 /\ pending_queries # <<>>
        /\ SendQuery(Head(pending_queries), Tail(pending_queries), stack)
        /\ submitted' = submitted
    BY <1>7 DEF ServePending, PoppedQueries, MoreToServe
  <2>2. Head(pending_queries) \in Queries /\ Tail(pending_queries) \in Seq(Queries)
    BY <1>0, <2>1 DEF TypeOK
  <2>3. SameFrames(stack)
    BY <1>0, <2>1, BasesAreSameFrames
  <2>4. FirstComeFirstServed' /\ SubmitterSeesQueueServed'
    BY <1>0, <2>1, <2>2, <2>3, SendQueryOrder
  <2>5. stack' # <<>>
    BY <1>0, <2>1 DEF Running, TypeOK, SendQuery, Dispatch, TakeFront, Enqueue, Queued
  <2>6. AllConnected'
    BY <1>0, <2>1 DEF SendQuery, AllConnected
  <2> QED
    BY <2>4, <2>5, <2>6 DEF NoStrandedQuery
<1>8. CASE Finish
  <2>1. /\ stack # <<>>
        /\ ~ (idle_count > 0 /\ pending_queries # <<>>)
        /\ stack' = SubSeq(stack, 1, Len(stack) - 1)
        /\ UNCHANGED <<idle_count, pending_queries, phase, submitted, started>>
    BY <1>8 DEF Finish, Running, MoreToServe, poolVars, connVars, history
  <2>2. NoStrandedQuery'
    BY <1>0, <2>1 DEF NoStrandedQuery, TypeOK
  <2>3. /\ Len(stack') = Len(stack) - 1
        /\ stack' # <<>> => Len(stack') \in 1..(Len(stack) - 1)
        /\ \A i \in 1..(Len(stack) - 1) : stack'[i] = stack[i]
    BY <1>0, <1>a, <2>1 DEF TypeOK
  <2>4. ~ (Running("callback") \/ Running("user"))'
    BY <1>0, <1>a, <2>3 DEF OnlyTopInCallback, Running, Top
  <2> QED
    BY <1>0, <2>1, <2>2, <2>4
    DEF AllConnected, FirstComeFirstServed, SubmitterSeesQueueServed
<1>9. CASE UNCHANGED vars
  BY <1>0, <1>9
  DEF vars, poolVars, connVars, history, AllConnected, NoStrandedQuery,
      FirstComeFirstServed, SubmitterSeesQueueServed, Running, Top
<1> QED
  BY <1>1, <1>2, <1>3, <1>4, <1>5, <1>6, <1>7, <1>8, <1>9 DEF Next, Answer, Thread

(* The invariant of a pool that was ready first.                           *)
LEMMA IInvWarmHolds == WarmSpec => []IInvWarm
<1> QED
  BY IInvWarmInit, IInvWarmStep, PTL DEF WarmSpec

(* A pool that was ready first never leaves a query pending beside an idle *)
(* connection between two events, whatever fails (db_pooler.h:83-87).      *)
THEOREM NoneStranded == WarmSpec => []NoStrandedQuery
<1>1. IInvWarm => NoStrandedQuery
  BY DEF IInvWarm
<1> QED
  BY IInvWarmHolds, <1>1, PTL

(* Such a pool hands the queries to the database in the order in which     *)
(* sendQuery was called, nested calls included (db_pooler.h:64-98).        *)
THEOREM ServedInOrder == WarmSpec => []FirstComeFirstServed
<1>1. IInvWarm => FirstComeFirstServed
  BY DEF IInvWarm
<1> QED
  BY IInvWarmHolds, <1>1, PTL
=============================================================================
