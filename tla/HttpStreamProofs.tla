--------------------------- MODULE HttpStreamProofs ---------------------------
(***************************************************************************)
(* What ClientconnectionProofs and APIconnectionProofs have in common: the *)
(* part of their inductive invariants that is about the stream, and that   *)
(* every step of HttpStream preserves it.                                  *)
(***************************************************************************)
EXTENDS HttpStream, TLAPS

(* The tokens on their way to the parser, and the last one it has seen.    *)
Start   == [msg |-> 0, part |-> 0, last |-> TRUE]
Stream  == chunk \o inbox
Real(t) == t \notin {EmptyLine, Garbage}
Parsed  == IF message = <<>> THEN Start ELSE message[Len(message)]

Follows(t, u) ==
  IF t.last THEN u.msg = t.msg + 1 /\ u.part = 1
            ELSE u.msg = t.msg /\ u.part = t.part + 1
Before(t, u) == t.msg < u.msg \/ (t.msg = u.msg /\ t.part < u.part)

(* From the parsed token to the last one sent, the stream holds every      *)
(* token of the peer's messages once and in order; empty lines and garbage *)
(* lie in between.                                                         *)
InOrder(s, first, last) ==
  /\ \A i, j \in DOMAIN s : i < j /\ Real(s[i]) /\ Real(s[j]) => Before(s[i], s[j])
  /\ \A i \in DOMAIN s : Real(s[i]) =>
       /\ s[i].msg > 0
       /\ Before(first, s[i])
       /\ s[i] = last \/ Before(s[i], last)
       /\ Follows(first, s[i]) \/ \E j \in 1..(i - 1) : Real(s[j]) /\ Follows(s[j], s[i])
  /\ last = first \/ \E i \in DOMAIN s : Real(s[i]) /\ s[i] = last
  /\ last = first \/ Before(first, last)

(* The parser holds the first tokens of message 1, and then all of it.     *)
PartRead(s)  == \A i \in DOMAIN s : s[i] = [msg |-> 1, part |-> i, last |-> FALSE]
StillReading == parser \in {"start", "message"}
ParserInv ==
  /\ chunk # <<>> => pc = "parse"
  /\ lastSent.msg = 0 => lastSent = Start
  /\ emptyLines = 0 => \A i \in DOMAIN Stream : Stream[i] # EmptyLine
  /\ parser = "error" => is_error
  /\ parser # "error" => (is_request_complete <=> parser = "done")
  /\ StillReading => PartRead(message) /\ InOrder(Stream, Parsed, lastSent)
  /\ parser = "done" => IsWhole(message, 1)

(* An error of the socket is reported, or will be.                         *)
ErrorInv ==
  /\ mask = {} => ~ ready
  /\ pc = "callback" => mask = {}
  /\ sockerr => peer = "reset"
  /\ sockerr /\ mask # {} => ready \/ (pc = "handler" /\ "err" \in ev)

StreamInv == StreamTypeOK /\ WrittenInOrder /\ ParserInv /\ ErrorInv

-----------------------------------------------------------------------------
(* Sequences.                                                              *)

(* Two sequences with the same elements are the same.                      *)
LEMMA SameElements ==
  ASSUME NEW S, NEW s \in Seq(S), NEW t \in Seq(S),
         Len(s) = Len(t), \A i \in 1..Len(s) : s[i] = t[i]
  PROVE  s = t
OBVIOUS

(* What is left of a sequence after its first k elements.                  *)
LEMMA RestElements ==
  ASSUME NEW S, NEW s \in Seq(S), NEW k \in 0..Len(s)
  PROVE  /\ Len(s) \in Nat
         /\ SubSeq(s, k + 1, Len(s)) \in Seq(S)
         /\ Len(SubSeq(s, k + 1, Len(s))) = Len(s) - k
         /\ \A i \in 1..(Len(s) - k) : SubSeq(s, k + 1, Len(s))[i] = s[k + i]
<1>1. Len(s) \in Nat /\ k \in Nat /\ k <= Len(s)
  OBVIOUS
<1>2. SubSeq(s, k + 1, Len(s)) \in Seq(S)
  BY <1>1
<1>3. Len(SubSeq(s, k + 1, Len(s))) = Len(s) - k
  BY <1>1
<1>4. \A i \in 1..(Len(s) - k) : SubSeq(s, k + 1, Len(s))[i] = s[k + i]
  BY <1>1
<1> QED
  BY <1>1, <1>2, <1>3, <1>4

(* A sequence cut in two is the two parts joined.                          *)
LEMMA CutAndJoin ==
  ASSUME NEW S, NEW s \in Seq(S), NEW k \in Nat, NEW n \in Nat, k + n <= Len(s)
  PROVE  /\ SubSeq(s, k + 1, k + n) \in Seq(S)
         /\ Len(SubSeq(s, k + 1, k + n)) = n
         /\ SubSeq(s, k + n + 1, Len(s)) \in Seq(S)
         /\ Len(SubSeq(s, k + n + 1, Len(s))) = Len(s) - (k + n)
         /\ SubSeq(s, k + 1, k + n) \o SubSeq(s, k + n + 1, Len(s)) = SubSeq(s, k + 1, Len(s))
<1> DEFINE a == SubSeq(s, k + 1, k + n)
           b == SubSeq(s, k + n + 1, Len(s))
           c == SubSeq(s, k + 1, Len(s))
<1>1. Len(s) \in Nat
  OBVIOUS
<1>2. a \in Seq(S) /\ Len(a) = n /\ \A i \in 1..n : a[i] = s[k + i]
  BY <1>1
<1>3. /\ b \in Seq(S) /\ Len(b) = Len(s) - (k + n)
      /\ \A i \in 1..(Len(s) - (k + n)) : b[i] = s[k + n + i]
  BY <1>1
<1>4. c \in Seq(S) /\ Len(c) = Len(s) - k /\ \A i \in 1..(Len(s) - k) : c[i] = s[k + i]
  <2> k \in 0..Len(s)
    BY <1>1
  <2> QED
    BY RestElements
<1> HIDE DEF a, b, c
<1>5. /\ a \o b \in Seq(S) /\ Len(a \o b) = Len(s) - k
      /\ \A i \in 1..(Len(s) - k) : (a \o b)[i] = IF i <= n THEN a[i] ELSE b[i - n]
  BY <1>1, <1>2, <1>3
<1>6. ASSUME NEW i \in 1..(Len(s) - k)
      PROVE  (a \o b)[i] = c[i]
  <2>1. CASE i <= n
    <3> i \in 1..n
      BY <1>1, <2>1
    <3> QED
      BY <1>2, <1>4, <1>5, <2>1
  <2>2. CASE ~ (i <= n)
    <3>1. i - n \in 1..(Len(s) - (k + n)) /\ k + n + (i - n) = k + i
      BY <1>1, <2>2
    <3> QED
      BY <1>3, <1>4, <1>5, <2>2, <3>1
  <2> QED
    BY <2>1, <2>2
<1>7. a \o b = c
  BY <1>4, <1>5, <1>6, SameElements
<1> QED
  BY <1>2, <1>3, <1>7 DEF a, b, c

(* What is appended to the whole is appended to what is left of it.        *)
LEMMA AppendToRest ==
  ASSUME NEW S, NEW s \in Seq(S), NEW t \in Seq(S), NEW k \in 0..Len(s)
  PROVE  /\ s \o t \in Seq(S)
         /\ SubSeq(s \o t, k + 1, Len(s \o t)) = SubSeq(s, k + 1, Len(s)) \o t
<1> DEFINE c == SubSeq(s, k + 1, Len(s))
           st == s \o t
           d == SubSeq(st, k + 1, Len(st))
<1>1. Len(s) \in Nat /\ Len(t) \in Nat
  OBVIOUS
<1>2. c \in Seq(S) /\ Len(c) = Len(s) - k /\ \A i \in 1..(Len(s) - k) : c[i] = s[k + i]
  BY <1>1
<1>3. /\ st \in Seq(S) /\ Len(st) = Len(s) + Len(t)
      /\ \A i \in 1..(Len(s) + Len(t)) : st[i] = IF i <= Len(s) THEN s[i] ELSE t[i - Len(s)]
  BY <1>1
<1> HIDE DEF c, st
<1>4. /\ d \in Seq(S) /\ Len(d) = Len(s) + Len(t) - k
      /\ \A i \in 1..(Len(s) + Len(t) - k) : d[i] = st[k + i]
  <2> k \in 0..Len(st)
    BY <1>1, <1>3
  <2> QED
    BY <1>3, RestElements
<1>5. /\ c \o t \in Seq(S) /\ Len(c \o t) = Len(s) + Len(t) - k
      /\ \A i \in 1..(Len(s) + Len(t) - k) :
           (c \o t)[i] = IF i <= Len(s) - k THEN c[i] ELSE t[i - (Len(s) - k)]
  BY <1>1, <1>2
<1> HIDE DEF d
<1>6. ASSUME NEW i \in 1..(Len(s) + Len(t) - k)
      PROVE  (c \o t)[i] = d[i]
  <2>1. k + i \in 1..(Len(s) + Len(t)) /\ (k + i) - Len(s) = i - (Len(s) - k)
    BY <1>1
  <2>2. CASE i <= Len(s) - k
    <3> i \in 1..(Len(s) - k) /\ k + i <= Len(s)
      BY <1>1, <2>2
    <3> QED
      BY <1>2, <1>3, <1>4, <1>5, <2>1
  <2>3. CASE ~ (i <= Len(s) - k)
    <3> ~ (k + i <= Len(s))
      BY <1>1, <2>3
    <3> QED
      BY <1>3, <1>4, <1>5, <2>1, <2>3
  <2> QED
    BY <2>2, <2>3
<1>7. c \o t = d
  BY <1>4, <1>5, <1>6, SameElements
<1> QED
  BY <1>3, <1>7 DEF c, d, st

(* What moves from the head of one sequence to the end of another.         *)
LEMMA MoveHead ==
  ASSUME NEW S, NEW s \in Seq(S), NEW t \in Seq(S), t # <<>>
  PROVE  /\ Append(s, Head(t)) \in Seq(S) /\ Tail(t) \in Seq(S)
         /\ Len(Tail(t)) = Len(t) - 1
         /\ Append(s, Head(t)) \o Tail(t) = s \o t
OBVIOUS

(* The sequences that joining gives.                                       *)
LEMMA Join ==
  ASSUME NEW S, NEW s \in Seq(S), NEW t \in Seq(S)
  PROVE  s \o t \in Seq(S) /\ Len(s \o t) = Len(s) + Len(t)
OBVIOUS

(* The first element of the left sequence is the first of the join.        *)
LEMMA TailOfJoin ==
  ASSUME NEW S, NEW s \in Seq(S), NEW t \in Seq(S), s # <<>>
  PROVE  /\ Tail(s) \o t = Tail(s \o t)
         /\ s \o t # <<>>
         /\ Head(s \o t) = Head(s)
OBVIOUS

(* The last element of the right sequence is the last of the join.         *)
LEMMA AppendToJoin ==
  ASSUME NEW S, NEW s \in Seq(S), NEW t \in Seq(S), NEW e \in S
  PROVE  s \o Append(t, e) = Append(s \o t, e)
OBVIOUS

(* What Tail and Append do to the elements.                                *)
LEMMA TailElements ==
  ASSUME NEW S, NEW s \in Seq(S), s # <<>>
  PROVE  /\ Tail(s) \in Seq(S)
         /\ DOMAIN s = 1..Len(s)
         /\ Len(s) \in Nat \ {0}
         /\ DOMAIN Tail(s) = 1..(Len(s) - 1)
         /\ \A i \in DOMAIN Tail(s) : Tail(s)[i] = s[i + 1]
         /\ Head(s) = s[1]
OBVIOUS

(* What Append does to the elements of a sequence.                         *)
LEMMA AppendElements ==
  ASSUME NEW S, NEW s \in Seq(S), NEW e \in S
  PROVE  /\ Append(s, e) \in Seq(S)
         /\ Len(s) \in Nat
         /\ DOMAIN s = 1..Len(s)
         /\ DOMAIN Append(s, e) = 1..(Len(s) + 1)
         /\ Len(Append(s, e)) = Len(s) + 1
         /\ \A i \in 1..Len(s) : Append(s, e)[i] = s[i]
         /\ Append(s, e)[Len(s) + 1] = e
OBVIOUS

-----------------------------------------------------------------------------
(* The order of tokens, and streams that are in order.                     *)

(* The fields of a token.                                                  *)
LEMMA TokenFields ==
  /\ \A t \in Tokens : t.msg \in Nat /\ t.part \in Nat /\ t.last \in BOOLEAN
  /\ {Start, EmptyLine, Garbage} \subseteq Tokens
<1>1. MaxMessages \in Nat /\ MsgLen \in Nat \ {0}
  BY StreamAssumption
<1>2. 0 \in 0..MaxMessages /\ 0 \in 0..MsgLen /\ 1 \in 0..MsgLen
  BY <1>1
<1>3. Start \in Tokens /\ EmptyLine \in Tokens /\ Garbage \in Tokens
  BY <1>2 DEF Tokens, Start, EmptyLine, Garbage
<1>4. \A t \in Tokens : t.msg \in Nat /\ t.part \in Nat /\ t.last \in BOOLEAN
  BY <1>1 DEF Tokens
<1> QED
  BY <1>3, <1>4

(* What StreamInit gives lastSent.                                         *)
LEMMA InitialToken == [EmptyLine EXCEPT !.last = TRUE] = Start
<1> DEFINE e == [EmptyLine EXCEPT !.last = TRUE]
<1>1. EmptyLine \in [msg : {0}, part : {0}, last : BOOLEAN]
  BY DEF EmptyLine
<1>2. e \in [msg : {0}, part : {0}, last : BOOLEAN] /\ e.last = TRUE
  BY <1>1
<1> HIDE DEF e
<1>3. e = [msg |-> e.msg, part |-> e.part, last |-> e.last]
  BY <1>2
<1> QED
  BY <1>2, <1>3 DEF Start, e

(* Before is a strict order, and a token that follows another is after it. *)
LEMMA BeforeIsAnOrder ==
  ASSUME NEW t \in Tokens, NEW u \in Tokens, NEW v \in Tokens
  PROVE  /\ ~ Before(t, t)
         /\ Before(t, u) /\ Before(u, v) => Before(t, v)
         /\ Follows(t, u) => Before(t, u)
         /\ Follows(t, u) /\ Follows(t, v) => ~ Before(u, v)
BY TokenFields DEF Before, Follows

(* The first token of a stream in order follows the last one parsed, and   *)
(* leaves a stream in order.                                               *)
LEMMA InOrderTail ==
  ASSUME NEW s \in Seq(Tokens), NEW first \in Tokens, NEW last \in Tokens,
         s # <<>>, Real(Head(s)), InOrder(s, first, last)
  PROVE  /\ Head(s) \in Tokens
         /\ Head(s).msg > 0
         /\ Follows(first, Head(s))
         /\ InOrder(Tail(s), Head(s), last)
<1> DEFINE t == Tail(s)
           h == Head(s)
<1>1. /\ t \in Seq(Tokens) /\ Len(s) \in Nat \ {0} /\ h = s[1]
      /\ DOMAIN s = 1..Len(s) /\ DOMAIN t = 1..(Len(s) - 1)
      /\ \A i \in DOMAIN t : t[i] = s[i + 1]
  BY TailElements
<1>2. \A i \in 1..Len(s) : s[i] \in Tokens
  OBVIOUS
<1>3. 1 \in DOMAIN s /\ h \in Tokens /\ Real(s[1])
  BY <1>1, <1>2
<1>4. h.msg > 0 /\ Before(first, h) /\ Follows(first, h) /\ (h = last \/ Before(h, last))
  BY <1>1, <1>3 DEF InOrder
<1> HIDE DEF t, h
<1>5. ASSUME NEW i \in DOMAIN t
      PROVE  i + 1 \in DOMAIN s /\ t[i] = s[i + 1] /\ t[i] \in Tokens /\ i \in Nat /\ 1 < i + 1
  BY <1>1, <1>2
<1>6. ASSUME NEW i \in DOMAIN t, NEW j \in DOMAIN t, i < j, Real(t[i]), Real(t[j])
      PROVE  Before(t[i], t[j])
  <2>1. i + 1 < j + 1
    BY <1>5, <1>6
  <2> QED
    BY <1>5, <1>6, <2>1 DEF InOrder
<1>7. ASSUME NEW i \in DOMAIN t, Real(t[i])
      PROVE  /\ t[i].msg > 0
             /\ Before(h, t[i])
             /\ t[i] = last \/ Before(t[i], last)
             /\ Follows(h, t[i]) \/ \E j \in 1..(i - 1) : Real(t[j]) /\ Follows(t[j], t[i])
  <2>1. Before(h, t[i])
    BY <1>1, <1>3, <1>5, <1>7 DEF InOrder
  <2>2. ~ Follows(first, t[i])
    BY <1>3, <1>4, <1>5, <2>1, BeforeIsAnOrder
  <2>3. PICK j \in 1..i : Real(s[j]) /\ Follows(s[j], t[i])
    BY <1>5, <1>7, <2>2 DEF InOrder
  <2>4. CASE j = 1
    BY <1>1, <1>5, <1>7, <2>1, <2>3, <2>4 DEF InOrder
  <2>5. CASE j # 1
    <3>1. j - 1 \in 1..(i - 1) /\ j - 1 \in DOMAIN t /\ (j - 1) + 1 = j
      BY <1>1, <1>5, <2>5
    <3>2. t[j - 1] = s[j]
      BY <1>1, <3>1
    <3>3. \E k \in 1..(i - 1) : Real(t[k]) /\ Follows(t[k], t[i])
      BY <2>3, <3>1, <3>2
    <3> QED
      BY <1>5, <1>7, <2>1, <3>3 DEF InOrder
  <2> QED
    BY <2>4, <2>5
<1>8. last = h \/ \E i \in DOMAIN t : Real(t[i]) /\ t[i] = last
  <2>1. last # first
    BY <1>3, <1>4, BeforeIsAnOrder
  <2>2. PICK j \in DOMAIN s : Real(s[j]) /\ s[j] = last
    BY <2>1 DEF InOrder
  <2>3. CASE j = 1
    BY <1>1, <2>2, <2>3
  <2>4. CASE j # 1
    <3>1. j - 1 \in DOMAIN t /\ (j - 1) + 1 = j
      BY <1>1, <2>4
    <3> QED
      BY <1>1, <2>2, <3>1
  <2> QED
    BY <2>3, <2>4
<1>9. InOrder(t, h, last)
  BY <1>4, <1>6, <1>7, <1>8 DEF InOrder
<1> QED
  BY <1>3, <1>4, <1>9 DEF t, h

(* An empty line, or garbage, at the head of a stream in order.            *)
LEMMA InOrderSkip ==
  ASSUME NEW s \in Seq(Tokens), NEW first \in Tokens, NEW last \in Tokens,
         s # <<>>, ~ Real(Head(s)), InOrder(s, first, last)
  PROVE  InOrder(Tail(s), first, last)
<1> DEFINE t == Tail(s)
<1>1. /\ t \in Seq(Tokens) /\ Len(s) \in Nat \ {0} /\ ~ Real(s[1])
      /\ DOMAIN s = 1..Len(s) /\ DOMAIN t = 1..(Len(s) - 1)
      /\ \A i \in DOMAIN t : t[i] = s[i + 1]
  BY TailElements
<1> HIDE DEF t
<1>2. ASSUME NEW i \in DOMAIN t
      PROVE  i + 1 \in DOMAIN s /\ t[i] = s[i + 1] /\ i \in Nat
  BY <1>1
<1>3. ASSUME NEW j \in DOMAIN s, Real(s[j])
      PROVE  j - 1 \in DOMAIN t /\ t[j - 1] = s[j]
  <2>1. j - 1 \in DOMAIN t /\ (j - 1) + 1 = j
    BY <1>1, <1>3
  <2> QED
    BY <1>1, <2>1
<1>4. ASSUME NEW i \in DOMAIN t, NEW j \in DOMAIN t, i < j, Real(t[i]), Real(t[j])
      PROVE  Before(t[i], t[j])
  <2>1. i + 1 < j + 1
    BY <1>2, <1>4
  <2> QED
    BY <1>2, <1>4, <2>1 DEF InOrder
<1>5. ASSUME NEW i \in DOMAIN t, Real(t[i])
      PROVE  /\ t[i].msg > 0
             /\ Before(first, t[i])
             /\ t[i] = last \/ Before(t[i], last)
             /\ Follows(first, t[i]) \/ \E j \in 1..(i - 1) : Real(t[j]) /\ Follows(t[j], t[i])
  <2>1. CASE Follows(first, t[i])
    BY <1>2, <1>5, <2>1 DEF InOrder
  <2>2. CASE ~ Follows(first, t[i])
    <3>1. PICK j \in 1..i : Real(s[j]) /\ Follows(s[j], t[i])
      BY <1>2, <1>5, <2>2 DEF InOrder
    <3>2. j \in DOMAIN s /\ j # 1
      BY <1>1, <1>2, <3>1
    <3>3. j - 1 \in 1..(i - 1) /\ t[j - 1] = s[j]
      BY <1>2, <1>3, <3>1, <3>2
    <3>4. \E k \in 1..(i - 1) : Real(t[k]) /\ Follows(t[k], t[i])
      BY <3>1, <3>3
    <3> QED
      BY <1>2, <1>5, <3>4 DEF InOrder
  <2> QED
    BY <2>1, <2>2
<1>6. last = first \/ \E i \in DOMAIN t : Real(t[i]) /\ t[i] = last
  BY <1>3 DEF InOrder
<1>7. InOrder(t, first, last)
  BY <1>4, <1>5, <1>6 DEF InOrder
<1> QED
  BY <1>7 DEF t

(* The peer sends the token that follows the last one it sent.             *)
LEMMA InOrderAppend ==
  ASSUME NEW s \in Seq(Tokens), NEW first \in Tokens, NEW last \in Tokens, NEW t \in Tokens,
         t.msg > 0, Real(t), Follows(last, t), InOrder(s, first, last)
  PROVE  InOrder(Append(s, t), first, t)
<1> DEFINE u == Append(s, t)
           n == Len(s) + 1
<1>1. /\ Len(s) \in Nat /\ DOMAIN s = 1..Len(s) /\ DOMAIN u = 1..n
      /\ \A i \in DOMAIN s : u[i] = s[i]
      /\ u[n] = t
  BY AppendElements
<1>2. \A i \in DOMAIN s : s[i] \in Tokens
  OBVIOUS
<1>3. Before(last, t) /\ Before(first, t)
  BY BeforeIsAnOrder DEF InOrder
<1> HIDE DEF u
<1>4. ASSUME NEW i \in DOMAIN s, Real(s[i])
      PROVE  Before(s[i], t)
  BY <1>2, <1>3, <1>4, BeforeIsAnOrder DEF InOrder
<1>5. \A i \in DOMAIN u : i = n \/ (i \in DOMAIN s /\ i < n /\ u[i] = s[i])
  BY <1>1
<1>6. n \in DOMAIN u
  BY <1>1
<1> HIDE DEF n
<1>7. ASSUME NEW i \in DOMAIN u, NEW j \in DOMAIN u, i < j, Real(u[i]), Real(u[j])
      PROVE  Before(u[i], u[j])
  <2>1. i \in DOMAIN s /\ u[i] = s[i]
    BY <1>1, <1>5, <1>7 DEF n
  <2>2. CASE j = n
    BY <1>1, <1>4, <1>7, <2>1, <2>2
  <2>3. CASE j # n
    BY <1>5, <1>7, <2>1, <2>3 DEF InOrder
  <2> QED
    BY <2>2, <2>3
<1>8. ASSUME NEW i \in DOMAIN u, Real(u[i])
      PROVE  /\ u[i].msg > 0
             /\ Before(first, u[i])
             /\ u[i] = t \/ Before(u[i], t)
             /\ Follows(first, u[i]) \/ \E j \in 1..(i - 1) : Real(u[j]) /\ Follows(u[j], u[i])
  <2>1. CASE i = n
    <3>1. Follows(first, t) \/ \E j \in 1..(n - 1) : Real(u[j]) /\ Follows(u[j], t)
      <4>1. CASE last = first
        BY <4>1
      <4>2. CASE last # first
        <5>1. PICK j \in DOMAIN s : Real(s[j]) /\ s[j] = last
          BY <4>2 DEF InOrder
        <5>2. j \in 1..(n - 1) /\ u[j] = last
          BY <1>1, <5>1 DEF n
        <5> QED
          BY <5>1, <5>2
      <4> QED
        BY <4>1, <4>2
    <3> QED
      BY <1>1, <1>3, <2>1, <3>1
  <2>2. CASE i # n
    <3>1. i \in DOMAIN s /\ u[i] = s[i]
      BY <1>5, <2>2
    <3>2. \A j \in 1..(i - 1) : u[j] = s[j]
      BY <1>1, <3>1
    <3>3. /\ s[i].msg > 0 /\ Before(first, s[i])
          /\ Follows(first, s[i]) \/ \E j \in 1..(i - 1) : Real(s[j]) /\ Follows(s[j], s[i])
      BY <1>8, <3>1 DEF InOrder
    <3>4. Before(s[i], t)
      BY <1>4, <1>8, <3>1
    <3>5. Follows(first, u[i]) \/ \E j \in 1..(i - 1) : Real(u[j]) /\ Follows(u[j], u[i])
      BY <3>1, <3>2, <3>3
    <3> QED
      BY <3>1, <3>3, <3>4, <3>5
  <2> QED
    BY <2>1, <2>2
<1>9. InOrder(u, first, t)
  BY <1>1, <1>3, <1>6, <1>7, <1>8 DEF InOrder
<1> QED
  BY <1>9 DEF u

(* The peer sends something else.                                          *)
LEMMA InOrderAppendOther ==
  ASSUME NEW s \in Seq(Tokens), NEW first \in Tokens, NEW last \in Tokens, NEW t \in Tokens,
         ~ Real(t), InOrder(s, first, last)
  PROVE  InOrder(Append(s, t), first, last)
<1> DEFINE u == Append(s, t)
<1>1. /\ Len(s) \in Nat /\ DOMAIN s = 1..Len(s) /\ DOMAIN u = 1..(Len(s) + 1)
      /\ \A i \in DOMAIN s : u[i] = s[i]
      /\ u[Len(s) + 1] = t
  BY AppendElements
<1> HIDE DEF u
<1>2. \A i \in DOMAIN u : Real(u[i]) => i \in DOMAIN s /\ u[i] = s[i]
  BY <1>1
<1>3. \A i \in DOMAIN s : i \in DOMAIN u /\ u[i] = s[i]
  BY <1>1
<1>4. ASSUME NEW i \in DOMAIN u, Real(u[i])
      PROVE  Follows(first, u[i]) \/ \E j \in 1..(i - 1) : Real(u[j]) /\ Follows(u[j], u[i])
  <2>1. i \in DOMAIN s /\ u[i] = s[i]
    BY <1>2, <1>4
  <2>2. \A j \in 1..(i - 1) : u[j] = s[j]
    BY <1>1, <2>1
  <2>3. Follows(first, s[i]) \/ \E j \in 1..(i - 1) : Real(s[j]) /\ Follows(s[j], s[i])
    BY <1>4, <2>1 DEF InOrder
  <2> QED
    BY <2>1, <2>2, <2>3
<1>5. InOrder(u, first, last)
  BY <1>2, <1>3, <1>4 DEF InOrder
<1> QED
  BY <1>5 DEF u

-----------------------------------------------------------------------------
(* Steps of the thread.                                                    *)

(* The empty sequence is every sequence's start and end.                   *)
LEMMA EmptyJoin ==
  ASSUME NEW S, NEW s \in Seq(S)
  PROVE  s \o <<>> = s /\ <<>> \o s = s
OBVIOUS

(* What is not touched is still in order.                                  *)
LEMMA WrittenUnchanged ==
  ASSUME WrittenInOrder, UNCHANGED <<got, outbox, sendVars, written>>
  PROVE  WrittenInOrder'
BY DEF WrittenInOrder, sendVars

(* A step that parses nothing and receives nothing.                        *)
LEMMA ParserUnchanged ==
  ASSUME ParserInv, UNCHANGED <<parseVars, inbox, lastSent, emptyLines>>,
         is_error' = is_error \/ is_error' = TRUE, chunk # <<>> => pc' = "parse"
  PROVE  ParserInv'
BY DEF ParserInv, parseVars, Stream, Parsed, StillReading

(* A callback is due, and nothing is tracked.                              *)
LEMMA ErrorAfterFinish ==
  ASSUME ErrorInv, Finish, UNCHANGED peer, sockerr' => sockerr
  PROVE  ErrorInv'
BY DEF ErrorInv, Finish, Untrack

(* epoll_wait.                                                             *)
LEMMA EpollWaitStep ==
  ASSUME StreamInv, EpollWait
  PROVE  StreamInv'
<1>1. Pending(mask) \subseteq {"in", "out", "err"}
  BY DEF StreamInv, StreamTypeOK, Pending
<1>2. StreamTypeOK'
  BY <1>1 DEF StreamInv, StreamTypeOK, EpollWait, parseVars, sendVars, userVars, sockVars, peerVars
<1>3. WrittenInOrder'
  BY WrittenUnchanged DEF StreamInv, EpollWait, sendVars, userVars, sockVars, peerVars
<1>4. ParserInv'
  BY ParserUnchanged DEF StreamInv, ParserInv, EpollWait, parseVars, sockVars, peerVars
<1>5. ErrorInv'
  <2>1. sockerr /\ mask # {} => "err" \in Pending(mask)
    BY DEF Pending
  <2> QED
    BY <2>1 DEF StreamInv, ErrorInv, EpollWait, sockVars, peerVars
<1> QED
  BY <1>2, <1>3, <1>4, <1>5 DEF StreamInv

(* Every way to a callback that fails but the parser's.                    *)
LEMMA HandleErrorStep ==
  ASSUME StreamInv, HandleError
  PROVE  StreamInv'
<1>1. StreamTypeOK'
  BY DEF StreamInv, StreamTypeOK, HandleError, Fail, Finish, Untrack,
         parseVars, sendVars, userVars, sockVars, peerVars
<1>2. WrittenInOrder'
  BY WrittenUnchanged DEF StreamInv, HandleError, sendVars, userVars, sockVars, peerVars
<1>3. ParserInv'
  BY ParserUnchanged DEF StreamInv, ParserInv, HandleError, Fail, parseVars, sockVars, peerVars
<1>4. ErrorInv'
  BY ErrorAfterFinish DEF StreamInv, HandleError, Fail, sockVars, peerVars
<1> QED
  BY <1>1, <1>2, <1>3, <1>4 DEF StreamInv

(* recv returns 0: the operation fails.                                    *)
LEMMA RecvEndsStep ==
  ASSUME StreamInv, RecvEnds
  PROVE  StreamInv'
<1>1. StreamTypeOK'
  BY DEF StreamInv, StreamTypeOK, RecvEnds, Fail, Finish, Untrack,
         parseVars, sendVars, userVars, sockVars, peerVars
<1>2. WrittenInOrder'
  BY WrittenUnchanged DEF StreamInv, RecvEnds, sendVars, userVars, sockVars, peerVars
<1>3. ParserInv'
  BY ParserUnchanged DEF StreamInv, ParserInv, RecvEnds, Fail, parseVars, sockVars, peerVars
<1>4. ErrorInv'
  BY ErrorAfterFinish DEF StreamInv, RecvEnds, Fail, sockVars, peerVars
<1> QED
  BY <1>1, <1>2, <1>3, <1>4 DEF StreamInv

(* send fails.                                                             *)
LEMMA SendFailsStep ==
  ASSUME StreamInv, SendFails
  PROVE  StreamInv'
<1>1. StreamTypeOK'
  BY DEF StreamInv, StreamTypeOK, SendFails, Fail, Finish, Untrack,
         parseVars, sendVars, userVars, peerVars
<1>2. WrittenInOrder'
  BY WrittenUnchanged DEF StreamInv, SendFails, sendVars, userVars, peerVars
<1>3. ParserInv'
  BY ParserUnchanged DEF StreamInv, ParserInv, SendFails, Fail, parseVars, peerVars
<1>4. ErrorInv'
  BY ErrorAfterFinish DEF StreamInv, SendFails, Fail, peerVars
<1> QED
  BY <1>1, <1>2, <1>3, <1>4 DEF StreamInv

(* recv takes from the socket's buffer what the parser is given: the       *)
(* stream is what it was.                                                  *)
LEMMA RecvDataStep ==
  ASSUME StreamInv, RecvData
  PROVE  StreamInv' /\ chunk' # <<>> /\ Stream' = Stream
<1> DEFINE n == Least(RecvMax, Len(inbox))
<1>1. inbox \in Seq(Tokens) /\ Len(inbox) \in Nat \ {0} /\ chunk = <<>>
  BY DEF StreamInv, StreamTypeOK, ParserInv, RecvData
<1>2. n \in Nat \ {0} /\ 0 + n <= Len(inbox)
  BY <1>1, StreamAssumption DEF Least
<1> HIDE DEF n
<1>3. chunk' = SubSeq(inbox, 1, n) /\ inbox' = SubSeq(inbox, n + 1, Len(inbox))
  BY DEF RecvData, n
<1>4. /\ chunk' \in Seq(Tokens) /\ Len(chunk') = n /\ inbox' \in Seq(Tokens)
      /\ chunk' \o inbox' = SubSeq(inbox, 1, Len(inbox))
  <2>1. PICK k \in Nat : k = 0
    OBVIOUS
  <2>2. inbox \in Seq(Tokens) /\ n \in Nat /\ k + n <= Len(inbox)
    BY <1>1, <1>2, <2>1
  <2>3. /\ SubSeq(inbox, k + 1, k + n) \in Seq(Tokens)
        /\ SubSeq(inbox, k + n + 1, Len(inbox)) \in Seq(Tokens)
    BY <2>2, CutAndJoin
  <2>4. SubSeq(inbox, k + 1, k + n) \o SubSeq(inbox, k + n + 1, Len(inbox))
          = SubSeq(inbox, k + 1, Len(inbox))
    BY <2>2, CutAndJoin
  <2>5. Len(SubSeq(inbox, k + 1, k + n)) = n
    BY <1>1, <2>2
  <2>6. k + 1 = 1 /\ k + n = n
    BY <1>2, <2>1
  <2> QED
    BY <1>3, <2>3, <2>4, <2>5, <2>6
<1>5. SubSeq(inbox, 1, Len(inbox)) = inbox
  BY <1>1
<1>6. Stream' = Stream /\ chunk' # <<>>
  BY <1>1, <1>2, <1>4, <1>5, EmptyJoin DEF Stream
<1>7. StreamTypeOK'
  BY <1>4 DEF StreamInv, StreamTypeOK, RecvData, sendVars, userVars, epVars, peerVars
<1>8. WrittenInOrder'
  BY WrittenUnchanged DEF StreamInv, RecvData, sendVars, userVars, peerVars
<1>9. ParserInv'
  <2>1. UNCHANGED <<is_error, is_request_complete, message, parser, lastSent, emptyLines>>
    BY DEF RecvData, peerVars
  <2>2. pc' = "parse"
    BY DEF RecvData
  <2> QED
    BY <1>6, <2>1, <2>2 DEF StreamInv, ParserInv, Parsed, StillReading
<1>10. ErrorInv'
  BY DEF StreamInv, ErrorInv, RecvData, epVars, peerVars
<1> QED
  BY <1>6, <1>7, <1>8, <1>9, <1>10 DEF StreamInv

(* recv returns -1: there is nothing more to read, or an error.            *)
LEMMA RecvFailsStep ==
  ASSUME StreamInv, RecvFails
  PROVE  StreamInv'
<1>1. StreamTypeOK'
  BY DEF StreamInv, StreamTypeOK, RecvFails, parseVars, sendVars, userVars, epVars, peerVars
<1>2. WrittenInOrder'
  BY WrittenUnchanged DEF StreamInv, RecvFails, sendVars, userVars, peerVars
<1>3. ParserInv'
  BY ParserUnchanged DEF StreamInv, ParserInv, RecvFails, parseVars, peerVars
<1>4. ErrorInv'
  BY DEF StreamInv, ErrorInv, RecvFails, epVars, peerVars
<1> QED
  BY <1>1, <1>2, <1>3, <1>4 DEF StreamInv

(* What the parser takes from the chunk it takes from the stream.          *)
LEMMA ParserTakes ==
  ASSUME StreamInv, Parsing
  PROVE  /\ chunk \in Seq(Tokens) /\ inbox \in Seq(Tokens) /\ message \in Seq(Tokens)
         /\ Stream \in Seq(Tokens) /\ Stream # <<>>
         /\ token \in Tokens /\ Head(Stream) = token
         /\ Tail(chunk) \in Seq(Tokens)
         /\ Tail(chunk) \o inbox = Tail(Stream)
         /\ \A t \in Tokens : (\A i \in DOMAIN Stream : Stream[i] # t)
              => token # t /\ \A i \in DOMAIN Tail(Stream) : Tail(Stream)[i] # t
         /\ Parsed \in Tokens /\ lastSent \in Tokens
<1>1. /\ chunk \in Seq(Tokens) /\ inbox \in Seq(Tokens) /\ message \in Seq(Tokens)
      /\ chunk # <<>> /\ lastSent \in Tokens
  BY DEF StreamInv, StreamTypeOK, Parsing
<1>2. Tail(chunk) \in Seq(Tokens) /\ token \in Tokens
  BY <1>1 DEF token
<1>3. Stream \in Seq(Tokens)
  BY <1>1 DEF Stream
<1>4. Tail(chunk) \o inbox = Tail(Stream) /\ Stream # <<>> /\ Head(Stream) = token
  BY <1>1, TailOfJoin DEF Stream, token
<1>5. Parsed \in Tokens
  BY <1>1, TokenFields DEF Parsed
<1>6. ASSUME NEW t \in Tokens, \A i \in DOMAIN Stream : Stream[i] # t
      PROVE  token # t /\ \A i \in DOMAIN Tail(Stream) : Tail(Stream)[i] # t
  <2>1. /\ DOMAIN Stream = 1..Len(Stream) /\ Len(Stream) \in Nat \ {0}
        /\ DOMAIN Tail(Stream) = 1..(Len(Stream) - 1)
        /\ \A i \in DOMAIN Tail(Stream) : Tail(Stream)[i] = Stream[i + 1]
        /\ Head(Stream) = Stream[1]
    BY <1>3, <1>4, TailElements
  <2>2. 1 \in DOMAIN Stream /\ \A i \in DOMAIN Tail(Stream) : i + 1 \in DOMAIN Stream
    BY <2>1
  <2> QED
    BY <1>4, <1>6, <2>1, <2>2
<1> QED
  BY <1>1, <1>2, <1>3, <1>4, <1>5, <1>6

(* A token of the peer's is the next one of message 1.                     *)
LEMMA ParsePartStep ==
  ASSUME StreamInv, ParsePart
  PROVE  StreamInv' /\ StillReading
<1> DEFINE k == Len(message) + 1
<1>1. Parsing /\ StillReading /\ Real(token)
  BY DEF ParsePart, StillReading, Real
<1>2. /\ chunk \in Seq(Tokens) /\ inbox \in Seq(Tokens) /\ message \in Seq(Tokens)
      /\ Stream \in Seq(Tokens) /\ Stream # <<>>
      /\ token \in Tokens /\ Head(Stream) = token
      /\ Tail(chunk) \in Seq(Tokens)
      /\ Tail(chunk) \o inbox = Tail(Stream)
      /\ Parsed \in Tokens /\ lastSent \in Tokens
  BY <1>1, ParserTakes
<1>3. PartRead(message) /\ InOrder(Stream, Parsed, lastSent)
  BY <1>1 DEF StreamInv, ParserInv
<1>4. token.msg > 0 /\ Follows(Parsed, token) /\ InOrder(Tail(Stream), token, lastSent)
  BY <1>1, <1>2, <1>3, InOrderTail
<1>5. Len(message) \in Nat /\ DOMAIN message = 1..Len(message)
  BY <1>2
<1>6. token.msg = 1 /\ token.part = k
  <2>1. CASE message = <<>>
    BY <1>4, <1>5, <2>1 DEF Parsed, Follows, Start
  <2>2. CASE message # <<>>
    <3>1. Len(message) \in DOMAIN message
      BY <1>2, <1>5, <2>2
    <3>2. Parsed = [msg |-> 1, part |-> Len(message), last |-> FALSE]
      BY <1>3, <2>2, <3>1 DEF Parsed, PartRead
    <3> QED
      BY <1>4, <3>2 DEF Follows
  <2> QED
    BY <2>1, <2>2
<1>7. token = [msg |-> 1, part |-> k, last |-> token.last] /\ token.last \in BOOLEAN
  BY <1>2, <1>6 DEF Tokens
<1>8. /\ message' = Append(message, token) /\ chunk' = Tail(chunk)
      /\ parser' = IF token.last THEN "done" ELSE "message"
      /\ is_request_complete' = (is_request_complete \/ token.last)
      /\ UNCHANGED <<is_error, epVars, pc, sendVars, userVars, sockVars, peerVars, ev>>
  BY DEF ParsePart, ParseFrame
<1>9. UNCHANGED <<is_error, pc, inbox, outbox, sockerr, sent_bytes, sendBuffer, written,
                  lastSent, emptyLines, got, mask, ready, peer, alive, delivered, ev>>
  BY <1>8 DEF epVars, sendVars, userVars, sockVars, peerVars
<1>10. /\ message' \in Seq(Tokens) /\ DOMAIN message' = 1..k /\ Len(message') = k
       /\ \A i \in 1..Len(message) : message'[i] = message[i]
       /\ message'[k] = token
  BY <1>2, <1>8, AppendElements
<1>11. Stream' = Tail(Stream) /\ Parsed' = token
  <2>1. message' # <<>>
    BY <1>5, <1>10
  <2> QED
    BY <1>2, <1>8, <1>9, <1>10, <2>1 DEF Stream, Parsed
<1>12. StreamTypeOK'
  BY <1>2, <1>7, <1>8, <1>9, <1>10 DEF StreamInv, StreamTypeOK
<1>13. WrittenInOrder'
  BY <1>9, WrittenUnchanged DEF StreamInv, sendVars
<1>14. \A i \in 1..k : i = k \/ i \in 1..Len(message)
  BY <1>5
<1>15. ParserInv'
  <2>1. pc = "parse" /\ parser # "error"
    BY <1>1 DEF Parsing, StillReading
  <2>2. emptyLines' = 0 => \A i \in DOMAIN Stream' : Stream'[i] # EmptyLine
    BY <1>1, <1>9, <1>11, ParserTakes, TokenFields DEF StreamInv, ParserInv
  <2>3. is_request_complete' <=> parser' = "done"
    BY <1>1, <1>7, <1>8, <2>1 DEF StreamInv, ParserInv, StillReading
  <2>4. StillReading' => PartRead(message') /\ InOrder(Stream', Parsed', lastSent')
    <3>1. SUFFICES ASSUME StillReading'
                   PROVE  PartRead(message')
      BY <1>4, <1>9, <1>11
    <3>2. ~ token.last
      BY <1>8, <3>1 DEF StillReading
    <3> QED
      BY <1>3, <1>5, <1>7, <1>10, <1>14, <3>2 DEF PartRead
  <2>5. parser' = "done" => IsWhole(message', 1)
    <3>1. SUFFICES ASSUME parser' = "done"
                   PROVE  IsWhole(message', 1)
      OBVIOUS
    <3>2. token.last = TRUE
      BY <1>7, <1>8, <3>1
    <3>3. ASSUME NEW i \in 1..Len(message)
          PROVE  message'[i] = [msg |-> 1, part |-> i, last |-> i = k]
      <4>1. (i = k) = FALSE
        BY <1>5
      <4> QED
        BY <1>3, <1>5, <1>10, <4>1 DEF PartRead
    <3>4. message'[k] = [msg |-> 1, part |-> k, last |-> k = k]
      BY <1>7, <1>10, <3>2
    <3>5. \A i \in DOMAIN message' : message'[i] = [msg |-> 1, part |-> i, last |-> i = Len(message')]
      BY <1>10, <1>14, <3>3, <3>4
    <3>6. message' # <<>>
      BY <1>5, <1>10
    <3> QED
      BY <3>5, <3>6 DEF IsWhole
  <2>6. /\ chunk' # <<>> => pc' = "parse"
        /\ lastSent'.msg = 0 => lastSent' = Start
        /\ parser' = "error" => is_error'
    BY <1>8, <1>9, <2>1 DEF StreamInv, ParserInv
  <2> QED
    BY <2>2, <2>3, <2>4, <2>5, <2>6 DEF ParserInv
<1>16. ErrorInv'
  BY <1>9 DEF StreamInv, ErrorInv
<1> QED
  BY <1>1, <1>12, <1>13, <1>15, <1>16 DEF StreamInv

(* An empty line moves nothing but the stream.                             *)
LEMMA ParseEmptyLineStep ==
  ASSUME StreamInv, ParseEmptyLine
  PROVE  StreamInv' /\ emptyLines # 0
<1>1. Parsing /\ token = EmptyLine /\ ~ Real(token)
  BY DEF ParseEmptyLine, Real
<1>2. /\ Stream \in Seq(Tokens) /\ Stream # <<>> /\ Head(Stream) = token
      /\ Tail(chunk) \in Seq(Tokens) /\ Tail(chunk) \o inbox = Tail(Stream)
      /\ Parsed \in Tokens /\ lastSent \in Tokens
  BY <1>1, ParserTakes
<1>3. /\ chunk' = Tail(chunk)
      /\ UNCHANGED <<is_error, is_request_complete, message, parser, mask, ready, pc, sendBuffer,
                     sent_bytes, alive, operation, delivered, written, inbox, outbox, sockerr,
                     peer, lastSent, emptyLines, got, ev>>
  BY DEF ParseEmptyLine, ParseFrame, epVars, sendVars, userVars, sockVars, peerVars
<1>4. Stream' = Tail(Stream) /\ Parsed' = Parsed
  BY <1>2, <1>3 DEF Stream, Parsed
<1>5. emptyLines # 0
  BY <1>1, ParserTakes, TokenFields DEF StreamInv, ParserInv
<1>6. StreamTypeOK'
  BY <1>2, <1>3 DEF StreamInv, StreamTypeOK
<1>7. WrittenInOrder'
  BY <1>3, WrittenUnchanged DEF StreamInv, sendVars
<1>8. ParserInv'
  <2>1. StillReading => InOrder(Tail(Stream), Parsed, lastSent)
    BY <1>1, <1>2, InOrderSkip DEF StreamInv, ParserInv
  <2>2. pc' = "parse"
    BY <1>1, <1>3 DEF Parsing
  <2> QED
    BY <1>3, <1>4, <1>5, <2>1, <2>2 DEF StreamInv, ParserInv, StillReading
<1>9. ErrorInv'
  BY <1>3 DEF StreamInv, ErrorInv
<1> QED
  BY <1>5, <1>6, <1>7, <1>8, <1>9 DEF StreamInv

(* llhttp reports an error.                                                *)
LEMMA ParseErrorStep ==
  ASSUME StreamInv, ParseError
  PROVE  StreamInv'
<1>1. /\ parser' = "error" /\ chunk' = <<>> /\ is_error' = TRUE /\ Finish
      /\ UNCHANGED <<sendBuffer, sent_bytes, alive, operation, delivered, written, inbox, outbox,
                     sockerr, peer, lastSent, emptyLines, got, ev>>
  BY DEF ParseError, ParseFrame, Fail, sendVars, userVars, sockVars, peerVars
<1>2. /\ message' = <<>> \/ message' = message
      /\ is_request_complete' = FALSE \/ is_request_complete' = is_request_complete
  BY DEF ParseError, Reset
<1>3. StreamTypeOK'
  <2>1. is_request_complete' \in BOOLEAN
    BY <1>2, Zenon DEF StreamInv, StreamTypeOK
  <2>2. message' \in Seq(Tokens)
    <3> message \in Seq(Tokens) /\ <<>> \in Seq(Tokens)
      BY DEF StreamInv, StreamTypeOK
    <3> QED
      BY <1>2, Zenon
  <2>3. chunk' \in Seq(Tokens)
    BY <1>1
  <2>4. is_error' \in BOOLEAN /\ ready' \in BOOLEAN
    BY <1>1, Zenon DEF Finish, Untrack
  <2> QED
    BY <1>1, <2>1, <2>2, <2>3, <2>4 DEF StreamInv, StreamTypeOK, Finish, Untrack
<1>4. WrittenInOrder'
  BY <1>1, WrittenUnchanged DEF StreamInv, sendVars
<1>5. ParserInv'
  <2>1. emptyLines' = 0 => \A i \in DOMAIN inbox : inbox[i] # EmptyLine
    <3>1. SUFFICES ASSUME emptyLines = 0, NEW i \in DOMAIN inbox
                   PROVE  inbox[i] # EmptyLine
      BY <1>1
    <3>2. /\ Len(chunk) \in Nat /\ Len(inbox) \in Nat /\ DOMAIN inbox = 1..Len(inbox)
          /\ DOMAIN Stream = 1..(Len(chunk) + Len(inbox))
          /\ \A j \in 1..(Len(chunk) + Len(inbox)) :
               Stream[j] = IF j <= Len(chunk) THEN chunk[j] ELSE inbox[j - Len(chunk)]
      BY DEF StreamInv, StreamTypeOK, Stream
    <3>3. /\ Len(chunk) + i \in 1..(Len(chunk) + Len(inbox))
          /\ ~ (Len(chunk) + i <= Len(chunk)) /\ (Len(chunk) + i) - Len(chunk) = i
      BY <3>2
    <3>4. \A j \in DOMAIN Stream : Stream[j] # EmptyLine
      BY <3>1 DEF StreamInv, ParserInv
    <3> QED
      BY <3>2, <3>3, <3>4
  <2>2. Stream' = inbox
    BY <1>1, EmptyJoin DEF StreamInv, StreamTypeOK, Stream
  <2> QED
    BY <1>1, <2>1, <2>2 DEF StreamInv, ParserInv, StillReading
<1>6. ErrorInv'
  BY <1>1, ErrorAfterFinish DEF StreamInv
<1> QED
  BY <1>3, <1>4, <1>5, <1>6 DEF StreamInv

(* The chunk is used up: the loop over recv goes on, or ends.              *)
LEMMA ChunkParsedStep ==
  ASSUME StreamInv, ChunkParsed
  PROVE  StreamInv'
<1>1. UNCHANGED <<is_error, parseVars, sendBuffer, sent_bytes, alive, operation, delivered,
                  written, inbox, outbox, sockerr, peer, lastSent, emptyLines, got, ev>>
  BY DEF ChunkParsed, ParseFrame, sendVars, userVars, sockVars, peerVars
<1>2. chunk = <<>> /\ (Finish \/ (pc' = "recv" /\ UNCHANGED epVars))
  BY DEF ChunkParsed, AfterChunk
<1>3. StreamTypeOK'
  BY <1>1, <1>2 DEF StreamInv, StreamTypeOK, parseVars, epVars, Finish, Untrack
<1>4. WrittenInOrder'
  BY <1>1, WrittenUnchanged DEF StreamInv, sendVars
<1>5. ParserInv'
  BY <1>1, <1>2, ParserUnchanged DEF StreamInv
<1>6. ErrorInv'
  <2>1. CASE Finish
    BY <1>1, <2>1, ErrorAfterFinish DEF StreamInv
  <2>2. CASE pc' = "recv" /\ UNCHANGED epVars
    <3> pc = "parse"
      BY DEF ChunkParsed
    <3> QED
      BY <1>1, <2>2 DEF StreamInv, ErrorInv, epVars
  <2> QED
    BY <1>2, <2>1, <2>2
<1> QED
  BY <1>3, <1>4, <1>5, <1>6 DEF StreamInv

(* send finds the socket's buffer full.                                    *)
LEMMA SendWouldBlockStep ==
  ASSUME StreamInv, SendWouldBlock
  PROVE  StreamInv'
<1>1. StreamTypeOK'
  BY DEF StreamInv, StreamTypeOK, SendWouldBlock,
         parseVars, sendVars, userVars, epVars, sockVars, peerVars
<1>2. WrittenInOrder'
  BY WrittenUnchanged DEF StreamInv, SendWouldBlock, sendVars, userVars, sockVars, peerVars
<1>3. ParserInv'
  BY ParserUnchanged DEF StreamInv, ParserInv, SendWouldBlock, parseVars, sockVars, peerVars
<1>4. ErrorInv'
  BY DEF StreamInv, ErrorInv, SendWouldBlock, epVars, sockVars, peerVars
<1> QED
  BY <1>1, <1>2, <1>3, <1>4 DEF StreamInv

(* What send takes leaves the socket in the order it was written in.       *)
LEMMA SendsSome ==
  ASSUME StreamInv, NEW n \in Int, Sends(n)
  PROVE  /\ left \in Nat /\ n \in 1..left
         /\ outbox' \in Seq(1..MaxWrites) /\ Len(outbox') <= SendRoom
         /\ got \o outbox' \o SubSeq(sendBuffer, sent_bytes + n + 1, Len(sendBuffer)) = written
<1> DEFINE S == 1..MaxWrites
           k == sent_bytes
           a == SubSeq(sendBuffer, k + 1, k + n)
           b == SubSeq(sendBuffer, k + n + 1, Len(sendBuffer))
<1>1. /\ {sendBuffer, outbox, got} \subseteq Seq(S)
      /\ Len(sendBuffer) \in Nat /\ Len(outbox) \in Nat /\ Len(outbox) <= SendRoom
      /\ k \in 0..Len(sendBuffer) /\ SendRoom \in Nat
  BY StreamAssumption DEF StreamInv, StreamTypeOK
<1>2. left \in Nat /\ n \in 1..left /\ n <= SendRoom - Len(outbox)
  BY <1>1 DEF Sends, Least, left
<1>3. k \in Nat /\ n \in Nat /\ k + n <= Len(sendBuffer) /\ sendBuffer \in Seq(S)
  BY <1>1, <1>2 DEF left
<1>4. outbox' = outbox \o a
  BY DEF Sends, Slice
<1>5. got \o outbox \o SubSeq(sendBuffer, k + 1, Len(sendBuffer)) = written
  BY DEF StreamInv, WrittenInOrder
<1> HIDE DEF S, k
<1>6. a \in Seq(S) /\ b \in Seq(S)
  BY <1>3, CutAndJoin
<1>7. a \o b = SubSeq(sendBuffer, k + 1, Len(sendBuffer))
  BY <1>3, CutAndJoin
<1>8. Len(a) = n
  BY <1>3
<1> HIDE DEF a, b
<1>9. /\ outbox \in Seq(S) /\ got \in Seq(S) /\ outbox' \in Seq(S)
      /\ Len(outbox') = Len(outbox) + n /\ got \o outbox \in Seq(S)
  <2>1. outbox \in Seq(S) /\ got \in Seq(S)
    BY <1>1
  <2>2. got \o outbox \in Seq(S) /\ outbox \o a \in Seq(S) /\ Len(outbox \o a) = Len(outbox) + Len(a)
    BY <1>6, <2>1, Join
  <2> QED
    BY <1>4, <1>8, <2>1, <2>2
<1>10. (got \o outbox) \o (a \o b) = written
  BY <1>5, <1>7
<1>11. got \o outbox' = (got \o outbox) \o a
  <2>1. outbox \in Seq(S) /\ got \in Seq(S) /\ a \in Seq(S)
    BY <1>6, <1>9
  <2>2. got \o (outbox \o a) = (got \o outbox) \o a
    BY ONLY <2>1
  <2> QED
    BY <1>4, <2>2
<1>12. ((got \o outbox) \o a) \o b = (got \o outbox) \o (a \o b)
  <2>1. got \o outbox \in Seq(S)
    BY <1>9
  <2> QED
    BY ONLY <1>6, <2>1
<1>13. got \o outbox' \o b = written
  BY <1>10, <1>11, <1>12
<1>14. Len(outbox') <= SendRoom
  BY <1>1, <1>2, <1>9
<1> QED
  BY <1>2, <1>9, <1>13, <1>14 DEF S, b, k

(* send takes a part of the buffer.                                        *)
LEMMA SendPartStep ==
  ASSUME StreamInv, SendsPart
  PROVE  StreamInv' /\ left' > 0 /\ left > 0
<1>1. PICK n \in 1..MaxWrites : SendPart(n)
  BY DEF SendsPart
<1>2. /\ Sends(n) /\ n < left /\ sent_bytes' = sent_bytes + n
      /\ UNCHANGED <<sendBuffer, mask, ready, pc>>
  BY <1>1 DEF SendPart, epVars
<1>3. /\ pc = "send"
      /\ UNCHANGED <<is_error, parseVars, alive, operation, delivered, written, inbox, sockerr,
                     peer, lastSent, emptyLines, got, ev>>
  BY <1>2 DEF Sends, userVars, peerVars
<1>4. /\ left \in Nat /\ n \in 1..left
      /\ outbox' \in Seq(1..MaxWrites) /\ Len(outbox') <= SendRoom
      /\ got \o outbox' \o SubSeq(sendBuffer, sent_bytes + n + 1, Len(sendBuffer)) = written
  <2>1. n \in Int
    OBVIOUS
  <2> QED
    BY <1>2, <2>1, SendsSome
<1>5. left' = left - n /\ left' > 0 /\ left > 0 /\ sent_bytes' \in 0..Len(sendBuffer')
  BY <1>2, <1>4 DEF left, StreamInv, StreamTypeOK
<1>6. StreamTypeOK'
  BY <1>2, <1>3, <1>4, <1>5 DEF StreamInv, StreamTypeOK, parseVars
<1>7. WrittenInOrder'
  BY <1>2, <1>3, <1>4 DEF WrittenInOrder
<1>8. ParserInv'
  BY <1>2, <1>3, ParserUnchanged DEF StreamInv, ParserInv
<1>9. ErrorInv'
  BY <1>2, <1>3 DEF StreamInv, ErrorInv
<1> QED
  BY <1>5, <1>6, <1>7, <1>8, <1>9 DEF StreamInv

(* The buffer is empty again; the callback is due, or the response is      *)
(* waited for.                                                             *)
LEMMA SendRestStep ==
  ASSUME StreamInv, SendRest, Finish \/ (Track({"in"}) /\ UNCHANGED pc)
  PROVE  StreamInv' /\ left' = 0 /\ left > 0
<1>1. Sends(left) /\ sendBuffer' = <<>> /\ sent_bytes' = 0
  BY DEF SendRest, Clear
<1>2. /\ pc = "send"
      /\ UNCHANGED <<is_error, parseVars, alive, operation, delivered, written, inbox, sockerr,
                     peer, lastSent, emptyLines, got, ev>>
  BY <1>1 DEF Sends, userVars, peerVars
<1>3. left \in Int
  BY DEF left, StreamInv, StreamTypeOK
<1>4. /\ left \in Nat /\ left \in 1..left
      /\ outbox' \in Seq(1..MaxWrites) /\ Len(outbox') <= SendRoom
      /\ got \o outbox' \o SubSeq(sendBuffer, sent_bytes + left + 1, Len(sendBuffer)) = written
  BY <1>1, <1>3, SendsSome
<1>5. left' = 0 /\ left > 0 /\ sent_bytes' \in 0..Len(sendBuffer') /\ sendBuffer' \in Seq(1..MaxWrites)
  BY <1>1, <1>4 DEF left
<1>6. StreamTypeOK'
  <2>1. mask' \in {{}, {"in"}, {"out"}} /\ pc' \in {"send", "callback"}
    BY <1>2 DEF Finish, Untrack, Track
  <2>2. ready' \in BOOLEAN
    BY Zenon DEF Finish, Untrack, Track
  <2> QED
    BY <1>2, <1>4, <1>5, <2>1, <2>2 DEF StreamInv, StreamTypeOK, parseVars
<1>7. WrittenInOrder'
  <2>1. sent_bytes + left + 1 = Len(sendBuffer) + 1 /\ Len(sendBuffer) \in Nat
    BY DEF left, StreamInv, StreamTypeOK
  <2>2. SubSeq(sendBuffer, Len(sendBuffer) + 1, Len(sendBuffer)) = <<>>
    BY <2>1 DEF StreamInv, StreamTypeOK
  <2>3. got \o outbox' \o <<>> = written
    BY <1>4, <2>1, <2>2
  <2>4. SubSeq(sendBuffer', sent_bytes' + 1, Len(sendBuffer')) = <<>>
    BY <1>1
  <2> QED
    BY <1>2, <2>3, <2>4 DEF WrittenInOrder
<1>8. ParserInv'
  BY <1>2, ParserUnchanged DEF StreamInv, ParserInv
<1>9. ErrorInv'
  <2>1. CASE Finish
    BY <1>2, <2>1, ErrorAfterFinish DEF StreamInv
  <2>2. CASE Track({"in"}) /\ UNCHANGED pc
    <3>1. sockerr => ready'
      BY <2>2 DEF Track, Pending
    <3> QED
      BY <1>2, <2>2, <3>1 DEF StreamInv, ErrorInv, Track
  <2> QED
    BY <2>1, <2>2
<1> QED
  BY <1>5, <1>6, <1>7, <1>8, <1>9 DEF StreamInv

(* What the program appends to the buffer is written.                      *)
LEMMA AppendWritten ==
  ASSUME StreamInv, NEW n \in 1..MaxWrites, Append2SendBuffer(n), UNCHANGED <<sent_bytes, got, outbox>>
  PROVE  /\ sendBuffer' \in Seq(1..MaxWrites) /\ written' \in Seq(1..MaxWrites)
         /\ sent_bytes' \in 0..Len(sendBuffer') /\ left' = left + n /\ left \in Nat
         /\ WrittenInOrder'
<1> DEFINE S == 1..MaxWrites
           tokens == [i \in 1..n |-> Len(written) + i]
           rest == SubSeq(sendBuffer, sent_bytes + 1, Len(sendBuffer))
<1>1. /\ sendBuffer \in Seq(S) /\ written \in Seq(S) /\ got \in Seq(S) /\ outbox \in Seq(S)
      /\ sent_bytes \in 0..Len(sendBuffer)
      /\ Len(sendBuffer) \in Nat /\ Len(written) \in Nat /\ MaxWrites \in Nat
  <2>1. /\ sendBuffer \in Seq(S) /\ written \in Seq(S) /\ got \in Seq(S) /\ outbox \in Seq(S)
        /\ sent_bytes \in 0..Len(sendBuffer)
    BY DEF StreamInv, StreamTypeOK
  <2>2. MaxWrites \in Nat
    BY StreamAssumption
  <2> QED
    BY <2>1, <2>2
<1>2. /\ Len(written) + n <= MaxWrites
      /\ sendBuffer' = sendBuffer \o tokens /\ written' = written \o tokens
  BY DEF Append2SendBuffer
<1>3. tokens \in Seq(S) /\ Len(tokens) = n
  <2>1. \A i \in 1..n : Len(written) + i \in S
    BY <1>1, <1>2
  <2>2. n \in Nat
    BY <1>1
  <2> QED
    BY <2>1, <2>2
<1> HIDE DEF tokens
<1>4. /\ sendBuffer' \in Seq(S) /\ written' \in Seq(S)
      /\ Len(sendBuffer') = Len(sendBuffer) + n
  BY <1>1, <1>2, <1>3, Join
<1>5. sent_bytes' \in 0..Len(sendBuffer') /\ left' = left + n /\ left \in Nat
  BY <1>1, <1>4 DEF left
<1>6. WrittenInOrder'
  <2>1. rest' = rest \o tokens
    <3>1. SubSeq(sendBuffer \o tokens, sent_bytes + 1, Len(sendBuffer \o tokens)) = rest \o tokens
      BY <1>1, <1>3, AppendToRest
    <3> QED
      BY <1>2, <3>1
  <2>2. rest \in Seq(S) /\ got \o outbox \in Seq(S)
    BY <1>1, RestElements
  <2>3. got \o outbox \o rest = written
    BY DEF StreamInv, WrittenInOrder
  <2> HIDE DEF rest
  <2>4. (got \o outbox) \o (rest \o tokens) = ((got \o outbox) \o rest) \o tokens
    BY ONLY <1>3, <2>2
  <2>5. got \o outbox \o rest' = written'
    BY <1>2, <2>1, <2>3, <2>4
  <2> QED
    BY <2>5 DEF WrittenInOrder, rest
<1> QED
  BY <1>4, <1>5, <1>6

(* An operation is started: something is tracked, and perhaps something    *)
(* was put into the buffer before.                                         *)
LEMMA StartStep ==
  ASSUME StreamInv, NEW m \in {{"in"}, {"out"}}, Track(m),
         pc \in {"loop", "callback"}, pc' = "loop", delivered' \in Nat,
         UNCHANGED <<is_error, parseVars, sent_bytes, alive, sockVars, peerVars, ev>>,
         UNCHANGED <<sendBuffer, written>> \/ \E n \in 1..MaxWrites : Append2SendBuffer(n)
  PROVE  StreamInv'
<1>1. UNCHANGED <<is_error, is_request_complete, message, parser, chunk, sent_bytes, alive, inbox,
                  outbox, sockerr, peer, lastSent, emptyLines, got, ev>>
  BY DEF parseVars, sockVars, peerVars
<1>2. /\ sendBuffer' \in Seq(1..MaxWrites) /\ written' \in Seq(1..MaxWrites)
      /\ sent_bytes' \in 0..Len(sendBuffer')
      /\ WrittenInOrder'
  <2>1. CASE UNCHANGED <<sendBuffer, written>>
    <3>1. WrittenInOrder'
      BY <1>1, <2>1, WrittenUnchanged DEF StreamInv, sendVars
    <3> QED
      BY <1>1, <2>1, <3>1 DEF StreamInv, StreamTypeOK
  <2>2. CASE \E n \in 1..MaxWrites : Append2SendBuffer(n)
    <3>1. PICK n \in 1..MaxWrites : Append2SendBuffer(n)
      BY <2>2
    <3> QED
      BY <1>1, <3>1, AppendWritten
  <2> QED
    BY <2>1, <2>2
<1>3. mask' = m /\ ready' = (Pending(m) # {})
  BY DEF Track
<1>4. StreamTypeOK'
  <2>1. ready' \in BOOLEAN
    BY <1>3, Zenon
  <2> QED
    BY <1>1, <1>2, <1>3, <2>1 DEF StreamInv, StreamTypeOK
<1>5. ParserInv'
  <2>1. chunk = <<>>
    BY DEF StreamInv, ParserInv
  <2> QED
    BY <1>1, <2>1, ParserUnchanged DEF StreamInv, parseVars
<1>6. ErrorInv'
  <2>1. sockerr => ready'
    BY <1>3 DEF Pending
  <2> QED
    BY <1>1, <1>3, <2>1 DEF StreamInv, ErrorInv
<1> QED
  BY <1>2, <1>4, <1>5, <1>6 DEF StreamInv

-----------------------------------------------------------------------------
(* Steps of the peer.                                                      *)

(* What arrives is the end of the stream.                                  *)
LEMMA ArrivesStep ==
  ASSUME StreamInv, NEW t \in Tokens, Arrives(t),
         lastSent' \in Tokens, emptyLines' \in 0..MaxEmptyLines
  PROVE  /\ Stream \in Seq(Tokens) /\ Stream' = Append(Stream, t)
         /\ Parsed \in Tokens /\ Parsed' = Parsed
         /\ StreamTypeOK' /\ WrittenInOrder' /\ ErrorInv'
         /\ (\A i \in DOMAIN Stream : Stream[i] # EmptyLine) /\ t # EmptyLine
              => \A i \in DOMAIN Stream' : Stream'[i] # EmptyLine
<1>1. /\ inbox' = Append(inbox, t) /\ Edge("in")
      /\ UNCHANGED <<is_error, is_request_complete, message, parser, chunk, sendBuffer,
                     sent_bytes, alive, operation, delivered, written, mask, pc, ev, outbox,
                     sockerr, peer, got>>
  BY DEF Arrives, PeerFrame, parseVars, sendVars, userVars
<1>2. inbox \in Seq(Tokens) /\ chunk \in Seq(Tokens) /\ message \in Seq(Tokens)
  BY DEF StreamInv, StreamTypeOK
<1>3. Stream \in Seq(Tokens) /\ Stream' = Append(Stream, t) /\ inbox' \in Seq(Tokens)
  BY <1>1, <1>2, AppendToJoin DEF Stream
<1>4. Parsed \in Tokens /\ Parsed' = Parsed
  BY <1>1, <1>2, TokenFields DEF Parsed
<1>5. ready' = (ready \/ "in" \in mask)
  BY <1>1 DEF Edge
<1>6. StreamTypeOK'
  <2>1. ready' \in BOOLEAN
    BY <1>5, Zenon
  <2> QED
    BY <1>1, <1>3, <2>1 DEF StreamInv, StreamTypeOK
<1>7. WrittenInOrder'
  BY <1>1, WrittenUnchanged DEF StreamInv, sendVars
<1>8. ErrorInv'
  BY <1>1, <1>5 DEF StreamInv, ErrorInv
<1>9. ASSUME \A i \in DOMAIN Stream : Stream[i] # EmptyLine, t # EmptyLine,
             NEW i \in DOMAIN Stream'
      PROVE  Stream'[i] # EmptyLine
  <2>1. /\ DOMAIN Stream' = 1..(Len(Stream) + 1) /\ DOMAIN Stream = 1..Len(Stream)
        /\ Len(Stream) \in Nat
        /\ \A j \in 1..Len(Stream) : Stream'[j] = Stream[j]
        /\ Stream'[Len(Stream) + 1] = t
    BY <1>3, AppendElements
  <2>2. i = Len(Stream) + 1 \/ i \in 1..Len(Stream)
    BY <2>1
  <2> QED
    BY <1>9, <2>1, <2>2
<1> QED
  BY <1>3, <1>4, <1>6, <1>7, <1>8, <1>9

(* The peer sends a token.                                                 *)
LEMMA PeerSendsStep ==
  ASSUME StreamInv, PeerSends
  PROVE  StreamInv'
<1>1. PICK ends \in BOOLEAN :
        LET t == IF lastSent.last
                 THEN [msg |-> lastSent.msg + 1, part |-> 1, last |-> ends]
                 ELSE [msg |-> lastSent.msg, part |-> lastSent.part + 1, last |-> ends]
        IN t \in Tokens /\ Arrives(t) /\ lastSent' = t /\ UNCHANGED emptyLines
  BY DEF PeerSends
<1>2. PICK t \in Tokens :
        /\ t = IF lastSent.last
               THEN [msg |-> lastSent.msg + 1, part |-> 1, last |-> ends]
               ELSE [msg |-> lastSent.msg, part |-> lastSent.part + 1, last |-> ends]
        /\ Arrives(t) /\ lastSent' = t /\ emptyLines' = emptyLines
  BY <1>1
<1>3. lastSent \in Tokens /\ emptyLines \in 0..MaxEmptyLines
  BY DEF StreamInv, StreamTypeOK
<1>4. lastSent.msg \in Nat /\ lastSent.part \in Nat
  BY <1>3, TokenFields
<1>5. t.msg > 0 /\ Real(t) /\ Follows(lastSent, t)
  <2>1. lastSent.msg = 0 => lastSent.last
    BY DEF StreamInv, ParserInv, Start
  <2>2. t.msg > 0 /\ Follows(lastSent, t)
    BY <1>2, <1>4, <2>1 DEF Follows
  <2>3. Real(t)
    BY <2>2 DEF Real, EmptyLine, Garbage
  <2> QED
    BY <2>2, <2>3
<1>6. /\ Stream \in Seq(Tokens) /\ Stream' = Append(Stream, t)
      /\ Parsed \in Tokens /\ Parsed' = Parsed
      /\ StreamTypeOK' /\ WrittenInOrder' /\ ErrorInv'
      /\ (\A i \in DOMAIN Stream : Stream[i] # EmptyLine) /\ t # EmptyLine
           => \A i \in DOMAIN Stream' : Stream'[i] # EmptyLine
  BY <1>2, <1>3, ArrivesStep
<1>7. ParserInv'
  <2>1. UNCHANGED <<is_error, is_request_complete, message, parser, chunk, pc>>
    BY <1>2 DEF Arrives, PeerFrame, parseVars
  <2>2. StillReading => InOrder(Stream', Parsed', lastSent')
    BY <1>2, <1>3, <1>5, <1>6, InOrderAppend DEF StreamInv, ParserInv
  <2>3. t # EmptyLine
    BY <1>5 DEF Real
  <2>4. emptyLines' = 0 => \A i \in DOMAIN Stream' : Stream'[i] # EmptyLine
    BY <1>2, <1>6, <2>3 DEF StreamInv, ParserInv
  <2>5. lastSent'.msg # 0
    BY <1>2, <1>5
  <2> QED
    BY <2>1, <2>2, <2>4, <2>5 DEF StreamInv, ParserInv, StillReading
<1> QED
  BY <1>6, <1>7 DEF StreamInv

(* Empty lines, and garbage.                                               *)
LEMMA PeerSendsOtherStep ==
  ASSUME StreamInv, PeerSendsEmptyLine \/ PeerSendsGarbage
  PROVE  StreamInv'
<1>1. PICK t \in {EmptyLine, Garbage} :
        /\ Arrives(t) /\ lastSent' = lastSent
        /\ \/ t = EmptyLine /\ emptyLines' = emptyLines + 1 /\ emptyLines < MaxEmptyLines
           \/ t = Garbage /\ emptyLines' = emptyLines
  BY DEF PeerSendsEmptyLine, PeerSendsGarbage
<1>2. /\ lastSent' \in Tokens /\ emptyLines' \in 0..MaxEmptyLines /\ t \in Tokens /\ ~ Real(t)
      /\ lastSent \in Tokens /\ emptyLines \in Nat
  <2>1. lastSent \in Tokens /\ emptyLines \in 0..MaxEmptyLines /\ MaxEmptyLines \in Nat
    BY StreamAssumption DEF StreamInv, StreamTypeOK
  <2>2. emptyLines' \in 0..MaxEmptyLines
    BY <1>1, <2>1
  <2>3. t \in Tokens /\ ~ Real(t)
    BY <1>1, TokenFields DEF Real
  <2> QED
    BY <1>1, <2>1, <2>2, <2>3
<1>3. /\ Stream \in Seq(Tokens) /\ Stream' = Append(Stream, t)
      /\ Parsed \in Tokens /\ Parsed' = Parsed
      /\ StreamTypeOK' /\ WrittenInOrder' /\ ErrorInv'
      /\ (\A i \in DOMAIN Stream : Stream[i] # EmptyLine) /\ t # EmptyLine
           => \A i \in DOMAIN Stream' : Stream'[i] # EmptyLine
  BY <1>1, <1>2, ArrivesStep
<1>4. ParserInv'
  <2>1. UNCHANGED <<is_error, is_request_complete, message, parser, chunk, pc>>
    BY <1>1 DEF Arrives, PeerFrame, parseVars
  <2>2. StillReading => InOrder(Stream', Parsed', lastSent')
    BY <1>1, <1>2, <1>3, InOrderAppendOther DEF StreamInv, ParserInv
  <2>3. emptyLines' = 0 => t # EmptyLine /\ emptyLines = 0
    BY <1>1, <1>2 DEF EmptyLine, Garbage
  <2>4. emptyLines' = 0 => \A i \in DOMAIN Stream' : Stream'[i] # EmptyLine
    BY <1>3, <2>3 DEF StreamInv, ParserInv
  <2> QED
    BY <1>1, <2>1, <2>2, <2>4 DEF StreamInv, ParserInv, StillReading
<1> QED
  BY <1>3, <1>4 DEF StreamInv

(* What the peer receives is the next of what was written.                 *)
LEMMA PeerReceivesStep ==
  ASSUME StreamInv, PeerReceives
  PROVE  StreamInv'
<1>1. /\ outbox # <<>> /\ got' = Append(got, Head(outbox)) /\ outbox' = Tail(outbox)
      /\ Edge("out")
      /\ UNCHANGED <<is_error, is_request_complete, message, parser, chunk, sendBuffer,
                     sent_bytes, alive, operation, delivered, written, mask, pc, ev, inbox,
                     sockerr, peer, lastSent, emptyLines>>
  BY DEF PeerReceives, PeerFrame, parseVars, sendVars, userVars
<1>2. /\ outbox \in Seq(1..MaxWrites) /\ got \in Seq(1..MaxWrites) /\ Len(outbox) \in Nat
      /\ Len(outbox) <= SendRoom /\ SendRoom \in Nat
  BY StreamAssumption DEF StreamInv, StreamTypeOK
<1>3. /\ outbox' \in Seq(1..MaxWrites) /\ got' \in Seq(1..MaxWrites)
      /\ Len(outbox') <= SendRoom
  <2> DEFINE S == 1..MaxWrites
  <2> HIDE DEF S
  <2>1. /\ Append(got, Head(outbox)) \in Seq(S) /\ Tail(outbox) \in Seq(S)
        /\ Len(Tail(outbox)) = Len(outbox) - 1
    <3> outbox \in Seq(S) /\ got \in Seq(S)
      BY <1>2 DEF S
    <3> QED
      BY <1>1, MoveHead
  <2> QED
    BY <1>1, <1>2, <2>1 DEF S
<1>4. StreamTypeOK'
  <2>1. ready' \in BOOLEAN
    BY <1>1, Zenon DEF Edge
  <2> QED
    BY <1>1, <1>3, <2>1 DEF StreamInv, StreamTypeOK
<1>5. WrittenInOrder'
  <2>1. got' \o outbox' = got \o outbox
    BY <1>1, <1>2, MoveHead
  <2> QED
    BY <1>1, <2>1 DEF StreamInv, WrittenInOrder
<1>6. ParserInv'
  BY <1>1, ParserUnchanged DEF StreamInv, ParserInv, parseVars
<1>7. ErrorInv'
  BY <1>1 DEF StreamInv, ErrorInv, Edge
<1> QED
  BY <1>4, <1>5, <1>6, <1>7 DEF StreamInv

(* The state of the connection changes at the peer's end.                  *)
LEMMA PeerChanges ==
  ASSUME StreamInv, PeerFrame, UNCHANGED <<inbox, outbox, lastSent, emptyLines, got>>,
         peer' \in {"up", "closed", "reset"},
         \/ peer # "reset" /\ sockerr' = sockerr /\ (ready => ready') /\ (mask = {} => ~ ready')
         \/ peer' = "reset" /\ sockerr' = TRUE /\ ready' = (mask # {}),
         ready' \in BOOLEAN
  PROVE  StreamInv'
<1>1. UNCHANGED <<is_error, is_request_complete, message, parser, chunk, sendBuffer,
                  sent_bytes, alive, operation, delivered, written, mask, pc, ev>>
  BY DEF PeerFrame, parseVars, sendVars, userVars
<1>2. StreamTypeOK'
  <2>1. sockerr' \in BOOLEAN
    BY Zenon DEF StreamInv, StreamTypeOK
  <2> QED
    BY <1>1, <2>1 DEF StreamInv, StreamTypeOK
<1>3. WrittenInOrder'
  BY <1>1, WrittenUnchanged DEF StreamInv, sendVars
<1>4. ParserInv'
  BY <1>1, ParserUnchanged DEF StreamInv, ParserInv, parseVars
<1>5. ErrorInv'
  BY <1>1 DEF StreamInv, ErrorInv
<1> QED
  BY <1>2, <1>3, <1>4, <1>5 DEF StreamInv

(* All steps of the peer.                                                  *)
LEMMA PeerStep ==
  ASSUME StreamInv, Peer
  PROVE  StreamInv'
<1>1. CASE PeerSends
  BY <1>1, PeerSendsStep
<1>2. CASE PeerSendsEmptyLine \/ PeerSendsGarbage
  BY <1>2, PeerSendsOtherStep
<1>3. CASE PeerReceives
  BY <1>3, PeerReceivesStep
<1>4. CASE PeerCloses
  <2>1. ready' = (ready \/ "in" \in mask)
    BY <1>4 DEF PeerCloses, Edge
  <2>2. ready' \in BOOLEAN
    BY <2>1, Zenon
  <2>3. (ready => ready') /\ (mask = {} => ~ ready')
    BY <2>1 DEF StreamInv, ErrorInv
  <2> QED
    BY <1>4, <2>2, <2>3, PeerChanges DEF PeerCloses, sockVars
<1>5. CASE PeerResets
  <2>1. ready' \in BOOLEAN
    BY <1>5, Zenon DEF PeerResets
  <2> QED
    BY <1>5, <2>1, PeerChanges DEF PeerResets
<1> QED
  BY <1>1, <1>2, <1>3, <1>4, <1>5 DEF Peer

-----------------------------------------------------------------------------
(* The start, and the steps that leave the stream alone.                   *)

(* The state of a new connection.                                          *)
LEMMA StreamStarts ==
  ASSUME StreamInit, peer \in {"none", "up"}
  PROVE  StreamInv
<1>1. /\ chunk = <<>> /\ inbox = <<>> /\ message = <<>> /\ outbox = <<>> /\ got = <<>>
      /\ sendBuffer = <<>> /\ sent_bytes = 0 /\ written = <<>> /\ lastSent = Start
      /\ emptyLines = 0 /\ parser = "start" /\ delivered = 0 /\ pc = "loop" /\ ev = {}
      /\ mask = {}
  BY InitialToken DEF StreamInit
<1>2. is_error = FALSE /\ is_request_complete = FALSE /\ alive = TRUE /\ ready = FALSE /\ sockerr = FALSE
  BY DEF StreamInit
<1>3. StreamTypeOK
  <2>1. {is_error, is_request_complete, alive, ready, sockerr} \subseteq BOOLEAN
    BY <1>2
  <2>2. /\ {message, inbox, chunk} \subseteq Seq(Tokens)
        /\ {sendBuffer, outbox, got, written} \subseteq Seq(1..MaxWrites)
        /\ sent_bytes \in 0..Len(sendBuffer)
        /\ Len(outbox) <= SendRoom
    BY <1>1, StreamAssumption
  <2>3. lastSent \in Tokens /\ emptyLines \in 0..MaxEmptyLines
    BY <1>1, TokenFields, StreamAssumption
  <2> QED
    BY <1>1, <2>1, <2>2, <2>3 DEF StreamTypeOK
<1>4. WrittenInOrder
  BY <1>1 DEF WrittenInOrder
<1>5. Stream = <<>> /\ Parsed = Start
  BY <1>1 DEF Stream, Parsed
<1>6. InOrder(<<>>, Start, Start) /\ PartRead(<<>>)
  BY DEF InOrder, PartRead
<1>7. ParserInv
  BY <1>1, <1>2, <1>5, <1>6 DEF ParserInv
<1>8. ErrorInv
  BY <1>1, <1>2 DEF ErrorInv
<1> QED
  BY <1>3, <1>4, <1>7, <1>8 DEF StreamInv

(* A step that only moves the thread.                                      *)
LEMMA ThreadMoves ==
  ASSUME StreamInv, UNCHANGED <<is_error, parseVars, sendVars, written, epVars, sockVars, peerVars, ev>>,
         alive' \in BOOLEAN, delivered' \in Nat,
         pc' \in {"loop", "handler", "recv", "parse", "send", "callback"},
         chunk # <<>> => pc' = "parse", pc' = "callback" => mask = {},
         pc = "handler" /\ pc' # "handler" => "err" \notin ev
  PROVE  StreamInv'
<1>1. UNCHANGED <<is_error, is_request_complete, message, parser, chunk, sendBuffer, sent_bytes,
                  written, mask, ready, inbox, outbox, sockerr, peer, lastSent, emptyLines, got, ev>>
  BY DEF parseVars, sendVars, epVars, sockVars, peerVars
<1>2. StreamTypeOK'
  BY <1>1 DEF StreamInv, StreamTypeOK
<1>3. WrittenInOrder'
  BY <1>1, WrittenUnchanged DEF StreamInv, sendVars
<1>4. ParserInv'
  BY <1>1, ParserUnchanged DEF StreamInv, parseVars
<1>5. ErrorInv'
  BY <1>1 DEF StreamInv, ErrorInv
<1> QED
  BY <1>2, <1>3, <1>4, <1>5 DEF StreamInv

(* Nothing happens.                                                        *)
LEMMA StreamStutters ==
  ASSUME StreamInv, UNCHANGED streamVars
  PROVE  StreamInv'
<1>1. UNCHANGED <<is_error, is_request_complete, message, parser, chunk, sendBuffer, sent_bytes,
                  alive, operation, delivered, written, mask, ready, inbox, outbox, sockerr, peer,
                  lastSent, emptyLines, got, pc, ev>>
  BY DEF streamVars, parseVars, sendVars, userVars, epVars, sockVars, peerVars
<1>2. StreamTypeOK'
  BY <1>1 DEF StreamInv, StreamTypeOK
<1>3. WrittenInOrder'
  BY <1>1, WrittenUnchanged DEF StreamInv, sendVars
<1>4. ParserInv'
  BY <1>1, ParserUnchanged DEF StreamInv, ParserInv, parseVars
<1>5. ErrorInv'
  BY <1>1 DEF StreamInv, ErrorInv
<1> QED
  BY <1>2, <1>3, <1>4, <1>5 DEF StreamInv

-----------------------------------------------------------------------------
(* Readiness.                                                              *)

(* When epoll has nothing to report, before a step and after it.           *)
Quiet ==
  \/ mask = {}
  \/ /\ ~ sockerr
     /\ mask = {"in"} => ~ Readable
     /\ mask = {"out"} => ~ Writable

(* When nothing is pending there is no event to report.                    *)
LEMMA NothingPending ==
  ASSUME mask \in {{}, {"in"}, {"out"}}
  PROVE  Pending(mask) = {} <=> Quiet
<1>1. CASE mask = {}
  BY <1>1 DEF Pending, Quiet
<1>2. CASE mask = {"in"}
  BY <1>2 DEF Pending, Quiet
<1>3. CASE mask = {"out"}
  BY <1>3 DEF Pending, Quiet
<1> QED
  BY <1>1, <1>2, <1>3

(* The same after a step.                                                  *)
LEMMA NothingPendingNext ==
  ASSUME mask' \in {{}, {"in"}, {"out"}}
  PROVE  Pending(mask)' = {} <=> Quiet'
<1>1. CASE mask' = {}
  BY <1>1 DEF Pending, Quiet
<1>2. CASE mask' = {"in"}
  BY <1>2 DEF Pending, Quiet
<1>3. CASE mask' = {"out"}
  BY <1>3 DEF Pending, Quiet
<1> QED
  BY <1>1, <1>2, <1>3

(* What the peer does is reported, or changes nothing that is tracked.     *)
LEMMA PeerIsReported ==
  ASSUME StreamInv, Peer
  PROVE  /\ PeerFrame
         /\ emptyLines' \in Nat /\ emptyLines \in Nat /\ emptyLines' >= emptyLines
         /\ peer = "none" <=> peer' = "none"
         /\ ~ ready' => ~ ready
         /\ ~ ready' /\ Pending(mask) = {} => Pending(mask)' = {}
<1>1. PeerFrame
  BY DEF Peer, PeerSends, PeerSendsEmptyLine, PeerSendsGarbage, Arrives, PeerReceives,
         PeerCloses, PeerResets
<1>2. emptyLines \in Nat
  BY StreamAssumption DEF StreamInv, StreamTypeOK
<1>3. emptyLines' = emptyLines \/ emptyLines' = emptyLines + 1
  BY DEF Peer, PeerSends, PeerSendsEmptyLine, PeerSendsGarbage, Arrives, PeerReceives,
         PeerCloses, PeerResets
<1>4. peer = "none" <=> peer' = "none"
  BY DEF Peer, PeerSends, PeerSendsEmptyLine, PeerSendsGarbage, Arrives, PeerReceives,
         PeerCloses, PeerResets
<1>5. mask \in {{}, {"in"}, {"out"}} /\ mask' = mask
  BY <1>1 DEF StreamInv, StreamTypeOK, PeerFrame
<1>6. mask = {} => ~ ready
  BY DEF StreamInv, ErrorInv
<1>7. (~ ready' => ~ ready) /\ (~ ready' /\ Quiet => Quiet')
  <2>1. CASE PeerSends \/ PeerSendsEmptyLine \/ PeerSendsGarbage
    <3>1. ready' = (ready \/ "in" \in mask) /\ UNCHANGED <<outbox, sockerr, peer>>
      BY <2>1 DEF PeerSends, PeerSendsEmptyLine, PeerSendsGarbage, Arrives, Edge
    <3> QED
      BY <1>5, <3>1 DEF Quiet, Writable
  <2>2. CASE PeerReceives
    <3>1. ready' = (ready \/ "out" \in mask) /\ UNCHANGED <<inbox, sockerr, peer>>
      BY <2>2 DEF PeerReceives, Edge
    <3> QED
      BY <1>5, <3>1 DEF Quiet, Readable
  <2>3. CASE PeerCloses
    <3>1. /\ ready' = (ready \/ "in" \in mask) /\ UNCHANGED <<inbox, outbox, sockerr>>
          /\ peer = "up" /\ peer' = "closed"
      BY <2>3 DEF PeerCloses, Edge, sockVars
    <3> QED
      BY <1>5, <3>1 DEF Quiet, Writable
  <2>4. CASE PeerResets
    <3>1. ready' = (mask # {})
      BY <2>4 DEF PeerResets
    <3> QED
      BY <1>5, <1>6, <3>1 DEF Quiet
  <2> QED
    BY <2>1, <2>2, <2>3, <2>4 DEF Peer
<1>8. ~ ready' /\ Pending(mask) = {} => Pending(mask)' = {}
  BY <1>5, <1>7, NothingPending, NothingPendingNext
<1>9. emptyLines' \in Nat /\ emptyLines' >= emptyLines
  BY <1>2, <1>3
<1> QED
  BY <1>1, <1>2, <1>4, <1>7, <1>8, <1>9

(* What is pending when something is tracked is reported.                  *)
LEMMA TrackReports ==
  ASSUME NEW m \in {{"in"}, {"out"}}, Track(m), UNCHANGED <<inbox, peer, sockerr>>,
         outbox' = outbox \/ m = {"in"}
  PROVE  ~ ready' => Pending(mask)' = {}
<1>1. mask' = m /\ (~ ready' => Pending(m) = {})
  BY DEF Track
<1>2. CASE m = {"in"}
  BY <1>1, <1>2 DEF Pending, Readable
<1>3. CASE m = {"out"}
  BY <1>1, <1>3 DEF Pending, Writable
<1> QED
  BY <1>2, <1>3

(* A handler that returns for want of data, or of room, has seen all that  *)
(* was pending.                                                            *)
LEMMA HandlerIsDone ==
  ASSUME StreamInv, \/ RecvFails /\ mask = {"in"}
                    \/ SendWouldBlock /\ mask = {"out"}
  PROVE  ~ ready' => Pending(mask)' = {}
<1>1. CASE RecvFails /\ mask = {"in"}
  <2>1. UNCHANGED <<mask, ready, inbox, peer>> /\ inbox = <<>> /\ sockerr' = FALSE
    BY <1>1 DEF RecvFails, epVars, peerVars
  <2>2. pc = "recv" /\ (peer = "up" \/ sockerr)
    BY <1>1 DEF RecvFails
  <2>3. ~ ready => peer = "up"
    BY <1>1, <2>2 DEF StreamInv, ErrorInv
  <2>4. ~ ready' => Quiet'
    BY <1>1, <2>1, <2>3 DEF Quiet, Readable
  <2> QED
    BY <1>1, <2>1, <2>4, NothingPendingNext
<1>2. CASE SendWouldBlock /\ mask = {"out"}
  <2>1. /\ UNCHANGED <<mask, ready, outbox, sockerr, peer>> /\ peer # "reset"
        /\ Len(outbox) = SendRoom /\ SendRoom \in Nat
    BY <1>2, StreamAssumption DEF SendWouldBlock, epVars, sockVars, peerVars
  <2>2. ~ sockerr
    BY <2>1 DEF StreamInv, ErrorInv
  <2>3. Quiet'
    BY <1>2, <2>1, <2>2 DEF Quiet, Writable
  <2> QED
    BY <1>2, <2>1, <2>3, NothingPendingNext
<1> QED
  BY <1>1, <1>2
=============================================================================
