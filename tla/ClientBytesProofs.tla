------------------------- MODULE ClientBytesProofs -------------------------
(***************************************************************************)
(* The three binary interfaces of the C++ client, for every size of a byte *)
(* and of the buffer, all messages and all states of the game.             *)
(*                                                                         *)
(* What a handler does with a message is followed without looking at the   *)
(* messages one by one: a set of places that each lead to one another      *)
(* (Closed) is found instruction by instruction, and put together as the   *)
(* handlers are, in sequence, in loops and in cases (Runs).                *)
(***************************************************************************)
EXTENDS ClientBytes, CodecProofs

\* The calls that the server may make.
K == DOMAIN Samples

LEMMA ServerCalls ==
    /\ Supported(K) /\ ServerMessage \in Seq(K) /\ ServerMessage \in Todo(K)
    /\ ServerMessage # <<>> /\ <<>> \in Todo(K) /\ <<>> \in CallsOf(K)
    /\ \A T \in Seq(K) : T \in Todo(K)
    /\ BufferSize \in Nat /\ BufferSize >= Base + 11 /\ BufferSize >= 2 * Base + 1
    /\ Base \in Nat /\ Base >= 6
  <1>1. Supported(K) /\ ServerMessage \in Seq(K)
    BY ClientBytesAssumption DEF K
  <1>2. \A T \in Seq(K) : T \in Todo(K)
    BY SeqMonotonic DEF Todo, Frame
  <1>3. ServerMessage # <<>>
    BY DEF ServerMessage, Enum
  <1> QED
    BY <1>1, <1>2, <1>3, BufferAssumption, Sizes, EmptySeq DEF Todo, CallsOf

\* The samples are arguments that the calls can have.
LEMMA ArgumentsAreTokens ==
    ASSUME NEW x \in Frame(K), NEW t \in Arguments(x)
    PROVE  t \in Tokens(x)
  <1>1. CASE x.k = "counted"
    BY <1>1 DEF Arguments, Tokens
  <1>2. CASE x.k # "counted"
    <2>1. x \in DOMAIN Samples
      BY <1>2 DEF Frame, K
    <2> QED
      BY <1>2, <2>1, ClientBytesAssumption DEF Arguments
  <1> QED
    BY <1>1, <1>2

-----------------------------------------------------------------------------
(* Sequences of instructions.                                              *)

\* Whatever its elements are.
IsSeq(s) == \E S : s \in Seq(S)

LEMMA SeqIsSeq ==
    ASSUME NEW S, NEW s \in Seq(S)
    PROVE  IsSeq(s)
  BY DEF IsSeq

LEMMA OneIsSeq ==
    ASSUME NEW i
    PROVE  /\ IsSeq(<<i>>) /\ <<i>> # <<>> /\ Head(<<i>>) = i /\ Tail(<<i>>) = <<>>
           /\ IsSeq(<<>>)
  <1>1. <<i>> \in Seq({i}) /\ <<>> \in Seq({i})
    OBVIOUS
  <1>2. IsSeq(<<i>>) /\ IsSeq(<<>>)
    BY <1>1, SeqIsSeq
  <1>3. <<i>> # <<>> /\ Head(<<i>>) = i
    OBVIOUS
  <1>4. Tail(<<i>>) = <<>>
    <2> DEFINE s == <<i>>
    <2>1. s \in Seq({i}) /\ s # <<>> /\ Len(s) = 1
      BY <1>1, <1>3
    <2> HIDE DEF s
    <2>2. Tail(s) \in Seq({i}) /\ Len(Tail(s)) = 0
      BY <2>1, HeadTailProperties
    <2> QED
      BY <2>2, EmptySeq DEF s
  <1> QED
    BY <1>2, <1>3, <1>4

\* A sequence begins with the first part of it.
LEMMA JoinSeq ==
    ASSUME NEW a, NEW b, IsSeq(a), IsSeq(b)
    PROVE  /\ IsSeq(a \o b)
           /\ a \o <<>> = a /\ <<>> \o a = a
           /\ a # <<>> => /\ a \o b # <<>> /\ Head(a \o b) = Head(a)
                          /\ Tail(a \o b) = Tail(a) \o b /\ IsSeq(Tail(a))
                          /\ a = <<Head(a)>> \o Tail(a)
  <1>1. PICK A : a \in Seq(A)
    BY DEF IsSeq
  <1>2. PICK B : b \in Seq(B)
    BY DEF IsSeq
  <1> DEFINE S == A \cup B
  <1>3. a \in Seq(S) /\ b \in Seq(S)
    BY <1>1, <1>2, SeqMonotonic
  <1> HIDE DEF S
  <1>4. a \o b \in Seq(S) /\ a \o <<>> = a /\ <<>> \o a = a
    BY <1>3, ConcatProperties, ConcatEmptySeq
  <1>5. ASSUME a # <<>>
        PROVE  /\ a \o b # <<>> /\ Head(a \o b) = Head(a)
               /\ Tail(a \o b) = Tail(a) \o b /\ Tail(a) \in Seq(S)
               /\ a = <<Head(a)>> \o Tail(a)
    <2> DEFINE h == Head(a)
               t == Tail(a)
    <2>1. h \in S /\ t \in Seq(S) /\ a = <<h>> \o t
      <3>1. a \in Seq(S) /\ a # <<>>
        BY <1>3, <1>5
      <3>2. h \in S /\ t \in Seq(S) /\ Len(a) \in Nat \ {0} /\ Len(t) = Len(a) - 1
            /\ h = a[1] /\ \A i \in 1 .. Len(t) : t[i] = a[i + 1]
        BY <3>1, HeadTailProperties, LenProperties, EmptySeq
      <3> HIDE DEF h, t
      <3>3. <<h>> \in Seq(S) /\ Len(<<h>>) = 1 /\ <<h>>[1] = h
        BY <3>2
      <3>4. /\ <<h>> \o t \in Seq(S) /\ Len(<<h>> \o t) = Len(a)
            /\ \A i \in 1 .. Len(a) : (<<h>> \o t)[i] = a[i]
        BY <3>2, <3>3, ConcatProperties
      <3>5. a = <<h>> \o t
        BY <3>1, <3>4, SeqEqual
      <3> QED
        BY <3>2, <3>5
    <2> HIDE DEF h, t
    <2>2. <<h>> \in Seq(S)
      BY <2>1
    <2>3. a \o b = <<h>> \o (t \o b) /\ t \o b \in Seq(S)
      BY <1>3, <2>1, <2>2, ConcatAssociative, ConcatProperties
    <2> DEFINE r == t \o b
    <2>4. r \in Seq(S) /\ h \in S
      BY <2>1, <2>3
    <2> HIDE DEF r
    <2>5. <<h>> \o r # <<>> /\ Head(<<h>> \o r) = h /\ Tail(<<h>> \o r) = r
      <3> DEFINE w == <<h>> \o r
      <3>1. w \in Seq(S) /\ Len(w) = 1 + Len(r) /\ w[1] = h
            /\ \A i \in 1 .. Len(r) : w[i + 1] = r[i]
        BY <2>2, <2>4, ConcatProperties, LenProperties
      <3> HIDE DEF w
      <3>2. w # <<>>
        BY <2>4, <3>1, LenProperties, EmptySeq
      <3>3. Head(w) = w[1] /\ Tail(w) \in Seq(S) /\ Len(Tail(w)) = Len(w) - 1
            /\ \A i \in 1 .. Len(Tail(w)) : Tail(w)[i] = w[i + 1]
        BY <3>1, <3>2, HeadTailProperties
      <3>4. Tail(w) = r
        BY <2>4, <3>1, <3>3, SeqEqual, LenProperties
      <3> QED
        BY <3>1, <3>2, <3>3, <3>4 DEF w
    <2> QED
      BY <2>1, <2>3, <2>5 DEF r, h, t
  <1> QED
    BY <1>4, <1>5 DEF IsSeq

LEMMA GroupSeq ==
    ASSUME NEW a, NEW b, NEW c, IsSeq(a), IsSeq(b), IsSeq(c)
    PROVE  Grouped(a, b, c)
  <1>1. PICK A : a \in Seq(A)
    BY DEF IsSeq
  <1>2. PICK B : b \in Seq(B)
    BY DEF IsSeq
  <1>3. PICK C : c \in Seq(C)
    BY DEF IsSeq
  <1> DEFINE S == A \cup B \cup C
  <1>4. a \in Seq(S) /\ b \in Seq(S) /\ c \in Seq(S)
    BY <1>1, <1>2, <1>3, SeqMonotonic
  <1> HIDE DEF S
  <1> QED
    BY <1>4, Regroup, Zenon

\* Nothing follows in a sequence of one.
LEMMA OneOfMore ==
    ASSUME NEW a, NEW b, IsSeq(a), IsSeq(b), a # <<>>, NEW x, a \o b = <<x>>
    PROVE  b = <<>> /\ a = <<x>>
  <1>1. PICK A : a \in Seq(A)
    BY DEF IsSeq
  <1>2. PICK B : b \in Seq(B)
    BY DEF IsSeq
  <1> DEFINE S == A \cup B
  <1>3. a \in Seq(S) /\ b \in Seq(S)
    BY <1>1, <1>2, SeqMonotonic
  <1> HIDE DEF S
  <1>4. Len(a) + Len(b) = 1 /\ Len(a) \in Nat \ {0} /\ Len(b) \in Nat
    BY <1>3, ConcatProperties, LenProperties, EmptySeq
  <1>5. Len(b) = 0
    BY <1>4
  <1>6. b = <<>>
    BY <1>3, <1>5, EmptySeq
  <1> QED
    BY <1>3, <1>6, ConcatEmptySeq

\* A sequence over S is made of sequences over S.
LEMMA SeqOfParts ==
    ASSUME NEW S, NEW a, NEW b, IsSeq(a), IsSeq(b), a \o b \in Seq(S)
    PROVE  a \in Seq(S) /\ b \in Seq(S)
  <1>1. PICK A : a \in Seq(A)
    BY DEF IsSeq
  <1>2. PICK B : b \in Seq(B)
    BY DEF IsSeq
  <1> DEFINE T == A \cup B
             c == a \o b
  <1>3. a \in Seq(T) /\ b \in Seq(T)
    BY <1>1, <1>2, SeqMonotonic
  <1> HIDE DEF T
  <1>4. /\ Len(a) \in Nat /\ Len(b) \in Nat /\ Len(c) = Len(a) + Len(b)
        /\ \A i \in 1 .. Len(a) : c[i] = a[i]
        /\ \A i \in 1 .. Len(b) : c[Len(a) + i] = b[i]
    BY <1>3, ConcatProperties, LenProperties
  <1> HIDE DEF c
  <1>5. \A i \in 1 .. Len(c) : c[i] \in S
    BY ElementOfSeq DEF c
  <1>6. \A i \in 1 .. Len(a) : a[i] \in S
    BY <1>4, <1>5
  <1>7. \A i \in 1 .. Len(b) : b[i] \in S
    <2> SUFFICES ASSUME NEW i \in 1 .. Len(b) PROVE b[i] \in S
      OBVIOUS
    <2>1. Len(a) + i \in 1 .. Len(c) /\ c[Len(a) + i] = b[i]
      BY <1>4
    <2> QED
      BY <1>5, <2>1
  <1> QED
    BY <1>3, <1>6, <1>7, IsASeq, LenProperties

-----------------------------------------------------------------------------
(* The handlers of thread S, without the bytes.                            *)

\* Where S is in a message: instructions left, calls of which the bytes are in the
\* buffer and were not read from it, calls left to receive, bytes in the buffer.
Place(c, o, t, z) == [code |-> c, owed |-> o, todo |-> t, size |-> z]

Proper(p) == /\ IsSeq(p.code) /\ p.owed \in Seq(K) /\ p.todo \in Todo(K)
             /\ p.size \in 0 .. BufferSize

\* Class Game does not parse an address.
IsText(x) == x.k \in {"str", "address"}

\* The instruction p.code begins with is the right one there, and leads to R.
Leads(R, p) ==
    LET i    == Head(p.code)
        rest == Tail(p.code)
        h    == Head(p.todo)
        o    == Head(p.owed)
    IN  \/ /\ i.op = "field" /\ p.todo # <<>>
           /\ h.k = "unsigned" /\ h.width = i.n /\ p.size + i.n <= BufferSize
           /\ Place(rest, Append(p.owed, h), Tail(p.todo), p.size + i.n) \in R
        \/ /\ i.op = "text" /\ p.todo # <<>>
           /\ IsText(h) /\ p.size + Base <= BufferSize
           /\ \A n \in 1 .. Base :
                Place(rest, Append(p.owed, h), Tail(p.todo), p.size + n) \in R
        \/ /\ i.op = "local" /\ p.owed = <<>> /\ p.todo # <<>>
           /\ h.k = "unsigned" /\ h.width = i.n
           /\ Place(rest, <<>>, Tail(p.todo), p.size) \in R
        \/ /\ i.op = "times" /\ i.n = 4 /\ p.owed = <<>> /\ p.todo # <<>> /\ h.k = "list"
           /\ \A t \in Samples[h] :
                Place(Again(t, i.body) \o rest, <<>>, After(p.todo, t), p.size) \in R
        \/ /\ i.op = "choose" /\ i.n = 1 /\ p.owed = <<>> /\ p.todo # <<>>
           /\ h.k = "variant" /\ Len(i.cases) = Len(h.of)
           /\ p.code = Handlers => p.todo = ServerMessage
           /\ \A t \in Samples[h] : IsSeq(i.cases[t + 1])
           /\ \A t \in Samples[h] :
                Place(i.cases[t + 1] \o rest, <<>>, After(p.todo, t), p.size) \in R
        \/ /\ i.op = "again" /\ p.owed = <<>> /\ p.todo # <<>>
           /\ h.k = "counted" /\ h.left = i.left /\ IsSeq(Inside(i, <<>>))
           /\ Place(Inside(i, <<>>) \o rest, <<>>, After(p.todo, 0), p.size) \in R
        \/ /\ i.op = "take" /\ p.owed # <<>> /\ o.k = "unsigned" /\ o.width = i.n
           /\ Place(rest, Tail(p.owed), p.todo, p.size) \in R
        \/ /\ i.op = "take_text" /\ p.owed # <<>> /\ IsText(o)
           /\ Place(rest, Tail(p.owed), p.todo, p.size) \in R
        \/ /\ i.op = "reset" /\ p.owed = <<>>
           /\ Place(rest, <<>>, p.todo, 0) \in R

\* From every place in R the instructions come to their end with all calls received,
\* those of o1 in the buffer, and at most z1 bytes there.
Closed(R, o1, z1) ==
    \A p \in R :
        /\ Proper(p)
        /\ IF p.code = <<>> THEN p.todo = <<>> /\ p.owed = o1 /\ p.size <= z1
           ELSE Leads(R, p)

\* So they do from o and at most z bytes, when the calls are t.
Runs(c, o, t, z, o1, z1) ==
    \E R : Closed(R, o1, z1) /\ \A n \in 0 .. z : Place(c, o, t, n) \in R

Room == 0 .. BufferSize

LEMMA LeadsMore ==
    ASSUME NEW R, NEW V, R \subseteq V, NEW p, Leads(R, p)
    PROVE  Leads(V, p)
  BY DEF Leads

\* One instruction.
LEMMA OneRuns ==
    ASSUME NEW i, NEW o \in Seq(K), NEW t \in Todo(K), NEW z \in Room,
           NEW o1 \in Seq(K), NEW z1 \in Room,
           \A R : (\A m \in 0 .. z1 : Place(<<>>, o1, <<>>, m) \in R) =>
                  \A n \in 0 .. z : Leads(R, Place(<<i>>, o, t, n))
    PROVE  Runs(<<i>>, o, t, z, o1, z1)
  <1> DEFINE A == {Place(<<i>>, o, t, n) : n \in 0 .. z}
             B == {Place(<<>>, o1, <<>>, m) : m \in 0 .. z1}
             R == A \cup B
  <1>1. /\ IsSeq(<<i>>) /\ IsSeq(<<>>) /\ <<i>> # <<>> /\ <<>> \in Todo(K)
        /\ \A n \in 0 .. z : n \in 0 .. BufferSize
        /\ \A m \in 0 .. z1 : m \in 0 .. BufferSize /\ m <= z1
    BY OneIsSeq, ServerCalls DEF Room
  <1>2. \A n \in 0 .. z : Place(<<i>>, o, t, n) \in R
    OBVIOUS
  <1>3. \A n \in 0 .. z : Leads(R, Place(<<i>>, o, t, n))
    <2>1. \A m \in 0 .. z1 : Place(<<>>, o1, <<>>, m) \in R
      OBVIOUS
    <2> HIDE DEF R
    <2> QED
      BY <2>1
  <1>4. ASSUME NEW p \in R
        PROVE  /\ Proper(p)
               /\ IF p.code = <<>> THEN p.todo = <<>> /\ p.owed = o1 /\ p.size <= z1
                  ELSE Leads(R, p)
    <2>1. CASE p \in A
      <3>1. PICK n \in 0 .. z : p = Place(<<i>>, o, t, n)
        BY <2>1
      <3>2. p.code = <<i>> /\ p.owed = o /\ p.todo = t /\ p.size = n
        BY <3>1 DEF Place
      <3> QED
        BY <1>1, <1>3, <3>1, <3>2 DEF Proper
    <2>2. CASE p \in B
      <3>1. PICK m \in 0 .. z1 : p = Place(<<>>, o1, <<>>, m)
        BY <2>2
      <3>2. p.code = <<>> /\ p.owed = o1 /\ p.todo = <<>> /\ p.size = m
        BY <3>1 DEF Place
      <3> QED
        BY <1>1, <3>2 DEF Proper
    <2> QED
      BY <2>1, <2>2
  <1> HIDE DEF R
  <1> QED
    BY <1>2, <1>4 DEF Runs, Closed

\* A place that is followed by more instructions, for more calls.
Then(q, c, t) == Place(q.code \o c, q.owed, q.todo \o t, q.size)

\* What is left to do after a call of a sequence.
LEMMA AfterMore ==
    ASSUME NEW a \in Todo(K), a # <<>>, NEW b \in Todo(K), NEW v \in Tokens(Head(a))
    PROVE  /\ a \o b # <<>> /\ Head(a \o b) = Head(a) /\ Tail(a \o b) = Tail(a) \o b
           /\ After(a \o b, v) = After(a, v) \o b
  <1>1. IsSeq(a) /\ IsSeq(b)
    BY SeqIsSeq DEF Todo
  <1>2. a \o b # <<>> /\ Head(a \o b) = Head(a) /\ Tail(a \o b) = Tail(a) \o b /\ IsSeq(Tail(a))
    BY <1>1, JoinSeq
  <1>3. IsSeq(Follow(Head(a), v))
    <2>1. Head(a) \in Frame(K)
      BY HeadTailProperties DEF Todo
    <2>2. Follow(Head(a), v) \in Todo(K)
      BY <2>1, Follows, ServerCalls, Zenon
    <2> QED
      BY <2>2, SeqIsSeq DEF Todo
  <1>4. Grouped(Follow(Head(a), v), Tail(a), b)
    BY <1>1, <1>2, <1>3, GroupSeq, Zenon
  <1>5. /\ After(a \o b, v) = Follow(Head(a \o b), v) \o Tail(a \o b)
        /\ After(a, v) = Follow(Head(a), v) \o Tail(a)
    BY DEF After
  <1> DEFINE f == Follow(Head(a), v)
             r == Tail(a)
             c == a \o b
  <1>6. Head(c) = Head(a) /\ Tail(c) = r \o b /\ c # <<>>
    BY <1>2
  <1>7. After(c, v) = f \o (r \o b) /\ After(a, v) = f \o r /\ Grouped(f, r, b)
    BY <1>4, <1>5, <1>6
  <1> HIDE DEF f, r, c
  <1>8. After(c, v) = After(a, v) \o b
    BY <1>7 DEF Grouped
  <1> QED
    BY <1>6, <1>8 DEF c, r

\* The first call of a sequence.
LEMMA FirstOfMore ==
    ASSUME NEW a \in Todo(K), a # <<>>, NEW b \in Todo(K)
    PROVE  /\ a \o b # <<>> /\ Head(a \o b) = Head(a) /\ Tail(a \o b) = Tail(a) \o b
           /\ Head(a) \in Frame(K)
  <1>1. IsSeq(a) /\ IsSeq(b)
    BY SeqIsSeq DEF Todo
  <1>2. Head(a) \in Frame(K)
    BY HeadTailProperties DEF Todo
  <1> QED
    BY <1>1, <1>2, JoinSeq

\* It goes on as before.
LEMMA LeadsThen ==
    ASSUME NEW R, NEW q, Leads(R, q), Proper(q), q.code # <<>>,
           \A p \in R : Proper(p),
           NEW c, IsSeq(c), NEW t \in Todo(K), c = <<>> => t = <<>>,
           NEW V, \A p \in R : Then(p, c, t) \in V
    PROVE  Leads(V, Then(q, c, t))
  <1> DEFINE p    == Then(q, c, t)
             i    == Head(q.code)
             rest == Tail(q.code)
             h    == Head(q.todo)
             o    == Head(q.owed)
  <1>1. p.code = q.code \o c /\ p.owed = q.owed /\ p.todo = q.todo \o t /\ p.size = q.size
    BY DEF Then, Place
  <1>2. /\ Head(p.code) = i /\ Tail(p.code) = rest \o c /\ IsSeq(rest)
        /\ q.code = <<i>> \o rest
    <2> DEFINE a == q.code
    <2>1. IsSeq(a) /\ a # <<>>
      BY DEF Proper
    <2> HIDE DEF a
    <2>2. Head(a \o c) = Head(a) /\ Tail(a \o c) = Tail(a) \o c /\ IsSeq(Tail(a))
      BY <2>1, JoinSeq, Zenon
    <2>3. a = <<Head(a)>> \o Tail(a)
      BY <2>1, JoinSeq, Zenon
    <2> QED
      BY <1>1, <2>2, <2>3 DEF a
  <1>3. ASSUME NEW e, NEW f, NEW b, NEW n, Place(e, f, b, n) \in R
        PROVE  Place(e \o c, f, b \o t, n) \in V
    <2> DEFINE r == Place(e, f, b, n)
    <2>1. r.code = e /\ r.owed = f /\ r.todo = b /\ r.size = n
      BY DEF Place
    <2> HIDE DEF r
    <2>2. Then(r, c, t) \in V
      BY <1>3 DEF r
    <2> QED
      BY <2>1, <2>2 DEF Then
  <1>4. ASSUME q.todo # <<>>
        PROVE  /\ p.todo # <<>> /\ Head(p.todo) = h /\ Tail(p.todo) = Tail(q.todo) \o t
               /\ \A v \in Tokens(h) : After(p.todo, v) = After(q.todo, v) \o t
               /\ h \in Frame(K)
    <2> DEFINE a == q.todo
    <2>1. a \in Todo(K) /\ a # <<>>
      BY <1>4 DEF Proper
    <2> HIDE DEF a
    <2>2. /\ a \o t # <<>> /\ Head(a \o t) = Head(a) /\ Tail(a \o t) = Tail(a) \o t
          /\ Head(a) \in Frame(K)
      BY <2>1, FirstOfMore, Zenon
    <2>3. \A v \in Tokens(Head(a)) : After(a \o t, v) = After(a, v) \o t
      BY <2>1, AfterMore, Zenon
    <2> QED
      BY <1>1, <2>2, <2>3 DEF a
  <1>5. ASSUME NEW e, IsSeq(e) PROVE e \o (rest \o c) = (e \o rest) \o c
    <2> HIDE DEF rest
    <2>1. Grouped(e, rest, c)
      BY <1>2, <1>5, GroupSeq, Zenon
    <2> QED
      BY <2>1 DEF Grouped
  <1> HIDE DEF p, i, rest, h, o
  <1>6. CASE /\ i.op = "field" /\ q.todo # <<>>
             /\ h.k = "unsigned" /\ h.width = i.n /\ q.size + i.n <= BufferSize
             /\ Place(rest, Append(q.owed, h), Tail(q.todo), q.size + i.n) \in R
    <2>1. Place(rest \o c, Append(q.owed, h), Tail(q.todo) \o t, q.size + i.n) \in V
      BY <1>3, <1>6
    <2> QED
      BY <1>1, <1>2, <1>4, <1>6, <2>1 DEF Leads, p
  <1>7. CASE /\ i.op = "text" /\ q.todo # <<>>
             /\ IsText(h) /\ q.size + Base <= BufferSize
             /\ \A n \in 1 .. Base :
                  Place(rest, Append(q.owed, h), Tail(q.todo), q.size + n) \in R
    <2>1. \A n \in 1 .. Base :
             Place(rest \o c, Append(q.owed, h), Tail(q.todo) \o t, q.size + n) \in V
      BY <1>3, <1>7
    <2> QED
      BY <1>1, <1>2, <1>4, <1>7, <2>1 DEF Leads, p
  <1>8. CASE /\ i.op = "local" /\ q.owed = <<>> /\ q.todo # <<>>
             /\ h.k = "unsigned" /\ h.width = i.n
             /\ Place(rest, <<>>, Tail(q.todo), q.size) \in R
    <2>1. Place(rest \o c, <<>>, Tail(q.todo) \o t, q.size) \in V
      BY <1>3, <1>8
    <2> QED
      BY <1>1, <1>2, <1>4, <1>8, <2>1 DEF Leads, p
  <1>9. CASE /\ i.op = "times" /\ i.n = 4 /\ q.owed = <<>> /\ q.todo # <<>> /\ h.k = "list"
             /\ \A v \in Samples[h] :
                  Place(Again(v, i.body) \o rest, <<>>, After(q.todo, v), q.size) \in R
    <2>1. ASSUME NEW v \in Samples[h]
          PROVE  Place(Again(v, i.body) \o (rest \o c), <<>>, After(p.todo, v), q.size) \in V
      <3>1. Place((Again(v, i.body) \o rest) \o c, <<>>, After(q.todo, v) \o t, q.size) \in V
        BY <1>3, <1>9
      <3>2. v \in Tokens(h)
        BY <1>4, <1>9, ArgumentsAreTokens DEF Arguments
      <3>3. Again(v, i.body) \o (rest \o c) = (Again(v, i.body) \o rest) \o c
        BY <1>5, OneIsSeq DEF Again
      <3> QED
        BY <1>4, <1>9, <3>1, <3>2, <3>3
    <2> QED
      BY <1>1, <1>2, <1>4, <1>9, <2>1 DEF Leads, p
  <1>10. CASE /\ i.op = "choose" /\ i.n = 1 /\ q.owed = <<>> /\ q.todo # <<>>
              /\ h.k = "variant" /\ Len(i.cases) = Len(h.of)
              /\ q.code = Handlers => q.todo = ServerMessage
              /\ \A v \in Samples[h] : IsSeq(i.cases[v + 1])
              /\ \A v \in Samples[h] :
                   Place(i.cases[v + 1] \o rest, <<>>, After(q.todo, v), q.size) \in R
    <2>1. ASSUME NEW v \in Samples[h]
          PROVE  Place(i.cases[v + 1] \o (rest \o c), <<>>, After(p.todo, v), q.size) \in V
      <3>1. Place((i.cases[v + 1] \o rest) \o c, <<>>, After(q.todo, v) \o t, q.size) \in V
        BY <1>3, <1>10
      <3>2. v \in Tokens(h)
        BY <1>4, <1>10, ArgumentsAreTokens DEF Arguments
      <3>3. i.cases[v + 1] \o (rest \o c) = (i.cases[v + 1] \o rest) \o c
        BY <1>5, <1>10
      <3> QED
        BY <1>4, <1>10, <3>1, <3>2, <3>3
    <2>2. ASSUME p.code = Handlers PROVE p.todo = ServerMessage
      <3>1. c = <<>> /\ q.code = Handlers
        <4> DEFINE a == q.code
        <4>1. IsSeq(a) /\ a # <<>> /\ a \o c = Handlers
          BY <1>1, <2>2 DEF Proper
        <4> HIDE DEF a
        <4>2. PICK x : Handlers = <<x>>
          BY DEF Handlers, Choose
        <4>3. a \o c = <<x>>
          BY <4>1, <4>2
        <4>4. c = <<>> /\ a = <<x>>
          BY <4>1, <4>3, OneOfMore, Zenon
        <4> QED
          BY <4>2, <4>4 DEF a
      <3> QED
        BY <1>1, <1>10, <3>1, ConcatEmptySeq DEF Proper, Todo
    <2> QED
      BY <1>1, <1>2, <1>4, <1>10, <2>1, <2>2 DEF Leads, p
  <1>11. CASE /\ i.op = "again" /\ q.owed = <<>> /\ q.todo # <<>>
              /\ h.k = "counted" /\ h.left = i.left /\ IsSeq(Inside(i, <<>>))
              /\ Place(Inside(i, <<>>) \o rest, <<>>, After(q.todo, 0), q.size) \in R
    <2>1. Place((Inside(i, <<>>) \o rest) \o c, <<>>, After(q.todo, 0) \o t, q.size) \in V
      BY <1>3, <1>11
    <2>2. 0 \in Tokens(h)
      BY <1>11 DEF Tokens
    <2>3. Inside(i, <<>>) \o (rest \o c) = (Inside(i, <<>>) \o rest) \o c
      BY <1>5, <1>11
    <2> QED
      BY <1>1, <1>2, <1>4, <1>11, <2>1, <2>2, <2>3 DEF Leads, p
  <1>12. CASE /\ i.op = "take" /\ q.owed # <<>> /\ o.k = "unsigned" /\ o.width = i.n
              /\ Place(rest, Tail(q.owed), q.todo, q.size) \in R
    <2>1. Place(rest \o c, Tail(q.owed), q.todo \o t, q.size) \in V
      BY <1>3, <1>12
    <2> QED
      BY <1>1, <1>2, <1>12, <2>1 DEF Leads, p, o
  <1>13. CASE /\ i.op = "take_text" /\ q.owed # <<>> /\ IsText(o)
              /\ Place(rest, Tail(q.owed), q.todo, q.size) \in R
    <2>1. Place(rest \o c, Tail(q.owed), q.todo \o t, q.size) \in V
      BY <1>3, <1>13
    <2> QED
      BY <1>1, <1>2, <1>13, <2>1 DEF Leads, p, o
  <1>14. CASE /\ i.op = "reset" /\ q.owed = <<>>
              /\ Place(rest, <<>>, q.todo, 0) \in R
    <2>1. Place(rest \o c, <<>>, q.todo \o t, 0) \in V
      BY <1>3, <1>14
    <2> QED
      BY <1>1, <1>2, <1>14, <2>1 DEF Leads, p
  <1> QED
    BY <1>6, <1>7, <1>8, <1>9, <1>10, <1>11, <1>12, <1>13, <1>14 DEF Leads, i, rest, h, o, p

LEMMA ThenProper ==
    ASSUME NEW q, Proper(q), q.code # <<>>, NEW c, IsSeq(c), NEW t \in Todo(K)
    PROVE  Proper(Then(q, c, t)) /\ Then(q, c, t).code # <<>>
  <1> DEFINE a == q.code
             b == q.todo
  <1>1. IsSeq(a) /\ b \in Todo(K) /\ q.owed \in Seq(K) /\ q.size \in 0 .. BufferSize /\ a # <<>>
    BY DEF Proper
  <1>2. Then(q, c, t) = [code |-> a \o c, owed |-> q.owed, todo |-> b \o t, size |-> q.size]
    BY DEF Then, Place
  <1> HIDE DEF a, b
  <1>3. IsSeq(a \o c) /\ a \o c # <<>> /\ b \o t \in Todo(K)
    BY <1>1, JoinSeq, ConcatProperties DEF Todo
  <1> QED
    BY <1>1, <1>2, <1>3 DEF Proper

\* One after the other.
LEMMA JoinRuns ==
    ASSUME NEW c1, NEW c2, IsSeq(c1), IsSeq(c2),
           NEW o, NEW o1, NEW o2, NEW t1 \in Todo(K), NEW t2 \in Todo(K),
           NEW z, NEW z1, NEW z2, z1 \in Room,
           Runs(c1, o, t1, z, o1, z1), Runs(c2, o1, t2, z1, o2, z2)
    PROVE  Runs(c1 \o c2, o, t1 \o t2, z, o2, z2)
  <1>1. PICK R1 : Closed(R1, o1, z1) /\ \A n \in 0 .. z : Place(c1, o, t1, n) \in R1
    BY DEF Runs
  <1>2. PICK R2 : Closed(R2, o2, z2) /\ \A n \in 0 .. z1 : Place(c2, o1, t2, n) \in R2
    BY DEF Runs
  <1> DEFINE V == {Then(q, c2, t2) : q \in R1} \cup R2
  <1>3. R2 \subseteq V /\ \A q \in R1 : Then(q, c2, t2) \in V
    OBVIOUS
  <1>4. c2 = <<>> => t2 = <<>>
    <2>1. Place(c2, o1, t2, 0) \in R2
      BY <1>2 DEF Room
    <2>2. Place(c2, o1, t2, 0).code = c2 /\ Place(c2, o1, t2, 0).todo = t2
      BY DEF Place
    <2> QED
      BY <1>2, <2>1, <2>2 DEF Closed
  <1>5. ASSUME NEW n \in 0 .. z PROVE Place(c1 \o c2, o, t1 \o t2, n) \in V
    <2> DEFINE q == Place(c1, o, t1, n)
    <2>1. q \in R1
      BY <1>1
    <2>2. Then(q, c2, t2) \in V
      BY <1>3, <2>1
    <2>3. Then(q, c2, t2) = Place(c1 \o c2, o, t1 \o t2, n)
      BY DEF Then, Place
    <2> QED
      BY <2>2, <2>3
  <1>6. ASSUME NEW q \in R1, q.code = <<>> PROVE Then(q, c2, t2) \in R2
    <2>1. q.todo = <<>> /\ q.owed = o1 /\ q.size \in 0 .. z1
      BY <1>1, <1>6 DEF Closed, Proper, Room
    <2>2. <<>> \o c2 = c2 /\ <<>> \o t2 = t2
      BY JoinSeq, SeqIsSeq DEF Todo
    <2> QED
      BY <1>2, <1>6, <2>1, <2>2 DEF Then
  <1>7. ASSUME NEW q \in R1, q.code # <<>>
        PROVE  Leads(V, Then(q, c2, t2))
    <2>1. Leads(R1, q) /\ Proper(q) /\ \A p \in R1 : Proper(p)
      BY <1>1, <1>7 DEF Closed
    <2> HIDE DEF V
    <2> QED
      BY <1>3, <1>4, <1>7, <2>1, LeadsThen, Zenon
  <1>8. ASSUME NEW q \in R1, q.code # <<>>
        PROVE  Proper(Then(q, c2, t2)) /\ Then(q, c2, t2).code # <<>>
    BY <1>1, <1>8, ThenProper DEF Closed
  <1>9. ASSUME NEW p \in V
        PROVE  /\ Proper(p)
               /\ IF p.code = <<>> THEN p.todo = <<>> /\ p.owed = o2 /\ p.size <= z2
                  ELSE Leads(V, p)
    <2>1. CASE p \in R2
      BY <1>2, <1>3, <2>1, LeadsMore DEF Closed
    <2>2. CASE \E q \in R1 : q.code # <<>> /\ p = Then(q, c2, t2)
      BY <1>7, <1>8, <2>2
    <2> QED
      BY <1>6, <2>1, <2>2
  <1> HIDE DEF V
  <1> QED
    BY <1>5, <1>9 DEF Runs, Closed

\* A place from which the instructions of c begin.
LEMMA StartProper ==
    ASSUME NEW c, IsSeq(c), NEW t \in Todo(K), NEW z \in Room, NEW n \in 0 .. z
    PROVE  Proper(Place(c, <<>>, t, n))
  <1>1. n \in 0 .. BufferSize /\ <<>> \in Seq(K)
    BY EmptySeq, ServerCalls DEF Room
  <1> QED
    BY <1>1 DEF Proper, Place

\* A loop, of which s[k] is the size of the buffer with k rounds to go.
LEMMA AgainRuns ==
    ASSUME NEW left \in Nat, NEW s \in [0 .. left -> Room], NEW T \in Seq(K),
           NEW body, IsSeq(body), body # <<>>,
           \A k \in 1 .. left : Runs(body, <<>>, T, s[k], <<>>, s[k - 1])
    PROVE  Runs(Again(left, body), <<>>, <<Counted(left, T)>>, s[left], <<>>, s[0])
  <1> DEFINE A(k) == Again(k, body)
             C(k) == <<Counted(k, T)>>
             Good(R, k) == /\ Closed(R, <<>>, s[k - 1])
                           /\ \A n \in 0 .. s[k] : Place(body, <<>>, T, n) \in R
             W == [k \in 1 .. left |-> CHOOSE R : Good(R, k)]
             Middle == UNION {{Then(q, A(k - 1), C(k - 1)) : q \in W[k]} : k \in 1 .. left}
             First == {Place(A(left), <<>>, C(left), n) : n \in 0 .. s[left]}
             Last == {Place(<<>>, <<>>, <<>>, n) : n \in 0 .. s[0]}
             V == Middle \cup First \cup Last
  <1>1. ASSUME NEW k \in 1 .. left PROVE Good(W[k], k)
    <2>1. \E R : Good(R, k)
      BY DEF Runs
    <2> HIDE DEF Good
    <2> QED
      BY <2>1
  <1>2. ASSUME NEW k \in Nat
        PROVE  /\ IsSeq(A(k)) /\ A(k) # <<>> /\ Tail(A(k)) = <<>>
               /\ Head(A(k)) = [op |-> "again", left |-> k, body |-> body]
               /\ C(k) \in Todo(K) /\ C(k) # <<>> /\ Head(C(k)) = Counted(k, T)
               /\ Tail(C(k)) = <<>>
    <2>1. C(k) \in Todo(K)
      <3>1. Counted(k, T) \in Frame(K)
        BY DEF Counted, Frame
      <3> QED
        BY <3>1 DEF Todo
    <2> QED
      BY <2>1, OneIsSeq DEF Again
  <1>3. ASSUME NEW k \in 1 .. left, NEW q \in W[k] PROVE Then(q, A(k - 1), C(k - 1)) \in V
    <2> DEFINE M == {Then(r, A(k - 1), C(k - 1)) : r \in W[k]}
    <2> HIDE DEF W
    <2>1. Then(q, A(k - 1), C(k - 1)) \in M
      OBVIOUS
    <2>2. M \in {{Then(r, A(n - 1), C(n - 1)) : r \in W[n]} : n \in 1 .. left}
      OBVIOUS
    <2> HIDE DEF M
    <2> QED
      BY <2>1, <2>2
  <1>4. ASSUME NEW n \in 0 .. s[0] PROVE Place(<<>>, <<>>, <<>>, n) \in V
    OBVIOUS
  <1>5. ASSUME NEW n \in 0 .. s[left] PROVE Place(A(left), <<>>, C(left), n) \in V
    OBVIOUS
  <1> HIDE DEF V, W
  <1>6. ASSUME NEW k \in 0 .. left, NEW n \in 0 .. s[k]
        PROVE  Leads(V, Place(A(k), <<>>, C(k), n))
    <2> DEFINE p == Place(A(k), <<>>, C(k), n)
               i == Head(A(k))
    <2>1. /\ p.code = A(k) /\ p.owed = <<>> /\ p.todo = C(k) /\ p.size = n
          /\ i.op = "again" /\ i.left = k /\ i.body = body /\ Head(p.code) = i
          /\ Head(p.todo).k = "counted" /\ Head(p.todo).left = k /\ p.todo # <<>>
          /\ Tail(p.code) = <<>>
      BY <1>2 DEF Place, Counted
    <2>2. IsSeq(Inside(i, <<>>)) /\ Place(Inside(i, <<>>) \o <<>>, <<>>, After(C(k), 0), n) \in V
      <3>1. CASE k = 0
        <4>1. Inside(i, <<>>) = <<>> /\ Follow(Counted(k, T), 0) = <<>>
          BY <2>1, <3>1 DEF Inside, Follow, Counted
        <4>2. After(C(k), 0) = <<>>
          BY <1>2, <4>1, EmptySeq, ConcatEmptySeq DEF After
        <4> QED
          BY <1>4, <3>1, <4>1, <4>2, OneIsSeq, EmptySeq, ConcatEmptySeq
      <3>2. CASE k # 0
        <4> DEFINE j == k - 1
                   a == A(j)
                   b == C(j)
        <4>0. k \in 1 .. left /\ j \in Nat /\ IsSeq(a) /\ IsSeq(b) /\ IsSeq(T)
              /\ k > 0
          BY <1>2, <3>2, SeqIsSeq DEF Todo
        <4>1. Inside(i, <<>>) = body \o a /\ Follow(Counted(k, T), 0) = T \o b
          <5>1. Inside(i, <<>>) = body \o Again(k - 1, body)
            <6>1. i.op = "again" /\ i.left = k /\ i.body = body /\ k > 0
              BY <2>1, <4>0
            <6> HIDE DEF i, A, C
            <6>2. Inside(i, <<>>) = i.body \o Again(i.left - 1, i.body)
              BY <6>1 DEF Inside
            <6> QED
              BY <6>1, <6>2
          <5>2. Follow(Counted(k, T), 0) = T \o <<Counted(k - 1, T)>>
            <6> DEFINE x == Counted(k, T)
            <6>1. x.k = "counted" /\ x.left = k /\ x.each = T /\ x.left # 0
              BY <3>2 DEF Counted
            <6> HIDE DEF x
            <6>2. Follow(x, 0) = x.each \o <<Counted(x.left - 1, x.each)>>
              BY <6>1 DEF Follow
            <6> QED
              BY <6>1, <6>2 DEF x
          <5> QED
            BY <5>1, <5>2
        <4>2. After(C(k), 0) = (T \o b) \o <<>>
          BY <1>2, <4>1 DEF After
        <4>3. Then(Place(body, <<>>, T, n), a, b) \in V
          BY <1>1, <1>3, <4>0
        <4> HIDE DEF a, b, j
        <4>4. IsSeq(body \o a) /\ (body \o a) \o <<>> = body \o a /\ (T \o b) \o <<>> = T \o b
          BY <4>0, JoinSeq, Zenon
        <4>5. Then(Place(body, <<>>, T, n), a, b) = Place(body \o a, <<>>, T \o b, n)
          BY DEF Then, Place
        <4> QED
          BY <4>1, <4>2, <4>3, <4>4, <4>5
      <3> QED
        BY <3>1, <3>2
    <2> HIDE DEF p, i
    <2> QED
      BY <2>1, <2>2 DEF Leads, p
  <1>7. ASSUME NEW k \in 0 .. left, NEW n \in 0 .. s[k] PROVE Proper(Place(A(k), <<>>, C(k), n))
    BY <1>2, StartProper
  <1>8. ASSUME NEW p \in V
        PROVE  /\ Proper(p)
               /\ IF p.code = <<>> THEN p.todo = <<>> /\ p.owed = <<>> /\ p.size <= s[0]
                  ELSE Leads(V, p)
    <2>1. CASE p \in Last
      <3>1. PICK n \in 0 .. s[0] : p = Place(<<>>, <<>>, <<>>, n)
        BY <2>1
      <3>2. s[0] \in Room /\ IsSeq(<<>>) /\ <<>> \in Todo(K)
        <4>1. 0 \in 0 .. left
          OBVIOUS
        <4>2. s[0] \in Room
          BY <4>1
        <4> QED
          BY <4>2, OneIsSeq, ServerCalls, Zenon
      <3>3. Proper(Place(<<>>, <<>>, <<>>, n))
        BY <3>2, StartProper
      <3> QED
        BY <3>1, <3>3 DEF Place
    <2>2. CASE p \in First
      <3>1. PICK n \in 0 .. s[left] : p = Place(A(left), <<>>, C(left), n)
        BY <2>2
      <3>2. Proper(p) /\ Leads(V, p)
        BY <1>6, <1>7, <3>1
      <3>3. p.code # <<>>
        BY <1>2, <3>1 DEF Place
      <3> QED
        BY <3>2, <3>3
    <2>3. CASE p \in Middle
      <3>0. PICK k \in 1 .. left : \E q \in W[k] : p = Then(q, A(k - 1), C(k - 1))
        BY <2>3
      <3>1. PICK q \in W[k] : p = Then(q, A(k - 1), C(k - 1))
        BY <3>0
      <3> DEFINE j == k - 1
                 a == A(j)
                 b == C(j)
      <3>2. /\ j \in 0 .. left /\ j \in Nat /\ Closed(W[k], <<>>, s[j])
            /\ IsSeq(a) /\ a # <<>> /\ b \in Todo(K) /\ p = Then(q, a, b)
            /\ \A r \in W[k] : Then(r, a, b) \in V
        <4>1. k - 1 \in 0 .. left /\ k - 1 \in Nat
          OBVIOUS
        <4>2. Closed(W[k], <<>>, s[k - 1])
          BY <1>1
        <4>3. IsSeq(A(k - 1)) /\ A(k - 1) # <<>> /\ C(k - 1) \in Todo(K)
          BY <1>2, <4>1
        <4>4. \A r \in W[k] : Then(r, A(k - 1), C(k - 1)) \in V
          BY <1>3
        <4> QED
          BY <3>1, <4>1, <4>2, <4>3, <4>4
      <3>3. Proper(q) /\ \A r \in W[k] : Proper(r)
        BY <3>2 DEF Closed
      <3>4. CASE q.code = <<>>
        <4>1. q.todo = <<>> /\ q.owed = <<>> /\ q.size \in 0 .. s[j]
          BY <3>2, <3>3, <3>4 DEF Closed, Proper, Room
        <4>2. <<>> \o a = a /\ <<>> \o b = b
          BY <3>2, JoinSeq, SeqIsSeq DEF Todo
        <4>3. p = Place(a, <<>>, b, q.size)
          BY <3>2, <3>4, <4>1, <4>2 DEF Then
        <4>4. Proper(p) /\ Leads(V, p)
          BY <1>6, <1>7, <3>2, <4>1, <4>3
        <4> QED
          BY <3>2, <4>3, <4>4 DEF Place
      <3>5. CASE q.code # <<>>
        <4>1. Leads(W[k], q)
          BY <3>2, <3>5 DEF Closed
        <4> HIDE DEF a, b, j
        <4>2. Leads(V, p)
          BY <3>2, <3>3, <3>5, <4>1, LeadsThen, Zenon
        <4>3. Proper(p) /\ p.code # <<>>
          BY <3>2, <3>3, <3>5, ThenProper, Zenon
        <4> QED
          BY <4>2, <4>3
      <3> QED
        BY <3>4, <3>5
    <2> QED
      BY <2>1, <2>2, <2>3 DEF V
  <1> QED
    BY <1>5, <1>8 DEF Runs, Closed

\* An instruction that leads to one of several sequences.
LEMMA OneOfRuns ==
    ASSUME NEW i, NEW t \in Todo(K), NEW z \in Room, NEW z1 \in Room,
           NEW J, NEW c, NEW b,
           \A j \in J : Runs(c[j], <<>>, b[j], z, <<>>, z1),
           \A R : (\A j \in J : \A n \in 0 .. z : Place(c[j], <<>>, b[j], n) \in R) =>
                  \A n \in 0 .. z : Leads(R, Place(<<i>>, <<>>, t, n))
    PROVE  Runs(<<i>>, <<>>, t, z, <<>>, z1)
  <1> DEFINE Good(R, j) == /\ Closed(R, <<>>, z1)
                           /\ \A n \in 0 .. z : Place(c[j], <<>>, b[j], n) \in R
             W == [j \in J |-> CHOOSE R : Good(R, j)]
             First == {Place(<<i>>, <<>>, t, n) : n \in 0 .. z}
             Rest == UNION {W[j] : j \in J}
             V == Rest \cup First
  <1>1. ASSUME NEW j \in J PROVE Good(W[j], j)
    <2>1. \E R : Good(R, j)
      BY DEF Runs
    <2> HIDE DEF Good
    <2> QED
      BY <2>1
  <1> HIDE DEF W
  <1>2. \A j \in J : W[j] \subseteq V
    <2>1. ASSUME NEW j \in J PROVE W[j] \subseteq Rest
      <3>1. W[j] \in {W[k] : k \in J}
        OBVIOUS
      <3> QED
        BY <3>1, Zenon
    <2> HIDE DEF Rest, First
    <2> QED
      BY <2>1
  <1>3. \A n \in 0 .. z : Place(<<i>>, <<>>, t, n) \in V
    OBVIOUS
  <1>4. ASSUME NEW p \in V PROVE p \in First \/ \E j \in J : p \in W[j]
    OBVIOUS
  <1> HIDE DEF V
  <1>5. \A n \in 0 .. z : Leads(V, Place(<<i>>, <<>>, t, n))
    <2>1. \A j \in J : \A n \in 0 .. z : Place(c[j], <<>>, b[j], n) \in V
      BY <1>1, <1>2
    <2> QED
      BY <2>1
  <1>6. ASSUME NEW p \in V
        PROVE  /\ Proper(p)
               /\ IF p.code = <<>> THEN p.todo = <<>> /\ p.owed = <<>> /\ p.size <= z1
                  ELSE Leads(V, p)
    <2>1. CASE p \in First
      <3>1. PICK n \in 0 .. z : p = Place(<<i>>, <<>>, t, n)
        BY <2>1
      <3>2. Proper(p) /\ Leads(V, p)
        BY <1>5, <3>1, StartProper, OneIsSeq
      <3>3. p.code = <<i>> /\ <<i>> # <<>>
        BY <3>1 DEF Place
      <3> QED
        BY <3>2, <3>3
    <2>2. ASSUME NEW j \in J, p \in W[j]
          PROVE  /\ Proper(p)
                 /\ IF p.code = <<>> THEN p.todo = <<>> /\ p.owed = <<>> /\ p.size <= z1
                    ELSE Leads(V, p)
      <3>1. W[j] \subseteq V /\ Closed(W[j], <<>>, z1)
        BY <1>1, <1>2
      <3> HIDE DEF Good
      <3> QED
        BY <2>2, <3>1, LeadsMore DEF Closed
    <2> QED
      BY <1>4, <2>1, <2>2
  <1> QED
    BY <1>3, <1>6 DEF Runs, Closed

\* for (i = 0; i < local; i++): the length of a list, and its elements.
LEMMA TimesRuns ==
    ASSUME NEW T \in Seq(K), NEW h \in K, <<h>> = ListOf(T), NEW body, NEW z \in Room, NEW z1 \in Room,
           \A n \in Samples[h] : Runs(Again(n, body), <<>>, <<Counted(n, T)>>, z, <<>>, z1)
    PROVE  Runs(Times(body), <<>>, <<h>>, z, <<>>, z1)
  <1> DEFINE i == [op |-> "times", n |-> 4, body |-> body]
             J == Samples[h]
             c == [n \in J |-> Again(n, body)]
             b == [n \in J |-> <<Counted(n, T)>>]
  <1>1. h.k = "list" /\ h.each = T
    <2>1. h = [k |-> "list", each |-> T]
      BY DEF ListOf
    <2> QED
      BY <2>1
  <1>2. \A j \in J : Runs(c[j], <<>>, b[j], z, <<>>, z1)
    OBVIOUS
  <1>3. <<h>> \in Todo(K)
    <2>1. <<h>> \in Seq(K)
      OBVIOUS
    <2> QED
      BY <2>1, ServerCalls
  <1>4. ASSUME NEW R, \A j \in J : \A n \in 0 .. z : Place(c[j], <<>>, b[j], n) \in R,
               NEW n \in 0 .. z
        PROVE  Leads(R, Place(<<i>>, <<>>, <<h>>, n))
    <2> DEFINE p == Place(<<i>>, <<>>, <<h>>, n)
    <2>1. /\ p.owed = <<>> /\ p.todo = <<h>> /\ p.size = n /\ p.todo # <<>>
          /\ Head(p.code) = i /\ Tail(p.code) = <<>> /\ Head(p.todo) = h
          /\ i.op = "times" /\ i.n = 4 /\ i.body = body
      BY OneIsSeq DEF Place
    <2>2. ASSUME NEW j \in J
          PROVE  Place(Again(j, i.body) \o <<>>, <<>>, After(p.todo, j), p.size) \in R
      <3>1. Again(j, body) \o <<>> = Again(j, body)
        BY OneIsSeq, JoinSeq DEF Again
      <3>2. After(<<h>>, j) = <<Counted(j, T)>>
        <4>1. After(<<h>>, j) = Follow(h, j) \o <<>>
          BY OneIsSeq DEF After
        <4>2. Follow(h, j) = <<Counted(j, T)>>
          BY <1>1 DEF Follow
        <4> QED
          BY <4>1, <4>2, OneIsSeq, JoinSeq
      <3>3. Place(c[j], <<>>, b[j], n) \in R
        BY <1>4
      <3> QED
        BY <2>1, <3>1, <3>2, <3>3
    <2> HIDE DEF p, i
    <2> QED
      BY <1>1, <2>1, <2>2 DEF Leads, p
  <1> HIDE DEF c, b, i, J
  <1>5. Runs(<<i>>, <<>>, <<h>>, z, <<>>, z1)
    BY <1>2, <1>3, <1>4, OneOfRuns
  <1> QED
    BY <1>5 DEF Times, i

\* switch (local): an enum, and what its variants hold.
LEMMA ChooseRuns ==
    ASSUME NEW h \in K, h.k = "variant", NEW cases, Len(cases) = Len(h.of),
           Choose(cases) = Handlers => <<h>> = ServerMessage,
           NEW z \in Room, NEW z1 \in Room,
           \A e \in 1 .. Len(h.of) : IsSeq(cases[e]) /\ Runs(cases[e], <<>>, h.of[e], z, <<>>, z1)
    PROVE  Runs(Choose(cases), <<>>, <<h>>, z, <<>>, z1)
  <1> DEFINE i == [op |-> "choose", n |-> 1, cases |-> cases]
             J == Samples[h]
             c == [j \in J |-> cases[j + 1]]
             b == [j \in J |-> h.of[j + 1]]
  <1>1. <<h>> \in Todo(K) /\ h.of \in Seq(Seq(K))
    <2>1. <<h>> \in Seq(K)
      OBVIOUS
    <2>2. Supported(K) /\ \A T \in Seq(K) : T \in Todo(K)
      BY ServerCalls
    <2>3. h.of \in Seq(Seq(K))
      BY <2>2 DEF Supported
    <2> QED
      BY <2>1, <2>2, <2>3
  <1>2. ASSUME NEW j \in J PROVE j + 1 \in 1 .. Len(h.of) /\ IsSeq(h.of[j + 1])
    <2>1. j \in 0 .. Len(h.of) - 1
      BY ClientBytesAssumption DEF Tokens, K
    <2>2. j + 1 \in 1 .. Len(h.of)
      BY <1>1, <2>1, LenProperties
    <2>3. h.of[j + 1] \in Seq(K)
      BY <1>1, <2>2, ElementOfSeq
    <2> QED
      BY <2>2, <2>3, SeqIsSeq
  <1>3. \A j \in J : Runs(c[j], <<>>, b[j], z, <<>>, z1)
    BY <1>2
  <1>4. ASSUME NEW R, \A j \in J : \A n \in 0 .. z : Place(c[j], <<>>, b[j], n) \in R,
               NEW n \in 0 .. z
        PROVE  Leads(R, Place(<<i>>, <<>>, <<h>>, n))
    <2> DEFINE p == Place(<<i>>, <<>>, <<h>>, n)
    <2>1. /\ p.owed = <<>> /\ p.todo = <<h>> /\ p.size = n /\ p.todo # <<>>
          /\ p.code = <<i>> /\ Head(p.code) = i /\ Tail(p.code) = <<>> /\ Head(p.todo) = h
          /\ i.op = "choose" /\ i.n = 1 /\ i.cases = cases
      BY OneIsSeq DEF Place
    <2>2. ASSUME NEW j \in J
          PROVE  /\ Place(i.cases[j + 1] \o <<>>, <<>>, After(p.todo, j), p.size) \in R
                 /\ IsSeq(i.cases[j + 1])
      <3>1. cases[j + 1] \o <<>> = cases[j + 1] /\ IsSeq(cases[j + 1])
        BY <1>2, OneIsSeq, JoinSeq
      <3>2. After(<<h>>, j) = h.of[j + 1]
        <4>1. After(<<h>>, j) = Follow(h, j) \o <<>>
          BY OneIsSeq DEF After
        <4>2. Follow(h, j) = h.of[j + 1]
          BY DEF Follow
        <4> QED
          BY <1>2, <4>1, <4>2, OneIsSeq, JoinSeq
      <3>3. Place(c[j], <<>>, b[j], n) \in R
        BY <1>4
      <3> QED
        BY <2>1, <3>1, <3>2, <3>3
    <2>3. p.code = Handlers => p.todo = ServerMessage
      BY <2>1 DEF Choose
    <2> HIDE DEF p, i
    <2> QED
      BY <2>1, <2>2, <2>3 DEF Leads, p
  <1> HIDE DEF c, b, i, J
  <1>5. Runs(<<i>>, <<>>, <<h>>, z, <<>>, z1)
    BY <1>1, <1>3, <1>4, OneOfRuns
  <1> QED
    BY <1>5 DEF Choose, i

-----------------------------------------------------------------------------
(* The instructions, one by one.                                           *)

\* From less than z bytes too, and to more than z1.
LEMMA RunsWeaker ==
    ASSUME NEW c, NEW o, NEW t, NEW o1, NEW z \in Nat, NEW z1 \in Nat,
           NEW y \in Nat, NEW y1 \in Nat, y <= z, z1 <= y1, Runs(c, o, t, z, o1, z1)
    PROVE  Runs(c, o, t, y, o1, y1)
  <1>1. PICK R : Closed(R, o1, z1) /\ \A n \in 0 .. z : Place(c, o, t, n) \in R
    BY DEF Runs
  <1>2. Closed(R, o1, y1)
    <2>1. ASSUME NEW p \in R, Proper(p), p.size <= z1 PROVE p.size <= y1
      BY <2>1 DEF Proper, Room
    <2> QED
      BY <1>1, <2>1 DEF Closed
  <1>3. \A n \in 0 .. y : Place(c, o, t, n) \in R
    BY <1>1
  <1> QED
    BY <1>2, <1>3 DEF Runs

\* Something is done, for calls of messages.
Concerns(c, t) == IsSeq(c) /\ c # <<>> /\ t \in Seq(K) /\ t \in Todo(K) /\ IsSeq(t)

\* What c receives for the calls t comes into the buffer, at most w bytes.
Receiving(c, t, w) ==
    /\ Concerns(c, t) /\ w \in Nat
    /\ \A o \in Seq(K), z \in Nat : z + w <= BufferSize => Runs(c, o, t, z, o \o t, z + w)

\* What c reads from the buffer are the calls t.
Taking(c, t) == /\ Concerns(c, t)
                /\ \A o \in Seq(K), z \in Room : Runs(c, t \o o, <<>>, z, o, z)

\* Both: nothing of the calls t is left in the buffer, whose size becomes z1.
Handles(c, t, z, z1) == /\ Concerns(c, t) /\ z \in Room /\ z1 \in Room
                        /\ Runs(c, <<>>, t, z, <<>>, z1)

\* recv and write_into_buffer of a number
LEMMA FieldReceives ==
    ASSUME NEW n \in Nat, Unsigned(n) \in Seq(K)
    PROVE  Receiving(Field(n), Unsigned(n), n)
  <1> DEFINE i == [op |-> "field", n |-> n]
             h == [k |-> "unsigned", width |-> n]
  <1>1. Unsigned(n) = <<h>> /\ h.k = "unsigned" /\ h.width = n
        /\ Field(n) = <<i>> /\ i.op = "field" /\ i.n = n
    BY DEF Unsigned, Field
  <1> HIDE DEF i, h
  <1>2. h \in K
    <2>1. <<h>> \in Seq(K) /\ Len(<<h>>) = 1 /\ <<h>>[1] = h
      BY <1>1
    <2> QED
      BY <2>1, ElementOfSeq
  <1>0. Concerns(Field(n), Unsigned(n))
    BY <1>1, OneIsSeq, SeqIsSeq, ServerCalls DEF Concerns
  <1> SUFFICES ASSUME NEW o \in Seq(K), NEW z \in Nat, z + n <= BufferSize
               PROVE  Runs(<<i>>, o, <<h>>, z, o \o <<h>>, z + n)
    BY <1>1, <1>0 DEF Receiving
  <1>3. <<h>> \in Todo(K) /\ o \o <<h>> = Append(o, h) /\ Append(o, h) \in Seq(K)
        /\ z \in Room /\ z + n \in Room
    <2>1. <<h>> \in Seq(K)
      BY <1>1
    <2>2. o \o <<h>> = Append(o, h) /\ Append(o, h) \in Seq(K)
      BY <1>2
    <2>3. <<h>> \in Todo(K)
      BY <2>1, ServerCalls
    <2>4. z \in Room /\ z + n \in Room
      BY ServerCalls DEF Room
    <2> QED
      BY <2>2, <2>3, <2>4
  <1>4. ASSUME NEW R, \A m \in 0 .. z + n : Place(<<>>, Append(o, h), <<>>, m) \in R,
               NEW m \in 0 .. z
        PROVE  Leads(R, Place(<<i>>, o, <<h>>, m))
    <2> DEFINE p == Place(<<i>>, o, <<h>>, m)
    <2>1. /\ p.owed = o /\ p.todo = <<h>> /\ p.size = m /\ p.todo # <<>>
          /\ Head(p.code) = i /\ Tail(p.code) = <<>> /\ Head(p.todo) = h /\ Tail(p.todo) = <<>>
      BY OneIsSeq DEF Place
    <2>2. m + n \in 0 .. z + n /\ m + n <= BufferSize
      BY ServerCalls
    <2> HIDE DEF p
    <2> QED
      BY <1>1, <1>4, <2>1, <2>2 DEF Leads, p
  <1> QED
    BY <1>3, <1>4, OneRuns

\* read_str
LEMMA TextReceives ==
    ASSUME NEW h, IsText(h), <<h>> \in Seq(K)
    PROVE  Receiving(Text, <<h>>, Base)
  <1> DEFINE i == [op |-> "text"]
  <1>1. Text = <<i>> /\ i.op = "text"
    BY DEF Text
  <1> HIDE DEF i
  <1>2. h \in K
    <2>1. <<h>> \in Seq(K) /\ Len(<<h>>) = 1 /\ <<h>>[1] = h
      BY <1>1
    <2> QED
      BY <2>1, ElementOfSeq
  <1>0. Concerns(Text, <<h>>) /\ Base \in Nat
    BY <1>1, OneIsSeq, SeqIsSeq, ServerCalls DEF Concerns
  <1> SUFFICES ASSUME NEW o \in Seq(K), NEW z \in Nat, z + Base <= BufferSize
               PROVE  Runs(<<i>>, o, <<h>>, z, o \o <<h>>, z + Base)
    BY <1>1, <1>0 DEF Receiving
  <1>3. <<h>> \in Todo(K) /\ o \o <<h>> = Append(o, h) /\ Append(o, h) \in Seq(K)
        /\ z \in Room /\ z + Base \in Room
    <2>1. <<h>> \in Seq(K)
      BY <1>1
    <2>2. o \o <<h>> = Append(o, h) /\ Append(o, h) \in Seq(K)
      BY <1>2
    <2>3. <<h>> \in Todo(K)
      BY <2>1, ServerCalls
    <2>4. z \in Room /\ z + Base \in Room
      BY ServerCalls DEF Room
    <2> QED
      BY <2>2, <2>3, <2>4
  <1>4. ASSUME NEW R, \A m \in 0 .. z + Base : Place(<<>>, Append(o, h), <<>>, m) \in R,
               NEW m \in 0 .. z
        PROVE  Leads(R, Place(<<i>>, o, <<h>>, m))
    <2> DEFINE p == Place(<<i>>, o, <<h>>, m)
    <2>1. /\ p.owed = o /\ p.todo = <<h>> /\ p.size = m /\ p.todo # <<>>
          /\ Head(p.code) = i /\ Tail(p.code) = <<>> /\ Head(p.todo) = h /\ Tail(p.todo) = <<>>
      BY OneIsSeq DEF Place
    <2>2. m + Base <= BufferSize /\ \A n \in 1 .. Base : m + n \in 0 .. z + Base
      BY ServerCalls
    <2> HIDE DEF p
    <2> QED
      BY <1>1, <1>4, <2>1, <2>2 DEF Leads, p
  <1> QED
    BY <1>3, <1>4, OneRuns

\* recv of a number
LEMMA LocalHandles ==
    ASSUME NEW n \in Nat, Unsigned(n) \in Seq(K), NEW z \in Room
    PROVE  Handles(Local(n), Unsigned(n), z, z)
  <1> DEFINE i == [op |-> "local", n |-> n]
             h == [k |-> "unsigned", width |-> n]
  <1>1. Unsigned(n) = <<h>> /\ h.k = "unsigned" /\ h.width = n
        /\ Local(n) = <<i>> /\ i.op = "local" /\ i.n = n
    BY DEF Unsigned, Local
  <1> HIDE DEF i, h
  <1>2. <<h>> \in Todo(K) /\ <<>> \in Seq(K)
    BY <1>1, ServerCalls, EmptySeq
  <1>3. ASSUME NEW R, \A m \in 0 .. z : Place(<<>>, <<>>, <<>>, m) \in R, NEW m \in 0 .. z
        PROVE  Leads(R, Place(<<i>>, <<>>, <<h>>, m))
    <2> DEFINE p == Place(<<i>>, <<>>, <<h>>, m)
    <2>1. /\ p.owed = <<>> /\ p.todo = <<h>> /\ p.size = m /\ p.todo # <<>>
          /\ Head(p.code) = i /\ Tail(p.code) = <<>> /\ Head(p.todo) = h /\ Tail(p.todo) = <<>>
      BY OneIsSeq DEF Place
    <2> HIDE DEF p
    <2> QED
      BY <1>1, <1>3, <2>1 DEF Leads, p
  <1>4. Concerns(Local(n), Unsigned(n))
    BY <1>1, <1>2, OneIsSeq, SeqIsSeq DEF Concerns, Todo
  <1>5. Runs(Local(n), <<>>, Unsigned(n), z, <<>>, z)
    BY <1>1, <1>2, <1>3, OneRuns
  <1> QED
    BY <1>2, <1>4, <1>5 DEF Handles

\* read_1_byte() ... read_8_bytes()
LEMMA TakeTakes ==
    ASSUME NEW n \in Nat, Unsigned(n) \in Seq(K)
    PROVE  Taking(Take(n), Unsigned(n))
  <1> DEFINE i == [op |-> "take", n |-> n]
             h == [k |-> "unsigned", width |-> n]
  <1>1. Unsigned(n) = <<h>> /\ h.k = "unsigned" /\ h.width = n
        /\ Take(n) = <<i>> /\ i.op = "take" /\ i.n = n
    BY DEF Unsigned, Take
  <1> HIDE DEF i, h
  <1>0. Concerns(Take(n), Unsigned(n))
    BY <1>1, OneIsSeq, SeqIsSeq, ServerCalls DEF Concerns
  <1> SUFFICES ASSUME NEW o \in Seq(K), NEW z \in Room
               PROVE  Runs(<<i>>, <<h>> \o o, <<>>, z, o, z)
    BY <1>1, <1>0 DEF Taking
  <1> DEFINE u == <<h>> \o o
  <1>2. u \in Seq(K) /\ u # <<>> /\ Head(u) = h /\ Tail(u) = o
    <2>1. IsSeq(<<h>>) /\ <<h>> # <<>> /\ Head(<<h>>) = h /\ Tail(<<h>>) = <<>> /\ IsSeq(o)
      BY OneIsSeq, SeqIsSeq
    <2>2. u # <<>> /\ Head(u) = h /\ Tail(u) = <<>> \o o /\ <<>> \o o = o
      BY <2>1, JoinSeq, OneIsSeq
    <2>3. u \in Seq(K)
      BY <1>1, ConcatProperties
    <2> QED
      BY <2>2, <2>3
  <1> HIDE DEF u
  <1>3. ASSUME NEW R, \A m \in 0 .. z : Place(<<>>, o, <<>>, m) \in R, NEW m \in 0 .. z
        PROVE  Leads(R, Place(<<i>>, u, <<>>, m))
    <2> DEFINE p == Place(<<i>>, u, <<>>, m)
    <2>1. /\ p.owed = u /\ p.todo = <<>> /\ p.size = m
          /\ Head(p.code) = i /\ Tail(p.code) = <<>>
      BY OneIsSeq DEF Place
    <2> HIDE DEF p
    <2> QED
      BY <1>1, <1>2, <1>3, <2>1 DEF Leads, p
  <1>4. <<>> \in Todo(K)
    BY ServerCalls
  <1> QED
    BY <1>2, <1>3, <1>4, OneRuns DEF u

\* read_n_bytes(read_1_byte())
LEMMA TextTakes ==
    ASSUME NEW h, IsText(h), <<h>> \in Seq(K)
    PROVE  Taking(TakeText, <<h>>)
  <1> DEFINE i == [op |-> "take_text"]
  <1>1. TakeText = <<i>> /\ i.op = "take_text"
    BY DEF TakeText
  <1> HIDE DEF i
  <1>0. Concerns(TakeText, <<h>>)
    BY <1>1, OneIsSeq, SeqIsSeq, ServerCalls DEF Concerns
  <1> SUFFICES ASSUME NEW o \in Seq(K), NEW z \in Room
               PROVE  Runs(<<i>>, <<h>> \o o, <<>>, z, o, z)
    BY <1>1, <1>0 DEF Taking
  <1> DEFINE u == <<h>> \o o
  <1>2. u \in Seq(K) /\ u # <<>> /\ Head(u) = h /\ Tail(u) = o
    <2>1. IsSeq(<<h>>) /\ <<h>> # <<>> /\ Head(<<h>>) = h /\ Tail(<<h>>) = <<>> /\ IsSeq(o)
      BY OneIsSeq, SeqIsSeq
    <2>2. u # <<>> /\ Head(u) = h /\ Tail(u) = <<>> \o o /\ <<>> \o o = o
      BY <2>1, JoinSeq, OneIsSeq
    <2>3. u \in Seq(K)
      BY <1>1, ConcatProperties
    <2> QED
      BY <2>2, <2>3
  <1> HIDE DEF u
  <1>3. ASSUME NEW R, \A m \in 0 .. z : Place(<<>>, o, <<>>, m) \in R, NEW m \in 0 .. z
        PROVE  Leads(R, Place(<<i>>, u, <<>>, m))
    <2> DEFINE p == Place(<<i>>, u, <<>>, m)
    <2>1. /\ p.owed = u /\ p.todo = <<>> /\ p.size = m
          /\ Head(p.code) = i /\ Tail(p.code) = <<>>
      BY OneIsSeq DEF Place
    <2> HIDE DEF p
    <2> QED
      BY <1>1, <1>2, <1>3, <2>1 DEF Leads, p
  <1>4. <<>> \in Todo(K)
    BY ServerCalls
  <1> QED
    BY <1>2, <1>3, <1>4, OneRuns DEF u

\* reset_buffer
LEMMA ResetHandles ==
    ASSUME NEW z \in Room
    PROVE  Handles(Reset, <<>>, z, 0)
  <1> DEFINE i == [op |-> "reset"]
  <1>1. Reset = <<i>> /\ i.op = "reset"
    BY DEF Reset
  <1> HIDE DEF i
  <1>2. <<>> \in Todo(K) /\ <<>> \in Seq(K) /\ 0 \in Room
    BY ServerCalls, EmptySeq DEF Room
  <1>3. ASSUME NEW R, \A m \in 0 .. 0 : Place(<<>>, <<>>, <<>>, m) \in R, NEW m \in 0 .. z
        PROVE  Leads(R, Place(<<i>>, <<>>, <<>>, m))
    <2> DEFINE p == Place(<<i>>, <<>>, <<>>, m)
    <2>1. /\ p.owed = <<>> /\ p.todo = <<>> /\ p.size = m
          /\ Head(p.code) = i /\ Tail(p.code) = <<>>
      BY OneIsSeq DEF Place
    <2>2. Place(<<>>, <<>>, <<>>, 0) \in R
      BY <1>3
    <2> HIDE DEF p
    <2> QED
      BY <1>1, <2>1, <2>2 DEF Leads, p
  <1>4. Concerns(Reset, <<>>)
    BY <1>1, <1>2, OneIsSeq, SeqIsSeq DEF Concerns, Todo
  <1>5. Runs(Reset, <<>>, <<>>, z, <<>>, 0)
    BY <1>1, <1>2, <1>3, OneRuns
  <1> QED
    BY <1>2, <1>4, <1>5 DEF Handles

-----------------------------------------------------------------------------
(* The handlers.                                                           *)

LEMMA ConcernsJoin ==
    ASSUME NEW c1, NEW c2, NEW t1, NEW t2, Concerns(c1, t1), Concerns(c2, t2)
    PROVE  Concerns(c1 \o c2, t1 \o t2)
  <1>1. IsSeq(c1 \o c2) /\ c1 \o c2 # <<>>
    BY JoinSeq DEF Concerns
  <1>2. t1 \o t2 \in Seq(K)
    BY ConcatProperties DEF Concerns
  <1>3. t1 \o t2 \in Todo(K) /\ IsSeq(t1 \o t2)
    BY <1>2, ServerCalls, SeqIsSeq
  <1> QED
    BY <1>1, <1>2, <1>3 DEF Concerns

LEMMA ReceivingJoin ==
    ASSUME NEW c1, NEW c2, NEW t1, NEW t2, NEW w1, NEW w2,
           Receiving(c1, t1, w1), Receiving(c2, t2, w2)
    PROVE  Receiving(c1 \o c2, t1 \o t2, w1 + w2)
  <1>1. Concerns(c1 \o c2, t1 \o t2) /\ w1 + w2 \in Nat
    BY ConcernsJoin DEF Receiving
  <1>2. ASSUME NEW o \in Seq(K), NEW z \in Nat, z + (w1 + w2) <= BufferSize
        PROVE  Runs(c1 \o c2, o, t1 \o t2, z, o \o (t1 \o t2), z + (w1 + w2))
    <2>1. /\ o \o t1 \in Seq(K) /\ z + w1 \in Room /\ z + w1 \in Nat /\ z + w1 <= BufferSize
          /\ (z + w1) + w2 = z + (w1 + w2) /\ (z + w1) + w2 <= BufferSize
      BY <1>2, ServerCalls, ConcatProperties DEF Receiving, Concerns, Room
    <2>2. Runs(c1, o, t1, z, o \o t1, z + w1)
      BY <1>2, <2>1 DEF Receiving
    <2>3. Runs(c2, o \o t1, t2, z + w1, (o \o t1) \o t2, (z + w1) + w2)
      BY <2>1 DEF Receiving
    <2>4. Runs(c1 \o c2, o, t1 \o t2, z, (o \o t1) \o t2, (z + w1) + w2)
      BY <2>1, <2>2, <2>3, JoinRuns DEF Receiving, Concerns
    <2>5. Grouped(o, t1, t2)
      BY GroupSeq, SeqIsSeq, Zenon DEF Receiving, Concerns
    <2> QED
      BY <2>1, <2>4, <2>5 DEF Grouped
  <1> QED
    BY <1>1, <1>2 DEF Receiving

LEMMA TakingJoin ==
    ASSUME NEW c1, NEW c2, NEW t1, NEW t2, Taking(c1, t1), Taking(c2, t2)
    PROVE  Taking(c1 \o c2, t1 \o t2)
  <1>1. Concerns(c1 \o c2, t1 \o t2)
    BY ConcernsJoin DEF Taking
  <1>2. ASSUME NEW o \in Seq(K), NEW z \in Room
        PROVE  Runs(c1 \o c2, (t1 \o t2) \o o, <<>>, z, o, z)
    <2>1. t2 \o o \in Seq(K) /\ <<>> \in Todo(K) /\ <<>> \o <<>> = <<>>
      BY ServerCalls, ConcatProperties, OneIsSeq, JoinSeq DEF Taking, Concerns
    <2>2. Runs(c1, t1 \o (t2 \o o), <<>>, z, t2 \o o, z)
      BY <2>1 DEF Taking
    <2>3. Runs(c2, t2 \o o, <<>>, z, o, z)
      BY DEF Taking
    <2>4. Runs(c1 \o c2, t1 \o (t2 \o o), <<>> \o <<>>, z, o, z)
      BY <2>1, <2>2, <2>3, JoinRuns DEF Taking, Concerns
    <2>5. Grouped(t1, t2, o)
      BY GroupSeq, SeqIsSeq, Zenon DEF Taking, Concerns
    <2> QED
      BY <2>1, <2>4, <2>5 DEF Grouped
  <1> QED
    BY <1>1, <1>2 DEF Taking

LEMMA HandlesJoin ==
    ASSUME NEW c1, NEW c2, NEW t1, NEW t2, NEW z, NEW z1, NEW z2,
           Handles(c1, t1, z, z1), Handles(c2, t2, z1, z2)
    PROVE  Handles(c1 \o c2, t1 \o t2, z, z2)
  <1>1. Concerns(c1 \o c2, t1 \o t2)
    BY ConcernsJoin DEF Handles
  <1>2. Runs(c1 \o c2, <<>>, t1 \o t2, z, <<>>, z2)
    BY JoinRuns DEF Handles, Concerns
  <1> QED
    BY <1>1, <1>2 DEF Handles

\* One of them receives nothing.
LEMMA HandlesThen ==
    ASSUME NEW c1, NEW c2, NEW t, NEW z, NEW z1, NEW z2
    PROVE  /\ Handles(c1, t, z, z1) /\ Handles(c2, <<>>, z1, z2) => Handles(c1 \o c2, t, z, z2)
           /\ Handles(c1, <<>>, z, z1) /\ Handles(c2, t, z1, z2) => Handles(c1 \o c2, t, z, z2)
  <1>1. IsSeq(t) => t \o <<>> = t /\ <<>> \o t = t
    BY OneIsSeq, JoinSeq
  <1>2. Concerns(c1, t) \/ Concerns(c2, t) => IsSeq(t)
    BY DEF Concerns
  <1>3. Handles(c1, t, z, z1) /\ Handles(c2, <<>>, z1, z2) => Handles(c1 \o c2, t \o <<>>, z, z2)
    BY HandlesJoin
  <1>4. Handles(c1, <<>>, z, z1) /\ Handles(c2, t, z1, z2) => Handles(c1 \o c2, <<>> \o t, z, z2)
    BY HandlesJoin
  <1> QED
    BY <1>1, <1>2, <1>3, <1>4 DEF Handles

\* First into the buffer, then out of it.
LEMMA HandlesBoth ==
    ASSUME NEW c1, NEW c2, NEW t, NEW w, NEW z \in Nat, z + w <= BufferSize,
           Receiving(c1, t, w), Taking(c2, t)
    PROVE  Handles(c1 \o c2, t, z, z + w)
  <1>1. /\ z \in Room /\ z + w \in Room /\ <<>> \in Seq(K) /\ <<>> \in Todo(K)
        /\ <<>> \o t = t /\ t \o <<>> = t /\ <<>> \o <<>> = <<>>
    BY ServerCalls, EmptySeq, OneIsSeq, JoinSeq DEF Receiving, Concerns, Room
  <1>2. Runs(c1, <<>>, t, z, <<>> \o t, z + w)
    BY <1>1 DEF Receiving
  <1>3. Runs(c2, t \o <<>>, <<>>, z + w, <<>>, z + w)
    BY <1>1 DEF Taking
  <1>4. Runs(c1 \o c2, <<>>, t \o <<>>, z, <<>>, z + w)
    BY <1>1, <1>2, <1>3, JoinRuns DEF Receiving, Taking, Concerns
  <1>5. Concerns(c1 \o c2, t \o <<>>)
    <2>1. IsSeq(c1 \o c2) /\ c1 \o c2 # <<>>
      BY JoinSeq DEF Receiving, Taking, Concerns
    <2> QED
      BY <1>1, <2>1 DEF Receiving, Concerns
  <1> QED
    BY <1>1, <1>4, <1>5 DEF Handles

LEMMA HandlesWeaker ==
    ASSUME NEW c, NEW t, NEW z \in Room, NEW z1 \in Room, NEW y \in Room, NEW y1 \in Room,
           y <= z, z1 <= y1, Handles(c, t, z, z1)
    PROVE  Handles(c, t, y, y1)
  <1>1. z \in Nat /\ z1 \in Nat /\ y \in Nat /\ y1 \in Nat
    BY ServerCalls DEF Room
  <1>2. Runs(c, <<>>, t, y, <<>>, y1)
    BY <1>1, RunsWeaker DEF Handles
  <1> QED
    BY <1>2 DEF Handles

\* The length of a list that the server sends.
LEMMA ListLength ==
    ASSUME NEW T, ListOf(T) \in Seq(K), NEW n \in Samples[ListOf(T)[1]]
    PROVE  n \in Nat
  <1> DEFINE h == ListOf(T)[1]
  <1>1. ListOf(T) = <<h>> /\ h.k = "list"
    BY DEF ListOf
  <1> HIDE DEF h
  <1>2. h \in K
    <2>1. <<h>> \in Seq(K) /\ Len(<<h>>) = 1 /\ <<h>>[1] = h
      BY <1>1
    <2> QED
      BY <2>1, ElementOfSeq
  <1>3. n \in Tokens(h)
    <2>1. h \in Frame(K) /\ n \in Arguments(h)
      BY <1>1, <1>2 DEF Frame, Arguments, h
    <2> QED
      BY <2>1, ArgumentsAreTokens
  <1> QED
    BY <1>1, <1>3, Sizes DEF Tokens

\* A loop of which every round leaves room for the others.
LEMMA HandlesTimes ==
    ASSUME NEW T \in Seq(K), ListOf(T) \in Seq(K), NEW body, NEW z \in Room, NEW z1 \in Room,
           IsSeq(body), body # <<>>,
           NEW s,
           \A n \in Samples[ListOf(T)[1]] :
              /\ s[n] \in [0 .. n -> Room] /\ z <= s[n][n] /\ s[n][0] <= z1
              /\ \A k \in 1 .. n : Runs(body, <<>>, T, s[n][k], <<>>, s[n][k - 1])
    PROVE  Handles(Times(body), ListOf(T), z, z1)
  <1> DEFINE h == ListOf(T)[1]
  <1>1. ListOf(T) = <<h>> /\ h \in K
    <2> DEFINE x == [k |-> "list", each |-> T]
    <2>1. ListOf(T) = <<x>> /\ h = x
      BY DEF ListOf
    <2> HIDE DEF h, x
    <2>2. <<x>> \in Seq(K) /\ Len(<<x>>) = 1 /\ <<x>>[1] = x
      BY <2>1
    <2> QED
      BY <2>1, <2>2, ElementOfSeq
  <1>2. ASSUME NEW n \in Samples[h]
        PROVE  Runs(Again(n, body), <<>>, <<Counted(n, T)>>, z, <<>>, z1)
    <2> DEFINE f == s[n]
    <2>1. n \in Nat
      BY <1>2, ListLength
    <2>2. /\ f \in [0 .. n -> Room] /\ z <= f[n] /\ f[0] <= z1
          /\ \A k \in 1 .. n : Runs(body, <<>>, T, f[k], <<>>, f[k - 1])
      BY <1>2
    <2> HIDE DEF f
    <2>4. Runs(Again(n, body), <<>>, <<Counted(n, T)>>, f[n], <<>>, f[0])
      BY <2>1, <2>2, AgainRuns
    <2>5. f[n] \in Nat /\ f[0] \in Nat /\ z \in Nat /\ z1 \in Nat /\ z <= f[n] /\ f[0] <= z1
      BY <1>2, <2>1, <2>2, ServerCalls DEF Room
    <2> QED
      BY <2>4, <2>5, RunsWeaker
  <1> HIDE DEF h
  <1>3. Runs(Times(body), <<>>, <<h>>, z, <<>>, z1)
    BY <1>1, <1>2, TimesRuns
  <1>4. Concerns(Times(body), <<h>>)
    BY <1>1, ServerCalls, OneIsSeq, SeqIsSeq DEF Concerns, Times
  <1> QED
    BY <1>1, <1>3, <1>4 DEF Handles

\* A loop of which every round resets the buffer.
LEMMA HandlesEach ==
    ASSUME NEW T, ListOf(T) \in Seq(K), NEW body, NEW z \in Room, Handles(body, T, BufferSize, BufferSize)
    PROVE  Handles(Times(body), ListOf(T), z, BufferSize)
  <1> DEFINE h == ListOf(T)[1]
             s == [n \in Samples[h] |-> [k \in 0 .. n |-> BufferSize]]
  <1>1. BufferSize \in Room /\ z <= BufferSize
    BY ServerCalls DEF Room
  <1>2. ASSUME NEW n \in Samples[h]
        PROVE  s[n] = [k \in 0 .. n |-> BufferSize] /\ n \in Nat
    <2>1. s[n] = [k \in 0 .. n |-> BufferSize]
      BY <1>2
    <2>2. n \in Nat
      BY ListLength
    <2> QED
      BY <2>1, <2>2
  <1> HIDE DEF s, h
  <1>3. ASSUME NEW n \in Samples[h]
        PROVE  /\ s[n] \in [0 .. n -> Room] /\ z <= s[n][n] /\ s[n][0] <= BufferSize
               /\ \A k \in 1 .. n : Runs(body, <<>>, T, s[n][k], <<>>, s[n][k - 1])
    <2> DEFINE f == [k \in 0 .. n |-> BufferSize]
    <2>0. n \in Nat
      BY <1>2
    <2>1. f \in [0 .. n -> Room] /\ f[n] = BufferSize /\ f[0] = BufferSize
      <3>1. n \in 0 .. n /\ 0 \in 0 .. n
        BY <2>0
      <3> QED
        BY <1>1, <3>1
    <2>2. \A k \in 1 .. n : f[k] = BufferSize /\ f[k - 1] = BufferSize
      <3>1. TAKE k \in 1 .. n
      <3>2. k \in 0 .. n /\ k - 1 \in 0 .. n
        BY <2>0
      <3> QED
        BY <3>2
    <2>3. s[n] = f
      BY <1>2
    <2> HIDE DEF f
    <2> QED
      BY <1>1, <2>1, <2>2, <2>3, ServerCalls DEF Handles
  <1> QED
    BY <1>1, <1>3, HandlesTimes DEF Handles, Concerns, h

\* switch over the cases
LEMMA HandlesCases ==
    ASSUME NEW of, Enum(of) \in Seq(K), NEW cases, Len(cases) = Len(of),
           Choose(cases) = Handlers => Enum(of) = ServerMessage,
           NEW z \in Room, NEW z1 \in Room,
           \A e \in 1 .. Len(of) : Handles(cases[e], of[e], z, z1)
    PROVE  Handles(Choose(cases), Enum(of), z, z1)
  <1> DEFINE h == [k |-> "variant", of |-> of]
  <1>1. Enum(of) = <<h>> /\ h.k = "variant" /\ h.of = of
    BY DEF Enum
  <1> HIDE DEF h
  <1>2. h \in K
    <2>1. <<h>> \in Seq(K) /\ Len(<<h>>) = 1 /\ <<h>>[1] = h
      BY <1>1
    <2> QED
      BY <2>1, ElementOfSeq
  <1>3. Runs(Choose(cases), <<>>, <<h>>, z, <<>>, z1)
    BY <1>1, <1>2, ChooseRuns DEF Handles, Concerns
  <1>4. Concerns(Choose(cases), <<h>>)
    BY <1>1, ServerCalls, OneIsSeq, SeqIsSeq DEF Concerns, Choose
  <1> QED
    BY <1>1, <1>3, <1>4 DEF Handles

-----------------------------------------------------------------------------
(* What the messages of the server are made of.                            *)

LEMMA ListedType ==
    ASSUME NEW T, ListOf(T) \in Seq(K)
    PROVE  T \in Seq(K)
  <1> DEFINE h == [k |-> "list", each |-> T]
  <1>1. ListOf(T) = <<h>> /\ h.k = "list" /\ h.each = T
    BY DEF ListOf
  <1> HIDE DEF h
  <1>2. h \in K
    <2>1. <<h>> \in Seq(K) /\ Len(<<h>>) = 1 /\ <<h>>[1] = h
      BY <1>1
    <2> QED
      BY <2>1, ElementOfSeq
  <1>3. Supported(K)
    BY ServerCalls
  <1> QED
    BY <1>1, <1>2, <1>3 DEF Supported

LEMMA VariantTypes ==
    ASSUME NEW of, Enum(of) \in Seq(K)
    PROVE  of \in Seq(Seq(K)) /\ \A e \in 1 .. Len(of) : of[e] \in Seq(K)
  <1> DEFINE h == [k |-> "variant", of |-> of]
  <1>1. Enum(of) = <<h>> /\ h.k = "variant" /\ h.of = of
    BY DEF Enum
  <1> HIDE DEF h
  <1>2. h \in K
    <2>1. <<h>> \in Seq(K) /\ Len(<<h>>) = 1 /\ <<h>>[1] = h
      BY <1>1
    <2> QED
      BY <2>1, ElementOfSeq
  <1>3. Supported(K)
    BY ServerCalls
  <1>4. of \in Seq(Seq(K))
    BY <1>1, <1>2, <1>3 DEF Supported
  <1> QED
    BY <1>4, ElementOfSeq

LEMMA Known ==
    /\ U8 \in Seq(K) /\ U16 \in Seq(K) /\ U32 \in Seq(K) /\ Str \in Seq(K)
    /\ Address \in Seq(K) /\ Event \in Seq(K) /\ ListOf(Event) \in Seq(K) /\ ListOf(U8) \in Seq(K)
    /\ ListOf(Position) \in Seq(K) /\ MapOf(U8, Player) \in Seq(K) /\ MapOf(U8, U32) \in Seq(K)
  <1> DEFINE m1 == Str \o U8 \o U16 \o U16 \o U16 \o U16 \o U16
             m2 == U8 \o Player
             m3 == MapOf(U8, Player)
             m4 == U16 \o ListOf(Event)
             m5 == MapOf(U8, U32)
             e1 == U32 \o Position
             e2 == U32 \o ListOf(U8) \o ListOf(Position)
             e3 == U8 \o Position
             e4 == Position
  <1>1. ServerMessage = Enum(<<m1, m2, m3, m4, m5>>) /\ ServerMessage \in Seq(K)
    BY ServerCalls DEF ServerMessage
  <1>2. Event = Enum(<<e1, e2, e3, e4>>)
    BY DEF Event
  <1>3. m2 \in Seq(K) /\ m3 \in Seq(K) /\ m4 \in Seq(K) /\ m5 \in Seq(K)
    <2> HIDE DEF m1, m2, m3, m4, m5
    <2> DEFINE of == <<m1, m2, m3, m4, m5>>
    <2>1. Len(of) = 5 /\ of[2] = m2 /\ of[3] = m3 /\ of[4] = m4 /\ of[5] = m5 /\ Enum(of) \in Seq(K)
      BY <1>1
    <2> HIDE DEF of
    <2>2. \A e \in 1 .. Len(of) : of[e] \in Seq(K)
      BY <2>1, VariantTypes
    <2> QED
      BY <2>1, <2>2
  <1>4. /\ IsSeq(U8) /\ IsSeq(U16) /\ IsSeq(U32) /\ IsSeq(Str) /\ IsSeq(ListOf(U8))
        /\ IsSeq(ListOf(Position)) /\ IsSeq(ListOf(Event)) /\ IsSeq(Address)
    BY OneIsSeq DEF U8, U16, U32, Str, Address, ListOf, Unsigned
  <1>5. U16 \in Seq(K) /\ ListOf(Event) \in Seq(K)
    BY <1>3, <1>4, SeqOfParts
  <1>6. Event \in Seq(K)
    BY <1>5, ListedType
  <1>7. e2 \in Seq(K)
    <2> HIDE DEF e1, e2, e3, e4
    <2> DEFINE of == <<e1, e2, e3, e4>>
    <2>1. Len(of) = 4 /\ of[2] = e2 /\ Enum(of) \in Seq(K)
      BY <1>2, <1>6
    <2> HIDE DEF of
    <2>2. \A e \in 1 .. Len(of) : of[e] \in Seq(K)
      BY <2>1, VariantTypes
    <2> QED
      BY <2>1, <2>2
  <1>8. U32 \in Seq(K) /\ ListOf(U8) \in Seq(K) /\ ListOf(Position) \in Seq(K)
    <2>1. IsSeq(U32 \o ListOf(U8))
      BY <1>4, JoinSeq
    <2>2. U32 \o ListOf(U8) \in Seq(K) /\ ListOf(Position) \in Seq(K)
      BY <1>4, <1>7, <2>1, SeqOfParts
    <2> QED
      BY <1>4, <2>2, SeqOfParts
  <1>9. U8 \in Seq(K) /\ Str \in Seq(K) /\ Address \in Seq(K)
    <2>1. IsSeq(Player)
      BY <1>4, JoinSeq DEF Player
    <2>2. U8 \in Seq(K) /\ Player \in Seq(K)
      BY <1>3, <1>4, <2>1, SeqOfParts
    <2> QED
      BY <1>4, <2>2, SeqOfParts DEF Player
  <1> QED
    BY <1>3, <1>5, <1>6, <1>8, <1>9

\* Its instructions for single fields.
LEMMA Instructions ==
    /\ Receiving(Field(1), U8, 1) /\ Receiving(Field(2), U16, 2) /\ Receiving(Field(4), U32, 4)
    /\ Receiving(Text, Str, Base) /\ Receiving(Text, Address, Base)
    /\ Taking(Take(1), U8) /\ Taking(Take(2), U16) /\ Taking(Take(4), U32)
    /\ Taking(TakeText, Str) /\ Taking(TakeText, Address)
    /\ \A z \in Room : /\ Handles(Local(1), U8, z, z) /\ Handles(Local(2), U16, z, z)
                       /\ Handles(Local(4), U32, z, z) /\ Handles(Reset, <<>>, z, 0)
    /\ Receiving(ReadPosition, Position, 4) /\ Taking(APosition, Position)
  <1>1. /\ Unsigned(1) = U8 /\ Unsigned(2) = U16 /\ Unsigned(4) = U32
        /\ Unsigned(1) \in Seq(K) /\ Unsigned(2) \in Seq(K) /\ Unsigned(4) \in Seq(K)
    BY Known DEF U8, U16, U32
  <1>2. /\ Receiving(Field(1), U8, 1) /\ Receiving(Field(2), U16, 2) /\ Receiving(Field(4), U32, 4)
        /\ Receiving(Text, Str, Base) /\ Receiving(Text, Address, Base)
    BY <1>1, FieldReceives, TextReceives, Known DEF IsText, Str, Address
  <1>3. /\ Taking(Take(1), U8) /\ Taking(Take(2), U16) /\ Taking(Take(4), U32)
        /\ Taking(TakeText, Str) /\ Taking(TakeText, Address)
    BY <1>1, TakeTakes, TextTakes, Known DEF IsText, Str, Address
  <1>4. \A z \in Room : /\ Handles(Local(1), U8, z, z) /\ Handles(Local(2), U16, z, z)
                        /\ Handles(Local(4), U32, z, z) /\ Handles(Reset, <<>>, z, 0)
    BY <1>1, LocalHandles, ResetHandles
  <1>5. Receiving(ReadPosition, Position, 4)
    <2>1. Receiving(Field(2) \o Field(2), U16 \o U16, 2 + 2)
      BY <1>2, ReceivingJoin
    <2> QED
      BY <2>1 DEF ReadPosition, Position
  <1>6. Taking(APosition, Position)
    <2>1. Taking(Take(2) \o Take(2), U16 \o U16)
      BY <1>3, TakingJoin
    <2> QED
      BY <2>1 DEF APosition, Position
  <1> QED
    BY <1>2, <1>3, <1>4, <1>5, <1>6

LEMMA HelloHandled ==
    Handles(Hello, Str \o U8 \o U16 \o U16 \o U16 \o U16 \o U16, 0, 0)
  <1> DEFINE r2 == Text \o Field(1)
             r3 == r2 \o Field(2)
             r4 == r3 \o Field(2)
             r5 == r4 \o Field(2)
             r6 == r5 \o Field(2)
             r7 == r6 \o Field(2)
             g2 == TakeText \o Take(1)
             g3 == g2 \o Take(2)
             g4 == g3 \o Take(2)
             g5 == g4 \o Take(2)
             g6 == g5 \o Take(2)
             g7 == g6 \o Take(2)
             t2 == Str \o U8
             t3 == t2 \o U16
             t4 == t3 \o U16
             t5 == t4 \o U16
             t6 == t5 \o U16
             t7 == t6 \o U16
  <1>1. Hello = (r7 \o g7) \o Reset
    BY DEF Hello
  <1> HIDE DEF r2, r3, r4, r5, r6, r7, g2, g3, g4, g5, g6, g7, t2, t3, t4, t5, t6, t7
  <1>2. Receiving(r7, t7, Base + 1 + 2 + 2 + 2 + 2 + 2)
    <2>1. Receiving(r2, t2, Base + 1)
      BY Instructions, ReceivingJoin DEF r2, t2
    <2>2. Receiving(r3, t3, Base + 1 + 2)
      BY <2>1, Instructions, ReceivingJoin DEF r3, t3
    <2>3. Receiving(r4, t4, Base + 1 + 2 + 2)
      BY <2>2, Instructions, ReceivingJoin DEF r4, t4
    <2>4. Receiving(r5, t5, Base + 1 + 2 + 2 + 2)
      BY <2>3, Instructions, ReceivingJoin DEF r5, t5
    <2>5. Receiving(r6, t6, Base + 1 + 2 + 2 + 2 + 2)
      BY <2>4, Instructions, ReceivingJoin DEF r6, t6
    <2> QED
      BY <2>5, Instructions, ReceivingJoin DEF r7, t7
  <1>3. Taking(g7, t7)
    <2>1. Taking(g2, t2)
      BY Instructions, TakingJoin DEF g2, t2
    <2>2. Taking(g3, t3)
      BY <2>1, Instructions, TakingJoin DEF g3, t3
    <2>3. Taking(g4, t4)
      BY <2>2, Instructions, TakingJoin DEF g4, t4
    <2>4. Taking(g5, t5)
      BY <2>3, Instructions, TakingJoin DEF g5, t5
    <2>5. Taking(g6, t6)
      BY <2>4, Instructions, TakingJoin DEF g6, t6
    <2> QED
      BY <2>5, Instructions, TakingJoin DEF g7, t7
  <1> DEFINE w == Base + 1 + 2 + 2 + 2 + 2 + 2
  <1>4. 0 + w <= BufferSize /\ 0 + w \in Room
    BY ServerCalls DEF Room
  <1> HIDE DEF w
  <1>5. Handles(r7 \o g7, t7, 0, 0 + w)
    BY <1>2, <1>3, <1>4, HandlesBoth DEF w
  <1>6. Handles(Reset, <<>>, 0 + w, 0)
    BY <1>4, Instructions
  <1>7. Handles(Hello, t7, 0, 0)
    BY <1>1, <1>5, <1>6, HandlesThen
  <1> QED
    BY <1>7 DEF t2, t3, t4, t5, t6, t7

LEMMA AcceptedPlayerHandled ==
    Handles(AcceptedPlayer, U8 \o Player, 0, 0)
  <1> DEFINE r == Field(1) \o (Text \o Text)
             g == Take(1) \o (TakeText \o TakeText)
             t == U8 \o (Str \o Address)
             w == 1 + (Base + Base)
  <1>1. AcceptedPlayer = (r \o g) \o Reset /\ t = U8 \o Player
    BY DEF AcceptedPlayer, Player
  <1>2. Receiving(r, t, w)
    <2>1. Receiving(Text \o Text, Str \o Address, Base + Base)
      BY Instructions, ReceivingJoin
    <2> QED
      BY <2>1, Instructions, ReceivingJoin
  <1>3. Taking(g, t)
    <2>1. Taking(TakeText \o TakeText, Str \o Address)
      BY Instructions, TakingJoin
    <2> QED
      BY <2>1, Instructions, TakingJoin
  <1>4. 0 + w <= BufferSize /\ 0 + w \in Room
    BY ServerCalls DEF Room
  <1> HIDE DEF r, g, t, w
  <1>5. Handles(r \o g, t, 0, 0 + w)
    BY <1>2, <1>3, <1>4, HandlesBoth
  <1>6. Handles(Reset, <<>>, 0 + w, 0)
    BY <1>4, Instructions
  <1> QED
    BY <1>1, <1>5, <1>6, HandlesThen

\* The sizes of a buffer that occur between messages.
LEMMA Rooms ==
    /\ 0 \in Room /\ BufferSize \in Room /\ BufferSize \in Nat
    /\ \A z \in Room : z >= 0 /\ z <= BufferSize /\ z \in Nat
  BY ServerCalls DEF Room

LEMMA GameStartedHandled ==
    Handles(GameStarted, MapOf(U8, Player), 0, BufferSize)
  <1>1. Handles(Reset \o AcceptedPlayer, U8 \o Player, BufferSize, 0)
    BY AcceptedPlayerHandled, Instructions, Rooms, HandlesThen
  <1>2. Handles(Reset \o AcceptedPlayer, U8 \o Player, BufferSize, BufferSize)
    BY <1>1, Rooms, HandlesWeaker
  <1> QED
    BY <1>2, Known, Rooms, HandlesEach DEF GameStarted, MapOf

LEMMA GameEndedHandled ==
    Handles(GameEnded, MapOf(U8, U32), 0, BufferSize)
  <1>1. Handles(Local(1) \o Local(4), U8 \o U32, BufferSize, BufferSize)
    BY Instructions, Rooms, HandlesJoin
  <1> QED
    BY <1>1, Known, Rooms, HandlesEach DEF GameEnded, MapOf

\* A loop that reads what it wrote into the buffer, and resets nothing.
LEMMA HandlesGrowing ==
    ASSUME NEW T, ListOf(T) \in Seq(K), NEW c, NEW d, NEW g \in Nat,
           Receiving(c, T, g), Taking(d, T),
           \A n \in Samples[ListOf(T)[1]] : g * n <= BufferSize
    PROVE  Handles(Times(c \o d), ListOf(T), 0, BufferSize)
  <1> DEFINE h == ListOf(T)[1]
             s == [n \in Samples[h] |-> [k \in 0 .. n |-> g * n - g * k]]
  <1>1. ASSUME NEW n \in Samples[h]
        PROVE  s[n] = [k \in 0 .. n |-> g * n - g * k] /\ n \in Nat /\ g * n \in Room
    <2>1. s[n] = [k \in 0 .. n |-> g * n - g * k]
      BY <1>1
    <2> HIDE DEF s
    <2>2. n \in Nat
      BY ListLength
    <2>3. g * n \in Nat
      BY <2>2
    <2>4. g * n <= BufferSize
      OBVIOUS
    <2> QED
      BY <2>1, <2>2, <2>3, <2>4, Rooms DEF Room
  <1> HIDE DEF s, h
  <1>2. ASSUME NEW n \in Samples[h]
        PROVE  /\ s[n] \in [0 .. n -> Room] /\ 0 <= s[n][n] /\ s[n][0] <= BufferSize
               /\ \A k \in 1 .. n : Runs(c \o d, <<>>, T, s[n][k], <<>>, s[n][k - 1])
    <2> DEFINE f == [k \in 0 .. n |-> g * n - g * k]
    <2>1. n \in Nat /\ g * n \in Room
      BY <1>1
    <2>2. ASSUME NEW k \in 0 .. n PROVE g * k \in Nat /\ g * k <= g * n
      <3>1. g * k \in Nat /\ g * (n - k) \in Nat /\ g * n = g * k + g * (n - k)
        BY <2>1
      <3> QED
        BY <3>1
    <2>3. ASSUME NEW k \in 0 .. n PROVE f[k] = g * n - g * k /\ f[k] \in Room
      <3>1. g * n - g * k \in Room
        <4> DEFINE a == g * n
                   b == g * k
        <4>1. a \in Room /\ b \in Nat /\ b <= a
          BY <2>1, <2>2
        <4> HIDE DEF a, b
        <4>2. a - b \in Room
          BY <4>1, Rooms DEF Room
        <4> QED
          BY <4>2 DEF a, b
      <3> QED
        BY <3>1
    <2>4. ASSUME NEW k \in 1 .. n PROVE f[k - 1] = f[k] + g /\ f[k] \in Nat /\ f[k] + g <= BufferSize
      <3>1. k \in 0 .. n /\ k - 1 \in 0 .. n
        BY <2>1
      <3>2. g * (k - 1) = g * k - g /\ g * k \in Nat /\ g * n \in Nat
        BY <2>1
      <3>3. f[k] = g * n - g * k /\ f[k - 1] = g * n - g * (k - 1)
            /\ f[k] \in Room /\ f[k - 1] \in Room
        BY <2>3, <3>1
      <3> HIDE DEF f
      <3>4. f[k - 1] = f[k] + g
        BY <3>2, <3>3
      <3> QED
        BY <3>3, <3>4, Rooms
    <2>5. f \in [0 .. n -> Room]
      BY <2>3
    <2>6. f[n] \in Room /\ f[0] \in Room
      BY <2>1, <2>3
    <2>7. s[n] = f
      BY <1>1
    <2> HIDE DEF f
    <2>8. ASSUME NEW k \in 1 .. n PROVE Runs(c \o d, <<>>, T, f[k], <<>>, f[k - 1])
      BY <2>4, HandlesBoth DEF Handles
    <2> QED
      BY <2>5, <2>6, <2>7, <2>8, Rooms
  <1>3. IsSeq(c \o d) /\ c \o d # <<>> /\ T \in Seq(K)
    BY JoinSeq DEF Receiving, Taking, Concerns
  <1> QED
    BY <1>2, <1>3, Rooms, HandlesTimes DEF h

LEMMA BombExplodedHandled ==
    Handles(BombExploded, U32 \o ListOf(U8) \o ListOf(Position), 0, BufferSize)
  <1> DEFINE c1 == Field(4) \o Take(4)
             c2 == c1 \o Reset
             c3 == c2 \o Times(Field(1) \o Take(1))
             c4 == c3 \o Reset
             c5 == c4 \o Times(ReadPosition \o APosition)
  <1>1. BombExploded = c5
    BY DEF BombExploded
  <1> HIDE DEF c1, c2, c3, c4, c5
  <1>2. Handles(c1, U32, 0, 0 + 4) /\ 0 + 4 \in Room
    <2>1. 0 + 4 <= BufferSize /\ 0 \in Nat /\ 0 + 4 \in Room
      BY ServerCalls DEF Room
    <2> QED
      BY <2>1, Instructions, HandlesBoth DEF c1
  <1>3. Handles(c2, U32, 0, 0)
    BY <1>2, Instructions, HandlesThen DEF c2
  <1>4. Handles(Times(Field(1) \o Take(1)), ListOf(U8), 0, BufferSize)
    <2>1. \A n \in Samples[ListOf(U8)[1]] : 1 * n <= BufferSize
      <3>1. ASSUME NEW n \in Samples[ListOf(U8)[1]] PROVE 1 * n = n
        <4>1. n \in Nat
          BY ListLength, Known
        <4> QED
          BY <4>1
      <3> QED
        BY <3>1, BufferAssumption
    <2> QED
      BY <2>1, Instructions, Known, HandlesGrowing
  <1>5. Handles(c3, U32 \o ListOf(U8), 0, BufferSize)
    BY <1>3, <1>4, HandlesJoin DEF c3
  <1>6. Handles(c4, U32 \o ListOf(U8), 0, 0)
    BY <1>5, Instructions, Rooms, HandlesThen DEF c4
  <1>7. Handles(Times(ReadPosition \o APosition), ListOf(Position), 0, BufferSize)
    BY Instructions, Known, BufferAssumption, HandlesGrowing
  <1> QED
    BY <1>1, <1>6, <1>7, HandlesJoin DEF c5

\* An event of one sort, of which all fields are received before they are read.
LEMMA EventHandled ==
    ASSUME NEW c, NEW d, NEW t, NEW w \in Nat, w <= Base + 11, Receiving(c, t, w), Taking(d, t)
    PROVE  Handles(c \o d, t, 0, BufferSize)
  <1>1. 0 + w <= BufferSize /\ 0 + w \in Room
    BY ServerCalls DEF Room
  <1>2. Handles(c \o d, t, 0, 0 + w)
    BY <1>1, HandlesBoth
  <1> QED
    BY <1>1, <1>2, Rooms, HandlesWeaker

LEMMA Fourth ==
    ASSUME NEW a1, NEW a2, NEW a3, NEW a4, NEW s, s = <<a1, a2, a3, a4>>
    PROVE  Len(s) = 4 /\ s[1] = a1 /\ s[2] = a2 /\ s[3] = a3 /\ s[4] = a4
  OBVIOUS

LEMMA Fifth ==
    ASSUME NEW a1, NEW a2, NEW a3, NEW a4, NEW a5, NEW s, s = <<a1, a2, a3, a4, a5>>
    PROVE  Len(s) = 5 /\ s[1] = a1 /\ s[2] = a2 /\ s[3] = a3 /\ s[4] = a4 /\ s[5] = a5
  OBVIOUS

LEMMA EventsHandled ==
    Handles(DeserializeEvent, Event, BufferSize, BufferSize)
  <1> DEFINE t == <<U32 \o Position, U32 \o ListOf(U8) \o ListOf(Position), U8 \o Position, Position>>
             cases == [e \in DOMAIN Events |-> Reset \o Events[e]]
  <1>1. Handles(BombPlaced, U32 \o Position, 0, BufferSize)
    <2>1. Receiving(Field(4) \o ReadPosition, U32 \o Position, 4 + 4)
          /\ Taking(Take(4) \o APosition, U32 \o Position)
      BY Instructions, ReceivingJoin, TakingJoin
    <2> QED
      BY <2>1, EventHandled, ServerCalls DEF BombPlaced
  <1>2. Handles(BombExploded, U32 \o ListOf(U8) \o ListOf(Position), 0, BufferSize)
    BY BombExplodedHandled
  <1>3. Handles(PlayerMoved, U8 \o Position, 0, BufferSize)
    <2>1. Receiving(Field(1) \o ReadPosition, U8 \o Position, 1 + 4)
          /\ Taking(Take(1) \o APosition, U8 \o Position)
      BY Instructions, ReceivingJoin, TakingJoin
    <2> QED
      BY <2>1, EventHandled, ServerCalls DEF PlayerMoved
  <1>4. Handles(BlockPlaced, Position, 0, BufferSize)
    BY Instructions, EventHandled, ServerCalls DEF BlockPlaced
  <1>5. Event = Enum(t) /\ Len(t) = 4
    BY DEF Event
  <1>6. Events = <<BombPlaced, BombExploded, PlayerMoved, BlockPlaced>>
    BY DEF Events
  <1>7. ASSUME NEW e \in 1 .. Len(t) PROVE Handles(Events[e], t[e], 0, BufferSize)
    <2>1. /\ Events[1] = BombPlaced /\ Events[2] = BombExploded
          /\ Events[3] = PlayerMoved /\ Events[4] = BlockPlaced
      BY <1>6
    <2>2. /\ t[1] = U32 \o Position /\ t[2] = U32 \o ListOf(U8) \o ListOf(Position)
          /\ t[3] = U8 \o Position /\ t[4] = Position
      BY Fourth, Zenon
    <2> HIDE DEF t
    <2>3. e = 1 \/ e = 2 \/ e = 3 \/ e = 4
      BY <1>5
    <2> QED
      BY <1>1, <1>2, <1>3, <1>4, <2>1, <2>2, <2>3
  <1>8. Len(cases) = 4 /\ \A e \in 1 .. 4 : cases[e] = Reset \o Events[e]
    BY <1>6
  <1> HIDE DEF t, cases
  <1>9. \A e \in 1 .. Len(t) : Handles(cases[e], t[e], BufferSize, BufferSize)
    <2> SUFFICES ASSUME NEW e \in 1 .. Len(t)
                 PROVE  Handles(Reset \o Events[e], t[e], BufferSize, BufferSize)
      BY <1>5, <1>8
    <2> QED
      BY <1>7, Instructions, Rooms, HandlesThen
  <1>10. Choose(cases) # Handlers
    <2>1. ASSUME NEW a, NEW b, Choose(a) = Choose(b) PROVE a = b
      BY <2>1 DEF Choose
    <2> DEFINE all == <<Hello, AcceptedPlayer, GameStarted, Turn, GameEnded>>
    <2>2. Len(all) = 5 /\ Handlers = Choose(all)
      BY DEF Handlers
    <2> HIDE DEF all
    <2>3. cases # all
      <3>1. cases = all => Len(cases) = Len(all)
        OBVIOUS
      <3>2. Len(cases) = 4
        BY <1>8
      <3> QED
        BY <2>2, <3>1, <3>2
    <2> QED
      BY <2>1, <2>2, <2>3, Zenon
  <1> QED
    BY <1>5, <1>8, <1>9, <1>10, Known, Rooms, HandlesCases DEF DeserializeEvent, cases

LEMMA TurnHandled ==
    Handles(Turn, U16 \o ListOf(Event), 0, BufferSize)
  <1>1. Handles(Local(2), U16, 0, 0)
    BY Instructions, Rooms
  <1>2. Handles(Times(DeserializeEvent), ListOf(Event), 0, BufferSize)
    BY EventsHandled, Known, Rooms, HandlesEach
  <1> QED
    BY <1>1, <1>2, HandlesJoin DEF Turn

\* A round of the thread is for one message, whatever an earlier one has left in the
\* buffer.
LEMMA RoundHandled ==
    Handles(Round, ServerMessage, BufferSize, BufferSize)
  <1> DEFINE t == <<Str \o U8 \o U16 \o U16 \o U16 \o U16 \o U16, U8 \o Player,
                    MapOf(U8, Player), U16 \o ListOf(Event), MapOf(U8, U32)>>
             cases == <<Hello, AcceptedPlayer, GameStarted, Turn, GameEnded>>
  <1>1. ServerMessage = Enum(t) /\ Handlers = Choose(cases) /\ Len(t) = 5 /\ Len(cases) = 5
    BY DEF ServerMessage, Handlers
  <1>2. ASSUME NEW e \in 1 .. Len(t) PROVE Handles(cases[e], t[e], 0, BufferSize)
    <2>1. /\ cases[1] = Hello /\ cases[2] = AcceptedPlayer /\ cases[3] = GameStarted
          /\ cases[4] = Turn /\ cases[5] = GameEnded
      OBVIOUS
    <2>3. /\ t[1] = Str \o U8 \o U16 \o U16 \o U16 \o U16 \o U16
          /\ t[2] = U8 \o Player /\ t[3] = MapOf(U8, Player)
          /\ t[4] = U16 \o ListOf(Event) /\ t[5] = MapOf(U8, U32)
      BY Fifth, Zenon
    <2> HIDE DEF t, cases
    <2>4. e = 1 \/ e = 2 \/ e = 3 \/ e = 4 \/ e = 5
      BY <1>1
    <2>2. /\ Handles(Hello, Str \o U8 \o U16 \o U16 \o U16 \o U16 \o U16, 0, BufferSize)
          /\ Handles(AcceptedPlayer, U8 \o Player, 0, BufferSize)
      BY HelloHandled, AcceptedPlayerHandled, Rooms, HandlesWeaker
    <2> QED
      BY <2>1, <2>2, <2>3, <2>4, GameStartedHandled, TurnHandled, GameEndedHandled
  <1> HIDE DEF t, cases
  <1>3. Handles(Handlers, ServerMessage, 0, BufferSize)
    BY <1>1, <1>2, Rooms, ServerCalls, HandlesCases
  <1> QED
    BY <1>3, Instructions, Rooms, HandlesThen DEF Round

-----------------------------------------------------------------------------
(* The buffer of thread S.                                                 *)

\* The elements of a concatenation.
LEMMA JoinedAt ==
    ASSUME NEW S, NEW a \in Seq(S), NEW b \in Seq(S)
    PROVE  /\ Len(a) \in Nat /\ Len(b) \in Nat /\ Len(a \o b) = Len(a) + Len(b)
           /\ \A i \in 1 .. Len(a) : (a \o b)[i] = a[i]
           /\ \A i \in 1 .. Len(b) : (a \o b)[Len(a) + i] = b[i]
  BY ConcatProperties, LenProperties

\* One more element.
LEMMA OneMore ==
    ASSUME NEW S, NEW a \in Seq(S), NEW b \in Seq(S)
    PROVE  Len(b) = 1 =>
           /\ Len(a) \in Nat /\ Len(a \o b) = Len(a) + 1 /\ (a \o b)[Len(a) + 1] = b[1]
           /\ \A i \in 1 .. Len(a) : (a \o b)[i] = a[i]
  <1>1. \A i \in 1 .. Len(b) : (a \o b)[Len(a) + i] = b[i]
    BY JoinedAt
  <1>2. Len(a) \in Nat /\ Len(b) \in Nat /\ Len(a \o b) = Len(a) + Len(b)
    BY JoinedAt, Zenon
  <1>3. \A i \in 1 .. Len(a) : (a \o b)[i] = a[i]
    BY JoinedAt, Zenon
  <1>4. ASSUME Len(b) = 1 PROVE (a \o b)[Len(a) + 1] = b[1]
    <2>1. 1 \in 1 .. Len(b)
      BY <1>4
    <2> QED
      BY <1>1, <2>1, Zenon
  <1> QED
    BY <1>2, <1>3, <1>4

\* The bytes r are those of the calls o with the arguments in h.
Loaded(o, h, r) ==
    \E u \in [0 .. Len(o) -> Seq(Byte)] :
        /\ Len(h) = Len(o) /\ u[0] = r /\ u[Len(o)] = <<>>
        /\ \A i \in 1 .. Len(o) : /\ h[i].token \in Tokens(o[i])
                                  /\ u[i - 1] = Encode(o[i], h[i].token) \o u[i]

\* Calls of the server are alike.
LEMMA ServerCallOK ==
    ASSUME NEW x \in K
    PROVE  CallOK(x) /\ x \in Frame(K) /\ x.k # "counted"
  <1>1. x \in Frame(K) /\ Supported(K)
    BY ServerCalls DEF Frame
  <1>2. x.k # "counted"
    BY <1>1 DEF Supported
  <1> QED
    BY <1>1, <1>2, FrameCalls

LEMMA LoadedNone ==
    /\ Loaded(<<>>, <<>>, <<>>)
    /\ \A h \in CallsOf(K) : \A r : Loaded(<<>>, h, r) => h = <<>> /\ r = <<>>
  <1>0. Len(<<>>) = 0
    OBVIOUS
  <1>1. Loaded(<<>>, <<>>, <<>>)
    <2> DEFINE u == [i \in 0 .. 0 |-> <<>>]
    <2>1. u \in [0 .. 0 -> Seq(Byte)] /\ u[0] = <<>>
      BY EmptySeq
    <2>2. ~ \E i \in 1 .. 0 : TRUE
      OBVIOUS
    <2> QED
      BY <1>0, <2>1, <2>2 DEF Loaded
  <1>2. ASSUME NEW h \in CallsOf(K), NEW r, Loaded(<<>>, h, r) PROVE h = <<>> /\ r = <<>>
    <2>1. Len(h) = 0 /\ r = <<>>
      BY <1>0, <1>2 DEF Loaded
    <2> QED
      BY <2>1, EmptySeq DEF CallsOf
  <1> QED
    BY <1>1, <1>2

LEMMA LoadedMore ==
    ASSUME NEW o \in Seq(K), NEW h \in CallsOf(K), NEW r \in Seq(Byte), Loaded(o, h, r),
           NEW x \in K, NEW t \in Tokens(x), NEW c \in CallsOf(K), Len(c) = 1, c[1].token = t
    PROVE  Loaded(Append(o, x), h \o c, r \o Encode(x, t))
  <1>1. PICK u \in [0 .. Len(o) -> Seq(Byte)] :
            /\ Len(h) = Len(o) /\ u[0] = r /\ u[Len(o)] = <<>>
            /\ \A i \in 1 .. Len(o) : /\ h[i].token \in Tokens(o[i])
                                      /\ u[i - 1] = Encode(o[i], h[i].token) \o u[i]
    BY DEF Loaded
  <1> DEFINE e  == Encode(x, t)
             n  == Len(o)
             o1 == Append(o, x)
             h1 == h \o c
             v  == [i \in 0 .. n + 1 |-> IF i <= n THEN u[i] \o e ELSE <<>>]
  <1>2. e \in Seq(Byte)
    BY ServerCallOK DEF CallOK
  <1> HIDE DEF e
  <1>3. /\ n \in Nat /\ Len(o1) = n + 1 /\ o1[n + 1] = x
        /\ \A i \in 1 .. n : o1[i] = o[i] /\ o[i] \in K
    BY LenProperties, ElementOfSeq
  <1>4. /\ Len(h1) = n + 1 /\ h1[n + 1] = c[1]
        /\ \A i \in 1 .. n : h1[i] = h[i]
    <2>1. /\ Len(h \o c) = Len(h) + 1 /\ (h \o c)[Len(h) + 1] = c[1]
          /\ \A i \in 1 .. Len(h) : (h \o c)[i] = h[i]
      BY OneMore, Zenon DEF CallsOf
    <2> QED
      BY <1>1, <2>1
  <1>5. \A i \in 0 .. n : u[i] \in Seq(Byte) /\ u[i] \o e \in Seq(Byte)
    BY <1>2, ConcatProperties
  <1> HIDE DEF n, o1, h1
  <1>6. /\ v \in [0 .. n + 1 -> Seq(Byte)] /\ v[n + 1] = <<>>
        /\ \A i \in 0 .. n : v[i] = u[i] \o e
    <2>1. n + 1 \in 0 .. n + 1 /\ ~ (n + 1 <= n)
      BY <1>3
    <2>2. \A i \in 0 .. n : i \in 0 .. n + 1 /\ i <= n
      BY <1>3
    <2>3. \A i \in 0 .. n + 1 : i <= n => i \in 0 .. n
      BY <1>3
    <2>4. v[n + 1] = <<>>
      BY <2>1
    <2>5. \A i \in 0 .. n : v[i] = u[i] \o e
      BY <2>2
    <2>6. <<>> \in Seq(Byte)
      BY EmptySeq
    <2>7. \A i \in 0 .. n + 1 : (IF i <= n THEN u[i] \o e ELSE <<>>) \in Seq(Byte)
      BY <1>5, <2>3, <2>6
    <2>8. v \in [0 .. n + 1 -> Seq(Byte)]
      BY <2>7
    <2> QED
      BY <2>4, <2>5, <2>8
  <1> HIDE DEF v
  <1>7. v[0] = r \o e
    <2>1. 0 \in 0 .. n
      BY <1>3
    <2> QED
      BY <1>1, <1>6, <2>1
  <1>8. ASSUME NEW i \in 1 .. n + 1
        PROVE  /\ h1[i].token \in Tokens(o1[i])
               /\ v[i - 1] = Encode(o1[i], h1[i].token) \o v[i]
    <2>1. CASE i = n + 1
      <3>1. u[n] = <<>>
        BY <1>1 DEF n
      <3>2. i - 1 = n /\ i - 1 \in 0 .. n /\ h1[i].token = t /\ o1[i] = x /\ v[i] = <<>>
        BY <1>3, <1>4, <1>6, <2>1
      <3>3. v[i - 1] = <<>> \o e
        BY <1>6, <3>1, <3>2
      <3>4. <<>> \o e = e /\ e \o <<>> = e
        BY <1>2, ConcatEmptySeq
      <3> QED
        BY <3>2, <3>3, <3>4 DEF e
    <2>2. CASE i # n + 1
      <3>1. i \in 1 .. n /\ i \in 0 .. n /\ i - 1 \in 0 .. n
        BY <1>3, <2>2
      <3> DEFINE y == Encode(o[i], h[i].token)
      <3>2. h[i].token \in Tokens(o[i]) /\ u[i - 1] = y \o u[i] /\ o1[i] = o[i] /\ h1[i] = h[i]
        BY <1>1, <1>3, <1>4, <3>1 DEF n
      <3>3. y \in Seq(Byte) /\ u[i] \in Seq(Byte)
        BY <1>3, <1>5, <3>1, <3>2, ServerCallOK DEF CallOK
      <3>4. v[i - 1] = u[i - 1] \o e /\ v[i] = u[i] \o e
        BY <1>6, <3>1
      <3> DEFINE w == u[i]
                 w0 == u[i - 1]
      <3>5. y \in Seq(Byte) /\ w \in Seq(Byte) /\ w0 = y \o w
        BY <3>2, <3>3
      <3> HIDE DEF y, w, w0
      <3>6. (y \o w) \o e = y \o (w \o e)
        <4>1. Grouped(y, w, e)
          BY <1>2, <3>5, Regroup, Zenon
        <4> QED
          BY <4>1 DEF Grouped
      <3>7. v[i - 1] = y \o v[i]
        BY <3>4, <3>5, <3>6 DEF w, w0
      <3> QED
        BY <3>2, <3>7 DEF y
    <2> QED
      BY <2>1, <2>2
  <1>9. Loaded(o1, h1, r \o e)
    <2>1. Len(o1) = n + 1 /\ Len(h1) = n + 1
      BY <1>3, <1>4
    <2>2. v \in [0 .. Len(o1) -> Seq(Byte)] /\ v[Len(o1)] = <<>>
      BY <1>6, <2>1
    <2>3. \A i \in 1 .. Len(o1) : /\ h1[i].token \in Tokens(o1[i])
                                 /\ v[i - 1] = Encode(o1[i], h1[i].token) \o v[i]
      BY <1>8, <2>1
    <2> QED
      BY <1>7, <2>1, <2>2, <2>3 DEF Loaded
  <1> QED
    BY <1>9 DEF o1, h1, e

LEMMA LoadedLess ==
    ASSUME NEW o \in Seq(K), o # <<>>, NEW h \in CallsOf(K), NEW r, Loaded(o, h, r)
    PROVE  /\ h # <<>> /\ Head(h).token \in Tokens(Head(o))
           /\ \E s \in Seq(Byte) : /\ r = Encode(Head(o), Head(h).token) \o s
                                   /\ Loaded(Tail(o), Tail(h), s)
  <1>1. PICK u \in [0 .. Len(o) -> Seq(Byte)] :
            /\ Len(h) = Len(o) /\ u[0] = r /\ u[Len(o)] = <<>>
            /\ \A i \in 1 .. Len(o) : /\ h[i].token \in Tokens(o[i])
                                      /\ u[i - 1] = Encode(o[i], h[i].token) \o u[i]
    BY DEF Loaded
  <1> DEFINE n == Len(o) - 1
             o1 == Tail(o)
             h1 == Tail(h)
             v == [i \in 0 .. n |-> u[i + 1]]
  <1>2. /\ n \in Nat /\ Len(o) = n + 1 /\ Len(o1) = n /\ Head(o) = o[1]
        /\ \A i \in 1 .. n : o1[i] = o[i + 1]
    BY HeadTailProperties, LenProperties, EmptySeq
  <1>3. h # <<>>
    BY <1>1, <1>2
  <1>4. /\ Len(h1) = n /\ Head(h) = h[1] /\ \A i \in 1 .. n : h1[i] = h[i + 1]
    BY <1>1, <1>2, <1>3, HeadTailProperties DEF CallsOf
  <1> HIDE DEF n, o1, h1
  <1>5. /\ v \in [0 .. n -> Seq(Byte)] /\ \A i \in 0 .. n : v[i] = u[i + 1]
    BY <1>2
  <1> HIDE DEF v
  <1>6. v[n] = <<>> /\ v[0] = u[1] /\ v[0] \in Seq(Byte)
    BY <1>1, <1>2, <1>5
  <1>7. ASSUME NEW i \in 1 .. n
        PROVE  h1[i].token \in Tokens(o1[i]) /\ v[i - 1] = Encode(o1[i], h1[i].token) \o v[i]
    <2>1. i + 1 \in 1 .. Len(o) /\ i \in 0 .. n /\ i - 1 \in 0 .. n /\ (i + 1) - 1 = i /\ (i - 1) + 1 = i
      BY <1>2
    <2>2. h1[i] = h[i + 1] /\ o1[i] = o[i + 1] /\ v[i - 1] = u[i] /\ v[i] = u[i + 1]
      <3>1. v[i - 1] = u[(i - 1) + 1] /\ v[i] = u[i + 1]
        BY <1>5, <2>1
      <3> QED
        BY <1>2, <1>4, <2>1, <3>1
    <2>3. h[i + 1].token \in Tokens(o[i + 1]) /\ u[(i + 1) - 1] = Encode(o[i + 1], h[i + 1].token) \o u[i + 1]
      BY <1>1, <2>1
    <2> QED
      BY <2>1, <2>2, <2>3
  <1>8. Loaded(o1, h1, v[0])
    BY <1>2, <1>4, <1>5, <1>6, <1>7 DEF Loaded
  <1>9. /\ h[1].token \in Tokens(o[1]) /\ r = Encode(o[1], h[1].token) \o u[1]
    <2>1. 1 \in 1 .. Len(o) /\ 1 - 1 = 0
      BY <1>2
    <2> QED
      BY <1>1, <2>1
  <1> QED
    BY <1>2, <1>3, <1>4, <1>6, <1>8, <1>9 DEF o1, h1

\* The next bytes that are read from a buffer.
LEMMA NextBytes ==
    ASSUME NEW b, b.bytes \in Seq(Byte), b.read \in 0 .. Len(b.bytes),
           NEW e \in Seq(Byte), NEW s \in Seq(Byte), From(b.bytes, b.read + 1) = e \o s
    PROVE  /\ ReadBytes(b, Len(e)) = e
           /\ b.read + Len(e) \in 0 .. Len(b.bytes)
           /\ From(b.bytes, (b.read + Len(e)) + 1) = s
  <1> DEFINE c == b.bytes
             k == b.read
             n == Len(e)
             u == From(c, k + 1)
  <1>1. /\ u \in Seq(Byte) /\ Len(u) = Len(c) - k
        /\ \A i \in 1 .. Len(c) - k : u[i] = c[k + i]
    <2>1. c \in Seq(Byte) /\ k \in 0 .. Len(c)
      OBVIOUS
    <2> HIDE DEF c, k
    <2> QED
      BY <2>1, Cut
  <1>2. /\ n \in Nat /\ Len(s) \in Nat /\ Len(u) = n + Len(s) /\ Len(c) \in Nat
        /\ \A i \in 1 .. n : u[i] = e[i]
        /\ \A i \in 1 .. Len(s) : u[n + i] = s[i]
    BY JoinedAt, LenProperties
  <1>3. c \in Seq(Byte) /\ k \in 0 .. Len(c) /\ e \in Seq(Byte)
    OBVIOUS
  <1> HIDE DEF u, c, k, n
  <1>4. k + n \in 0 .. Len(c)
    BY <1>1, <1>2, <1>3
  <1>5. ReadBytes(b, n) = e
    <2> DEFINE r == [i \in 1 .. n |-> IF k + i <= Len(c) THEN c[k + i] ELSE 0]
    <2>1. ReadBytes(b, n) = r
      BY DEF ReadBytes, c, k
    <2>2. ASSUME NEW i \in 1 .. n PROVE r[i] = e[i] /\ e[i] \in Byte
      <3>1. k + i <= Len(c) /\ i \in 1 .. Len(c) - k
        BY <1>1, <1>2, <1>3
      <3>2. r[i] = c[k + i] /\ u[i] = c[k + i] /\ u[i] = e[i]
        BY <1>1, <1>2, <3>1
      <3>3. e[i] \in Byte
        BY <1>3, ElementOfSeq DEF n
      <3> QED
        BY <3>2, <3>3
    <2>3. r \in [1 .. n -> Byte]
      BY <2>2
    <2> HIDE DEF r
    <2>4. r \in Seq(Byte) /\ Len(r) = n
      BY <1>2, <2>3
    <2>5. r = e
      BY <1>3, <2>2, <2>4, SeqEqual DEF n
    <2> QED
      BY <2>1, <2>5
  <1>6. From(c, (k + n) + 1) = s
    <2> DEFINE r == From(c, (k + n) + 1)
    <2>1. /\ r \in Seq(Byte) /\ Len(r) = Len(c) - (k + n)
          /\ \A i \in 1 .. Len(c) - (k + n) : r[i] = c[(k + n) + i]
      BY <1>3, <1>4, Cut
    <2> HIDE DEF r
    <2>2. Len(r) = Len(s)
      <3>1. Len(u) = Len(c) - k /\ Len(u) = n + Len(s) /\ Len(r) = Len(c) - (k + n)
        BY <1>1, <1>2, <2>1
      <3>2. Len(c) \in Nat /\ k \in Nat /\ n \in Nat /\ Len(s) \in Nat
        BY <1>2, <1>3
      <3> DEFINE p == Len(u)
                 q == Len(c)
                 g == Len(s)
                 l == Len(r)
      <3> HIDE DEF p, q, g, l
      <3>3. p = q - k /\ p = n + g /\ l = q - (k + n) /\ q \in Nat /\ k \in Nat /\ n \in Nat /\ g \in Nat
        BY <3>1, <3>2, Zenon DEF p, q, g, l
      <3>4. l = g
        BY <3>3
      <3> QED
        BY <3>4 DEF l, g
    <2>3. ASSUME NEW i \in 1 .. Len(s) PROVE r[i] = s[i]
      <3>1. /\ r[i] = c[(k + n) + i] /\ n + i \in 1 .. Len(c) - k /\ u[n + i] = s[i]
            /\ (k + n) + i = k + (n + i)
        BY <1>1, <1>2, <1>3, <2>1, <2>2
      <3> QED
        BY <1>1, <3>1
    <2> QED
      BY <2>1, <2>2, <2>3, SeqEqual DEF r
  <1> QED
    BY <1>4, <1>5, <1>6 DEF c, k, n

-----------------------------------------------------------------------------
(* What comes from the server.                                             *)

\* The instruction i is for the call x.
For(i, x) == \/ i.op = "text" /\ IsText(x)
             \/ /\ i.op \in {"field", "local", "times", "choose"}
                /\ \/ x.k = "unsigned" /\ x.width = i.n
                   \/ x.k = "list" /\ i.n = 4
                   \/ x.k = "variant" /\ i.n = 1

\* An address is a text.
LEMMA TextTokens == ASSUME NEW x, IsText(x) PROVE Tokens(x) \subseteq Texts
  BY AddressAssumption DEF IsText, Tokens

\* It asks recv for exactly the bytes of the call.
LEMMA Asks ==
    ASSUME NEW x \in K, NEW i, For(i, x), NEW w \in Seq(Byte)
    PROVE  /\ Wanted(i, w) \in Nat \ {0} /\ (IsText(x) => Wanted(i, w) <= Base)
           /\ w # <<>> /\ Len(w) >= Wanted(i, w) => Decode(x, w) # Eof
           /\ \A v \in Tokens(x), r \in Seq(Byte) :
                w = Encode(x, v) \o r => Len(Encode(x, v)) = Wanted(i, w)
  <1>0. Supported(K) /\ Base \in Nat /\ Base >= 6
    BY ServerCalls
  <1>1. CASE IsText(x)
    <2>1. i.op = "text"
      BY <1>1 DEF For, IsText
    <2>2. Wanted(i, w) = IF w = <<>> THEN 1 ELSE w[1] + 1
      BY <2>1 DEF Wanted
    <2>3. w # <<>> => w[1] \in Byte
      BY ElementOfSeq, LenProperties, EmptySeq
    <2>4. Wanted(i, w) \in Nat \ {0} /\ Wanted(i, w) <= Base
      BY <1>0, <2>2, <2>3 DEF Byte
    <2>5. ASSUME w # <<>>, Len(w) >= Wanted(i, w) PROVE Decode(x, w) # Eof
      <3>1. ~ (w = <<>> \/ Len(w) < w[1] + 1)
        BY <2>2, <2>3, <2>5, LenProperties DEF Byte
      <3>2. DecodeStr(w) # Eof
        BY <3>1 DEF DecodeStr, Eof, Bad, Ok
      <3>3. Decode(x, w) = DecodeStr(w) \/ Decode(x, w) = Bad
        BY <1>1 DEF Decode, DecodeAddress, IsText
      <3> QED
        BY <3>2, <3>3 DEF Bad, Eof
    <2>6. ASSUME NEW v \in Tokens(x), NEW r \in Seq(Byte), w = Encode(x, v) \o r
          PROVE  Len(Encode(x, v)) = Wanted(i, w)
      <3> DEFINE a == <<Len(v)>>
                 e == a \o v
      <3>1. v \in Seq(Byte) /\ Len(v) \in Byte
        <4>1. v \in Seq(Byte \ {NotUtf8}) /\ Len(v) < Base
          BY <1>1, <2>6, TextTokens DEF Texts
        <4>2. v \in Seq(Byte) /\ Len(v) \in Nat
          BY <4>1, SeqMonotonic, LenProperties
        <4> QED
          BY <1>0, <4>1, <4>2 DEF Byte
      <3>2. Encode(x, v) = e
        BY <1>1 DEF Encode, IsText
      <3>3. a \in Seq(Byte) /\ Len(a) = 1 /\ a[1] = Len(v)
        BY <3>1
      <3> HIDE DEF a
      <3>a. a \in Seq(Byte)
        BY <3>3
      <3>4. e \in Seq(Byte) /\ Len(e) = 1 + Len(v) /\ e[1] = Len(v) /\ Len(v) \in Nat
        <4>0. e \in Seq(Byte)
          BY <3>1, <3>a, ConcatProperties
        <4>1. /\ Len(e) = Len(a) + Len(v) /\ Len(v) \in Nat
              /\ \A j \in 1 .. Len(a) : e[j] = a[j]
          BY <3>1, <3>a, JoinedAt
        <4>2. 1 \in 1 .. Len(a)
          BY <3>3
        <4> QED
          BY <3>3, <4>0, <4>1, <4>2
      <3> HIDE DEF e
      <3>5. w[1] = Len(v) /\ w # <<>>
        <4>1. 1 \in 1 .. Len(e) /\ w = e \o r
          BY <2>6, <3>2, <3>4
        <4>2. w[1] = e[1] /\ Len(w) = Len(e) + Len(r) /\ Len(r) \in Nat
          BY <3>4, <4>1, JoinedAt
        <4>3. Len(w) # 0
          BY <3>4, <4>2
        <4> QED
          BY <3>4, <4>2, <4>3, EmptySeq
      <3> QED
        BY <2>2, <3>2, <3>4, <3>5
    <2> QED
      BY <2>4, <2>5, <2>6
  <1>2. CASE ~ IsText(x)
    <2>1. i.op # "text" /\ Wanted(i, w) = i.n
      BY <1>2 DEF For, Wanted
    <2>2. CASE x.k = "unsigned" /\ x.width = i.n
      <3>1. i.n \in Widths
        BY <1>0, <2>2 DEF Supported, Widths
      <3>2. \A v \in Tokens(x) : Len(Encode(x, v)) = i.n
        BY <2>2, <3>1, Numbers DEF Tokens, Encode
      <3>3. ~ (Len(w) < i.n) => Decode(x, w) # Eof
        BY <2>2 DEF Decode, DecodeInt, Ok, Eof
      <3> QED
        BY <1>2, <2>1, <3>1, <3>2, <3>3, LenProperties DEF Widths
    <2>3. CASE x.k = "list" /\ i.n = 4
      <3>1. 4 \in Widths /\ Size(4) = Size4
        BY DEF Widths, Size
      <3>2. \A v \in Tokens(x) : Len(Encode(x, v)) = 4
        BY <2>3, <3>1, Numbers DEF Tokens, Encode
      <3>3. ~ (Len(w) < 4) => Decode(x, w) # Eof
        BY <2>3 DEF Decode, DecodeInt, Ok, Eof
      <3> QED
        BY <1>2, <2>1, <2>3, <3>2, <3>3, LenProperties
    <2>4. CASE x.k = "variant" /\ i.n = 1
      <3>1. \A v \in Tokens(x) : Len(Encode(x, v)) = 1
        BY <2>4 DEF Encode
      <3>2. w # <<>> => Decode(x, w) # Eof
        BY <2>4 DEF Decode, DecodeVariant, Ok, Bad, Eof
      <3> QED
        BY <1>2, <2>1, <2>4, <3>1, <3>2
    <2> QED
      BY <1>2, <2>2, <2>3, <2>4 DEF For
  <1> QED
    BY <1>1, <1>2

\* A number is put together from the bytes that were written for it.
LEMMA NumberOfBytes ==
    ASSUME NEW n \in Widths, NEW v \in 0 .. Size(n) - 1
    PROVE  Number(EncodeInt(n, v)) = v
  <1> DEFINE e == EncodeInt(n, v)
  <1>1. e \in Seq(Byte) /\ Len(e) = n /\ BigEndian(n, e \o <<>>) = v
    BY Numbers, EmptySeq
  <1> HIDE DEF e
  <1>2. e \o <<>> = e
    BY <1>1, ConcatEmptySeq
  <1> QED
    BY <1>1, <1>2 DEF Number, e

LEMMA NumberOfCall ==
    ASSUME NEW x \in K, NEW i, For(i, x), i.op # "text", NEW v \in Tokens(x)
    PROVE  Number(Encode(x, v)) = v
  <1>1. CASE x.k = "unsigned"
    <2>1. x.width \in Widths
      BY <1>1, ServerCalls DEF Supported, Widths
    <2> QED
      BY <1>1, <2>1, NumberOfBytes DEF Encode, Tokens
  <1>2. CASE x.k = "list"
    <2>1. 4 \in Widths /\ Size(4) = Size4
      BY DEF Widths, Size
    <2> QED
      BY <1>2, <2>1, NumberOfBytes DEF Encode, Tokens
  <1>3. CASE x.k = "variant"
    <2>1. 1 \in Widths /\ Size(1) = Base /\ EncodeInt(1, v) = <<v>>
      BY DEF Widths, Size, EncodeInt
    <2>2. Supported(K) /\ Base \in Nat
      BY ServerCalls
    <2>3. x.of \in Seq(Seq(K)) /\ Len(x.of) <= Base
      BY <1>3, <2>2 DEF Supported
    <2>4. v \in 0 .. Base - 1 /\ Encode(x, v) = <<v>>
      <3>1. v \in 0 .. Len(x.of) - 1 /\ Encode(x, v) = <<v>>
        BY <1>3 DEF Tokens, Encode
      <3> QED
        BY <2>2, <2>3, <3>1, LenProperties
    <2> QED
      BY <2>1, <2>4, NumberOfBytes
  <1> QED
    BY <1>1, <1>2, <1>3 DEF For

\* recv returns e, and r is left.
Gets(i, w, stale, e, r) == /\ Received(i, w, stale) = e /\ SubSeq(w, 1, Len(e)) = e
                           /\ From(w, Wanted(i, w) + 1) = r

LEMMA GetsBytes ==
    ASSUME NEW w \in Seq(Byte), NEW e \in Seq(Byte), NEW r \in Seq(Byte), w = e \o r,
           NEW i, Len(e) = Wanted(i, w), NEW stale
    PROVE  Gets(i, w, stale, e, r)
  <1> DEFINE g == Received(i, w, stale)
             n == Len(e)
  <1>1. /\ n \in Nat /\ Len(r) \in Nat /\ Len(w) = n + Len(r) /\ \A j \in 1 .. n : w[j] = e[j]
    BY JoinedAt
  <1>2. g = [j \in 1 .. n |-> IF j <= Len(w) THEN w[j] ELSE stale]
    BY DEF Received
  <1> HIDE DEF g, n
  <1>3. ASSUME NEW j \in 1 .. n PROVE g[j] = e[j] /\ e[j] \in Byte
    <2>1. j <= Len(w)
      BY <1>1
    <2>2. e[j] \in Byte
      BY ElementOfSeq DEF n
    <2> QED
      BY <1>1, <1>2, <2>1, <2>2
  <1>4. g \in [1 .. n -> Byte]
    BY <1>2, <1>3
  <1>5. g \in Seq(Byte) /\ Len(g) = n
    BY <1>1, <1>4
  <1>6. g = e
    BY <1>3, <1>5, SeqEqual DEF n
  <1>7. SubSeq(w, 1, n) = e /\ From(w, n + 1) = r
    BY Parts, Zenon DEF n
  <1> QED
    BY <1>6, <1>7 DEF Gets, g, n

\* What is written behind what has not been read.
LEMMA FromMore ==
    ASSUME NEW s \in Seq(Byte), NEW g \in Seq(Byte), NEW k \in 0 .. Len(s)
    PROVE  From(s \o g, k + 1) = From(s, k + 1) \o g
  <1> DEFINE a == SubSeq(s, 1, k)
             c == From(s, k + 1)
  <1>1. a \in Seq(Byte) /\ c \in Seq(Byte) /\ Len(a) = k /\ a \o c = s
    BY Cut
  <1> HIDE DEF a, c
  <1>2. Grouped(a, c, g)
    BY <1>1, Regroup, Zenon
  <1> DEFINE r == c \o g
  <1>3. r \in Seq(Byte) /\ s \o g = a \o r
    BY <1>1, <1>2, ConcatProperties DEF Grouped
  <1> HIDE DEF r
  <1>4. From(a \o r, Len(a) + 1) = r
    BY <1>1, <1>3, Parts
  <1> QED
    BY <1>1, <1>3, <1>4 DEF r, c

\* A call that the server makes, with arguments that it makes it with.
Made == {a \in [at : Todo(K), token : Token(K)] : a.token \in Arguments(Head(a.at))}

LEMMA MadeAreCalls == \A c \in Seq(Made) : c \in CallsOf(K)
  <1> DEFINE S == [at : Todo(K), token : Token(K)]
  <1>1. Made \subseteq S
    BY DEF Made
  <1> HIDE DEF S
  <1>2. Seq(Made) \subseteq Seq(S)
    BY <1>1, SeqMonotonic
  <1> QED
    BY <1>2 DEF CallsOf, S

\* What became of the calls of the server: some are in the buffer, with bytes that are
\* the next to be read, and the others are on the wire.
History(b, w, p, e, o, T, O) ==
    \E h \in Seq(Made), d \in Seq(Made), m \in Seq(Byte) :
        /\ p = h \o d
        /\ Loaded(O, h, From(b.bytes, b.read + 1))
        /\ InStep(K, ServerMessage, T, w, m, d, e)
        /\ o => m = <<>>

\* class Buffer is a record of its bytes and its cursor.
IsBuffer(b) == \E s \in Seq(Byte) : \E r : b = [bytes |-> s, read |-> r]


LEMMA BufferFields ==
    ASSUME NEW b, IsBuffer(b)
    PROVE  /\ b.bytes \in Seq(Byte)
           /\ \A s : WriteIntoBuffer(b, s) = [bytes |-> b.bytes \o s, read |-> b.read]
           /\ \A r : [b EXCEPT !.read = r] = [bytes |-> b.bytes, read |-> r]
  <1>0. PICK s \in Seq(Byte) : \E r : b = [bytes |-> s, read |-> r]
    BY DEF IsBuffer
  <1>1. PICK r : b = [bytes |-> s, read |-> r]
    BY <1>0
  <1>2. b.bytes = s /\ b.read = r
    BY <1>1
  <1>3. \A u : [b EXCEPT !.bytes = u] = [bytes |-> u, read |-> r]
    BY <1>1
  <1>4. \A u : [b EXCEPT !.read = u] = [bytes |-> s, read |-> u]
    BY <1>1
  <1>5. \A u : WriteIntoBuffer(b, u) = [bytes |-> s \o u, read |-> r]
    BY <1>2, <1>3, Zenon DEF WriteIntoBuffer
  <1> QED
    BY <1>2, <1>4, <1>5

\* The instruction i receives the call x, whole.
Arrives(x, i, w, stale, m, d, e) ==
    \E v \in Samples[Head(x)], r \in Seq(Byte), f \in Seq(Made) :
       /\ v \in Tokens(Head(x)) /\ Received(i, w, stale) = Encode(Head(x), v)
       /\ SubSeq(w, 1, Wanted(i, w)) = Encode(Head(x), v)
       /\ Len(Encode(Head(x), v)) = Wanted(i, w)
       /\ From(w, Wanted(i, w) + 1) = r
       /\ <<[at |-> x, token |-> v]>> \in Seq(Made)
       /\ d = <<[at |-> x, token |-> v]>> \o f
       /\ After(x, v) \in Todo(K) /\ InStep(K, ServerMessage, After(x, v), r, m, f, e)

LEMMA CallArrives ==
    ASSUME NEW T \in Todo(K), NEW w \in Seq(Byte), NEW m \in Seq(Byte), NEW d \in Seq(Made),
           NEW e \in Todo(K), InStep(K, ServerMessage, T, w, m, d, e),
           NEW x, x = Begun(ServerMessage, T), Head(x) \in K,
           NEW i, For(i, Head(x)), w # <<>>, Len(w) >= Wanted(i, w), NEW stale
    PROVE  Arrives(x, i, w, stale, m, d, e)
  <1> DEFINE h == Head(x)
             C == CallsOf(K)
             I(T1, w1, f1) == InStep(K, ServerMessage, T1, w1, m, f1, e)
  <1> HIDE DEF I
  <1>0. /\ Supported(K) /\ ServerMessage \in Todo(K) /\ ServerMessage # <<>> /\ d \in C
        /\ x \in Todo(K) /\ x # <<>> /\ h.k # "counted"
    BY ServerCalls, NextCall, ServerCallOK, MadeAreCalls
  <1>1. Decode(h, w) # Eof
    BY Asks
  <1>2. Decode(h, w).r = "ok"
    BY <1>0, <1>1, InStepWaits
  <1>3. PICK v \in Tokens(h), r \in Seq(Byte), f \in C :
             /\ w = Encode(h, v) \o r
             /\ d = Calls(x, v) \o f
             /\ After(x, v) \in Todo(K) /\ I(After(x, v), r, f)
    <2>1. ReadsNext(K, ServerMessage, x, w, m, d, e)
      BY <1>0, <1>2, InStepReads
    <2> QED
      BY <2>1 DEF ReadsNext, I
  <1>4. Encode(h, v) \in Seq(Byte) /\ Len(Encode(h, v)) = Wanted(i, w)
    <2>1. Encode(h, v) \in Seq(Byte)
      BY ServerCallOK, Zenon DEF CallOK
    <2>2. Len(Encode(h, v)) = Wanted(i, w)
      <3>1. \A v1 \in Tokens(h), r1 \in Seq(Byte) :
               w = Encode(h, v1) \o r1 => Len(Encode(h, v1)) = Wanted(i, w)
        BY Asks
      <3> QED
        BY <1>3, <3>1, Zenon
    <2> QED
      BY <2>1, <2>2
  <1>5. /\ Received(i, w, stale) = Encode(h, v)
        /\ SubSeq(w, 1, Wanted(i, w)) = Encode(h, v)
        /\ From(w, Wanted(i, w) + 1) = r
    <2> DEFINE g == Encode(h, v)
    <2>1. g \in Seq(Byte) /\ Len(g) = Wanted(i, w) /\ w = g \o r
      BY <1>3, <1>4
    <2> HIDE DEF g
    <2>2. Received(i, w, stale) = g /\ SubSeq(w, 1, Len(g)) = g /\ From(w, Wanted(i, w) + 1) = r
      <3>1. Gets(i, w, stale, g, r)
        BY <2>1, GetsBytes
      <3> QED
        BY <3>1 DEF Gets
    <2> QED
      BY <2>1, <2>2 DEF g
  <1> DEFINE a == [at |-> x, token |-> v]
             q == <<a>>
  <1>6. d = q \o f
    BY <1>0, <1>3 DEF Calls
  <1>7. q \in Seq(Made) /\ f \in Seq(Made)
    <2>1. IsSeq(q) /\ IsSeq(f)
      BY OneIsSeq, SeqIsSeq DEF CallsOf
    <2> HIDE DEF q
    <2> QED
      BY <1>6, <2>1, SeqOfParts
  <1>8. v \in Samples[h]
    <2>1. a \in Made
      <3>1. 1 \in 1 .. Len(q) /\ q[1] = a
        OBVIOUS
      <3> HIDE DEF q, a
      <3> QED
        BY <1>7, <3>1, ElementOfSeq, Zenon
    <2>2. v \in Arguments(h)
      BY <2>1 DEF Made
    <2> QED
      BY <1>0, <2>2 DEF Arguments
  <1> HIDE DEF I
  <1> QED
    BY <1>3, <1>4, <1>5, <1>6, <1>7, <1>8 DEF Arrives, I

\* It comes into the buffer, with the calls that are there.
LEMMA IntoBuffer ==
    ASSUME NEW b, IsBuffer(b), b.read \in 0 .. Len(b.bytes),
           NEW w \in Seq(Byte), NEW p, NEW e \in Todo(K), NEW o,
           NEW T \in Todo(K), NEW O \in Seq(K), History(b, w, p, e, o, T, O),
           NEW x, x = Begun(ServerMessage, T), Head(x) \in K, Head(x).k = "unsigned" \/ IsText(Head(x)),
           NEW i, For(i, Head(x)), w # <<>>, Len(w) >= Wanted(i, w), NEW stale
    PROVE  LET b1 == WriteIntoBuffer(b, Received(i, w, stale))
           IN  /\ IsBuffer(b1) /\ b1.read \in 0 .. Len(b1.bytes)
               /\ Len(b1.bytes) = Len(b.bytes) + Wanted(i, w)
               /\ From(w, Wanted(i, w) + 1) \in Seq(Byte) /\ Tail(x) \in Todo(K)
               /\ History(b1, From(w, Wanted(i, w) + 1), p, e, o, Tail(x), Append(O, Head(x)))
  <1> DEFINE g == Received(i, w, stale)
             s == b.bytes
             y == Head(x)
             w1 == From(w, Wanted(i, w) + 1)
             u == From(s, b.read + 1)
  <1>1. PICK h \in Seq(Made), d \in Seq(Made), m \in Seq(Byte) :
             p = h \o d /\ Loaded(O, h, u) /\ InStep(K, ServerMessage, T, w, m, d, e) /\ (o => m = <<>>)
    BY DEF History
  <1>2. PICK v \in Samples[y], f \in Seq(Made) :
             /\ v \in Tokens(y) /\ g = Encode(y, v) /\ Len(Encode(y, v)) = Wanted(i, w)
             /\ w1 \in Seq(Byte) /\ <<[at |-> x, token |-> v]>> \in Seq(Made)
             /\ d = <<[at |-> x, token |-> v]>> \o f
             /\ After(x, v) \in Todo(K) /\ InStep(K, ServerMessage, After(x, v), w1, m, f, e)
    <2>1. Arrives(x, i, w, stale, m, d, e)
      BY <1>1, CallArrives
    <2> QED
      BY <2>1 DEF Arrives
  <1>3. After(x, v) = Tail(x)
    <2>1. x \in Todo(K) /\ x # <<>>
      BY ServerCalls, NextCall
    <2>2. Tail(x) \in Todo(K) /\ After(x, v) = <<>> \o Tail(x)
      BY <2>1, HeadTailProperties DEF After, Follow, IsText, Todo
    <2> QED
      BY <2>2, ConcatEmptySeq DEF Todo
  <1>4. s \in Seq(Byte) /\ WriteIntoBuffer(b, g) = [bytes |-> s \o g, read |-> b.read]
    BY BufferFields
  <1>5. g \in Seq(Byte)
    BY <1>2, ServerCallOK DEF CallOK
  <1> DEFINE q == <<[at |-> x, token |-> v]>>
             b1 == [bytes |-> s \o g, read |-> b.read]
  <1>6. Len(q) = 1 /\ q[1].token = v /\ q \in Seq(Made)
    BY <1>2
  <1>7. p = (h \o q) \o f /\ h \o q \in Seq(Made)
    <2>1. d = q \o f /\ p = h \o d
      BY <1>1, <1>2
    <2> HIDE DEF q
    <2>2. Grouped(h, q, f)
      BY <1>6, Regroup, Zenon
    <2>3. h \o q \in Seq(Made)
      BY <1>6, ConcatProperties
    <2> QED
      BY <2>1, <2>2, <2>3 DEF Grouped
  <1> HIDE DEF q, g, s, u, y, w1
  <1>8. /\ s \o g \in Seq(Byte) /\ Len(s \o g) = Len(s) + Wanted(i, w)
        /\ b.read \in 0 .. Len(s \o g)
        /\ From(s \o g, b.read + 1) = u \o g
    <2>1. s \o g \in Seq(Byte) /\ Len(s \o g) = Len(s) + Len(g) /\ Len(s) \in Nat /\ Len(g) \in Nat
      <3>1. s \in Seq(Byte) /\ g \in Seq(Byte)
        BY <1>4, <1>5
      <3>2. s \o g \in Seq(Byte) /\ Len(s \o g) = Len(s) + Len(g)
        BY <3>1, ConcatProperties, Zenon
      <3>3. Len(s) \in Nat /\ Len(g) \in Nat
        BY <3>1, LenProperties, Zenon
      <3> QED
        BY <3>2, <3>3
    <2>2. b.read \in 0 .. Len(s)
      BY DEF s
    <2>3. From(s \o g, b.read + 1) = u \o g
      BY <1>4, <1>5, <2>2, FromMore DEF u
    <2>4. Len(g) = Wanted(i, w)
      BY <1>2 DEF g
    <2>5. b.read \in 0 .. Len(s \o g)
      BY <2>1, <2>2
    <2> QED
      BY <2>1, <2>3, <2>4, <2>5, Zenon
  <1>9. Loaded(Append(O, y), h \o q, u \o g)
    <2>1. u \in Seq(Byte)
      <3>1. b.read \in 0 .. Len(s)
        BY DEF s
      <3> QED
        BY <1>4, <3>1, Cut DEF u
    <2>2. y \in K /\ Loaded(O, h, u)
      BY <1>1 DEF y
    <2> QED
      BY <1>2, <1>6, <2>1, <2>2, MadeAreCalls, LoadedMore
  <1>10. b1.bytes = s \o g /\ b1.read = b.read
    OBVIOUS
  <1>11. IsBuffer(b1)
    BY <1>8 DEF IsBuffer
  <1> HIDE DEF b1
  <1>12. History(b1, w1, p, e, o, Tail(x), Append(O, y))
    <2>1. Loaded(Append(O, y), h \o q, From(b1.bytes, b1.read + 1))
      BY <1>8, <1>9, <1>10
    <2>2. InStep(K, ServerMessage, Tail(x), w1, m, f, e)
      BY <1>2, <1>3
    <2> QED
      BY <1>1, <1>7, <2>1, <2>2 DEF History
  <1>13. WriteIntoBuffer(b, g) = b1 /\ Tail(x) \in Todo(K) /\ w1 \in Seq(Byte)
    BY <1>2, <1>3, <1>4 DEF b1
  <1> QED
    BY <1>8, <1>10, <1>11, <1>12, <1>13 DEF g, s, y, w1

\* Or it is given to a handler, when the buffer has been read.
Given1(x, i, b, w, p, e, o, v) ==
    /\ Number(SubSeq(w, 1, Wanted(i, w))) = v
    /\ p # <<>> /\ Head(p) = [at |-> x, token |-> v]
    /\ From(p, 2) \in Seq(Made) /\ From(w, Wanted(i, w) + 1) \in Seq(Byte)
    /\ After(x, v) \in Todo(K)
    /\ History(b, From(w, Wanted(i, w) + 1), From(p, 2), e, o, After(x, v), <<>>)

\* What is left behind the first call of a history.
LEMMA FirstMade ==
    ASSUME NEW S, NEW a, <<a>> \in Seq(S), NEW f \in Seq(S)
    PROVE  <<a>> \o f # <<>> /\ Head(<<a>> \o f) = a /\ From(<<a>> \o f, 2) = f
  <1> DEFINE q == <<a>>
  <1>1. q \in Seq(S) /\ Len(q) = 1 /\ IsSeq(q) /\ IsSeq(f) /\ q # <<>> /\ Head(q) = a
    <2>1. IsSeq(f)
      BY SeqIsSeq, Zenon
    <2>2. IsSeq(q) /\ q # <<>> /\ Head(q) = a
      BY OneIsSeq, Zenon
    <2>3. Len(q) = 1
      OBVIOUS
    <2> QED
      BY <2>1, <2>2, <2>3
  <1>2. q \in Seq(S) /\ IsSeq(q) /\ IsSeq(f) /\ q # <<>>
    BY <1>1
  <1> HIDE DEF q
  <1>3. q \o f # <<>> /\ Head(q \o f) = Head(q)
    BY <1>2, JoinSeq, Zenon
  <1>4. From(q \o f, Len(q) + 1) = f
    BY <1>2, Parts, Zenon
  <1>5. Len(q) + 1 = 2
    BY <1>1
  <1> QED
    BY <1>1, <1>3, <1>4, <1>5 DEF q

LEMMA IntoControl ==
    ASSUME NEW b, NEW w \in Seq(Byte), NEW p, NEW e \in Todo(K), NEW o,
           NEW T \in Todo(K), History(b, w, p, e, o, T, <<>>),
           NEW x, x = Begun(ServerMessage, T), Head(x) \in K,
           NEW i, For(i, Head(x)), i.op # "text", w # <<>>, Len(w) >= Wanted(i, w), NEW stale
    PROVE  \E v \in Samples[Head(x)] : /\ v \in Tokens(Head(x))
                                       /\ Number(Received(i, w, stale)) = v
                                       /\ Given1(x, i, b, w, p, e, o, v)
  <1> DEFINE y == Head(x)
             w1 == From(w, Wanted(i, w) + 1)
             u == From(b.bytes, b.read + 1)
  <1>1. PICK h \in Seq(Made), d \in Seq(Made), m \in Seq(Byte) :
             p = h \o d /\ Loaded(<<>>, h, u) /\ InStep(K, ServerMessage, T, w, m, d, e) /\ (o => m = <<>>)
    BY DEF History
  <1>2. h = <<>> /\ p = d
    <2>1. h = <<>>
      BY <1>1, LoadedNone, MadeAreCalls
    <2> QED
      BY <1>1, <2>1, ConcatEmptySeq
  <1>3. Arrives(x, i, w, stale, m, d, e)
    BY <1>1, CallArrives
  <1>4. PICK v \in Samples[y], r \in Seq(Byte), f \in Seq(Made) :
             /\ v \in Tokens(y) /\ Received(i, w, stale) = Encode(y, v)
             /\ SubSeq(w, 1, Wanted(i, w)) = Encode(y, v) /\ w1 = r
             /\ <<[at |-> x, token |-> v]>> \in Seq(Made)
             /\ d = <<[at |-> x, token |-> v]>> \o f
             /\ After(x, v) \in Todo(K) /\ InStep(K, ServerMessage, After(x, v), r, m, f, e)
    BY <1>3 DEF Arrives
  <1>5. Number(Encode(y, v)) = v
    BY <1>4, NumberOfCall
  <1> DEFINE a == [at |-> x, token |-> v]
  <1>6. p # <<>> /\ Head(p) = a /\ From(p, 2) = f
    <2> HIDE DEF a
    <2>1. <<a>> \o f # <<>> /\ Head(<<a>> \o f) = a /\ From(<<a>> \o f, 2) = f
      BY <1>4, FirstMade DEF a
    <2> QED
      BY <1>2, <1>4, <2>1 DEF a
  <1>7. History(b, r, f, e, o, After(x, v), <<>>)
    <2>1. <<>> \in Seq(Made) /\ f = <<>> \o f
      BY EmptySeq, ConcatEmptySeq
    <2>2. Loaded(<<>>, <<>>, u)
      BY <1>1, <1>2
    <2> QED
      BY <1>1, <1>4, <2>1, <2>2 DEF History
  <1> HIDE DEF y, w1, u
  <1> QED
    BY <1>4, <1>5, <1>6, <1>7 DEF Given1, y, w1

\* The next call is read from the buffer; g are its bytes.
Taken(b, w, p, e, o, T, O, v, g) ==
    LET b1 == [bytes |-> b.bytes, read |-> b.read + Len(g)]
    IN  /\ p # <<>> /\ Head(p).token = v /\ From(p, 2) \in Seq(Made)
        /\ g = Encode(Head(O), v) /\ g \in Seq(Byte)
        /\ \E s \in Seq(Byte) : From(b.bytes, b.read + 1) = g \o s
        /\ ReadBytes(b, Len(g)) = g
        /\ IsBuffer(b1) /\ b1.read \in 0 .. Len(b1.bytes)
        /\ Tail(O) \in Seq(K) /\ History(b1, w, From(p, 2), e, o, T, Tail(O))

LEMMA OutOfBuffer ==
    ASSUME NEW b, IsBuffer(b), b.read \in 0 .. Len(b.bytes), NEW w, NEW p, NEW e, NEW o, NEW T,
           NEW O \in Seq(K), O # <<>>, History(b, w, p, e, o, T, O)
    PROVE  \E v \in Tokens(Head(O)) : \E g : Taken(b, w, p, e, o, T, O, v, g)
  <1> DEFINE y == Head(O)
             u == From(b.bytes, b.read + 1)
  <1>1. PICK h \in Seq(Made), d \in Seq(Made), m \in Seq(Byte) :
             p = h \o d /\ Loaded(O, h, u) /\ InStep(K, ServerMessage, T, w, m, d, e) /\ (o => m = <<>>)
    BY DEF History
  <1>2. /\ h # <<>> /\ Head(h).token \in Tokens(y)
        /\ \E s \in Seq(Byte) : u = Encode(y, Head(h).token) \o s /\ Loaded(Tail(O), Tail(h), s)
    BY <1>1, MadeAreCalls, LoadedLess
  <1> DEFINE v == Head(h).token
             g == Encode(y, v)
             f == Tail(h)
             a == Head(h)
  <1>3. PICK s \in Seq(Byte) : u = g \o s /\ Loaded(Tail(O), f, s)
    BY <1>2
  <1>4. y \in K /\ Tail(O) \in Seq(K)
    BY HeadTailProperties
  <1>5. g \in Seq(Byte)
    BY <1>2, <1>4, ServerCallOK DEF CallOK
  <1>6. f \in Seq(Made) /\ a \in Made /\ h = <<a>> \o f
    BY <1>2, HeadTailProperties, JoinSeq, SeqIsSeq, OneIsSeq
  <1>7. b.bytes \in Seq(Byte)
    BY BufferFields
  <1>8. /\ ReadBytes(b, Len(g)) = g
        /\ b.read + Len(g) \in 0 .. Len(b.bytes)
        /\ From(b.bytes, (b.read + Len(g)) + 1) = s
    <2> HIDE DEF g
    <2> QED
      BY <1>3, <1>5, <1>7, NextBytes
  <1> DEFINE n == Len(g)
             b1 == [bytes |-> b.bytes, read |-> b.read + n]
             l == f \o d
  <1>9. b1.bytes = b.bytes /\ b1.read = b.read + n /\ IsBuffer(b1)
    BY <1>7 DEF IsBuffer
  <1>10. l \in Seq(Made) /\ p = <<a>> \o l /\ <<a>> \in Seq(Made)
    <2>1. <<a>> \in Seq(Made)
      BY <1>6
    <2>2. Grouped(<<a>>, f, d)
      BY <1>6, <2>1, Regroup, Zenon
    <2>3. f \o d \in Seq(Made)
      BY <1>6, ConcatProperties
    <2> HIDE DEF a, f
    <2> QED
      BY <1>1, <1>6, <2>1, <2>2, <2>3 DEF Grouped
  <1>11. p # <<>> /\ Head(p) = a /\ From(p, 2) = l
    <2> HIDE DEF a, l
    <2> QED
      BY <1>10, FirstMade
  <1> HIDE DEF g, f, n, y, a, b1, l, v, u
  <1>12. History(b1, w, l, e, o, T, Tail(O))
    <2>1. From(b1.bytes, b1.read + 1) = s
      BY <1>8, <1>9 DEF n
    <2>2. l = f \o d /\ Loaded(Tail(O), f, s)
      BY <1>3 DEF l
    <2> QED
      BY <1>1, <1>6, <2>1, <2>2 DEF History
  <1>13. v \in Tokens(y) /\ Head(p).token = v
    BY <1>2, <1>11 DEF v, a
  <1>14. b1.read \in 0 .. Len(b1.bytes)
    BY <1>8, <1>9 DEF n
  <1>15. \E s1 \in Seq(Byte) : From(b.bytes, b.read + 1) = g \o s1
    BY <1>3 DEF u
  <1>16. g = Encode(y, v)
    BY DEF g
  <1>17. Taken(b, w, p, e, o, T, O, v, g)
    BY <1>4, <1>5, <1>8, <1>9, <1>10, <1>11, <1>12, <1>13, <1>14, <1>15, <1>16 DEF Taken, n, b1, y
  <1> QED
    BY <1>13, <1>17 DEF y

\* The instructions that take something out of the buffer give the next call.
TakenBy(i, b, w, p, e, o, T, O) ==
    /\ p # <<>> /\ \A got : Head(p).token = Given(i, got, b)
    /\ From(p, 2) \in Seq(Made)
    /\ \A got : /\ IsBuffer(Buffered(i, got, b))
                /\ Buffered(i, got, b).bytes = b.bytes
                /\ Buffered(i, got, b).read \in 0 .. Len(b.bytes)
                /\ History(Buffered(i, got, b), w, From(p, 2), e, o, T, Tail(O))

LEMMA TakesNext ==
    ASSUME NEW b, IsBuffer(b), b.read \in 0 .. Len(b.bytes), NEW w, NEW p, NEW e, NEW o, NEW T,
           NEW O \in Seq(K), O # <<>>, History(b, w, p, e, o, T, O),
           NEW i, i.op = "take", Head(O).k = "unsigned", Head(O).width = i.n
    PROVE  TakenBy(i, b, w, p, e, o, T, O)
  <1>0. PICK v \in Tokens(Head(O)) : \E g : Taken(b, w, p, e, o, T, O, v, g)
    BY OutOfBuffer
  <1>1. PICK g : Taken(b, w, p, e, o, T, O, v, g)
    BY <1>0
  <1>2. Head(O) \in K
    BY HeadTailProperties
  <1>3. i.n \in Widths /\ v \in 0 .. Size(i.n) - 1 /\ g = EncodeInt(i.n, v)
    <2>1. i.n \in Widths
      BY <1>2, ServerCalls DEF Supported, Widths
    <2> QED
      BY <1>1, <2>1 DEF Taken, Tokens, Encode
  <1>4. Len(g) = i.n /\ Number(g) = v
    BY <1>3, Numbers, NumberOfBytes
  <1> DEFINE b1 == [bytes |-> b.bytes, read |-> b.read + Len(g)]
  <1>5. \A got : Buffered(i, got, b) = b1 /\ Given(i, got, b) = v
    <2>1. [b EXCEPT !.read = @ + i.n] = b1
      <3> DEFINE k == b.read + i.n
      <3>1. k = b.read + Len(g) /\ [b EXCEPT !.read = @ + i.n] = [b EXCEPT !.read = k]
        BY <1>4
      <3> HIDE DEF k
      <3>2. [b EXCEPT !.read = k] = [bytes |-> b.bytes, read |-> k]
        BY BufferFields
      <3> QED
        BY <3>1, <3>2
    <2>2. Number(ReadBytes(b, i.n)) = v
      BY <1>1, <1>4 DEF Taken
    <2> QED
      BY <2>1, <2>2 DEF Buffered, Given
  <1>6. b1.bytes = b.bytes
    OBVIOUS
  <1>7. /\ p # <<>> /\ Head(p).token = v /\ From(p, 2) \in Seq(Made) /\ IsBuffer(b1)
        /\ b1.read \in 0 .. Len(b1.bytes) /\ History(b1, w, From(p, 2), e, o, T, Tail(O))
    BY <1>1 DEF Taken
  <1> HIDE DEF b1
  <1> QED
    BY <1>5, <1>6, <1>7 DEF TakenBy

LEMMA TakesText ==
    ASSUME NEW b, IsBuffer(b), b.read \in 0 .. Len(b.bytes), NEW w, NEW p, NEW e, NEW o, NEW T,
           NEW O \in Seq(K), O # <<>>, History(b, w, p, e, o, T, O),
           NEW i, i.op = "take_text", IsText(Head(O))
    PROVE  TakenBy(i, b, w, p, e, o, T, O)
  <1>0. PICK v \in Tokens(Head(O)) : \E g : Taken(b, w, p, e, o, T, O, v, g)
    BY OutOfBuffer
  <1>1. PICK g : Taken(b, w, p, e, o, T, O, v, g)
    BY <1>0
  <1>2. v \in Seq(Byte) /\ Len(v) \in Byte /\ g = <<Len(v)>> \o v
    <2>1. v \in Seq(Byte \ {NotUtf8}) /\ Len(v) < Base
      BY TextTokens DEF Texts
    <2>2. v \in Seq(Byte) /\ Len(v) \in Nat
      BY <2>1, SeqMonotonic, LenProperties
    <2>3. g = <<Len(v)>> \o v
      BY <1>1 DEF Taken, Encode, IsText
    <2>4. Len(v) \in Byte
      BY <2>1, <2>2, ServerCalls DEF Byte
    <2> QED
      BY <2>2, <2>3, <2>4
  <1>3. PICK s \in Seq(Byte) : From(b.bytes, b.read + 1) = g \o s
    BY <1>1 DEF Taken
  <1>4. b.bytes \in Seq(Byte)
    BY BufferFields
  <1> DEFINE a == <<Len(v)>>
             r == v \o s
             b0 == [bytes |-> b.bytes, read |-> b.read + 1]
  <1>5. a \in Seq(Byte) /\ r \in Seq(Byte) /\ From(b.bytes, b.read + 1) = a \o r /\ Len(a) = 1
    <2>1. a \in Seq(Byte) /\ Len(a) = 1
      BY <1>2
    <2>2. g = a \o v
      BY <1>2
    <2> HIDE DEF a
    <2>3. Grouped(a, v, s)
      BY <1>2, <2>1, Regroup, Zenon
    <2>4. v \o s \in Seq(Byte)
      BY <1>2, ConcatProperties
    <2> QED
      BY <1>3, <2>1, <2>2, <2>3, <2>4 DEF Grouped
  <1>6. a \in Seq(Byte) /\ r \in Seq(Byte) /\ From(b.bytes, b.read + 1) = a \o r
    BY <1>5
  <1>7. Number(a) = Len(v)
    <2>1. 1 \in Widths /\ Size(1) = Base /\ EncodeInt(1, Len(v)) = a /\ Base \in Nat
      BY ServerCalls DEF Widths, Size, EncodeInt
    <2>2. Len(v) \in 0 .. Size(1) - 1
      BY <1>2, <2>1 DEF Byte
    <2> HIDE DEF a
    <2> QED
      BY <2>1, <2>2, NumberOfBytes
  <1> HIDE DEF a, r
  <1>8. /\ ReadBytes(b, Len(a)) = a
        /\ b.read + Len(a) \in 0 .. Len(b.bytes)
        /\ From(b.bytes, (b.read + Len(a)) + 1) = r
    BY <1>4, <1>6, NextBytes
  <1>9. TextLength(b) = Len(v)
    BY <1>5, <1>7, <1>8 DEF TextLength
  <1>10. [b EXCEPT !.read = @ + 1] = b0 /\ b0.bytes = b.bytes /\ b0.read = b.read + 1
    BY BufferFields
  <1> HIDE DEF b0
  <1>11. ReadBytes(b0, Len(v)) = v
    <2>1. b0.bytes \in Seq(Byte) /\ b0.read \in 0 .. Len(b0.bytes)
          /\ From(b0.bytes, b0.read + 1) = v \o s
      BY <1>4, <1>5, <1>8, <1>10 DEF r
    <2> QED
      BY <1>2, <2>1, NextBytes
  <1>12. Len(g) = 1 + Len(v) /\ Len(v) \in Nat /\ b.read \in Nat
    <2>1. Len(a \o v) = Len(a) + Len(v) /\ Len(v) \in Nat
      BY <1>2, <1>6, JoinedAt
    <2>2. Len(b.bytes) \in Nat
      BY <1>4, LenProperties
    <2> QED
      BY <1>2, <1>5, <2>1, <2>2 DEF a
  <1> DEFINE b1 == [bytes |-> b.bytes, read |-> b.read + Len(g)]
  <1>13. \A got : Buffered(i, got, b) = b1 /\ Given(i, got, b) = v
    <2>1. b.read + 1 + TextLength(b) = b.read + Len(g)
      <3>1. PICK j \in Nat : j = b.read
        BY <1>12
      <3>2. PICK l \in Nat : l = Len(v)
        BY <1>12
      <3>3. TextLength(b) = l /\ Len(g) = 1 + l
        BY <1>9, <1>12, <3>2
      <3>4. j + 1 + l = j + (1 + l)
        OBVIOUS
      <3> QED
        BY <3>1, <3>3, <3>4, Zenon
    <2>2. [b EXCEPT !.read = @ + 1 + TextLength(b)] = b1
      <3> DEFINE k == b.read + 1 + TextLength(b)
      <3>1. k = b.read + Len(g) /\ [b EXCEPT !.read = @ + 1 + TextLength(b)] = [b EXCEPT !.read = k]
        BY <2>1
      <3> HIDE DEF k
      <3>2. [b EXCEPT !.read = k] = [bytes |-> b.bytes, read |-> k]
        BY BufferFields
      <3> QED
        BY <3>1, <3>2
    <2>3. ReadBytes([b EXCEPT !.read = @ + 1], TextLength(b)) = v
      BY <1>9, <1>10, <1>11
    <2> QED
      BY <2>2, <2>3 DEF Buffered, Given
  <1>14. b1.bytes = b.bytes
    OBVIOUS
  <1>15. /\ p # <<>> /\ Head(p).token = v /\ From(p, 2) \in Seq(Made) /\ IsBuffer(b1)
         /\ b1.read \in 0 .. Len(b1.bytes) /\ History(b1, w, From(p, 2), e, o, T, Tail(O))
    BY <1>1 DEF Taken
  <1> HIDE DEF b1
  <1> QED
    BY <1>13, <1>14, <1>15 DEF TakenBy

\* An empty buffer is what is left when everything was read from it.
LEMMA Resets ==
    ASSUME NEW b, NEW w, NEW p, NEW e, NEW o, NEW T, History(b, w, p, e, o, T, <<>>)
    PROVE  /\ History(EmptyBuffer, w, p, e, o, T, <<>>) /\ IsBuffer(EmptyBuffer)
           /\ EmptyBuffer.bytes = <<>> /\ EmptyBuffer.read = 0
  <1>1. PICK h \in Seq(Made), d \in Seq(Made), m \in Seq(Byte) :
             /\ p = h \o d /\ Loaded(<<>>, h, From(b.bytes, b.read + 1))
             /\ InStep(K, ServerMessage, T, w, m, d, e) /\ (o => m = <<>>)
    BY DEF History
  <1>2. h = <<>>
    BY <1>1, LoadedNone, MadeAreCalls
  <1>3. EmptyBuffer.bytes = <<>> /\ EmptyBuffer.read = 0 /\ IsBuffer(EmptyBuffer)
    BY EmptySeq DEF EmptyBuffer, IsBuffer
  <1>4. From(EmptyBuffer.bytes, EmptyBuffer.read + 1) = <<>>
    BY <1>3, EmptySeq DEF From
  <1>5. Loaded(<<>>, h, From(EmptyBuffer.bytes, EmptyBuffer.read + 1))
    BY <1>2, <1>4, LoadedNone
  <1> QED
    BY <1>1, <1>3, <1>5 DEF History

\* At the end of a list, or of an element of it, there is nothing to receive.
LEMMA Counts ==
    ASSUME NEW b, NEW w \in Seq(Byte), NEW p, NEW e \in Todo(K), NEW o,
           NEW T \in Todo(K), NEW O, History(b, w, p, e, o, T, O),
           NEW x, x = Begun(ServerMessage, T), Head(x).k = "counted"
    PROVE  After(x, 0) \in Todo(K) /\ History(b, w, p, e, o, After(x, 0), O)
  <1> DEFINE C == CallsOf(K)
             u == From(b.bytes, b.read + 1)
  <1>1. PICK h \in Seq(Made), d \in Seq(Made), m \in Seq(Byte) :
             p = h \o d /\ Loaded(O, h, u) /\ InStep(K, ServerMessage, T, w, m, d, e) /\ (o => m = <<>>)
    BY DEF History
  <1>2. /\ Supported(K) /\ ServerMessage \in Todo(K) /\ ServerMessage # <<>> /\ d \in C
        /\ x \in Todo(K) /\ x # <<>>
    BY ServerCalls, NextCall, MadeAreCalls
  <1>3. Decode(Head(x), w) = Ok(0, w) /\ Decode(Head(x), w).r = "ok"
    BY DEF Decode, Ok
  <1>4. ReadsNext(K, ServerMessage, x, w, m, d, e)
    BY <1>1, <1>2, <1>3, InStepReads
  <1>5. PICK v \in Tokens(Head(x)), r \in Seq(Byte), f \in C :
             /\ Decode(Head(x), w) = Ok(v, r) /\ d = Calls(x, v) \o f
             /\ After(x, v) \in Todo(K) /\ InStep(K, ServerMessage, After(x, v), r, m, f, e)
    BY <1>4 DEF ReadsNext
  <1>6. v = 0 /\ r = w
    BY <1>3, <1>5 DEF Ok
  <1>7. f = d
    <2>1. d = <<>> \o f
      BY <1>5 DEF Calls
    <2> QED
      BY <2>1, ConcatEmptySeq DEF CallsOf
  <1> QED
    BY <1>1, <1>5, <1>6, <1>7 DEF History

\* The server writes a call more.
LEMMA HistoryWrites ==
    ASSUME NEW b, NEW w \in Seq(Byte), NEW p, NEW e \in Todo(K), NEW o, o,
           NEW T \in Todo(K), NEW O, History(b, w, p, e, o, T, O),
           NEW x, x = Begun(ServerMessage, e), NEW t \in Arguments(Head(x))
    PROVE  /\ w \o Encode(Head(x), t) \in Seq(Byte)
           /\ Calls(x, t) \in Seq(Made) /\ After(x, t) \in Todo(K)
           /\ History(b, w \o Encode(Head(x), t), p \o Calls(x, t), After(x, t), o, T, O)
  <1> DEFINE C == CallsOf(K)
             u == From(b.bytes, b.read + 1)
             w1 == w \o Encode(Head(x), t)
             c == Calls(x, t)
             z == After(x, t)
  <1>1. PICK h \in Seq(Made), d \in Seq(Made), m \in Seq(Byte) :
             p = h \o d /\ Loaded(O, h, u) /\ InStep(K, ServerMessage, T, w, m, d, e) /\ m = <<>>
    BY DEF History
  <1>2. /\ Supported(K) /\ ServerMessage \in Todo(K) /\ ServerMessage # <<>> /\ d \in C
        /\ x \in Todo(K) /\ x # <<>> /\ Head(x) \in Frame(K)
    BY ServerCalls, NextCall, MadeAreCalls
  <1>3. t \in Tokens(Head(x))
    BY <1>2, ArgumentsAreTokens
  <1>4. /\ w1 \in Seq(Byte) /\ d \o c \in C /\ z \in Todo(K)
        /\ InStep(K, ServerMessage, T, w1, <<>>, d \o c, z)
    BY <1>1, <1>2, <1>3, InStepWrites
  <1>5. c \in Seq(Made)
    <2>1. CASE Head(x).k = "counted"
      BY <2>1, EmptySeq DEF Calls
    <2>2. CASE Head(x).k # "counted"
      <3>1. c = <<[at |-> x, token |-> t]>>
        BY <2>2 DEF Calls
      <3>2. [at |-> x, token |-> t] \in Made
        <4>1. t \in Token(K)
          BY <1>2, <1>3, <2>2 DEF Token, Frame
        <4> QED
          BY <1>2, <4>1 DEF Made
      <3> QED
        BY <3>1, <3>2
    <2> QED
      BY <2>1, <2>2
  <1> HIDE DEF c, w1, z, u
  <1>6. d \o c \in Seq(Made) /\ p \o c = h \o (d \o c)
    <2>1. Grouped(h, d, c)
      BY <1>5, Regroup, Zenon
    <2>2. d \o c \in Seq(Made)
      BY <1>5, ConcatProperties
    <2> QED
      BY <1>1, <2>1, <2>2 DEF Grouped
  <1>7. History(b, w1, p \o c, z, o, T, O)
    BY <1>1, <1>4, <1>6 DEF History, u
  <1> QED
    BY <1>4, <1>5, <1>7 DEF c, w1, z

\* It goes away, and the end of what it wrote with it.
LEMMA HistoryCut ==
    ASSUME NEW b, NEW w \in Seq(Byte), NEW p, NEW e, NEW o, o,
           NEW T, NEW O, History(b, w, p, e, o, T, O), NEW k \in 0 .. Len(w)
    PROVE  /\ SubSeq(w, 1, k) \in Seq(Byte)
           /\ History(b, SubSeq(w, 1, k), p, e, FALSE, T, O)
  <1> DEFINE u == From(b.bytes, b.read + 1)
             w1 == SubSeq(w, 1, k)
  <1>1. PICK h \in Seq(Made), d \in Seq(Made), m \in Seq(Byte) :
             p = h \o d /\ Loaded(O, h, u) /\ InStep(K, ServerMessage, T, w, m, d, e) /\ m = <<>>
    BY DEF History
  <1>2. \E n \in Seq(Byte) : w1 \in Seq(Byte) /\ InStep(K, ServerMessage, T, w1, n, d, e)
    BY <1>1, InStepCut
  <1> HIDE DEF u, w1
  <1>3. History(b, w1, p, e, FALSE, T, O)
    BY <1>1, <1>2 DEF History, u
  <1> QED
    BY <1>2, <1>3 DEF w1

\* All places that S can be at.
Places == CHOOSE R : /\ Closed(R, <<>>, BufferSize)
                     /\ \A n \in 0 .. BufferSize : Place(Round, <<>>, ServerMessage, n) \in R

LEMMA PlacesClosed ==
    /\ Closed(Places, <<>>, BufferSize)
    /\ \A n \in 0 .. BufferSize : Place(Round, <<>>, ServerMessage, n) \in Places
  <1>1. \E R : /\ Closed(R, <<>>, BufferSize)
               /\ \A n \in 0 .. BufferSize : Place(Round, <<>>, ServerMessage, n) \in R
    BY RoundHandled DEF Handles, Runs
  <1> QED
    BY <1>1, Zenon DEF Places

\* S is at one of them, and on the way through the calls of the server.  The calls t
\* are left in its message, T in what has been read; they differ before a message only.
Stands(c, b, w, p, e, o, t, T, O) ==
    /\ T \in Todo(K) /\ O \in Seq(K)
    /\ T = t \/ (T = <<>> /\ t = ServerMessage)
    /\ Place(c, O, t, Len(b.bytes)) \in Places
    /\ History(b, w, p, e, o, T, O)

OnTrack(c, b, w, p, e, o) ==
    /\ IsBuffer(b) /\ b.read \in 0 .. Len(b.bytes) /\ w \in Seq(Byte) /\ e \in Todo(K)
    /\ \E t, T, O : Stands(c, b, w, p, e, o, t, T, O)

\* The instruction there is the right one.
Leading(c, b, t, T, O) ==
    /\ c # <<>> /\ IsSeq(c) /\ IsSeq(Tail(c)) /\ <<>> \o Tail(c) = Tail(c)
    /\ t \in Todo(K) /\ Leads(Places, Place(c, O, t, Len(b.bytes)))
    /\ t # <<>> => t = Begun(ServerMessage, T)

LEMMA StandsLeading ==
    ASSUME NEW c, NEW b, NEW w, NEW p, NEW e, NEW o, NEW t, NEW T, NEW O,
           Stands(c, b, w, p, e, o, t, T, O), c # <<>>
    PROVE  Leading(c, b, t, T, O)
  <1> DEFINE q == Place(c, O, t, Len(b.bytes))
  <1>1. q \in Places
    BY DEF Stands
  <1>2. Proper(q) /\ (q.code # <<>> => Leads(Places, q))
    BY <1>1, PlacesClosed DEF Closed
  <1>3. q.code = c /\ q.todo = t
    BY DEF Place
  <1>4. IsSeq(c) /\ t \in Todo(K) /\ Leads(Places, q)
    BY <1>2, <1>3 DEF Proper
  <1>5. IsSeq(Tail(c))
    BY <1>4, JoinSeq
  <1>6. <<>> \o Tail(c) = Tail(c)
    BY <1>5, JoinSeq
  <1>7. t # <<>> => t = Begun(ServerMessage, T)
    BY DEF Stands, Begun
  <1> QED
    BY <1>4, <1>5, <1>6, <1>7 DEF Leading

\* After a message comes the next.
LEMMA RoundAgain ==
    ASSUME NEW c, NEW b, NEW w, NEW p, NEW e, NEW o, OnTrack(c, b, w, p, e, o)
    PROVE  OnTrack(Current(Round, c), b, w, p, e, o)
  <1>1. PICK t, T, O : Stands(c, b, w, p, e, o, t, T, O)
    BY DEF OnTrack
  <1>2. CASE c # <<>>
    BY <1>2 DEF Current
  <1>3. CASE c = <<>>
    <2> DEFINE q == Place(c, O, t, Len(b.bytes))
    <2>1. q \in Places
      BY <1>1 DEF Stands
    <2>2. Proper(q) /\ (q.code = <<>> => q.todo = <<>> /\ q.owed = <<>> /\ q.size <= BufferSize)
      BY <2>1, PlacesClosed DEF Closed
    <2>3. q.code = c /\ q.todo = t /\ q.owed = O /\ q.size = Len(b.bytes)
      BY DEF Place
    <2>4. t = <<>> /\ O = <<>> /\ Len(b.bytes) \in 0 .. BufferSize
      BY <1>3, <2>2, <2>3 DEF Proper
    <2>5. T = <<>>
      BY <1>1, <2>4, ServerCalls DEF Stands
    <2>6. Current(Round, c) = Round /\ Round # <<>>
      <3>1. Round # <<>>
        BY RoundHandled DEF Handles, Concerns
      <3> QED
        BY <1>3, <3>1 DEF Current
    <2>7. Place(Round, O, ServerMessage, Len(b.bytes)) \in Places
      BY <2>4, PlacesClosed
    <2>8. Stands(Round, b, w, p, e, o, ServerMessage, T, O)
      BY <1>1, <2>5, <2>7 DEF Stands
    <2> QED
      BY <2>6, <2>8 DEF OnTrack
  <1> QED
    BY <1>2, <1>3

\* What S is after an instruction, in a buffer that is large enough.
Goes1(i, c, got, b, w1, p, e, o) ==
    /\ Len(Buffered(i, got, b).bytes) \in 0 .. BufferSize
    /\ OnTrack(Inside(i, got) \o Tail(c), Buffered(i, got, b), w1,
               IF Gives(i) THEN From(p, 2) ELSE p, e, o)

\* What it gives is what the server wrote.
GivesNext(i, c, got, b, p) ==
    /\ p # <<>> /\ Head(p).token = Given(i, got, b)
    /\ c = Handlers => Head(p).at = ServerMessage

\* A size that a place has is one that a buffer can have.
LEMMA SizeThere ==
    ASSUME NEW c, NEW o, NEW t, NEW z, Place(c, o, t, z) \in Places
    PROVE  z \in 0 .. BufferSize
  <1> DEFINE q == Place(c, o, t, z)
  <1>1. Proper(q)
    BY PlacesClosed DEF Closed
  <1>2. q.size = z
    BY DEF Place
  <1> QED
    BY <1>1, <1>2 DEF Proper

\* recv gets all that it is asked for.
LEMMA ReceivesWhole ==
    ASSUME NEW c, NEW b, NEW w, NEW p, NEW e, NEW o, OnTrack(c, b, w, p, e, o), 
           NEW t, NEW T, NEW O, Stands(c, b, w, p, e, o, t, T, O), Leading(c, b, t, T, O),
           NEW i, i = Head(c), Receives(i), w # <<>>, Len(w) >= Wanted(i, w), NEW stale,
           NEW g, g = Received(i, w, stale)
    PROVE  /\ Goes1(i, c, g, b, From(w, Wanted(i, w) + 1), p, e, o) /\ ~ Unknown(i, g)
           /\ Gives(i) => GivesNext(i, c, SubSeq(w, 1, i.n), b, p)
  <1> DEFINE q == Place(c, O, t, Len(b.bytes))
             h == Head(t)
             rest == Tail(c)
             w1 == From(w, Wanted(i, w) + 1)
             z == Len(b.bytes)
  <1>1. /\ q.code = c /\ q.owed = O /\ q.todo = t /\ q.size = z
        /\ i.op \in {"field", "text", "local", "times", "choose"}
    BY DEF Place, Receives
  <1>2. /\ Leads(Places, q) /\ c # <<>> /\ <<>> \o rest = rest
        /\ t # <<>> => t = Begun(ServerMessage, T)
    BY DEF Leading
  <1>3. /\ IsBuffer(b) /\ b.read \in 0 .. z /\ w \in Seq(Byte) /\ e \in Todo(K)
        /\ T \in Todo(K) /\ O \in Seq(K) /\ History(b, w, p, e, o, T, O)
        /\ z \in 0 .. BufferSize
    BY SizeThere DEF OnTrack, Stands
  <1> HIDE DEF q
  <1>4. CASE i.op \in {"field", "text"}
    <2>1. /\ t # <<>> /\ h \in K /\ (h.k = "unsigned" \/ IsText(h)) /\ For(i, h)
          /\ Place(rest, Append(O, h), Tail(t), z + Wanted(i, w)) \in Places
      <3>1. CASE i.op = "field"
        <4>1. /\ t # <<>> /\ h.k = "unsigned" /\ h.width = i.n
              /\ Place(rest, Append(O, h), Tail(t), z + i.n) \in Places
          BY <1>1, <1>2, <3>1 DEF Leads
        <4>2. Wanted(i, w) = i.n /\ For(i, h)
          BY <3>1, <4>1 DEF Wanted, For
        <4>3. h \in Frame(K)
          BY <4>1, HeadTailProperties DEF Leading, Todo
        <4>4. h \in K
          BY <4>1, <4>3 DEF Frame
        <4> QED
          BY <4>1, <4>2, <4>4
      <3>2. CASE i.op = "text"
        <4>1. /\ t # <<>> /\ IsText(h)
              /\ \A n \in 1 .. Base : Place(rest, Append(O, h), Tail(t), z + n) \in Places
          BY <1>1, <1>2, <3>2 DEF Leads
        <4>2. For(i, h)
          BY <3>2, <4>1 DEF For
        <4>3. h \in Frame(K)
          BY <4>1, HeadTailProperties DEF Leading, Todo
        <4>4. h \in K
          BY <4>1, <4>3 DEF IsText, Frame
        <4>5. Wanted(i, w) \in 1 .. Base
          BY <1>3, <4>1, <4>2, <4>4, Asks, ServerCalls
        <4> QED
          BY <4>1, <4>2, <4>4, <4>5
      <3> QED
        BY <1>4, <3>1, <3>2
    <2>2. LET b1 == WriteIntoBuffer(b, g)
          IN  /\ IsBuffer(b1) /\ b1.read \in 0 .. Len(b1.bytes) /\ Len(b1.bytes) = z + Wanted(i, w)
              /\ w1 \in Seq(Byte) /\ Tail(t) \in Todo(K)
              /\ History(b1, w1, p, e, o, Tail(t), Append(O, h))
      BY <1>2, <1>3, <2>1, IntoBuffer
    <2>3. /\ Inside(i, g) = <<>> /\ Buffered(i, g, b) = WriteIntoBuffer(b, g)
          /\ ~ Gives(i) /\ ~ Unknown(i, g)
      BY <1>4 DEF Inside, Buffered, Gives, Unknown
    <2> DEFINE b1 == WriteIntoBuffer(b, g)
               O1 == Append(O, h)
               T1 == Tail(t)
    <2>4. O1 \in Seq(K)
      BY <1>3, <2>1
    <2> HIDE DEF b1, O1, T1, rest, w1, z
    <2>5. Stands(rest, b1, w1, p, e, o, T1, T1, O1)
      BY <2>1, <2>2, <2>4 DEF Stands, b1, O1, T1
    <2>6. OnTrack(rest, b1, w1, p, e, o)
      BY <1>3, <2>2, <2>5 DEF OnTrack, b1
    <2>7. Len(b1.bytes) \in 0 .. BufferSize
      BY <2>5, SizeThere DEF Stands
    <2> QED
      BY <1>2, <2>3, <2>6, <2>7 DEF Goes1, b1, rest, w1
  <1>5. CASE i.op \in {"local", "times", "choose"}
    <2>1. /\ t # <<>> /\ O = <<>> /\ h \in K /\ For(i, h) /\ (c = Handlers => t = ServerMessage)
          /\ \A v \in Samples[h] : v \in Tokens(h) =>
               ~ (i.op = "choose" /\ v >= Len(i.cases))
          /\ \A v \in Samples[h] : \A got : Number(got) = v =>
               Place(Inside(i, got) \o rest, <<>>, After(t, v), z) \in Places
      <3>1. t # <<>> => h \in Frame(K)
        BY HeadTailProperties DEF Leading, Todo
      <3>2. CASE i.op = "local"
        <4>1. /\ t # <<>> /\ O = <<>> /\ h.k = "unsigned" /\ h.width = i.n
              /\ Place(rest, <<>>, Tail(t), z) \in Places
          BY <1>1, <1>2, <3>2 DEF Leads
        <4>2. \A got : Inside(i, got) \o rest = rest
          BY <1>2, <3>2 DEF Inside
        <4>3. \A v : After(t, v) = Tail(t)
          <5>1. Tail(t) \in Todo(K) /\ \A v : After(t, v) = <<>> \o Tail(t)
            BY <4>1, HeadTailProperties DEF After, Follow, Todo, Leading
          <5> QED
            BY <5>1, ConcatEmptySeq DEF Todo
        <4>4. For(i, h) /\ h \in K
          BY <3>1, <3>2, <4>1 DEF For, Frame
        <4>5. c # Handlers
          <5>1. c = Handlers => i.op = "choose"
            BY OneIsSeq DEF Handlers, Choose
          <5> QED
            BY <3>2, <5>1
        <4> QED
          BY <3>2, <4>1, <4>2, <4>3, <4>4, <4>5
      <3>3. CASE i.op = "times"
        <4>1. /\ t # <<>> /\ O = <<>> /\ h.k = "list" /\ i.n = 4
              /\ \A v \in Samples[h] :
                   Place(Again(v, i.body) \o rest, <<>>, After(t, v), z) \in Places
          BY <1>1, <1>2, <3>3 DEF Leads
        <4>2. \A got : Inside(i, got) = Again(Number(got), i.body)
          BY <3>3 DEF Inside
        <4>3. For(i, h) /\ h \in K
          BY <3>1, <3>3, <4>1 DEF For, Frame
        <4>4. c # Handlers
          <5>1. c = Handlers => i.op = "choose"
            BY OneIsSeq DEF Handlers, Choose
          <5> QED
            BY <3>3, <5>1
        <4> QED
          BY <3>3, <4>1, <4>2, <4>3, <4>4
      <3>4. CASE i.op = "choose"
        <4>1. /\ t # <<>> /\ O = <<>> /\ h.k = "variant" /\ i.n = 1 /\ Len(i.cases) = Len(h.of)
              /\ c = Handlers => t = ServerMessage
              /\ \A v \in Samples[h] :
                   Place(i.cases[v + 1] \o rest, <<>>, After(t, v), z) \in Places
          BY <1>1, <1>2, <3>4 DEF Leads
        <4>2. \A got : Inside(i, got) = i.cases[Number(got) + 1]
          BY <3>4 DEF Inside
        <4>3. For(i, h) /\ h \in K
          BY <3>1, <3>4, <4>1 DEF For, Frame
        <4>4. \A v \in Tokens(h) : ~ (v >= Len(i.cases))
          <5>1. Supported(K)
            BY ServerCalls
          <5>2. h.of \in Seq(Seq(K))
            BY <4>1, <4>3, <5>1 DEF Supported
          <5>3. Tokens(h) = 0 .. Len(h.of) - 1 /\ Len(h.of) \in Nat
            BY <4>1, <5>2, LenProperties DEF Tokens
          <5> QED
            BY <4>1, <5>3
        <4> QED
          BY <4>1, <4>2, <4>3, <4>4
      <3> QED
        BY <1>5, <3>2, <3>3, <3>4
    <2>2. i.op # "text"
      BY <1>5
    <2>3. PICK v \in Samples[h] : /\ v \in Tokens(h) /\ Number(g) = v
                                  /\ Given1(t, i, b, w, p, e, o, v)
      BY <1>2, <1>3, <2>1, <2>2, IntoControl
    <2>4. Buffered(i, g, b) = b /\ Gives(i) /\ ~ Unknown(i, g) /\ Wanted(i, w) = i.n
      BY <1>5, <2>1, <2>3 DEF Buffered, Gives, Unknown, Wanted
    <2> DEFINE T1 == After(t, v)
               c1 == Inside(i, g) \o rest
    <2>5. Place(c1, <<>>, T1, z) \in Places
      BY <2>1, <2>3
    <2>6. /\ p # <<>> /\ Head(p) = [at |-> t, token |-> v] /\ From(p, 2) \in Seq(Made)
          /\ w1 \in Seq(Byte) /\ T1 \in Todo(K)
          /\ History(b, w1, From(p, 2), e, o, T1, <<>>)
          /\ Number(SubSeq(w, 1, i.n)) = v
      BY <2>3, <2>4 DEF Given1
    <2>7. GivesNext(i, c, SubSeq(w, 1, i.n), b, p)
      <3>1. \A got : Given(i, got, b) = Number(got)
        BY <1>5 DEF Given
      <3>2. Head(p).token = v /\ Head(p).at = t
        BY <2>6
      <3> QED
        BY <2>1, <2>6, <3>1, <3>2 DEF GivesNext
    <2> HIDE DEF T1, c1, w1, z
    <2>8. Stands(c1, b, w1, From(p, 2), e, o, T1, T1, <<>>)
      BY <2>5, <2>6, EmptySeq DEF Stands, z
    <2>9. OnTrack(c1, b, w1, From(p, 2), e, o)
      BY <1>3, <2>6, <2>8 DEF OnTrack, z
    <2> QED
      BY <1>3, <2>4, <2>7, <2>9 DEF Goes1, c1, w1, z
  <1> QED
    BY <1>1, <1>4, <1>5

\* What is not received is done with what is there.
LEMMA ProceedsWell ==
    ASSUME NEW c, NEW b, NEW w, NEW p, NEW e, NEW o, OnTrack(c, b, w, p, e, o),
           NEW t, NEW T, NEW O, Stands(c, b, w, p, e, o, t, T, O), Leading(c, b, t, T, O),
           NEW i, i = Head(c), ~ Receives(i)
    PROVE  /\ Goes1(i, c, <<>>, b, w, p, e, o)
           /\ Gives(i) => \A got : GivesNext(i, c, got, b, p)
  <1> DEFINE q == Place(c, O, t, Len(b.bytes))
             rest == Tail(c)
             z == Len(b.bytes)
  <1>1. q.code = c /\ q.owed = O /\ q.todo = t /\ q.size = z
    BY DEF Place
  <1>2. /\ Leads(Places, q) /\ c # <<>> /\ <<>> \o rest = rest /\ t \in Todo(K)
        /\ t # <<>> => t = Begun(ServerMessage, T)
    BY DEF Leading
  <1>3. /\ IsBuffer(b) /\ b.read \in 0 .. z /\ w \in Seq(Byte) /\ e \in Todo(K)
        /\ T \in Todo(K) /\ O \in Seq(K) /\ History(b, w, p, e, o, T, O)
        /\ T = t \/ (T = <<>> /\ t = ServerMessage)
        /\ z \in 0 .. BufferSize
    BY SizeThere DEF OnTrack, Stands
  <1>4. i.op \in {"again", "take", "take_text", "reset"}
    BY <1>1, <1>2 DEF Leads, Receives
  <1> HIDE DEF q, z
  <1>5. CASE i.op = "again"
    <2>1. /\ O = <<>> /\ t # <<>> /\ Head(t).k = "counted"
          /\ Place(Inside(i, <<>>) \o rest, <<>>, After(t, 0), z) \in Places
      BY <1>1, <1>2, <1>5 DEF Leads
    <2>2. Buffered(i, <<>>, b) = b /\ ~ Gives(i)
      BY <1>5 DEF Buffered, Gives
    <2> DEFINE T1 == After(t, 0)
               c1 == Inside(i, <<>>) \o rest
    <2>3. T1 \in Todo(K) /\ History(b, w, p, e, o, T1, <<>>)
      BY <1>2, <1>3, <2>1, Counts
    <2>4. Place(c1, <<>>, T1, z) \in Places
      BY <2>1
    <2> HIDE DEF T1, c1
    <2>5. Stands(c1, b, w, p, e, o, T1, T1, <<>>)
      BY <2>3, <2>4, EmptySeq DEF Stands, z
    <2>6. OnTrack(c1, b, w, p, e, o)
      BY <1>3, <2>5 DEF OnTrack, z
    <2> QED
      BY <1>3, <2>2, <2>6 DEF Goes1, z, c1
  <1>6. CASE i.op \in {"take", "take_text"}
    <2>1. /\ O # <<>> /\ Place(rest, Tail(O), t, z) \in Places
          /\ \/ i.op = "take" /\ Head(O).k = "unsigned" /\ Head(O).width = i.n
             \/ i.op = "take_text" /\ IsText(Head(O))
      BY <1>1, <1>2, <1>6 DEF Leads
    <2>2. TakenBy(i, b, w, p, e, o, T, O)
      BY <1>3, <2>1, TakesNext, TakesText DEF z
    <2> DEFINE b1 == Buffered(i, <<>>, b)
    <2>3. /\ p # <<>> /\ \A got : Head(p).token = Given(i, got, b)
          /\ IsBuffer(b1) /\ b1.bytes = b.bytes /\ b1.read \in 0 .. Len(b.bytes)
          /\ History(b1, w, From(p, 2), e, o, T, Tail(O))
      BY <2>2 DEF TakenBy
    <2>4. Inside(i, <<>>) = <<>> /\ Gives(i)
      BY <1>6 DEF Inside, Gives
    <2>5. c # Handlers
      <3>1. c = Handlers => i.op = "choose"
        BY OneIsSeq DEF Handlers, Choose
      <3> QED
        BY <1>6, <3>1
    <2>6. Tail(O) \in Seq(K)
      BY <1>3, <2>1, HeadTailProperties
    <2> HIDE DEF b1, rest
    <2>7. Stands(rest, b1, w, From(p, 2), e, o, t, T, Tail(O))
      BY <1>3, <2>1, <2>3, <2>6 DEF Stands, z
    <2>8. OnTrack(rest, b1, w, From(p, 2), e, o)
      BY <1>3, <2>3, <2>7 DEF OnTrack
    <2>9. Len(b1.bytes) \in 0 .. BufferSize
      BY <1>3, <2>3 DEF z
    <2> QED
      BY <1>2, <2>3, <2>4, <2>5, <2>8, <2>9 DEF Goes1, GivesNext, b1, rest
  <1>7. CASE i.op = "reset"
    <2>1. O = <<>> /\ Place(rest, <<>>, t, 0) \in Places
      BY <1>1, <1>2, <1>7 DEF Leads
    <2>2. Buffered(i, <<>>, b) = EmptyBuffer /\ Inside(i, <<>>) = <<>> /\ ~ Gives(i)
      BY <1>7 DEF Buffered, Inside, Gives
    <2>3. /\ History(EmptyBuffer, w, p, e, o, T, <<>>) /\ IsBuffer(EmptyBuffer)
          /\ EmptyBuffer.bytes = <<>> /\ EmptyBuffer.read = 0
      BY <1>3, <2>1, Resets
    <2>4. Len(EmptyBuffer.bytes) = 0 /\ 0 \in 0 .. BufferSize
      BY <2>3, ServerCalls, EmptySeq
    <2> HIDE DEF rest
    <2>5. Stands(rest, EmptyBuffer, w, p, e, o, t, T, <<>>)
      BY <1>3, <2>1, <2>3, <2>4, EmptySeq DEF Stands
    <2>6. OnTrack(rest, EmptyBuffer, w, p, e, o)
      BY <1>3, <2>3, <2>4, <2>5 DEF OnTrack
    <2> QED
      BY <1>2, <2>2, <2>4, <2>6 DEF Goes1, rest
  <1> QED
    BY <1>4, <1>5, <1>6, <1>7

\* recv is asked for at least one byte.
LEMMA WantsNumber ==
    ASSUME NEW c, NEW b, NEW w, NEW p, NEW e, NEW o, OnTrack(c, b, w, p, e, o),
           NEW t, NEW T, NEW O, Stands(c, b, w, p, e, o, t, T, O), Leading(c, b, t, T, O),
           NEW i, i = Head(c), Receives(i)
    PROVE  /\ Wanted(i, w) \in Nat \ {0}
           /\ Gives(i) => Wanted(i, w) = i.n
  <1> DEFINE q == Place(c, O, t, Len(b.bytes))
             h == Head(t)
  <1>1. q.code = c /\ q.owed = O /\ q.todo = t
    BY DEF Place
  <1>2. Leads(Places, q) /\ t \in Todo(K) /\ w \in Seq(Byte)
    BY DEF Leading, OnTrack
  <1> HIDE DEF q
  <1>3. t # <<>> /\ For(i, h)
    BY <1>1, <1>2 DEF Leads, Receives, For
  <1>4. h \in Frame(K)
    BY <1>2, <1>3, HeadTailProperties DEF Todo
  <1>5. h \in K
    BY <1>3, <1>4 DEF For, IsText, Frame
  <1> QED
    BY <1>2, <1>3, <1>5, Asks DEF Gives, Wanted

\* What comes into the buffer is as long as what recv was asked for.
LEMMA ReceivedBytes ==
    ASSUME NEW i, NEW w \in Seq(Byte), NEW stale \in Byte, Wanted(i, w) \in Nat
    PROVE  Received(i, w, stale) \in Seq(Byte) /\ Len(Received(i, w, stale)) = Wanted(i, w)
  <1> DEFINE n == Wanted(i, w)
             g == [j \in 1 .. n |-> IF j <= Len(w) THEN w[j] ELSE stale]
  <1>1. n \in Nat /\ Len(w) \in Nat /\ \A j \in 1 .. Len(w) : w[j] \in Byte
    BY LenProperties, ElementOfSeq
  <1> HIDE DEF n
  <1>2. g \in [1 .. n -> Byte]
    BY <1>1
  <1> HIDE DEF g
  <1>3. g \in Seq(Byte) /\ Len(g) = n
    BY <1>1, <1>2
  <1> QED
    BY <1>3 DEF Received, g, n

\* Where the stream ends within a call there is room for the whole of it, too.
LEMMA ReceivesShort ==
    ASSUME NEW c, NEW b, NEW w, NEW p, NEW e, NEW o, OnTrack(c, b, w, p, e, o),
           NEW t, NEW T, NEW O, Stands(c, b, w, p, e, o, t, T, O), Leading(c, b, t, T, O),
           NEW i, i = Head(c), Receives(i), w # <<>>, ~ (Len(w) >= Wanted(i, w)),
           NEW stale \in Byte, NEW g, g = Received(i, w, stale)
    PROVE  /\ From(w, Wanted(i, w) + 1) = <<>>
           /\ IsBuffer(Buffered(i, g, b)) /\ Len(Buffered(i, g, b).bytes) \in 0 .. BufferSize
           /\ ~ Unknown(i, g)
  <1> DEFINE q == Place(c, O, t, Len(b.bytes))
             h == Head(t)
             z == Len(b.bytes)
             n == Wanted(i, w)
  <1>1. q.code = c /\ q.owed = O /\ q.todo = t /\ q.size = z
    BY DEF Place
  <1>2. Leads(Places, q)
    BY DEF Leading
  <1>3. IsBuffer(b) /\ w \in Seq(Byte) /\ z \in 0 .. BufferSize /\ t \in Todo(K)
    BY SizeThere DEF OnTrack, Stands, Leading
  <1> HIDE DEF q
  <1>4. Len(w) \in Nat \ {0}
    BY <1>3, LenProperties, EmptySeq
  <1>5. ASSUME n \in Nat PROVE From(w, n + 1) = <<>>
    <2>1. n + 1 > Len(w)
      BY <1>4, <1>5
    <2> HIDE DEF n
    <2>2. SubSeq(w, n + 1, Len(w)) \in Seq(Byte) /\ Len(SubSeq(w, n + 1, Len(w))) = 0
      BY <1>3, <1>4, <1>5, <2>1
    <2> QED
      BY <2>2, EmptySeq DEF From
  <1>6. t # <<>> => h \in Frame(K)
    BY <1>3, HeadTailProperties DEF Todo
  <1>7. CASE i.op \in {"field", "text"}
    <2>1. n \in Nat /\ z + n <= BufferSize
      <3>1. CASE i.op = "field"
        <4>1. t # <<>> /\ h.k = "unsigned" /\ h.width = i.n /\ z + i.n <= BufferSize
          BY <1>1, <1>2, <3>1 DEF Leads
        <4>2. n = i.n /\ For(i, h) /\ h \in K
          BY <1>6, <3>1, <4>1 DEF Wanted, For, Frame
        <4> QED
          BY <1>3, <4>1, <4>2, Asks
      <3>2. CASE i.op = "text"
        <4>1. t # <<>> /\ IsText(h) /\ z + Base <= BufferSize
          BY <1>1, <1>2, <3>2 DEF Leads
        <4>2. For(i, h) /\ h \in K
          BY <1>6, <3>2, <4>1 DEF For, IsText, Frame
        <4>3. n \in Nat /\ n <= Base
          BY <1>3, <4>1, <4>2, Asks
        <4> QED
          BY <1>3, <4>1, <4>3, ServerCalls
      <3> QED
        BY <1>7, <3>1, <3>2
    <2>2. g \in Seq(Byte) /\ Len(g) = n
      BY <1>3, <2>1, ReceivedBytes
    <2>3. Buffered(i, g, b) = [bytes |-> b.bytes \o g, read |-> b.read] /\ ~ Unknown(i, g)
      BY <1>3, <1>7, BufferFields DEF Buffered, Unknown
    <2>4. b.bytes \in Seq(Byte)
      BY <1>3, BufferFields
    <2>5. b.bytes \o g \in Seq(Byte) /\ Len(b.bytes \o g) = z + n
      <3>1. Len(b.bytes \o g) = Len(b.bytes) + Len(g)
        BY <2>2, <2>4, JoinedAt
      <3>2. b.bytes \o g \in Seq(Byte)
        BY <2>2, <2>4, ConcatProperties
      <3> QED
        BY <2>2, <3>1, <3>2
    <2> DEFINE s == b.bytes \o g
               b1 == [bytes |-> s, read |-> b.read]
    <2>6. b1.bytes = s
      OBVIOUS
    <2>7. IsBuffer(b1)
      BY <2>5 DEF IsBuffer
    <2>8. Len(s) \in 0 .. BufferSize
      <3>1. z + n \in 0 .. BufferSize
        <4> HIDE DEF z, n, s
        <4> QED
          BY <1>3, <2>1, ServerCalls
      <3> QED
        BY <2>5, <3>1
    <2> HIDE DEF s
    <2> QED
      BY <1>5, <2>1, <2>3, <2>6, <2>7, <2>8 DEF s
  <1>8. CASE i.op \in {"local", "times", "choose"}
    <2>1. t # <<>> /\ For(i, h) /\ h \in K /\ (i.op = "choose" => i.n = 1)
      BY <1>1, <1>2, <1>6, <1>8 DEF Leads, For, Frame
    <2>2. n \in Nat /\ n = i.n
      BY <1>3, <1>8, <2>1, Asks DEF Wanted
    <2>3. i.op # "choose"
      BY <1>4, <2>1, <2>2
    <2>4. Buffered(i, g, b) = b /\ ~ Unknown(i, g)
      BY <1>8, <2>3 DEF Buffered, Unknown
    <2> QED
      BY <1>3, <1>5, <2>2, <2>4
  <1> QED
    BY <1>7, <1>8 DEF Receives

-----------------------------------------------------------------------------
(* The invariant of what comes from the server.                            *)

\* The buffer, and what a stream is that has ended within a call.
Contained == /\ IsBuffer(buf) /\ Len(buf.bytes) \in 0 .. BufferSize
             /\ wire \in Seq(Byte) /\ ended # "exit1"
             /\ short => ~ open /\ wire = <<>>

\* Otherwise S is on its way.
Following == ~ short => OnTrack(Code, buf, wire, pending, writes, open)

DownInv == Contained /\ Following

LEMMA DownInit == Init => DownInv
  <1> SUFFICES ASSUME Init PROVE DownInv
    OBVIOUS
  <1>1. /\ writes = <<>> /\ pending = <<>> /\ wire = <<>> /\ open = TRUE
        /\ code = <<>> /\ buf = EmptyBuffer /\ short = FALSE /\ ended = "no"
    BY DEF Init
  <1>2. /\ IsBuffer(EmptyBuffer) /\ EmptyBuffer.bytes = <<>> /\ EmptyBuffer.read = 0
        /\ Len(<<>>) = 0 /\ 0 \in 0 .. BufferSize /\ From(<<>>, 0 + 1) = <<>>
    <2>1. EmptyBuffer.bytes = <<>> /\ EmptyBuffer.read = 0 /\ IsBuffer(EmptyBuffer)
      BY EmptySeq DEF EmptyBuffer, IsBuffer
    <2>2. Len(<<>>) = 0 /\ From(<<>>, 0 + 1) = <<>>
      BY EmptySeq DEF From
    <2>3. 0 \in 0 .. BufferSize
      BY ServerCalls
    <2> QED
      BY <2>1, <2>2, <2>3
  <1>3. Contained
    BY <1>1, <1>2, EmptySeq DEF Contained
  <1>4. History(EmptyBuffer, <<>>, <<>>, <<>>, TRUE, <<>>, <<>>)
    <2>1. InStep(K, ServerMessage, <<>>, <<>>, <<>>, <<>>, <<>>)
      BY ServerCalls, InStepBegins
    <2>2. <<>> \in Seq(Made) /\ <<>> \in Seq(Byte) /\ <<>> \o <<>> = <<>>
      BY EmptySeq, ConcatEmptySeq
    <2>3. Loaded(<<>>, <<>>, From(EmptyBuffer.bytes, EmptyBuffer.read + 1))
      BY <1>2, LoadedNone
    <2> QED
      BY <2>1, <2>2, <2>3 DEF History
  <1>5. Place(Round, <<>>, ServerMessage, 0) \in Places
    BY <1>2, PlacesClosed
  <1>6. Stands(Round, EmptyBuffer, <<>>, <<>>, <<>>, TRUE, ServerMessage, <<>>, <<>>)
    BY <1>2, <1>4, <1>5, ServerCalls, EmptySeq DEF Stands
  <1>7. OnTrack(Round, EmptyBuffer, <<>>, <<>>, <<>>, TRUE)
    <2>1. 0 \in 0 .. Len(<<>>)
      BY <1>2
    <2>2. \E t, T, O : Stands(Round, EmptyBuffer, <<>>, <<>>, <<>>, TRUE, t, T, O)
      BY <1>6
    <2> QED
      BY <1>2, <2>1, <2>2, ServerCalls, EmptySeq DEF OnTrack
  <1>8. Code = Round
    BY <1>1 DEF Code
  <1> QED
    BY <1>1, <1>3, <1>7, <1>8 DEF DownInv, Following

\* The instruction that comes next.
LEMMA CodeLeads ==
    ASSUME DownInv, ~ short
    PROVE  /\ OnTrack(Code, buf, wire, pending, writes, open)
           /\ \E t, T, O : /\ Stands(Code, buf, wire, pending, writes, open, t, T, O)
                           /\ Leading(Code, buf, t, T, O)
  <1>1. OnTrack(Code, buf, wire, pending, writes, open)
    BY DEF DownInv, Following
  <1>2. PICK t, T, O : Stands(Code, buf, wire, pending, writes, open, t, T, O)
    BY <1>1 DEF OnTrack
  <1>3. Code # <<>>
    BY RoundHandled DEF Code, Handles, Concerns
  <1> QED
    BY <1>1, <1>2, <1>3, StandsLeading

\* S, the buffer and what was received are not touched.
LEMMA StillFollowing ==
    ASSUME DownInv, code' = code, buf' = buf, wire' = wire, pending' = pending, writes' = writes,
           open' = open, short' = short, ended' # "exit1"
    PROVE  DownInv'
  BY DEF DownInv, Contained, Following, Code

LEMMA ServerWritesDown == ASSUME DownInv, ServerWrites PROVE DownInv'
  <1> DEFINE x == Current(ServerMessage, writes)
  <1>1. PICK t \in Arguments(Head(x)) : /\ writes' = After(x, t)
                                        /\ wire' = wire \o Encode(Head(x), t)
                                        /\ pending' = pending \o Calls(x, t)
    BY DEF ServerWrites
  <1>2. open /\ open' = open /\ code' = code /\ buf' = buf /\ short' = short /\ ended' = ended
    BY DEF ServerWrites
  <1>3. ~ short /\ Contained /\ Code' = Code
    BY <1>2 DEF DownInv, Contained, Code
  <1>4. /\ IsBuffer(buf) /\ buf.read \in 0 .. Len(buf.bytes) /\ wire \in Seq(Byte)
        /\ writes \in Todo(K)
    BY <1>3 DEF DownInv, Following, OnTrack
  <1>5. PICK t1, T, O : Stands(Code, buf, wire, pending, writes, open, t1, T, O)
    BY <1>3 DEF DownInv, Following, OnTrack
  <1>6. /\ wire' \in Seq(Byte) /\ writes' \in Todo(K)
        /\ History(buf, wire', pending', writes', open, T, O)
    <2>1. x = Begun(ServerMessage, writes)
      BY DEF Current, Begun
    <2>2. T \in Todo(K) /\ History(buf, wire, pending, writes, open, T, O)
      BY <1>5 DEF Stands
    <2> HIDE DEF x
    <2>3. /\ wire \o Encode(Head(x), t) \in Seq(Byte) /\ After(x, t) \in Todo(K)
          /\ History(buf, wire \o Encode(Head(x), t), pending \o Calls(x, t), After(x, t), open, T, O)
      BY <1>2, <1>4, <2>1, <2>2, HistoryWrites
    <2> QED
      BY <1>1, <2>3
  <1>7. OnTrack(Code, buf, wire', pending', writes', open)
    <2>1. Stands(Code, buf, wire', pending', writes', open, t1, T, O)
      BY <1>5, <1>6 DEF Stands
    <2> QED
      BY <1>4, <1>6, <2>1 DEF OnTrack
  <1> QED
    BY <1>2, <1>3, <1>6, <1>7 DEF DownInv, Following, Contained

LEMMA ServerClosesDown == ASSUME DownInv, ServerCloses PROVE DownInv'
  <1>1. PICK k \in 0 .. Len(wire) : wire' = SubSeq(wire, 1, k)
    BY DEF ServerCloses
  <1>2. /\ open /\ open' = FALSE /\ code' = code /\ buf' = buf /\ short' = short /\ ended' = ended
        /\ writes' = writes /\ pending' = pending
    BY DEF ServerCloses
  <1>3. ~ short /\ Contained /\ Code' = Code
    BY <1>2 DEF DownInv, Contained, Code
  <1>4. /\ IsBuffer(buf) /\ buf.read \in 0 .. Len(buf.bytes) /\ wire \in Seq(Byte)
        /\ writes \in Todo(K)
    BY <1>3 DEF DownInv, Following, OnTrack
  <1>5. PICK t, T, O : Stands(Code, buf, wire, pending, writes, open, t, T, O)
    BY <1>3 DEF DownInv, Following, OnTrack
  <1>6. wire' \in Seq(Byte) /\ History(buf, wire', pending, writes, FALSE, T, O)
    <2>1. History(buf, wire, pending, writes, open, T, O)
      BY <1>5 DEF Stands
    <2>2. /\ SubSeq(wire, 1, k) \in Seq(Byte)
          /\ History(buf, SubSeq(wire, 1, k), pending, writes, FALSE, T, O)
      BY <1>2, <1>4, <2>1, HistoryCut
    <2> QED
      BY <1>1, <2>2
  <1>7. OnTrack(Code, buf, wire', pending, writes, FALSE)
    <2>1. Stands(Code, buf, wire', pending, writes, FALSE, t, T, O)
      BY <1>5, <1>6 DEF Stands
    <2> QED
      BY <1>4, <1>6, <2>1 DEF OnTrack
  <1> QED
    BY <1>2, <1>3, <1>6, <1>7 DEF DownInv, Following, Contained

\* What is the same in every step of S.
LEMMA GoesAre ==
    ASSUME NEW got, Goes(got)
    PROVE  /\ Code' = Current(Round, Inside(Instruction, got) \o Tail(Code))
           /\ buf' = Buffered(Instruction, got, buf)
           /\ pending' = IF Gives(Instruction) THEN From(pending, 2) ELSE pending
  BY DEF Goes, Code, Current

LEMMA ReceiveDown == ASSUME DownInv, NEW stale \in Byte, Receive(stale) PROVE DownInv'
  <1> DEFINE i   == Instruction
             got == Received(i, wire, stale)
             n   == Wanted(i, wire)
  <1>1. /\ Receives(i) /\ ~ Waits /\ ~ Gone(i, wire) /\ Goes(got)
        /\ wire' = From(wire, n + 1) /\ short' = (short \/ Len(wire) < n)
        /\ ended = "no" /\ writes' = writes /\ open' = open /\ ended' = ended
    BY DEF Receive
  <1>2. wire # <<>>
    BY <1>1 DEF Gone
  <1>3. ~ short /\ Contained /\ wire \in Seq(Byte) /\ Len(wire) \in Nat
    BY <1>2, LenProperties DEF DownInv, Contained
  <1>4. OnTrack(Code, buf, wire, pending, writes, open)
    BY <1>3, CodeLeads
  <1>5. PICK t, T, O : /\ Stands(Code, buf, wire, pending, writes, open, t, T, O)
                       /\ Leading(Code, buf, t, T, O)
    BY <1>3, CodeLeads
  <1>6. i = Head(Code)
    BY DEF Instruction
  <1>7. /\ Code' = Current(Round, Inside(i, got) \o Tail(Code)) /\ buf' = Buffered(i, got, buf)
        /\ pending' = IF Gives(i) THEN From(pending, 2) ELSE pending
    BY <1>1, GoesAre
  <1> HIDE DEF i, got, n
  <1>8. CASE Len(wire) >= n
    <2>1. Goes1(i, Code, got, buf, wire', pending, writes, open)
      <3>1. Goes1(i, Code, got, buf, From(wire, Wanted(i, wire) + 1), pending, writes, open)
        BY <1>1, <1>2, <1>4, <1>5, <1>6, <1>8, ReceivesWhole DEF got, n
      <3> QED
        BY <1>1, <3>1 DEF n
    <2>2. /\ Len(buf'.bytes) \in 0 .. BufferSize
          /\ OnTrack(Inside(i, got) \o Tail(Code), buf', wire', pending', writes, open)
      BY <1>7, <2>1 DEF Goes1
    <2>3. OnTrack(Code', buf', wire', pending', writes, open)
      BY <1>7, <2>2, RoundAgain
    <2>4. IsBuffer(buf') /\ wire' \in Seq(Byte)
      BY <2>3 DEF OnTrack
    <2>5. short' => FALSE
      <3>1. n \in Nat
        BY <1>1, <1>4, <1>5, <1>6, WantsNumber DEF n
      <3>2. ~ (Len(wire) < n)
        BY <1>3, <1>8, <3>1
      <3> QED
        BY <1>1, <1>3, <3>2, Zenon
    <2> QED
      BY <1>1, <2>2, <2>3, <2>4, <2>5 DEF DownInv, Contained, Following
  <1>9. CASE ~ (Len(wire) >= n)
    <2>1. /\ From(wire, Wanted(i, wire) + 1) = <<>>
          /\ IsBuffer(Buffered(i, got, buf)) /\ Len(Buffered(i, got, buf).bytes) \in 0 .. BufferSize
      BY <1>1, <1>2, <1>4, <1>5, <1>6, <1>9, ReceivesShort DEF got, n
    <2>2. wire' = <<>> /\ IsBuffer(buf') /\ Len(buf'.bytes) \in 0 .. BufferSize
      BY <1>1, <1>7, <2>1 DEF n
    <2>3. Len(wire) < n
      <3>1. n \in Nat
        BY <1>1, <1>4, <1>5, <1>6, WantsNumber DEF n
      <3> QED
        BY <1>3, <1>9, <3>1
    <2>4. ~ open /\ short'
      BY <1>1, <2>3 DEF Waits, n, i
    <2> QED
      BY <1>1, <2>2, <2>4, EmptySeq DEF DownInv, Contained, Following
  <1> QED
    BY <1>8, <1>9

LEMMA ProceedDown == ASSUME DownInv, Proceed PROVE DownInv'
  <1> DEFINE i == Instruction
  <1>1. /\ ~ Receives(i) /\ Goes(<<>>) /\ wire' = wire /\ short' = short
        /\ writes' = writes /\ open' = open /\ ended' = ended
    BY DEF Proceed
  <1>2. /\ Code' = Current(Round, Inside(i, <<>>) \o Tail(Code)) /\ buf' = Buffered(i, <<>>, buf)
        /\ pending' = IF Gives(i) THEN From(pending, 2) ELSE pending
    BY <1>1, GoesAre
  <1>3. i = Head(Code)
    BY DEF Instruction
  <1> HIDE DEF i
  <1>4. CASE ~ short
    <2>1. PICK t, T, O : /\ Stands(Code, buf, wire, pending, writes, open, t, T, O)
                         /\ Leading(Code, buf, t, T, O)
      BY <1>4, CodeLeads
    <2>2. OnTrack(Code, buf, wire, pending, writes, open)
      BY <1>4, CodeLeads
    <2>3. Goes1(i, Code, <<>>, buf, wire, pending, writes, open)
      BY <1>1, <1>3, <2>1, <2>2, ProceedsWell
    <2>4. /\ Len(buf'.bytes) \in 0 .. BufferSize
          /\ OnTrack(Inside(i, <<>>) \o Tail(Code), buf', wire, pending', writes, open)
      BY <1>2, <2>3 DEF Goes1
    <2>5. OnTrack(Code', buf', wire, pending', writes, open)
      BY <1>2, <2>4, RoundAgain
    <2>6. IsBuffer(buf')
      BY <2>5 DEF OnTrack
    <2> QED
      BY <1>1, <1>4, <2>4, <2>5, <2>6 DEF DownInv, Contained, Following
  <1>5. CASE short
    <2>1. IsBuffer(buf) /\ Len(buf.bytes) \in 0 .. BufferSize
      BY DEF DownInv, Contained
    <2>2. IsBuffer(buf') /\ Len(buf'.bytes) \in 0 .. BufferSize
      <3>1. CASE i.op \in {"take", "take_text"}
        <4>1. PICK s \in Seq(Byte) : \E r : buf = [bytes |-> s, read |-> r]
          BY <2>1 DEF IsBuffer
        <4>2. PICK r : buf = [bytes |-> s, read |-> r]
          BY <4>1
        <4>3. \A u : [buf EXCEPT !.read = u] = [bytes |-> s, read |-> u]
          BY <4>2
        <4>4. \E u : buf' = [buf EXCEPT !.read = u]
          BY <1>2, <3>1 DEF Buffered
        <4>5. PICK u : buf' = [bytes |-> s, read |-> u]
          BY <4>3, <4>4
        <4>6. buf'.bytes = s /\ buf.bytes = s
          BY <4>2, <4>5
        <4> QED
          BY <2>1, <4>5, <4>6 DEF IsBuffer
      <3>2. CASE i.op = "reset"
        <4>1. buf' = EmptyBuffer
          BY <1>2, <3>2 DEF Buffered
        <4>2. EmptyBuffer.bytes = <<>> /\ IsBuffer(EmptyBuffer)
          BY EmptySeq DEF EmptyBuffer, IsBuffer
        <4>3. Len(<<>>) = 0 /\ 0 \in 0 .. BufferSize
          BY ServerCalls
        <4> QED
          BY <4>1, <4>2, <4>3
      <3>3. CASE i.op \notin {"take", "take_text", "reset"}
        <4>1. buf' = buf
          BY <1>1, <1>2, <3>3 DEF Buffered, Receives
        <4> QED
          BY <2>1, <4>1
      <3> QED
        BY <3>1, <3>2, <3>3
    <2> QED
      BY <1>1, <1>5, <2>2 DEF DownInv, Contained, Following
  <1> QED
    BY <1>4, <1>5

\* There is no code that is not known.
LEMMA ExitDown == ASSUME DownInv, NEW stale \in Byte, Exit(stale) PROVE DownInv'
  <1> DEFINE i == Instruction
  <1>1. /\ Receives(i) /\ ~ Waits
        /\ code' = code /\ buf' = buf /\ wire' = wire /\ pending' = pending /\ writes' = writes
        /\ open' = open /\ short' = short
        /\ \/ ended' = "exit0"
           \/ ~ Gone(i, wire) /\ Unknown(i, Received(i, wire, stale))
    BY DEF Exit
  <1>2. i = Head(Code)
    BY DEF Instruction
  <1> HIDE DEF i
  <1>3. ASSUME ~ Gone(i, wire) PROVE ~ Unknown(i, Received(i, wire, stale))
    <2>1. wire # <<>>
      BY <1>3 DEF Gone
    <2>2. ~ short
      BY <2>1 DEF DownInv, Contained
    <2>3. PICK t, T, O : /\ Stands(Code, buf, wire, pending, writes, open, t, T, O)
                         /\ Leading(Code, buf, t, T, O)
      BY <2>2, CodeLeads
    <2>4. OnTrack(Code, buf, wire, pending, writes, open)
      BY <2>2, CodeLeads
    <2>5. CASE Len(wire) >= Wanted(i, wire)
      BY <1>1, <1>2, <2>1, <2>3, <2>4, <2>5, ReceivesWhole
    <2>6. CASE ~ (Len(wire) >= Wanted(i, wire))
      BY <1>1, <1>2, <2>1, <2>3, <2>4, <2>6, ReceivesShort
    <2> QED
      BY <2>5, <2>6
  <1>4. ended' # "exit1"
    BY <1>1, <1>3
  <1> QED
    BY <1>1, <1>4, StillFollowing

\* When the bomb is not found the process ends as it is.
LEMMA AbortDown == ASSUME DownInv, Abort PROVE DownInv'
  <1>1. /\ code' = code /\ buf' = buf /\ wire' = wire /\ pending' = pending /\ writes' = writes
        /\ open' = open /\ short' = short /\ ended' # "exit1"
    BY DEF Abort
  <1> QED
    BY <1>1, StillFollowing

\* The other directions leave this one alone.
LEMMA OtherWaysDown ==
    ASSUME DownInv,
           \/ \E d \in Datagrams : DatagramArrives(d)
           \/ LibraryReads
           \/ \E started \in BOOLEAN : Ask(started)
           \/ ServerReads
           \/ \E g \in Games : Draw(g)
           \/ DrawField
           \/ UNCHANGED vars
    PROVE  DownInv'
  <1>1. UNCHANGED downVars
    BY DEF DatagramArrives, LibraryReads, Ask, ServerReads, Draw, DrawField, vars
  <1>2. /\ code' = code /\ buf' = buf /\ wire' = wire /\ pending' = pending /\ writes' = writes
        /\ open' = open /\ short' = short /\ ended' = ended
    BY <1>1 DEF downVars
  <1> QED
    BY <1>2, StillFollowing DEF DownInv, Contained

LEMMA DownAlways == Spec => []DownInv
  <1>1. ASSUME DownInv, [Next]_vars PROVE DownInv'
    BY <1>1, ServerWritesDown, ServerClosesDown, ReceiveDown, ExitDown, ProceedDown, AbortDown,
       OtherWaysDown
       DEF Next
  <1> QED
    BY <1>1, DownInit, PTL DEF Spec

\* Every field that class Game or a handler is given is the oldest one that the server
\* wrote and that was not given yet; no code is unknown, and only what the end of the
\* stream cuts is spoiled (client.cpp:168-236; events.cpp:15-62).
THEOREM OnlyCutMessageSpoiledCorrect == Spec => []OnlyCutMessageSpoiled
  <1>1. ASSUME DownInv PROVE OnlyCutMessageSpoiled
    <2> DEFINE i   == Instruction
               got == SubSeq(wire, 1, i.n)
    <2>1. ended # "exit1" /\ (short => ~ open /\ wire = <<>>)
      BY <1>1 DEF DownInv, Contained
    <2>2. ASSUME ~ short, Gives(i), Receives(i) => Len(wire) >= i.n
          PROVE  GivesNext(i, Code, got, buf, pending)
      <3>1. PICK t, T, O : /\ Stands(Code, buf, wire, pending, writes, open, t, T, O)
                           /\ Leading(Code, buf, t, T, O)
        BY <1>1, <2>2, CodeLeads
      <3>2. OnTrack(Code, buf, wire, pending, writes, open)
        BY <1>1, <2>2, CodeLeads
      <3>3. i = Head(Code)
        BY DEF Instruction
      <3> HIDE DEF i
      <3>4. CASE Receives(i)
        <4>1. Wanted(i, wire) = i.n /\ i.n \in Nat \ {0}
          BY <2>2, <3>1, <3>2, <3>3, <3>4, WantsNumber
        <4>2. wire # <<>> /\ Len(wire) >= Wanted(i, wire)
          <5>1. Len(wire) >= i.n
            BY <2>2, <3>4
          <5>2. wire \in Seq(Byte)
            BY <3>2 DEF OnTrack
          <5>3. Len(wire) # 0
            BY <4>1, <5>1, <5>2, LenProperties
          <5> QED
            BY <4>1, <5>1, <5>2, <5>3, EmptySeq
        <4>3. \A stale, g : g = Received(i, wire, stale) =>
                (Gives(i) => GivesNext(i, Code, SubSeq(wire, 1, i.n), buf, pending))
          BY <3>1, <3>2, <3>3, <3>4, <4>2, ReceivesWhole
        <4> QED
          BY <2>2, <4>3
      <3>5. CASE ~ Receives(i)
        BY <2>2, <3>1, <3>2, <3>3, <3>5, ProceedsWell
      <3> QED
        BY <3>4, <3>5
    <2> HIDE DEF i, got
    <2>3. ASSUME ~ short, Gives(i), Receives(i) => Len(wire) >= i.n
          PROVE  /\ pending # <<>> /\ Head(pending).token = Given(i, got, buf)
                 /\ Code = Handlers => Head(pending).at = ServerMessage
      BY <2>2, <2>3 DEF GivesNext
    <2> QED
      BY <2>1, <2>3 DEF OnlyCutMessageSpoiled, i, got
  <1> QED
    BY <1>1, DownAlways, PTL

\* No write into a Buffer goes beyond its end, however long the messages are, when every
\* single event and player fits (buffer.cpp:42; events.cpp:69).
THEOREM StaysInBufferCorrect == Spec => []StaysInBuffer
  <1>1. DownInv => StaysInBuffer
    BY ServerCalls DEF DownInv, Contained, StaysInBuffer
  <1> QED
    BY <1>1, DownAlways, PTL

-----------------------------------------------------------------------------
(* Requests to the server.                                                 *)

\* The calls of a request.
Requested == {ClientMessage[1], Str[1], Direction[1]}

LEMMA RequestTypes ==
    /\ Supported(Requested) /\ ClientMessage \in Seq(Requested) /\ ClientMessage \in Todo(Requested)
    /\ ClientMessage # <<>> /\ <<>> \in Todo(Requested) /\ <<>> \in CallsOf(Requested)
    /\ Head(ClientMessage).k = "variant" /\ Tail(ClientMessage) = <<>>
    /\ Head(ClientMessage).of = <<Str, <<>>, <<>>, Direction>>
    /\ Str \in Todo(Requested) /\ Head(Str).k = "str" /\ Tail(Str) = <<>> /\ Str # <<>>
    /\ Direction \in Todo(Requested) /\ Head(Direction).k = "variant" /\ Tail(Direction) = <<>>
    /\ Head(Direction).of = <<<<>>, <<>>, <<>>, <<>>>> /\ Direction # <<>>
  <1> DEFINE c == [k |-> "variant", of |-> <<Str, <<>>, <<>>, Direction>>]
             s == [k |-> "str"]
             d == [k |-> "variant", of |-> <<<<>>, <<>>, <<>>, <<>>>>]
  <1>1. ClientMessage = <<c>> /\ Str = <<s>> /\ Direction = <<d>>
    BY DEF ClientMessage, Str, Direction, Enum
  <1>2. Requested = {c, s, d}
    BY <1>1 DEF Requested
  <1>3. c.k = "variant" /\ c.of = <<Str, <<>>, <<>>, Direction>>
    OBVIOUS
  <1>4. d.k = "variant" /\ d.of = <<<<>>, <<>>, <<>>, <<>>>> /\ s.k = "str"
    OBVIOUS
  <1> HIDE DEF c, s, d
  <1>5. ClientMessage \in Seq(Requested) /\ Str \in Seq(Requested) /\ Direction \in Seq(Requested) /\ <<>> \in Seq(Requested)
    BY <1>1, <1>2
  <1>6. c.of \in Seq(Seq(Requested)) /\ Len(c.of) = 4
    BY <1>3, <1>5
  <1>7. d.of \in Seq(Seq(Requested)) /\ Len(d.of) = 4
    BY <1>4, <1>5
  <1>8. 4 <= Base
    BY BaseAssumption
  <1>9. Supported(Requested)
    <2>1. Len(c.of) <= Base /\ Len(d.of) <= Base
      BY <1>6, <1>7, <1>8
    <2> QED
      BY <1>2, <1>3, <1>4, <1>6, <1>7, <2>1 DEF Supported
  <1>10. \A T \in Seq(Requested) : T \in Todo(Requested)
    BY SeqMonotonic DEF Todo, Frame
  <1>11. /\ ClientMessage # <<>> /\ Head(ClientMessage) = c /\ Tail(ClientMessage) = <<>>
         /\ Str # <<>> /\ Head(Str) = s /\ Tail(Str) = <<>>
         /\ Direction # <<>> /\ Head(Direction) = d /\ Tail(Direction) = <<>>
    BY <1>1
  <1>12. <<>> \in CallsOf(Requested)
    BY EmptySeq DEF CallsOf
  <1> QED
    BY <1>3, <1>4, <1>5, <1>9, <1>10, <1>11, <1>12, Zenon

\* There are no lists in a request.
LEMMA RequestedAfter ==
    ASSUME NEW x \in Seq(Requested), x # <<>>, NEW v \in Tokens(Head(x))
    PROVE  /\ Head(x) \in Requested /\ Head(x).k # "counted" /\ Encode(Head(x), v) # <<>>
           /\ After(x, v) \in Seq(Requested)
  <1>1. Head(x) \in Requested /\ Tail(x) \in Seq(Requested)
    BY HeadTailProperties
  <1>2. CASE Head(x).k = "str"
    <2>1. Encode(Head(x), v) # <<>>
      <3>1. Head(x) \in Frame(Requested)
        BY <1>1 DEF Frame
      <3>2. CallOK(Head(x))
        BY <3>1, RequestTypes, FrameCalls, Zenon
      <3> QED
        BY <1>2, <3>2 DEF CallOK
    <2>2. Follow(Head(x), v) = <<>>
      BY <1>2 DEF Follow
    <2>3. After(x, v) = Tail(x)
      BY <1>1, <2>2, ConcatEmptySeq DEF After
    <2> QED
      BY <1>1, <1>2, <2>1, <2>3
  <1>3. CASE Head(x).k = "variant" /\ Head(x).of \in Seq(Seq(Requested))
    <2>1. Encode(Head(x), v) = <<v>> /\ <<v>> # <<>>
      BY <1>3 DEF Encode
    <2>2. v + 1 \in 1 .. Len(Head(x).of)
      <3>1. v \in 0 .. Len(Head(x).of) - 1 /\ Len(Head(x).of) \in Nat
        BY <1>3, LenProperties DEF Tokens
      <3> QED
        BY <3>1
    <2>3. Follow(Head(x), v) \in Seq(Requested)
      BY <1>3, <2>2, ElementOfSeq DEF Follow
    <2>4. After(x, v) \in Seq(Requested)
      BY <1>1, <2>3, ConcatProperties DEF After
    <2> QED
      BY <1>1, <1>3, <2>1, <2>4
  <1>4. \/ Head(x).k = "str"
        \/ Head(x).k = "variant" /\ Head(x).of \in Seq(Seq(Requested))
    <2>1. Head(x).k \in {"str", "variant"}
      BY <1>1, RequestTypes DEF Requested, ClientMessage, Str, Direction, Enum
    <2> QED
      BY <1>1, <2>1, RequestTypes DEF Supported
  <1> QED
    BY <1>2, <1>3, <1>4

\* The library has made the calls c of the datagram d, has t left to do and the rest
\* of the datagram from place n on left to read.
ReadTo(d, i, t, c, n) ==
    \E a : i = [todo |-> t, input |-> From(d, n), calls |-> c, again |-> a, r |-> "ok"]

\* How far the library is with a datagram.
NothingRead(d, i) == ReadTo(d, i, InputMessage, <<>>, 1)

VariantRead(d, i) ==
    /\ d # <<>> /\ d[1] \in {0, 1, 2}
    /\ ReadTo(d, i, IF d[1] = 2 THEN Direction ELSE <<>>,
              <<[at |-> InputMessage, token |-> d[1]]>>, 2)

DirectionRead(d, i) ==
    /\ Len(d) >= 2 /\ d[1] = 2 /\ d[2] \in {0, 1, 2, 3}
    /\ ReadTo(d, i, <<>>, <<[at |-> InputMessage, token |-> 2], [at |-> Direction, token |-> d[2]]>>, 3)

NotRead(d, i) == i.r \in {"eof", "bad"} /\ ~ IsValid(d)

HasRead(d, i) ==
    i = Unread \/ NothingRead(d, i) \/ VariantRead(d, i) \/ DirectionRead(d, i) \/ NotRead(d, i)

\* The byte of an enum.
LEMMA ReadsVariant ==
    ASSUME NEW h, h.k = "variant", NEW n, n = Len(h.of), n \in Nat,
           NEW b \in Seq(Byte)
    PROVE  /\ b = <<>> => Decode(h, b) = Eof
           /\ b # <<>> => b[1] \in Byte
           /\ b # <<>> /\ b[1] >= n => Decode(h, b) = Bad
           /\ b # <<>> /\ ~ (b[1] >= n) => Decode(h, b) = Ok(b[1], From(b, 2)) /\ b[1] \in 0 .. n - 1
  <1>1. Decode(h, b) = DecodeVariant(n, b)
    BY DEF Decode
  <1>2. b # <<>> => b[1] \in Byte
    <2> SUFFICES ASSUME b # <<>> PROVE b[1] \in Byte
      OBVIOUS
    <2>1. 1 \in 1 .. Len(b)
      BY LenProperties, EmptySeq
    <2> QED
      BY <2>1, ElementOfSeq
  <1>3. b # <<>> /\ ~ (b[1] >= n) => b[1] \in 0 .. n - 1
    <2> DEFINE y == b[1]
    <2> SUFFICES ASSUME b # <<>>, ~ (y >= n) PROVE y \in 0 .. n - 1
      OBVIOUS
    <2>1. y \in Nat
      BY <1>2, BaseAssumption DEF Byte
    <2> HIDE DEF y
    <2> QED
      BY <2>1
  <1> QED
    BY <1>1, <1>2, <1>3 DEF DecodeVariant

\* The rest of a rest.
LEMMA RestOfRest ==
    ASSUME NEW d \in Seq(Byte), Len(d) >= 1
    PROVE  /\ From(d, 2) \in Seq(Byte) /\ Len(From(d, 2)) = Len(d) - 1
           /\ From(d, 2) # <<>> <=> Len(d) >= 2
           /\ From(d, 2) # <<>> => From(d, 2)[1] = d[2] /\ From(From(d, 2), 2) = From(d, 3)
  <1> DEFINE b == From(d, 2)
  <1>1. Len(d) \in Nat
    BY LenProperties
  <1>2. /\ b \in Seq(Byte) /\ Len(b) = Len(d) - 1
        /\ \A j \in 1 .. Len(d) - 1 : b[j] = d[1 + j]
    <2>1. 1 \in 0 .. Len(d) /\ 1 + 1 = 2
      BY <1>1
    <2>2. \A k \in 0 .. Len(d) :
             /\ From(d, k + 1) \in Seq(Byte) /\ Len(From(d, k + 1)) = Len(d) - k
             /\ \A j \in 1 .. Len(d) - k : From(d, k + 1)[j] = d[k + j]
      BY Cut
    <2> QED
      BY <2>1, <2>2
  <1>3. b # <<>> <=> Len(d) >= 2
    <2> HIDE DEF b
    <2>1. b = <<>> <=> Len(b) = 0
      BY <1>2, EmptySeq
    <2>2. Len(d) - 1 = 0 <=> ~ (Len(d) >= 2)
      <3> DEFINE n == Len(d)
      <3>1. n \in Nat /\ n >= 1
        BY <1>1
      <3> HIDE DEF n
      <3>2. n - 1 = 0 => ~ (n >= 2)
        BY <3>1
      <3>3. ~ (n >= 2) => n - 1 = 0
        BY <3>1
      <3> QED
        BY <3>2, <3>3 DEF n
    <2> QED
      BY <1>2, <2>1, <2>2
  <1>4. ASSUME Len(d) >= 2 PROVE b[1] = d[2] /\ From(b, 2) = From(d, 3)
    <2> HIDE DEF b
    <2>1. 1 \in 1 .. Len(d) - 1 /\ 1 + 1 = 2 /\ 2 + 1 = 3 /\ 2 \in 0 .. Len(d)
      BY <1>1, <1>4
    <2>2. b[1] = d[2]
      BY <1>2, <2>1
    <2>3. 1 \in 0 .. Len(b)
      BY <1>1, <1>2, <1>4
    <2> DEFINE e == From(b, 2)
               f == From(d, 3)
    <2>4. /\ e \in Seq(Byte) /\ Len(e) = Len(b) - 1
          /\ \A j \in 1 .. Len(b) - 1 : e[j] = b[1 + j]
      <3>1. \A k \in 0 .. Len(b) :
               /\ From(b, k + 1) \in Seq(Byte) /\ Len(From(b, k + 1)) = Len(b) - k
               /\ \A j \in 1 .. Len(b) - k : From(b, k + 1)[j] = b[k + j]
        <4>1. b \in Seq(Byte)
          BY <1>2
        <4> QED
          BY <4>1, Cut, Zenon
      <3> QED
        BY <2>1, <2>3, <3>1
    <2>5. /\ f \in Seq(Byte) /\ Len(f) = Len(d) - 2
          /\ \A j \in 1 .. Len(d) - 2 : f[j] = d[2 + j]
      <3>1. \A k \in 0 .. Len(d) :
               /\ From(d, k + 1) \in Seq(Byte) /\ Len(From(d, k + 1)) = Len(d) - k
               /\ \A j \in 1 .. Len(d) - k : From(d, k + 1)[j] = d[k + j]
        BY Cut
      <3> QED
        BY <2>1, <3>1
    <2> HIDE DEF e, f
    <2>6. Len(e) = Len(f) /\ Len(e) = Len(d) - 2
      BY <1>1, <1>2, <2>4, <2>5
    <2>7. ASSUME NEW j \in 1 .. Len(d) - 2 PROVE e[j] = f[j]
      <3>1. j \in 1 .. Len(b) - 1 /\ 1 + j \in 1 .. Len(d) - 1 /\ 1 + (1 + j) = 2 + j
        BY <1>1, <1>2, <2>7
      <3>2. e[j] = b[1 + j] /\ b[1 + j] = d[1 + (1 + j)] /\ f[j] = d[2 + j]
        BY <1>2, <2>4, <2>5, <2>7, <3>1
      <3> QED
        BY <3>1, <3>2
    <2>8. e = f
      BY <2>4, <2>5, <2>6, <2>7, SeqEqual
    <2> QED
      BY <2>2, <2>8 DEF e, f
  <1> QED
    BY <1>2, <1>3, <1>4

LEMMA ReadToIs ==
    ASSUME NEW d, NEW i, NEW t, NEW c, NEW n, ReadTo(d, i, t, c, n)
    PROVE  i.r = "ok" /\ i.todo = t /\ i.calls = c /\ i.input = From(d, n)
  BY DEF ReadTo

\* A call that succeeds.
LEMMA ReadsFurther ==
    ASSUME NEW d, NEW i, NEW t, NEW c, NEW n, ReadTo(d, i, t, c, n), NEW v, NEW m,
           Decode(Head(t), From(d, n)) = Ok(v, From(d, m))
    PROVE  ReadTo(d, Deserialize(i), After(t, v), c \o Calls(t, v), m)
  <1>1. i.todo = t /\ i.calls = c /\ i.input = From(d, n)
    BY DEF ReadTo
  <1>2. Decode(Head(i.todo), i.input) = Ok(v, From(d, m))
    BY <1>1
  <1>3. \E a : Deserialize(i) = [todo |-> After(i.todo, v), input |-> From(d, m),
                                 calls |-> i.calls \o Calls(i.todo, v), again |-> a, r |-> "ok"]
    BY <1>2, DeserializeOk
  <1> QED
    BY <1>1, <1>3 DEF ReadTo

\* One that does not.
LEMMA ReadsNoFurther ==
    ASSUME NEW d, NEW i, NEW t, NEW c, NEW n, ReadTo(d, i, t, c, n),
           Decode(Head(t), From(d, n)) \in {Eof, Bad}
    PROVE  Deserialize(i).r \in {"eof", "bad"}
  <1> DEFINE o == Decode(Head(t), From(d, n))
  <1>1. PICK a : i = [todo |-> t, input |-> From(d, n), calls |-> c, again |-> a, r |-> "ok"]
    BY DEF ReadTo
  <1>2. o.r \in {"eof", "bad"} /\ Deserialize(i) = [i EXCEPT !.r = o.r]
    BY <1>1, DeserializeNot
  <1> HIDE DEF o
  <1> QED
    BY <1>1, <1>2

\* The types of the interface.
LEMMA InputTypes ==
    /\ InputMessage # <<>> /\ Tail(InputMessage) = <<>> /\ Head(InputMessage).k = "variant"
    /\ Head(InputMessage).of = <<<<>>, <<>>, Direction>> /\ Len(Head(InputMessage).of) = 3
    /\ Len(Head(Direction).of) = 4
    /\ \A t : Calls(InputMessage, t) = <<[at |-> InputMessage, token |-> t]>>
    /\ \A t : Calls(Direction, t) = <<[at |-> Direction, token |-> t]>>
    /\ \A t \in {0, 1} : After(InputMessage, t) = <<>>
    /\ After(InputMessage, 2) = Direction
    /\ \A t \in {0, 1, 2, 3} : After(Direction, t) = <<>>
  <1> DEFINE m == [k |-> "variant", of |-> <<<<>>, <<>>, Direction>>]
  <1>1. InputMessage = <<m>>
    BY DEF InputMessage, Enum
  <1>2. m.k = "variant" /\ m.of = <<<<>>, <<>>, Direction>>
    OBVIOUS
  <1> HIDE DEF m
  <1>3. Head(InputMessage) = m /\ Tail(InputMessage) = <<>> /\ InputMessage # <<>>
    BY <1>1
  <1>4. /\ m.of[0 + 1] = <<>> /\ m.of[1 + 1] = <<>> /\ m.of[2 + 1] = Direction
        /\ Len(m.of) = 3
    BY <1>2
  <1>5. /\ Head(Direction).of[0 + 1] = <<>> /\ Head(Direction).of[1 + 1] = <<>>
        /\ Head(Direction).of[2 + 1] = <<>> /\ Head(Direction).of[3 + 1] = <<>>
        /\ Len(Head(Direction).of) = 4
    <2> DEFINE e == Head(Direction).of
    <2>1. e = <<<<>>, <<>>, <<>>, <<>>>>
      BY RequestTypes
    <2> HIDE DEF e
    <2>2. e[0 + 1] = <<>> /\ e[1 + 1] = <<>> /\ e[2 + 1] = <<>> /\ e[3 + 1] = <<>> /\ Len(e) = 4
      BY <2>1
    <2> QED
      BY <2>2 DEF e
  <1>6. Direction \o <<>> = Direction /\ <<>> \o <<>> = <<>>
    BY RequestTypes, ConcatEmptySeq, EmptySeq DEF Todo
  <1>7. \A t \in {0, 1} : After(InputMessage, t) = <<>>
    <2> SUFFICES ASSUME NEW t \in {0, 1} PROVE After(InputMessage, t) = <<>>
      OBVIOUS
    <2>1. Follow(m, t) = m.of[t + 1]
      BY <1>2 DEF Follow
    <2>2. Follow(m, t) = <<>>
      BY <1>4, <2>1
    <2> QED
      BY <1>3, <1>6, <2>2 DEF After
  <1>8. After(InputMessage, 2) = Direction
    <2>1. Follow(m, 2) = m.of[2 + 1]
      BY <1>2 DEF Follow
    <2> QED
      BY <1>3, <1>4, <1>6, <2>1 DEF After
  <1>9. \A t \in {0, 1, 2, 3} : After(Direction, t) = <<>>
    <2> SUFFICES ASSUME NEW t \in {0, 1, 2, 3} PROVE After(Direction, t) = <<>>
      OBVIOUS
    <2>1. Follow(Head(Direction), t) = Head(Direction).of[t + 1]
      BY RequestTypes DEF Follow
    <2>2. Follow(Head(Direction), t) = <<>>
      BY <1>5, <2>1
    <2>3. Tail(Direction) = <<>>
      BY RequestTypes
    <2> QED
      BY <1>6, <2>2, <2>3 DEF After
  <1>10. /\ \A t : Calls(InputMessage, t) = <<[at |-> InputMessage, token |-> t]>>
         /\ \A t : Calls(Direction, t) = <<[at |-> Direction, token |-> t]>>
    BY <1>2, <1>3, RequestTypes DEF Calls
  <1> QED
    BY <1>2, <1>3, <1>4, <1>5, <1>7, <1>8, <1>9, <1>10, Zenon

\* from_bytes begins at the beginning of the datagram.
LEMMA ReadingBegins ==
    ASSUME NEW d \in Seq(Byte)
    PROVE  NothingRead(d, Deserializer(InputMessage, d))
  <1>1. From(d, 1) = d
    BY SubSeqFull DEF From
  <1> QED
    BY <1>1 DEF Deserializer, NothingRead, ReadTo

LEMMA TwoJoined == ASSUME NEW a, NEW e PROVE <<a>> \o <<e>> = <<a, e>>
  <1> DEFINE s == <<a>> \o <<e>>
             t == <<a, e>>
  <1>1. <<a>> \in Seq({a, e}) /\ <<e>> \in Seq({a, e})
    OBVIOUS
  <1>2. t \in Seq({a, e}) /\ Len(t) = 2 /\ t[1] = a /\ t[2] = e
    OBVIOUS
  <1>3. s \in Seq({a, e}) /\ Len(s) = 2 /\ s[1] = a /\ s[2] = e
    OBVIOUS
  <1> HIDE DEF s, t
  <1>4. \A i \in 1 .. Len(s) : s[i] = t[i]
    BY <1>2, <1>3
  <1>5. s = t
    BY <1>2, <1>3, <1>4, SeqEqual
  <1> QED
    BY <1>5 DEF s, t

\* One call of the library: a datagram is not a message as soon as it refuses a byte, or
\* misses one.
LEMMA ReadsOn ==
    ASSUME NEW d \in Seq(Byte), NEW i, HasRead(d, i), Reading(i)
    PROVE  HasRead(d, Deserialize(i))
  <1> DEFINE o == Deserialize(i)
  <1>1. i.r = "ok" /\ i.todo # <<>>
    BY DEF Reading
  <1>2. i # Unread /\ ~ NotRead(d, i) /\ ~ DirectionRead(d, i)
    <2>1. Unread.r = "unread"
      BY EmptySeq, Begins
    <2>2. ~ DirectionRead(d, i)
      BY <1>1, ReadToIs DEF DirectionRead
    <2> QED
      BY <1>1, <2>1, <2>2 DEF NotRead
  <1> HIDE DEF o
  <1>3. CASE NothingRead(d, i)
    <2> DEFINE h == Head(InputMessage)
    <2>1. h.k = "variant" /\ Len(h.of) = 3 /\ 3 \in Nat
      BY InputTypes
    <2>2. From(d, 1) = d
      BY SubSeqFull DEF From
    <2>3. ReadTo(d, i, InputMessage, <<>>, 1)
      BY <1>3 DEF NothingRead
    <2> HIDE DEF h
    <2>4. CASE d = <<>>
      <3>1. Decode(h, From(d, 1)) = Eof
        BY <2>1, <2>2, <2>4, ReadsVariant
      <3>2. o.r \in {"eof", "bad"}
        BY <2>3, <3>1, ReadsNoFurther DEF h, o
      <3>3. ~ IsValid(d)
        BY <2>4, EmptySeq DEF IsValid
      <3> QED
        BY <3>2, <3>3 DEF HasRead, NotRead, o
    <2>5. CASE d # <<>> /\ d[1] >= 3
      <3>1. Decode(h, From(d, 1)) = Bad
        BY <2>1, <2>2, <2>5, ReadsVariant
      <3>2. o.r \in {"eof", "bad"}
        BY <2>3, <3>1, ReadsNoFurther DEF h, o
      <3>3. ~ IsValid(d)
        BY <2>5 DEF IsValid
      <3> QED
        BY <3>2, <3>3 DEF HasRead, NotRead, o
    <2>6. CASE d # <<>> /\ ~ (d[1] >= 3)
      <3>1. Decode(h, From(d, 1)) = Ok(d[1], From(d, 2)) /\ d[1] \in 0 .. 3 - 1
        BY <2>1, <2>2, <2>6, ReadsVariant
      <3>2. ReadTo(d, o, After(InputMessage, d[1]), <<>> \o Calls(InputMessage, d[1]), 2)
        BY <2>3, <3>1, ReadsFurther DEF h, o
      <3>3. d[1] \in {0, 1, 2}
        BY <3>1
      <3> DEFINE a == [at |-> InputMessage, token |-> d[1]]
      <3>4. <<>> \o Calls(InputMessage, d[1]) = <<a>>
        <4>1. Calls(InputMessage, d[1]) = <<a>>
          BY InputTypes
        <4> HIDE DEF a
        <4> QED
          BY <4>1
      <3>5. After(InputMessage, d[1]) = IF d[1] = 2 THEN Direction ELSE <<>>
        BY <3>3, InputTypes
      <3>6. VariantRead(d, o)
        BY <2>6, <3>2, <3>3, <3>4, <3>5 DEF VariantRead
      <3> QED
        BY <3>6 DEF HasRead, o
    <2> QED
      BY <2>4, <2>5, <2>6
  <1>4. CASE VariantRead(d, i)
    <2> DEFINE h == Head(Direction)
               b == From(d, 2)
    <2>1. h.k = "variant" /\ Len(h.of) = 4 /\ 4 \in Nat
      BY InputTypes, RequestTypes
    <2>2. d[1] = 2 /\ ReadTo(d, i, Direction, <<[at |-> InputMessage, token |-> 2]>>, 2)
      BY <1>1, <1>4, ReadToIs DEF VariantRead
    <2>3. Len(d) \in Nat /\ Len(d) >= 1
      <3>1. Len(d) \in Nat /\ Len(d) # 0
        BY <1>4, LenProperties, EmptySeq DEF VariantRead
      <3> QED
        BY <3>1
    <2>4. /\ b \in Seq(Byte) /\ (b # <<>> <=> Len(d) >= 2)
          /\ b # <<>> => b[1] = d[2] /\ From(b, 2) = From(d, 3)
      BY <2>3, RestOfRest
    <2> HIDE DEF h, b
    <2>5. CASE b = <<>>
      <3>1. Decode(h, b) = Eof
        BY <2>1, <2>4, <2>5, ReadsVariant
      <3>2. o.r \in {"eof", "bad"}
        BY <2>2, <3>1, ReadsNoFurther DEF h, b, o
      <3>3. ~ IsValid(d)
        <4>1. ~ (Len(d) >= 2)
          BY <2>4, <2>5
        <4>2. Len(d) # 2
          BY <2>3, <4>1
        <4> QED
          BY <2>2, <4>2 DEF IsValid
      <3> QED
        BY <3>2, <3>3 DEF HasRead, NotRead, o
    <2>6. CASE b # <<>> /\ b[1] >= 4
      <3>1. Decode(h, b) = Bad
        BY <2>1, <2>4, <2>6, ReadsVariant
      <3>2. o.r \in {"eof", "bad"}
        BY <2>2, <3>1, ReadsNoFurther DEF h, b, o
      <3>3. b[1] \in Nat
        BY <2>1, <2>4, <2>6, ReadsVariant, BaseAssumption DEF Byte
      <3>4. ~ IsValid(d)
        <4>1. ~ (d[2] < 4)
          BY <2>4, <2>6, <3>3
        <4> QED
          BY <2>2, <4>1 DEF IsValid
      <3> QED
        BY <3>2, <3>4 DEF HasRead, NotRead, o
    <2>7. CASE b # <<>> /\ ~ (b[1] >= 4)
      <3>1. Decode(h, b) = Ok(d[2], From(d, 3)) /\ d[2] \in 0 .. 4 - 1 /\ Len(d) >= 2
        BY <2>1, <2>4, <2>7, ReadsVariant
      <3>2. d[2] \in {0, 1, 2, 3}
        BY <3>1
      <3> DEFINE a == [at |-> InputMessage, token |-> 2]
                 e == [at |-> Direction, token |-> d[2]]
      <3>3. ReadTo(d, o, After(Direction, d[2]), <<a>> \o Calls(Direction, d[2]), 3)
        BY <2>2, <3>1, ReadsFurther DEF h, b, o
      <3>4. <<a>> \o Calls(Direction, d[2]) = <<a, e>>
        <4>1. Calls(Direction, d[2]) = <<e>>
          BY InputTypes
        <4> HIDE DEF a, e
        <4> QED
          BY <4>1, TwoJoined
      <3>5. After(Direction, d[2]) = <<>>
        BY <3>2, InputTypes
      <3>6. DirectionRead(d, o)
        BY <2>2, <3>1, <3>2, <3>3, <3>4, <3>5 DEF DirectionRead
      <3> QED
        BY <3>6 DEF HasRead, o
    <2> QED
      BY <2>5, <2>6, <2>7
  <1> QED
    BY <1>2, <1>3, <1>4 DEF HasRead, o

\* What the client takes for a message is what the library takes for one.
LEMMA ValidIsAccepted ==
    ASSUME NEW d \in Seq(Byte), NEW i, HasRead(d, i), i # Unread, ~ Reading(i)
    PROVE  /\ Accepted(i) <=> IsValid(d)
           /\ Accepted(i) =>
                \/ /\ VariantRead(d, i) /\ d[1] \in {0, 1} /\ Len(d) = 1
                \/ /\ DirectionRead(d, i) /\ Len(d) = 2
  <1>1. ~ NothingRead(d, i)
    BY ReadToIs, InputTypes DEF NothingRead, Reading
  <1>2. Len(d) \in Nat
    BY LenProperties
  <1>3. CASE NotRead(d, i)
    BY <1>3 DEF NotRead, Accepted
  <1>4. CASE VariantRead(d, i)
    <2>1. d # <<>> /\ d[1] \in {0, 1} /\ i.r = "ok" /\ i.todo = <<>> /\ i.input = From(d, 2)
      <3>1. /\ d # <<>> /\ d[1] \in {0, 1, 2} /\ i.r = "ok" /\ i.input = From(d, 2)
            /\ i.todo = IF d[1] = 2 THEN Direction ELSE <<>>
        BY <1>4, ReadToIs DEF VariantRead
      <3>2. i.todo = <<>>
        BY <3>1 DEF Reading
      <3> QED
        BY <3>1, <3>2, RequestTypes
    <2>2. Len(d) # 0
      BY <2>1, EmptySeq
    <2>3. Len(d) >= 1
      BY <1>2, <2>2
    <2>4. From(d, 2) # <<>> <=> Len(d) >= 2
      BY <2>3, RestOfRest
    <2>5. Len(d) >= 2 <=> Len(d) # 1
      <3> DEFINE n == Len(d)
      <3>1. n \in Nat /\ n >= 1
        BY <1>2, <2>3
      <3> HIDE DEF n
      <3>2. n >= 2 => n # 1
        BY <3>1
      <3>3. n # 1 => n >= 2
        BY <3>1
      <3> QED
        BY <3>2, <3>3 DEF n
    <2>6. IsValid(d) <=> Len(d) = 1
      BY <2>1 DEF IsValid
    <2>7. Accepted(i) <=> From(d, 2) = <<>>
      BY <2>1 DEF Accepted
    <2> QED
      BY <1>4, <2>1, <2>4, <2>5, <2>6, <2>7
  <1>5. CASE DirectionRead(d, i)
    <2>1. /\ Len(d) >= 2 /\ d[1] = 2 /\ d[2] \in {0, 1, 2, 3}
          /\ i.r = "ok" /\ i.todo = <<>> /\ i.input = From(d, 3)
      BY <1>5, ReadToIs DEF DirectionRead
    <2>2. 2 \in 0 .. Len(d) /\ 2 + 1 = 3
      BY <1>2, <2>1
    <2>3. \A k \in 0 .. Len(d) : From(d, k + 1) \in Seq(Byte) /\ Len(From(d, k + 1)) = Len(d) - k
      BY Cut
    <2>4. From(d, 3) \in Seq(Byte) /\ Len(From(d, 3)) = Len(d) - 2
      BY <2>2, <2>3
    <2>5. From(d, 3) = <<>> <=> Len(From(d, 3)) = 0
      BY <2>4, EmptySeq
    <2>6. Len(d) - 2 = 0 <=> Len(d) = 2
      <3> DEFINE n == Len(d)
      <3>1. n \in Nat
        BY <1>2
      <3> HIDE DEF n
      <3>2. n - 2 = 0 => n = 2
        BY <3>1
      <3>3. n = 2 => n - 2 = 0
        BY <3>1
      <3> QED
        BY <3>2, <3>3 DEF n
    <2>7. d[2] < 4
      BY <2>1
    <2>8. IsValid(d) <=> Len(d) = 2
      BY <2>1, <2>7 DEF IsValid
    <2>9. Accepted(i) <=> From(d, 3) = <<>>
      BY <2>1 DEF Accepted
    <2>10. Accepted(i) <=> Len(d) = 2
      BY <2>4, <2>5, <2>6, <2>9
    <2> QED
      BY <1>5, <2>8, <2>10
  <1> QED
    BY <1>1, <1>3, <1>4, <1>5 DEF HasRead

\* The server is in step with the bytes w of requests that the calls c have written.
Understands(reads, w, c) ==
    /\ reads \in Todo(Requested) /\ w \in Seq(Byte) /\ c \in CallsOf(Requested)
    /\ InStep(Requested, ClientMessage, reads, w, <<>>, c, <<>>)

\* A request with nothing but its code.
LEMMA OneCallWritten ==
    ASSUME NEW reads, NEW w, NEW c, Understands(reads, w, c), NEW v \in {1, 2}
    PROVE  Understands(reads, w \o <<v>>, c \o Calls(ClientMessage, v))
  <1> DEFINE x == ClientMessage
             h == Head(x)
  <1>0. /\ reads \in Todo(Requested) /\ w \in Seq(Byte) /\ c \in CallsOf(Requested)
        /\ InStep(Requested, ClientMessage, reads, w, <<>>, c, <<>>)
    BY DEF Understands
  <1>1. x = Begun(ClientMessage, <<>>)
    BY DEF Begun
  <1>2. h.of = <<Str, <<>>, <<>>, Direction>> /\ h.k = "variant" /\ Tail(x) = <<>>
    BY RequestTypes
  <1> HIDE DEF x, h
  <1>3. v \in Tokens(h) /\ Encode(h, v) = <<v>>
    <2>1. Len(h.of) = 4
      BY <1>2
    <2>2. v \in 0 .. 4 - 1
      OBVIOUS
    <2> QED
      BY <1>2, <2>1, <2>2 DEF Tokens, Encode
  <1>4. After(x, v) = <<>>
    <2>1. h.of[1 + 1] = <<>> /\ h.of[2 + 1] = <<>>
      BY <1>2
    <2>2. Follow(h, v) = <<>>
      BY <1>2, <2>1 DEF Follow
    <2> QED
      BY <1>2, <2>2, EmptySeq, ConcatEmptySeq DEF After, h
  <1>5. /\ w \o Encode(h, v) \in Seq(Byte)
        /\ c \o Calls(x, v) \in CallsOf(Requested)
        /\ InStep(Requested, ClientMessage, reads, w \o Encode(h, v), <<>>, c \o Calls(x, v),
                  After(x, v))
    BY <1>0, <1>1, <1>3, RequestTypes, InStepWrites DEF h
  <1> QED
    BY <1>0, <1>3, <1>4, <1>5 DEF x, Understands

\* A request with a field.
LEMMA TwoCallsWritten ==
    ASSUME NEW reads, NEW w, NEW c, Understands(reads, w, c),
           NEW v, NEW T, (v = 0 /\ T = Str) \/ (v = 3 /\ T = Direction),
           NEW t \in Tokens(Head(T))
    PROVE  /\ After(ClientMessage, v) = T
           /\ Understands(reads, w \o (<<v>> \o Encode(Head(T), t)),
                          c \o (Calls(ClientMessage, v) \o Calls(T, t)))
  <1> DEFINE x == ClientMessage
             h == Head(x)
             S == Requested
  <1>0. /\ reads \in Todo(S) /\ w \in Seq(Byte) /\ c \in CallsOf(S)
        /\ InStep(S, x, reads, w, <<>>, c, <<>>)
    BY DEF Understands
  <1>1. x = Begun(ClientMessage, <<>>) /\ T = Begun(ClientMessage, T) /\ T # <<>> /\ T \in Todo(S)
    BY RequestTypes DEF Begun
  <1>2. h.of = <<Str, <<>>, <<>>, Direction>> /\ h.k = "variant" /\ Tail(x) = <<>>
    BY RequestTypes
  <1>3. x \in Todo(S) /\ x # <<>> /\ Supported(S) /\ <<>> \in Todo(S)
    BY RequestTypes
  <1> HIDE DEF x, h, S
  <1>4. v \in Tokens(h) /\ Encode(h, v) = <<v>> /\ <<v>> \in Seq(Byte)
    <2>1. Len(h.of) = 4
      BY <1>2
    <2>2. v \in {0, 3}
      OBVIOUS
    <2>3. v \in 0 .. 4 - 1 /\ v \in Byte
      BY <2>2, BaseAssumption DEF Byte
    <2>4. v \in Tokens(h) /\ Encode(h, v) = <<v>>
      BY <1>2, <2>1, <2>3 DEF Tokens, Encode
    <2> QED
      BY <2>3, <2>4
  <1>5. After(x, v) = T
    <2>1. h.of[0 + 1] = Str /\ h.of[3 + 1] = Direction
      BY <1>2
    <2>2. Follow(h, v) = T
      BY <1>2, <2>1 DEF Follow
    <2>3. T \o <<>> = T
      BY <1>1, ConcatEmptySeq DEF Todo
    <2> QED
      BY <1>2, <2>2, <2>3 DEF After, h
  <1>6. After(T, t) = <<>>
    <2>1. Tail(T) = <<>> /\ (T = Str \/ T = Direction)
      BY RequestTypes
    <2>2. Follow(Head(T), t) = <<>>
      <3>1. CASE T = Str
        BY <3>1, RequestTypes DEF Follow
      <3>2. CASE T = Direction
        <4>1. t \in 0 .. 4 - 1
          BY <3>2, RequestTypes, InputTypes DEF Tokens
        <4>2. t \in {0, 1, 2, 3}
          BY <4>1
        <4>3. After(Direction, t) = <<>>
          BY <4>2, InputTypes
        <4>4. Follow(Head(T), t) \in Todo(S)
          <5>1. Head(T) \in Frame(S)
            BY <1>1, HeadTailProperties DEF Todo
          <5> QED
            BY <1>3, <5>1, Follows
        <4> QED
          BY <2>1, <3>2, <4>3, <4>4, ConcatEmptySeq DEF After, Todo
      <3> QED
        BY <2>1, <3>1, <3>2
    <2> QED
      BY <2>1, <2>2, EmptySeq, ConcatEmptySeq DEF After
  <1> DEFINE y == Encode(Head(T), t)
             a == Calls(x, v)
             b == Calls(T, t)
  <1>7. /\ w \o <<v>> \in Seq(Byte) /\ c \o a \in CallsOf(S)
        /\ InStep(S, ClientMessage, reads, w \o <<v>>, <<>>, c \o a, T)
    <2>1. \A z \in Todo(S) : \A u \in Tokens(Head(z)) :
             z = Begun(x, <<>>) =>
               /\ w \o Encode(Head(z), u) \in Seq(Byte) /\ c \o Calls(z, u) \in CallsOf(S)
               /\ InStep(S, x, reads, w \o Encode(Head(z), u), <<>>, c \o Calls(z, u), After(z, u))
      BY <1>0, <1>3, InStepWrites DEF x, S
    <2>2. v \in Tokens(Head(x)) /\ Encode(Head(x), v) = <<v>>
      BY <1>4 DEF h
    <2>3. x = Begun(x, <<>>)
      BY <1>1 DEF x
    <2>4. /\ w \o Encode(Head(x), v) \in Seq(Byte) /\ c \o Calls(x, v) \in CallsOf(S)
          /\ InStep(S, x, reads, w \o Encode(Head(x), v), <<>>, c \o Calls(x, v), After(x, v))
      BY <1>3, <2>1, <2>2, <2>3
    <2> QED
      BY <1>5, <2>2, <2>4 DEF x
  <1>8. /\ (w \o <<v>>) \o y \in Seq(Byte) /\ (c \o a) \o b \in CallsOf(S)
        /\ InStep(S, ClientMessage, reads, (w \o <<v>>) \o y, <<>>, (c \o a) \o b, <<>>)
    <2> DEFINE w1 == w \o <<v>>
               c1 == c \o a
    <2>1. w1 \in Seq(Byte) /\ c1 \in CallsOf(S) /\ InStep(S, x, reads, w1, <<>>, c1, T)
      BY <1>7 DEF x
    <2>2. reads \in Todo(S)
      BY <1>0
    <2> HIDE DEF w1, c1, y, b
    <2>3. /\ w1 \o Encode(Head(T), t) \in Seq(Byte) /\ c1 \o Calls(T, t) \in CallsOf(S)
          /\ InStep(S, x, reads, w1 \o Encode(Head(T), t), <<>>, c1 \o Calls(T, t), After(T, t))
      <3>1. T = Begun(x, T)
        BY <1>1 DEF x, Begun
      <3> QED
        BY <1>1, <1>3, <2>1, <2>2, <3>1, InStepWrites, Zenon
    <2> QED
      BY <1>6, <2>3 DEF w1, c1, y, b, x
  <1>9. y \in Seq(Byte) /\ a \in CallsOf(S) /\ b \in CallsOf(S)
    <2>1. a \in CallsOf(S) /\ b \in CallsOf(S)
      BY <1>1, <1>3, <1>4, AfterTyped, Zenon DEF h
    <2>2. CallOK(Head(T))
      BY <1>1, <1>3, NextCall DEF x
    <2> QED
      BY <2>1, <2>2 DEF CallOK
  <1> HIDE DEF y, a, b
  <1>10. (w \o <<v>>) \o y = w \o (<<v>> \o y)
    <2>1. Grouped(w, <<v>>, y)
      BY <1>0, <1>4, <1>9, Regroup, Zenon
    <2> QED
      BY <2>1 DEF Grouped
  <1>11. (c \o a) \o b = c \o (a \o b)
    <2>1. Grouped(c, a, b)
      BY <1>0, <1>9, Regroup, Zenon DEF CallsOf, S
    <2> QED
      BY <2>1 DEF Grouped
  <1> QED
    BY <1>0, <1>5, <1>8, <1>10, <1>11 DEF x, y, a, b, S, Understands

\* The invariant: the server is in step with the requests, which have no lists, and
\* the library has read the datagram so far.
UpInv == /\ serves \in Seq(Requested) /\ Understands(serves, up, asked)
         /\ datagram \in Seq(Byte) /\ HasRead(datagram, input)

LEMMA UpInit == Init => UpInv
  <1> SUFFICES ASSUME Init PROVE UpInv
    OBVIOUS
  <1>1. /\ serves = <<>> /\ up = <<>> /\ asked = <<>> /\ datagram = <<>> /\ input = Unread
    BY DEF Init
  <1>2. InStep(Requested, ClientMessage, <<>>, <<>>, <<>>, <<>>, <<>>)
    BY RequestTypes, InStepBegins
  <1> QED
    BY <1>1, <1>2, RequestTypes, EmptySeq DEF UpInv, Understands, HasRead

LEMMA DatagramArrivesUp ==
    ASSUME UpInv, NEW d \in Datagrams, DatagramArrives(d)
    PROVE  UpInv'
  <1>1. /\ datagram' = d /\ input' = Deserializer(InputMessage, d)
        /\ up' = up /\ serves' = serves /\ asked' = asked
    BY DEF DatagramArrives
  <1>2. d \in Seq(Byte)
    BY ClientBytesAssumption
  <1>3. HasRead(d, Deserializer(InputMessage, d))
    BY <1>2, ReadingBegins DEF HasRead
  <1> QED
    BY <1>1, <1>2, <1>3 DEF UpInv

LEMMA LibraryReadsUp == ASSUME UpInv, LibraryReads PROVE UpInv'
  <1>1. /\ Reading(input) /\ input' = Deserialize(input)
        /\ datagram' = datagram /\ up' = up /\ serves' = serves /\ asked' = asked
    BY DEF LibraryReads
  <1>2. HasRead(datagram, Deserialize(input))
    BY <1>1, ReadsOn DEF UpInv
  <1> QED
    BY <1>1, <1>2 DEF UpInv

\* What the client sends for a message of the interface are the calls that its meaning
\* is made of.
LEMMA RequestWritten ==
    ASSUME UpInv, NEW started \in BOOLEAN, input # Unread, ~ Reading(input), Accepted(input),
           NEW s, s = Request(datagram, started), NEW e, e = Meaning(input.calls, started)
    PROVE  Understands(serves, up \o s, asked \o e)
  <1> DEFINE d == datagram
             i == input
  <1>1. Understands(serves, up, asked) /\ d \in Seq(Byte) /\ HasRead(d, i)
    BY DEF UpInv
  <1>2. \/ VariantRead(d, i) /\ d[1] \in {0, 1} /\ Len(d) = 1
        \/ DirectionRead(d, i) /\ Len(d) = 2
    BY <1>1, ValidIsAccepted
  <1>3. CASE ~ started
    <2>1. PlayerName \in Tokens(Head(Str))
      <3>1. PlayerName \in Tokens(Str[1])
        BY ClientBytesAssumption DEF TextType
      <3>2. Str[1] = Head(Str)
        BY DEF Str
      <3> QED
        BY <3>1, <3>2
    <2>2. PlayerName \in Seq(Byte \ {NotUtf8}) /\ Len(PlayerName) < Base
      BY <2>1, RequestTypes DEF Tokens, Texts
    <2>3. Len(PlayerName) % Base = Len(PlayerName)
      <3>1. Len(PlayerName) \in Nat
        BY <2>2, LenProperties
      <3> DEFINE n == Len(PlayerName)
      <3>2. n \in Nat /\ n < Base
        BY <2>2, <3>1
      <3> HIDE DEF n
      <3>3. n % Base = n
        BY <3>2, BaseAssumption
      <3> QED
        BY <3>3 DEF n
    <2>4. Encode(Head(Str), PlayerName) = <<Len(PlayerName)>> \o PlayerName
      BY RequestTypes DEF Encode
    <2>5. s = <<0>> \o Encode(Head(Str), PlayerName)
      <3> DEFINE n == Len(PlayerName)
      <3>1. s = <<0, n>> \o PlayerName
        BY <1>3, <2>3 DEF Request
      <3>2. PlayerName \in Seq(Byte) /\ <<0>> \in Seq(Byte) /\ <<n>> \in Seq(Byte)
        <4>1. n \in Byte /\ 0 \in Byte
          BY <2>2, LenProperties, BaseAssumption DEF Byte
        <4>2. PlayerName \in Seq(Byte)
          BY <2>2, SeqMonotonic
        <4> HIDE DEF n
        <4> QED
          BY <4>1, <4>2
      <3>3. <<0, n>> = <<0>> \o <<n>>
        BY TwoJoined
      <3> HIDE DEF n
      <3>4. Grouped(<<0>>, <<n>>, PlayerName)
        BY <3>2, Regroup, Zenon
      <3> QED
        BY <2>4, <3>1, <3>3, <3>4 DEF Grouped, n
    <2>6. /\ After(ClientMessage, 0) = Str
          /\ Understands(serves, up \o (<<0>> \o Encode(Head(Str), PlayerName)),
                         asked \o (Calls(ClientMessage, 0) \o Calls(Str, PlayerName)))
      BY <1>1, <2>1, TwoCallsWritten
    <2>7. e = Calls(ClientMessage, 0) \o Calls(Str, PlayerName)
      <3> DEFINE f == <<[token |-> PlayerName]>>
      <3>1. f # <<>> /\ f[1].token = PlayerName
        OBVIOUS
      <3>2. e = Calls(ClientMessage, 0)
                \o (IF f = <<>> THEN <<>> ELSE Calls(After(ClientMessage, 0), f[1].token))
        BY <1>3 DEF Meaning
      <3> HIDE DEF f
      <3> QED
        BY <2>6, <3>1, <3>2
    <2> QED
      BY <2>5, <2>6, <2>7
  <1>4. CASE started /\ VariantRead(d, i) /\ d[1] \in {0, 1} /\ Len(d) = 1
    <2> DEFINE v == d[1] + 1
               a == [at |-> InputMessage, token |-> d[1]]
    <2>1. v \in {1, 2} /\ i.calls = <<a>> /\ a.token = d[1]
      BY <1>4, ReadToIs DEF VariantRead
    <2>2. s = <<v>>
      <3>1. Tail(d) = <<>>
        <4>1. Tail(d) \in Seq(Byte) /\ Len(Tail(d)) = Len(d) - 1
          <5>1. d # <<>>
            BY <1>4 DEF VariantRead
          <5> QED
            BY <1>1, <5>1, HeadTailProperties
        <4>2. Len(Tail(d)) = 0
          BY <1>4, <4>1
        <4> QED
          BY <4>1, <4>2, EmptySeq
      <3>2. s = <<v>> \o <<>>
        BY <1>4, <3>1 DEF Request
      <3>3. <<v>> \in Seq({v})
        OBVIOUS
      <3> HIDE DEF v
      <3> QED
        BY <3>2, <3>3, ConcatEmptySeq
    <2>3. e = Calls(ClientMessage, v)
      <3>1. i.calls[1].token = d[1] /\ Tail(i.calls) = <<>>
        <4> HIDE DEF a
        <4> QED
          BY <2>1
      <3>2. e = Calls(ClientMessage, v) \o <<>>
        BY <1>4, <3>1 DEF Meaning
      <3> DEFINE b == [at |-> ClientMessage, token |-> v]
      <3>3. Calls(ClientMessage, v) = <<b>>
        BY RequestTypes DEF Calls
      <3> HIDE DEF v, b
      <3>4. <<b>> \in Seq({b})
        OBVIOUS
      <3> QED
        BY <3>2, <3>3, <3>4, ConcatEmptySeq
    <2> HIDE DEF v
    <2> QED
      BY <1>1, <2>1, <2>2, <2>3, OneCallWritten
  <1>5. CASE started /\ DirectionRead(d, i) /\ Len(d) = 2
    <2> DEFINE t == d[2]
               a == [at |-> InputMessage, token |-> 2]
               b == [at |-> Direction, token |-> t]
    <2>1. /\ d[1] = 2 /\ t \in {0, 1, 2, 3} /\ i.calls = <<a, b>> /\ a.token = 2 /\ b.token = t
      BY <1>5, ReadToIs DEF DirectionRead
    <2>2. Encode(Head(Direction), t) = <<t>> /\ t \in Tokens(Head(Direction))
      <3>1. Head(Direction).k = "variant" /\ Len(Head(Direction).of) = 4
        BY RequestTypes, InputTypes
      <3>2. t \in 0 .. 4 - 1
        BY <2>1
      <3> QED
        BY <3>1, <3>2 DEF Encode, Tokens
    <2>3. s = <<3>> \o Encode(Head(Direction), t)
      <3>1. Tail(d) = <<t>>
        <4>1. d # <<>>
          BY <1>5, EmptySeq
        <4>2. Tail(d) \in Seq(Byte) /\ Len(Tail(d)) = Len(d) - 1
              /\ \A j \in 1 .. Len(Tail(d)) : Tail(d)[j] = d[j + 1]
          BY <1>1, <4>1, HeadTailProperties
        <4> DEFINE u == Tail(d)
        <4>3. u \in Seq(Byte) /\ Len(u) = 1 /\ u[1] = t
          BY <1>5, <4>2
        <4>4. <<t>> \in Seq({t}) /\ Len(<<t>>) = 1 /\ <<t>>[1] = t
          OBVIOUS
        <4> HIDE DEF u, t
        <4>5. u = <<t>>
          BY <4>3
        <4> QED
          BY <4>5 DEF u
      <3>2. s = <<d[1] + 1>> \o Tail(d)
        BY <1>5 DEF Request
      <3>3. d[1] + 1 = 3
        BY <2>1
      <3> HIDE DEF t
      <3> QED
        BY <2>2, <3>1, <3>2, <3>3
    <2>4. /\ After(ClientMessage, 3) = Direction
          /\ Understands(serves, up \o (<<3>> \o Encode(Head(Direction), t)),
                         asked \o (Calls(ClientMessage, 3) \o Calls(Direction, t)))
      <3> HIDE DEF t
      <3> QED
        BY <1>1, <2>2, TwoCallsWritten
    <2>5. e = Calls(ClientMessage, 3) \o Calls(Direction, t)
      <3>1. i.calls[1].token = 2 /\ Tail(i.calls) = <<b>>
        <4> HIDE DEF a, b
        <4> QED
          BY <2>1
      <3>2. After(ClientMessage, 3) = Direction
        BY <2>4
      <3> DEFINE f == Tail(i.calls)
      <3>3. f # <<>> /\ f[1].token = t
        <4> HIDE DEF b
        <4> QED
          BY <2>1, <3>1
      <3>4. e = Calls(ClientMessage, 2 + 1)
                \o (IF f = <<>> THEN <<>> ELSE Calls(After(ClientMessage, 2 + 1), f[1].token))
        BY <1>5, <3>1 DEF Meaning
      <3> HIDE DEF f
      <3> QED
        BY <3>2, <3>3, <3>4
    <2> HIDE DEF t
    <2> QED
      BY <2>3, <2>4, <2>5
  <1> QED
    BY <1>2, <1>3, <1>4, <1>5

LEMMA AskUp == ASSUME UpInv, NEW started \in BOOLEAN, Ask(started) PROVE UpInv'
  <1>1. /\ input # Unread /\ ~ Reading(input)
        /\ up' = IF IsValid(datagram) THEN up \o Request(datagram, started) ELSE up
        /\ asked' = IF Accepted(input) THEN asked \o Meaning(input.calls, started) ELSE asked
        /\ datagram' = <<>> /\ input' = Unread /\ serves' = serves
    BY DEF Ask
  <1>2. Accepted(input) <=> IsValid(datagram)
    BY <1>1, ValidIsAccepted DEF UpInv
  <1>3. HasRead(datagram', input') /\ datagram' \in Seq(Byte)
    BY <1>1, EmptySeq DEF HasRead
  <1>4. CASE Accepted(input)
    <2>1. Understands(serves, up \o Request(datagram, started),
                      asked \o Meaning(input.calls, started))
      BY <1>1, <1>4, RequestWritten
    <2> QED
      BY <1>1, <1>2, <1>3, <1>4, <2>1 DEF UpInv
  <1>5. CASE ~ Accepted(input)
    BY <1>1, <1>2, <1>3, <1>5 DEF UpInv
  <1> QED
    BY <1>4, <1>5

\* What the server makes of the bytes is the oldest call of the requests.
LEMMA ServerUnderstands ==
    ASSUME UpInv, Served.r = "ok", NEW x, x = Current(ClientMessage, serves)
    PROVE  /\ ReadsNext(Requested, ClientMessage, x, up, <<>>, asked, <<>>)
           /\ x \in Seq(Requested) /\ x # <<>> /\ Served = Decode(Head(x), up)
  <1>1. /\ serves \in Todo(Requested) /\ up \in Seq(Byte) /\ asked \in CallsOf(Requested)
        /\ InStep(Requested, ClientMessage, serves, up, <<>>, asked, <<>>)
    BY DEF UpInv, Understands
  <1>2. x = Begun(ClientMessage, serves) /\ Served = Decode(Head(x), up)
    BY DEF Current, Begun, Served
  <1>3. x \in Seq(Requested) /\ x # <<>>
    BY RequestTypes DEF UpInv, Current
  <1>4. Decode(Head(x), up).r = "ok" /\ <<>> \in Seq(Byte)
    BY <1>2, EmptySeq
  <1>5. ReadsNext(Requested, ClientMessage, x, up, <<>>, asked, <<>>)
    BY <1>1, <1>2, <1>4, RequestTypes, InStepReads, Zenon
  <1> QED
    BY <1>2, <1>3, <1>5

LEMMA ServerReadsUp == ASSUME UpInv, ServerReads PROVE UpInv'
  <1> DEFINE x == Current(ClientMessage, serves)
  <1>1. /\ Served.r = "ok" /\ serves' = After(x, Served.v) /\ up' = Served.rest
        /\ asked' = From(asked, 2) /\ datagram' = datagram /\ input' = input
    BY DEF ServerReads
  <1>2. /\ ReadsNext(Requested, ClientMessage, x, up, <<>>, asked, <<>>)
        /\ x \in Seq(Requested) /\ x # <<>> /\ Served = Decode(Head(x), up)
    BY <1>1, ServerUnderstands
  <1> HIDE DEF x
  <1>3. PICK v \in Tokens(Head(x)), r \in Seq(Byte), f \in CallsOf(Requested) :
           /\ Decode(Head(x), up) = Ok(v, r)
           /\ asked = Calls(x, v) \o f
           /\ After(x, v) \in Todo(Requested)
           /\ InStep(Requested, ClientMessage, After(x, v), r, <<>>, f, <<>>)
    BY <1>2 DEF ReadsNext
  <1>4. Served.v = v /\ Served.rest = r
    BY <1>2, <1>3 DEF Ok
  <1>5. After(x, v) \in Seq(Requested) /\ Head(x).k # "counted"
    BY <1>2, <1>3, RequestedAfter
  <1>6. asked' = f
    <2> DEFINE a == [at |-> x, token |-> v]
    <2>1. asked = <<a>> \o f
      BY <1>3, <1>5 DEF Calls
    <2>2. <<a>> \in CallsOf(Requested)
      <3>1. x \in Todo(Requested) /\ Calls(x, v) = <<a>>
        BY <1>2, <1>5, RequestTypes, SeqMonotonic DEF Calls, Todo, Frame
      <3> QED
        BY <1>2, <1>3, <3>1, AfterTyped, RequestTypes
    <2> HIDE DEF a
    <2>3. From(<<a>> \o f, Len(<<a>>) + 1) = f
      BY <2>2, Parts, Zenon DEF CallsOf
    <2>4. Len(<<a>>) + 1 = 2
      OBVIOUS
    <2> QED
      BY <1>1, <2>1, <2>3, <2>4
  <1> QED
    BY <1>1, <1>3, <1>4, <1>5, <1>6 DEF UpInv, Understands

\* The other directions leave this one alone.
LEMMA OtherWaysUp ==
    ASSUME UpInv,
           \/ ServerWrites \/ ServerCloses
           \/ \E stale \in Byte : Receive(stale) \/ Exit(stale)
           \/ Proceed \/ Abort
           \/ \E g \in Games : Draw(g)
           \/ DrawField
           \/ UNCHANGED vars
    PROVE  UpInv'
  <1>1. UNCHANGED upVars
    BY DEF ServerWrites, ServerCloses, Receive, Exit, Proceed, Abort, Draw, DrawField, vars
  <1>2. /\ datagram' = datagram /\ input' = input /\ up' = up /\ serves' = serves
        /\ asked' = asked
    BY <1>1 DEF upVars
  <1> QED
    BY <1>2 DEF UpInv

LEMMA UpAlways == Spec => []UpInv
  <1>1. ASSUME UpInv, [Next]_vars PROVE UpInv'
    BY <1>1, DatagramArrivesUp, LibraryReadsUp, AskUp, ServerReadsUp, OtherWaysUp DEF Next
  <1> QED
    BY <1>1, UpInit, PTL DEF Spec

\* Where all bytes have been read the server is between two messages.
LEMMA NothingAsked ==
    ASSUME UpInv, up = <<>>
    PROVE  asked = <<>> /\ serves = <<>>
  <1> DEFINE M == ClientMessage
             S == Requested
             p == There(serves, up \o <<>>, asked)
  <1>1. /\ serves \in Seq(S) /\ asked \in CallsOf(S)
        /\ InStep(S, M, serves, up, <<>>, asked, <<>>)
    BY DEF UpInv, Understands
  <1>2. p.todo = serves /\ p.bytes = <<>> /\ p.calls = asked
    BY EmptySeq, ConcatEmptySeq DEF There
  <1>3. CASE Script(S, M, p, <<>>)
    <2> HIDE DEF p
    <2>1. p = End(<<>>) \/ \E q \in Point(S) : Link(M, p, q)
      BY <1>3, ScriptHead
    <2>2. ASSUME NEW q \in Point(S), Link(M, p, q) PROVE FALSE
      <3> DEFINE x == Begun(M, p.todo)
      <3>1. x \in Seq(S) /\ x # <<>>
        BY <1>1, <1>2, RequestTypes DEF Begun
      <3>2. PICK v \in Tokens(Head(x)) : p.bytes = Encode(Head(x), v) \o q.bytes
        BY <2>2 DEF Link
      <3>3. Encode(Head(x), v) # <<>> /\ Head(x) \in S
        BY <3>1, <3>2, RequestedAfter
      <3>4. Encode(Head(x), v) \in Seq(Byte)
        <4>1. Head(x) \in Frame(S)
          BY <3>3 DEF Frame
        <4>2. CallOK(Head(x))
          BY <4>1, RequestTypes, FrameCalls
        <4> QED
          BY <3>2, <4>2 DEF CallOK
      <3> QED
        BY <1>2, <3>2, <3>3, <3>4, NothingJoined DEF Point
    <2>3. p = End(<<>>)
      BY <2>1, <2>2
    <2> QED
      BY <1>2, <2>3 DEF End
  <1>4. CASE asked = <<>> /\ Script(S, M, End(<<>>), serves)
    BY <1>4, RequestTypes, BetweenMessages
  <1> QED
    BY <1>1, <1>3, <1>4 DEF InStep

\* Every request is read by the server as the call that its sender meant, in order,
\* and a datagram that means nothing leads to none (client.cpp:113-151; lib.rs:53-61).
THEOREM RequestsUnderstoodCorrect == Spec => []RequestsUnderstood
  <1> DEFINE x == Current(ClientMessage, serves)
             S == Requested
             M == ClientMessage
  <1>1. ASSUME UpInv, up # <<>> PROVE Served.r = "ok"
    <2>1. /\ serves \in Todo(S) /\ up \in Seq(Byte) /\ asked \in CallsOf(S)
          /\ InStep(S, M, serves, up, <<>>, asked, <<>>)
      BY <1>1 DEF UpInv, Understands
    <2>2. x = Begun(M, serves) /\ <<>> \in Seq(Byte) /\ Served = Decode(Head(x), up)
      BY EmptySeq DEF Current, Begun, Served
    <2> HIDE DEF x, S, M
    <2>3. \E q, p : Repeats(x, up, <<>>, p, q) \/ Halfway(x, up, <<>>, p, q)
      <3>1. /\ Supported(S) /\ M \in Todo(S) /\ M # <<>> /\ <<>> \in Todo(S)
        BY RequestTypes DEF S, M
      <3> QED
        BY <1>1, <2>1, <2>2, <3>1, InStepCases
    <2> QED
      BY <2>2, <2>3 DEF Repeats, Halfway, Ok
  <1>2. ASSUME UpInv, up # <<>>
        PROVE  asked # <<>> /\ Head(asked) = [at |-> x, token |-> Served.v]
    <2>1. Served.r = "ok"
      BY <1>1, <1>2
    <2>2. /\ ReadsNext(S, M, x, up, <<>>, asked, <<>>)
          /\ x \in Seq(S) /\ x # <<>> /\ Served = Decode(Head(x), up)
      BY <1>2, <2>1, ServerUnderstands
    <2> HIDE DEF x
    <2>3. PICK v \in Tokens(Head(x)), r \in Seq(Byte), f \in CallsOf(S) :
             Decode(Head(x), up) = Ok(v, r) /\ asked = Calls(x, v) \o f
      BY <2>2 DEF ReadsNext
    <2>4. Head(x).k # "counted" /\ Served.v = v
      <3>1. Head(x).k # "counted"
        BY <2>2, <2>3, RequestedAfter
      <3> QED
        BY <2>2, <2>3, <3>1 DEF Ok
    <2> DEFINE a == [at |-> x, token |-> v]
    <2>5. asked = <<a>> \o f
      BY <2>3, <2>4 DEF Calls
    <2> HIDE DEF a
    <2>6. asked # <<>> /\ Head(asked) = a
      BY <2>5 DEF CallsOf
    <2> QED
      BY <2>4, <2>6 DEF a
  <1>3. UpInv => RequestsUnderstood
    BY <1>1, <1>2, NothingAsked DEF RequestsUnderstood
  <1> QED
    BY <1>3, UpAlways, PTL

-----------------------------------------------------------------------------
(* Messages to the interface.                                              *)

\* A place in the drawing of a message: what is left to write, of what is meant, and
\* for the library.
Spot(d, m, t) == [draws |-> d, meant |-> m, todo |-> t]

\* The first round of a loop, and the others; nothing of another instruction.
Opened(i) == IF i.op = "each" /\ i.of # <<>> THEN Head(i.of) \o Each(Tail(i.of)) ELSE <<>>

\* The next bytes are the same, and then the place is one of R.
AsMeant(R, p) ==
    /\ p.draws # <<>> /\ p.meant # <<>> /\ p.todo # <<>>
    /\ IsSeq(p.draws) /\ IsSeq(p.meant) /\ IsSeq(p.todo)
    /\ LET t == Argument(Head(p.meant))
       IN  /\ IsSeq(Opened(Head(p.draws))) /\ IsSeq(Opened(Head(p.meant)))
           /\ IsSeq(Follow(Head(p.todo), t))
           /\ Written(Head(p.draws)) = Encode(Head(p.todo), t)
           /\ Spot(Left(p.draws), Left(p.meant), After(p.todo, t)) \in R

\* The places of R lead to one another, and all three end together.
Agree(R) == \A p \in R : p = Spot(<<>>, <<>>, <<>>) \/ AsMeant(R, p)

Agrees(d, m, t) == \E R : Agree(R) /\ Spot(d, m, t) \in R

LEMMA AsMeantMore ==
    ASSUME NEW R, NEW V, R \subseteq V, NEW p, AsMeant(R, p)
    PROVE  AsMeant(V, p)
  BY DEF AsMeant

LEMMA SpotIs ==
    ASSUME NEW d, NEW m, NEW t
    PROVE  /\ Spot(d, m, t).draws = d /\ Spot(d, m, t).meant = m /\ Spot(d, m, t).todo = t
           /\ \A e, n, u : Spot(d, m, t) = Spot(e, n, u) => d = e /\ m = n /\ t = u
  BY DEF Spot

\* Nothing is drawn where nothing is meant.
LEMMA AgreesCases ==
    ASSUME NEW d, NEW m, NEW t, Agrees(d, m, t)
    PROVE  /\ IsSeq(d) /\ IsSeq(m) /\ IsSeq(t)
           /\ \/ d = <<>> /\ m = <<>> /\ t = <<>>
              \/ /\ d # <<>> /\ m # <<>> /\ t # <<>>
                 /\ Written(Head(d)) = Encode(Head(t), Argument(Head(m)))
                 /\ Agrees(Left(d), Left(m), After(t, Argument(Head(m))))
  <1>1. PICK R : Agree(R) /\ Spot(d, m, t) \in R
    BY DEF Agrees
  <1> DEFINE p == Spot(d, m, t)
  <1>2. p.draws = d /\ p.meant = m /\ p.todo = t
    BY SpotIs
  <1>3. p = Spot(<<>>, <<>>, <<>>) \/ AsMeant(R, p)
    BY <1>1 DEF Agree
  <1>4. CASE p = Spot(<<>>, <<>>, <<>>)
    <2>1. d = <<>> /\ m = <<>> /\ t = <<>>
      BY <1>2, <1>4, SpotIs
    <2> QED
      BY <2>1, OneIsSeq
  <1>5. CASE AsMeant(R, p)
    <2> HIDE DEF p
    <2>1. /\ d # <<>> /\ m # <<>> /\ t # <<>> /\ IsSeq(d) /\ IsSeq(m) /\ IsSeq(t)
          /\ Written(Head(d)) = Encode(Head(t), Argument(Head(m)))
          /\ Spot(Left(d), Left(m), After(t, Argument(Head(m)))) \in R
      BY <1>2, <1>5 DEF AsMeant
    <2> QED
      BY <1>1, <2>1 DEF Agrees
  <1> QED
    BY <1>3, <1>4, <1>5

LEMMA NothingAgrees == Agrees(<<>>, <<>>, <<>>)
  <1> DEFINE R == {Spot(<<>>, <<>>, <<>>)}
  <1>1. Agree(R) /\ Spot(<<>>, <<>>, <<>>) \in R
    BY DEF Agree
  <1> QED
    BY <1>1 DEF Agrees

\* One step, and then what agrees.
LEMMA BeforeAgrees ==
    ASSUME NEW d, NEW m, NEW t, d # <<>>, m # <<>>, t # <<>>,
           IsSeq(d), IsSeq(m), IsSeq(t), NEW v, v = Argument(Head(m)),
           IsSeq(Opened(Head(d))), IsSeq(Opened(Head(m))), IsSeq(Follow(Head(t), v)),
           Written(Head(d)) = Encode(Head(t), v),
           Agrees(Left(d), Left(m), After(t, v))
    PROVE  Agrees(d, m, t)
  <1> DEFINE q == Spot(Left(d), Left(m), After(t, v))
             p == Spot(d, m, t)
  <1>1. PICK R : Agree(R) /\ q \in R
    BY DEF Agrees
  <1>2. p.draws = d /\ p.meant = m /\ p.todo = t
    BY SpotIs
  <1> DEFINE V == R \cup {p}
  <1>3. AsMeant(V, p)
    <2>1. q \in V
      BY <1>1
    <2> HIDE DEF V, p
    <2> QED
      BY <1>2, <2>1 DEF AsMeant
  <1>4. Agree(V)
    <2> SUFFICES ASSUME NEW r \in V PROVE r = Spot(<<>>, <<>>, <<>>) \/ AsMeant(V, r)
      BY DEF Agree
    <2>1. CASE r = p
      BY <1>3, <2>1
    <2>2. CASE r \in R
      <3>1. R \subseteq V
        OBVIOUS
      <3> HIDE DEF V
      <3> QED
        BY <1>1, <2>2, <3>1, AsMeantMore DEF Agree
    <2> QED
      BY <2>1, <2>2
  <1>5. p \in V
    OBVIOUS
  <1> HIDE DEF V
  <1> QED
    BY <1>4, <1>5 DEF Agrees

\* Left and After, with more behind.
LEMMA LeftMore ==
    ASSUME NEW a, NEW b, IsSeq(a), a # <<>>, IsSeq(b), IsSeq(Opened(Head(a)))
    PROVE  /\ a \o b # <<>> /\ Head(a \o b) = Head(a) /\ IsSeq(a \o b)
           /\ Left(a \o b) = Left(a) \o b
  <1>1. /\ a \o b # <<>> /\ Head(a \o b) = Head(a) /\ IsSeq(a \o b)
        /\ Tail(a \o b) = Tail(a) \o b /\ IsSeq(Tail(a))
    BY JoinSeq
  <1>2. Grouped(Opened(Head(a)), Tail(a), b)
    BY <1>1, GroupSeq, Zenon
  <1>3. Left(a \o b) = Opened(Head(a)) \o (Tail(a) \o b) /\ Left(a) = Opened(Head(a)) \o Tail(a)
    BY <1>1 DEF Left, Opened
  <1> DEFINE f == Opened(Head(a))
             r == Tail(a)
  <1>4. Grouped(f, r, b) /\ Left(a \o b) = f \o (r \o b) /\ Left(a) = f \o r
    BY <1>2, <1>3
  <1> HIDE DEF f, r
  <1>5. Left(a \o b) = Left(a) \o b
    BY <1>4 DEF Grouped
  <1> QED
    BY <1>1, <1>5

LEMMA AfterJoined ==
    ASSUME NEW a, NEW b, IsSeq(a), a # <<>>, IsSeq(b), NEW v, IsSeq(Follow(Head(a), v))
    PROVE  /\ a \o b # <<>> /\ Head(a \o b) = Head(a) /\ IsSeq(a \o b)
           /\ After(a \o b, v) = After(a, v) \o b
  <1>1. /\ a \o b # <<>> /\ Head(a \o b) = Head(a) /\ IsSeq(a \o b)
        /\ Tail(a \o b) = Tail(a) \o b /\ IsSeq(Tail(a))
    BY JoinSeq
  <1>2. Grouped(Follow(Head(a), v), Tail(a), b)
    BY <1>1, GroupSeq, Zenon
  <1>3. /\ After(a \o b, v) = Follow(Head(a), v) \o (Tail(a) \o b)
        /\ After(a, v) = Follow(Head(a), v) \o Tail(a)
    BY <1>1 DEF After
  <1> DEFINE f == Follow(Head(a), v)
             r == Tail(a)
  <1>4. Grouped(f, r, b) /\ After(a \o b, v) = f \o (r \o b) /\ After(a, v) = f \o r
    BY <1>2, <1>3
  <1> HIDE DEF f, r
  <1>5. After(a \o b, v) = After(a, v) \o b
    BY <1>4 DEF Grouped
  <1> QED
    BY <1>1, <1>5

\* A place with more behind it.
More(p, d, m, t) == Spot(p.draws \o d, p.meant \o m, p.todo \o t)

LEMMA AsMeantThen ==
    ASSUME NEW R, NEW p, AsMeant(R, p), NEW d, NEW m, NEW t, IsSeq(d), IsSeq(m), IsSeq(t),
           NEW V, \A q \in R : More(q, d, m, t) \in V
    PROVE  AsMeant(V, More(p, d, m, t))
  <1> DEFINE a == p.draws
             b == p.meant
             c == p.todo
             v == Argument(Head(b))
             r == More(p, d, m, t)
  <1>1. /\ a # <<>> /\ b # <<>> /\ c # <<>> /\ IsSeq(a) /\ IsSeq(b) /\ IsSeq(c)
        /\ IsSeq(Opened(Head(a))) /\ IsSeq(Opened(Head(b))) /\ IsSeq(Follow(Head(c), v))
        /\ Written(Head(a)) = Encode(Head(c), v)
        /\ Spot(Left(a), Left(b), After(c, v)) \in R
    BY DEF AsMeant
  <1>2. r.draws = a \o d /\ r.meant = b \o m /\ r.todo = c \o t
    BY DEF More, Spot
  <1>3. More(Spot(Left(a), Left(b), After(c, v)), d, m, t) \in V
    BY <1>1
  <1>4. More(Spot(Left(a), Left(b), After(c, v)), d, m, t)
        = Spot(Left(a) \o d, Left(b) \o m, After(c, v) \o t)
    BY SpotIs DEF More
  <1> HIDE DEF a, b, c, r, v
  <1>5. /\ a \o d # <<>> /\ Head(a \o d) = Head(a) /\ IsSeq(a \o d) /\ Left(a \o d) = Left(a) \o d
    BY <1>1, LeftMore
  <1>6. /\ b \o m # <<>> /\ Head(b \o m) = Head(b) /\ IsSeq(b \o m) /\ Left(b \o m) = Left(b) \o m
    BY <1>1, LeftMore
  <1>7. /\ c \o t # <<>> /\ Head(c \o t) = Head(c) /\ IsSeq(c \o t)
        /\ After(c \o t, v) = After(c, v) \o t
    BY <1>1, AfterJoined
  <1>8. Argument(Head(b \o m)) = v
    BY <1>6 DEF v
  <1>9. Spot(Left(a \o d), Left(b \o m), After(c \o t, v)) \in V
    BY <1>3, <1>4, <1>5, <1>6, <1>7
  <1>10. AsMeant(V, r)
    BY <1>1, <1>2, <1>5, <1>6, <1>7, <1>8, <1>9 DEF AsMeant
  <1> QED
    BY <1>10 DEF r

\* One after the other.
LEMMA JoinAgrees ==
    ASSUME NEW d1, NEW m1, NEW t1, Agrees(d1, m1, t1),
           NEW d2, NEW m2, NEW t2, Agrees(d2, m2, t2)
    PROVE  Agrees(d1 \o d2, m1 \o m2, t1 \o t2)
  <1>1. PICK R1 : Agree(R1) /\ Spot(d1, m1, t1) \in R1
    BY DEF Agrees
  <1>2. PICK R2 : Agree(R2) /\ Spot(d2, m2, t2) \in R2
    BY DEF Agrees
  <1>3. IsSeq(d2) /\ IsSeq(m2) /\ IsSeq(t2)
    BY AgreesCases
  <1> DEFINE V == {More(p, d2, m2, t2) : p \in R1} \cup R2
  <1>4. R2 \subseteq V /\ \A p \in R1 : More(p, d2, m2, t2) \in V
    OBVIOUS
  <1>5. ASSUME NEW p \in R1
        PROVE  More(p, d2, m2, t2) \in R2 \/ AsMeant(V, More(p, d2, m2, t2))
    <2> HIDE DEF V
    <2>1. CASE p = Spot(<<>>, <<>>, <<>>)
      <3>1. p.draws = <<>> /\ p.meant = <<>> /\ p.todo = <<>>
        BY <2>1, SpotIs
      <3>2. <<>> \o d2 = d2 /\ <<>> \o m2 = m2 /\ <<>> \o t2 = t2
        BY <1>3, JoinSeq
      <3>3. More(p, d2, m2, t2) = Spot(d2, m2, t2)
        BY <3>1, <3>2 DEF More
      <3> QED
        BY <1>2, <3>3
    <2>2. CASE AsMeant(R1, p)
      BY <1>3, <1>4, <2>2, AsMeantThen
    <2> QED
      BY <1>1, <2>1, <2>2 DEF Agree
  <1>6. ASSUME NEW r \in R2 PROVE r = Spot(<<>>, <<>>, <<>>) \/ AsMeant(V, r)
    <2> HIDE DEF V
    <2> QED
      BY <1>2, <1>4, AsMeantMore DEF Agree
  <1>7. Agree(V)
    <2> SUFFICES ASSUME NEW r \in V PROVE r = Spot(<<>>, <<>>, <<>>) \/ AsMeant(V, r)
      BY DEF Agree
    <2>1. r \in R2 \/ \E p \in R1 : r = More(p, d2, m2, t2)
      OBVIOUS
    <2> HIDE DEF V
    <2> QED
      BY <1>5, <1>6, <2>1
  <1>8. Spot(d1 \o d2, m1 \o m2, t1 \o t2) \in V
    <2> DEFINE p == Spot(d1, m1, t1)
    <2>1. More(p, d2, m2, t2) \in V
      BY <1>1
    <2>2. p.draws = d1 /\ p.meant = m1 /\ p.todo = t1
      BY SpotIs
    <2>3. More(p, d2, m2, t2) = Spot(d1 \o d2, m1 \o m2, t1 \o t2)
      BY <2>2 DEF More
    <2> QED
      BY <2>1, <2>3
  <1> HIDE DEF V
  <1> QED
    BY <1>7, <1>8 DEF Agrees

\* What is left of a sequence.
LEMMA Rest ==
    ASSUME NEW s, IsSeq(s)
    PROVE  /\ Len(s) \in Nat /\ From(s, 1) = s /\ From(s, Len(s) + 1) = <<>>
           /\ \A k \in 1 .. Len(s) : /\ From(s, k) # <<>> /\ Head(From(s, k)) = s[k]
                                     /\ Tail(From(s, k)) = From(s, k + 1)
           /\ \A k \in 1 .. Len(s) + 1 : IsSeq(From(s, k))
  <1>1. PICK S : s \in Seq(S)
    BY DEF IsSeq
  <1> DEFINE n == Len(s)
  <1>2. n \in Nat
    BY <1>1, LenProperties
  <1>3. From(s, 1) = s
    BY <1>1, SubSeqFull DEF From
  <1>4. \A k \in 0 .. n : /\ From(s, k + 1) \in Seq(S) /\ Len(From(s, k + 1)) = n - k
                          /\ \A i \in 1 .. n - k : From(s, k + 1)[i] = s[k + i]
    BY <1>1, Cut
  <1> HIDE DEF n
  <1>5. ASSUME NEW k \in 1 .. n + 1
        PROVE  /\ From(s, k) \in Seq(S) /\ Len(From(s, k)) = n + 1 - k
               /\ \A i \in 1 .. n + 1 - k : From(s, k)[i] = s[k + i - 1]
    <2>1. k - 1 \in 0 .. n /\ (k - 1) + 1 = k /\ n - (k - 1) = n + 1 - k
      BY <1>2
    <2>2. /\ From(s, (k - 1) + 1) \in Seq(S) /\ Len(From(s, (k - 1) + 1)) = n - (k - 1)
          /\ \A i \in 1 .. n - (k - 1) : From(s, (k - 1) + 1)[i] = s[(k - 1) + i]
      BY <1>4, <2>1
    <2>3. \A i \in 1 .. n + 1 - k : (k - 1) + i = k + i - 1
      BY <1>2
    <2> QED
      BY <2>1, <2>2, <2>3
  <1>6. From(s, n + 1) = <<>>
    <2>1. n + 1 \in 1 .. n + 1 /\ n + 1 - (n + 1) = 0
      BY <1>2
    <2>2. From(s, n + 1) \in Seq(S) /\ Len(From(s, n + 1)) = 0
      BY <1>5, <2>1
    <2> QED
      BY <2>2, EmptySeq
  <1>7. ASSUME NEW k \in 1 .. n
        PROVE  From(s, k) # <<>> /\ Head(From(s, k)) = s[k] /\ Tail(From(s, k)) = From(s, k + 1)
    <2> DEFINE a == From(s, k)
               b == From(s, k + 1)
    <2>1. k \in 1 .. n + 1 /\ k + 1 \in 1 .. n + 1
      BY <1>2
    <2>2. /\ a \in Seq(S) /\ Len(a) = n + 1 - k
          /\ \A i \in 1 .. n + 1 - k : a[i] = s[k + i - 1]
      BY <1>5, <2>1
    <2>3. /\ b \in Seq(S) /\ Len(b) = n + 1 - (k + 1)
          /\ \A i \in 1 .. n + 1 - (k + 1) : b[i] = s[k + 1 + i - 1]
      BY <1>5, <2>1
    <2> HIDE DEF a, b
    <2>4. Len(a) # 0 /\ 1 \in 1 .. n + 1 - k /\ k + 1 - 1 = k
      BY <1>2, <2>2
    <2>5. a # <<>> /\ a[1] = s[k]
      BY <2>2, <2>4, EmptySeq
    <2>6. /\ Head(a) = a[1] /\ Tail(a) \in Seq(S) /\ Len(Tail(a)) = Len(a) - 1
          /\ \A i \in 1 .. Len(Tail(a)) : Tail(a)[i] = a[i + 1]
      BY <2>2, <2>5, HeadTailProperties
    <2> DEFINE c == Tail(a)
    <2>7. c \in Seq(S) /\ Len(c) = Len(b) /\ Len(b) = n - k
      BY <1>2, <2>2, <2>3, <2>6
    <2>8. \A i \in 1 .. Len(c) : c[i] = a[i + 1]
      BY <2>6
    <2> HIDE DEF c
    <2>9. ASSUME NEW i \in 1 .. Len(c) PROVE c[i] = b[i]
      <3>1. i \in 1 .. n - k /\ i + 1 \in 1 .. n + 1 - k /\ i \in 1 .. n + 1 - (k + 1)
            /\ k + (i + 1) - 1 = k + 1 + i - 1
        BY <1>2, <2>7
      <3>2. c[i] = a[i + 1] /\ a[i + 1] = s[k + (i + 1) - 1] /\ b[i] = s[k + 1 + i - 1]
        BY <2>2, <2>3, <2>8, <3>1
      <3> QED
        BY <3>1, <3>2
    <2>10. c = b
      BY <2>3, <2>7, <2>9, SeqEqual
    <2> QED
      BY <2>5, <2>6, <2>10 DEF a, b, c
  <1>8. \A k \in 1 .. n + 1 : IsSeq(From(s, k))
    BY <1>5 DEF IsSeq
  <1> QED
    BY <1>2, <1>3, <1>6, <1>7, <1>8 DEF n

LEMMA EachIs ==
    ASSUME NEW s
    PROVE  /\ IsSeq(Each(s)) /\ Each(s) # <<>>
           /\ Written(Head(Each(s))) = <<>> /\ Argument(Head(Each(s))) = 0
           /\ Left(Each(s)) = Opened(Head(Each(s))) \o <<>>
           /\ Opened(Head(Each(s))) = IF s # <<>> THEN Head(s) \o Each(Tail(s)) ELSE <<>>
  <1> DEFINE i == [op |-> "each", of |-> s]
  <1>1. Each(s) = <<i>>
    BY DEF Each
  <1>2. i.op = "each" /\ i.of = s
    OBVIOUS
  <1> HIDE DEF i
  <1>3. IsSeq(<<i>>) /\ <<i>> # <<>> /\ Head(<<i>>) = i /\ Tail(<<i>>) = <<>>
    BY OneIsSeq
  <1>4. Written(i) = <<>> /\ Argument(i) = 0
    BY <1>2 DEF Written, Argument
  <1>5. Opened(i) = IF s # <<>> THEN Head(s) \o Each(Tail(s)) ELSE <<>>
    BY <1>2 DEF Opened
  <1>6. Left(<<i>>) = Opened(i) \o <<>>
    BY <1>3 DEF Left, Opened
  <1> QED
    BY <1>1, <1>3, <1>4, <1>5, <1>6

LEMMA CountedIs ==
    ASSUME NEW n, NEW T, IsSeq(T), NEW c, c = <<Counted(n, T)>>
    PROVE  /\ IsSeq(c) /\ c # <<>> /\ Encode(Head(c), 0) = <<>>
           /\ IsSeq(Follow(Head(c), 0)) /\ After(c, 0) = Follow(Head(c), 0)
           /\ Follow(Head(c), 0) = IF n = 0 THEN <<>> ELSE T \o <<Counted(n - 1, T)>>
  <1> DEFINE x == Counted(n, T)
  <1>1. x.k = "counted" /\ x.left = n /\ x.each = T
    BY DEF Counted
  <1> HIDE DEF x
  <1>2. c = <<x>>
    BY DEF x
  <1>3. IsSeq(c) /\ c # <<>> /\ Head(c) = x /\ Tail(c) = <<>>
    BY <1>2, OneIsSeq
  <1>4. Encode(x, 0) = <<>>
    BY <1>1 DEF Encode
  <1>5. Follow(x, 0) = IF n = 0 THEN <<>> ELSE T \o <<Counted(n - 1, T)>>
    BY <1>1 DEF Follow
  <1>6. IsSeq(Follow(x, 0))
    <2>1. IsSeq(T \o <<Counted(n - 1, T)>>)
      BY OneIsSeq, JoinSeq
    <2> QED
      BY <1>5, <2>1, OneIsSeq
  <1>7. After(c, 0) = Follow(x, 0)
    BY <1>3, <1>6, JoinSeq DEF After
  <1> QED
    BY <1>3, <1>4, <1>5, <1>6, <1>7

\* Elements that agree, in one set of places.
LEMMA TogetherAgree ==
    ASSUME NEW n \in Nat, NEW s, NEW r, NEW T, \A i \in 1 .. n : Agrees(s[i], r[i], T)
    PROVE  \E R : Agree(R) /\ \A i \in 1 .. n : Spot(s[i], r[i], T) \in R
  <1> DEFINE W(i) == CHOOSE R : Agree(R) /\ Spot(s[i], r[i], T) \in R
             R0 == UNION {W(i) : i \in 1 .. n}
  <1>1. ASSUME NEW i \in 1 .. n PROVE Agree(W(i)) /\ Spot(s[i], r[i], T) \in W(i)
    BY DEF Agrees
  <1>2. \A i \in 1 .. n : W(i) \subseteq R0
    OBVIOUS
  <1>3. \A p \in R0 : \E i \in 1 .. n : p \in W(i)
    OBVIOUS
  <1> HIDE DEF W, R0
  <1>4. Agree(R0)
    <2> SUFFICES ASSUME NEW p \in R0 PROVE p = Spot(<<>>, <<>>, <<>>) \/ AsMeant(R0, p)
      BY DEF Agree
    <2>1. PICK i \in 1 .. n : p \in W(i)
      BY <1>3
    <2>2. p = Spot(<<>>, <<>>, <<>>) \/ AsMeant(W(i), p)
      BY <1>1, <2>1 DEF Agree
    <2>3. W(i) \subseteq R0
      BY <1>2
    <2> QED
      BY <2>2, <2>3, AsMeantMore
  <1>5. \A i \in 1 .. n : Spot(s[i], r[i], T) \in R0
    BY <1>1, <1>2
  <1> QED
    BY <1>4, <1>5

\* One loop over the elements, one list of the library.
LEMMA EachAgrees ==
    ASSUME NEW s, NEW r, IsSeq(s), IsSeq(r), NEW n, n = Len(s), n = Len(r),
           NEW T, IsSeq(T), \A i \in 1 .. n : Agrees(s[i], r[i], T)
    PROVE  Agrees(Each(s), Each(r), <<Counted(n, T)>>)
  <1> DEFINE a(k) == Each(From(s, k))
             b(k) == Each(From(r, k))
             c(k) == <<Counted(n + 1 - k, T)>>
             Rounds == 1 .. n + 1
  <1>1. /\ n \in Nat /\ From(s, 1) = s /\ From(r, 1) = r
        /\ From(s, n + 1) = <<>> /\ From(r, n + 1) = <<>>
        /\ \A k \in 1 .. n : /\ From(s, k) # <<>> /\ Head(From(s, k)) = s[k]
                             /\ Tail(From(s, k)) = From(s, k + 1)
                             /\ From(r, k) # <<>> /\ Head(From(r, k)) = r[k]
                             /\ Tail(From(r, k)) = From(r, k + 1)
    <2>1. /\ Len(s) \in Nat /\ From(s, 1) = s /\ From(s, Len(s) + 1) = <<>>
          /\ \A k \in 1 .. Len(s) : /\ From(s, k) # <<>> /\ Head(From(s, k)) = s[k]
                                    /\ Tail(From(s, k)) = From(s, k + 1)
      BY Rest, Zenon
    <2>2. /\ From(r, 1) = r /\ From(r, Len(r) + 1) = <<>>
          /\ \A k \in 1 .. Len(r) : /\ From(r, k) # <<>> /\ Head(From(r, k)) = r[k]
                                    /\ Tail(From(r, k)) = From(r, k + 1)
      BY Rest, Zenon
    <2> QED
      BY <2>1, <2>2
  <1>2. PICK R : Agree(R) /\ \A i \in 1 .. n : Spot(s[i], r[i], T) \in R
    BY <1>1, TogetherAgree
  <1> DEFINE e(k) == Spot(a(k), b(k), c(k))
             V == {Spot(<<>>, <<>>, <<>>)} \cup {e(k) : k \in Rounds}
                  \cup {More(z[1], a(z[2]), b(z[2]), c(z[2])) : z \in R \X Rounds}
  <1>3. /\ Spot(<<>>, <<>>, <<>>) \in V /\ \A k \in Rounds : e(k) \in V
        /\ \A p \in R : \A k \in Rounds : More(p, a(k), b(k), c(k)) \in V
    <2>1. ASSUME NEW p \in R, NEW k \in Rounds PROVE More(p, a(k), b(k), c(k)) \in V
      <3>1. <<p, k>> \in R \X Rounds /\ <<p, k>>[1] = p /\ <<p, k>>[2] = k
        OBVIOUS
      <3> HIDE DEF a, b, c, Rounds, e
      <3> QED
        BY <3>1
    <2> HIDE DEF a, b, c, Rounds
    <2> QED
      BY <2>1
  <1>4. ASSUME NEW v \in V
        PROVE  \/ v = Spot(<<>>, <<>>, <<>>) \/ \E k \in Rounds : v = e(k)
               \/ \E p \in R : \E k \in Rounds : v = More(p, a(k), b(k), c(k))
    <2> HIDE DEF a, b, c, Rounds
    <2> QED
      OBVIOUS
  <1> HIDE DEF V
  <1>5. ASSUME NEW k \in Rounds
        PROVE  /\ IsSeq(a(k)) /\ IsSeq(b(k)) /\ IsSeq(c(k))
               /\ a(k) # <<>> /\ b(k) # <<>> /\ c(k) # <<>>
               /\ Written(Head(a(k))) = <<>> /\ Argument(Head(b(k))) = 0
               /\ Encode(Head(c(k)), 0) = <<>>
               /\ IsSeq(Follow(Head(c(k)), 0)) /\ After(c(k), 0) = Follow(Head(c(k)), 0)
    <2>1. /\ IsSeq(a(k)) /\ IsSeq(b(k)) /\ a(k) # <<>> /\ b(k) # <<>>
          /\ Written(Head(a(k))) = <<>> /\ Argument(Head(b(k))) = 0
      BY EachIs
    <2> DEFINE x == c(k)
    <2>2. x = <<Counted(n + 1 - k, T)>>
      OBVIOUS
    <2> HIDE DEF x
    <2>3. /\ IsSeq(x) /\ x # <<>> /\ Encode(Head(x), 0) = <<>>
          /\ IsSeq(Follow(Head(x), 0)) /\ After(x, 0) = Follow(Head(x), 0)
      BY <2>2, CountedIs
    <2> QED
      BY <2>1, <2>3 DEF x
  <1>6. ASSUME NEW k \in Rounds PROVE AsMeant(V, e(k))
    <2>1. \/ k = n + 1
          \/ k \in 1 .. n /\ k + 1 \in Rounds
      BY <1>1
    <2>2. CASE k = n + 1
      <3>1. n + 1 - k = 0
        BY <1>1, <2>2
      <3>2. /\ Opened(Head(a(k))) = <<>> /\ Left(a(k)) = <<>> \o <<>>
            /\ Opened(Head(b(k))) = <<>> /\ Left(b(k)) = <<>> \o <<>>
        BY <1>1, <2>2, EachIs
      <3>3. After(c(k), 0) = <<>>
        BY <3>1, CountedIs
      <3>4. IsSeq(<<>>) /\ <<>> \o <<>> = <<>>
        BY OneIsSeq, JoinSeq
      <3>5. e(k).draws = a(k) /\ e(k).meant = b(k) /\ e(k).todo = c(k)
        BY SpotIs
      <3> HIDE DEF a, b, c, e, Rounds
      <3> QED
        BY <1>3, <1>5, <3>2, <3>3, <3>4, <3>5 DEF AsMeant
    <2>3. CASE k \in 1 .. n /\ k + 1 \in Rounds
      <3> DEFINE j == k + 1
                 q == Spot(s[k], r[k], T)
      <3>1. n + 1 - k # 0 /\ (n + 1 - k) - 1 = n + 1 - j /\ k \in 1 .. n
        BY <1>1, <2>3
      <3>2. IsSeq(s[k]) /\ IsSeq(r[k])
        BY <3>1, AgreesCases
      <3>3. /\ From(s, k) # <<>> /\ Head(From(s, k)) = s[k] /\ Tail(From(s, k)) = From(s, j)
            /\ From(r, k) # <<>> /\ Head(From(r, k)) = r[k] /\ Tail(From(r, k)) = From(r, j)
        BY <1>1, <3>1
      <3>4. /\ Opened(Head(a(k))) = s[k] \o a(j) /\ Left(a(k)) = Opened(Head(a(k))) \o <<>>
            /\ Opened(Head(b(k))) = r[k] \o b(j) /\ Left(b(k)) = Opened(Head(b(k))) \o <<>>
        BY <3>3, EachIs
      <3>5. After(c(k), 0) = T \o c(j)
        <4> DEFINE x == c(k)
                   h == n + 1 - k
        <4>1. x = <<Counted(h, T)>> /\ h # 0 /\ c(j) = <<Counted(h - 1, T)>>
          BY <3>1
        <4> HIDE DEF x, h, a, b, c, e, j
        <4>2. After(x, 0) = T \o c(j)
          BY <4>1, CountedIs
        <4> QED
          BY <4>2 DEF x
      <3>6. j \in Rounds
        BY <2>3
      <3>7. IsSeq(a(j)) /\ IsSeq(b(j))
        BY <1>5, <3>6
      <3>8. More(q, a(j), b(j), c(j)) \in V
        BY <1>2, <1>3, <3>1, <3>6
      <3>9. More(q, a(j), b(j), c(j)) = Spot(s[k] \o a(j), r[k] \o b(j), T \o c(j))
        BY SpotIs DEF More
      <3>10. e(k).draws = a(k) /\ e(k).meant = b(k) /\ e(k).todo = c(k)
        BY SpotIs
      <3> HIDE DEF a, b, c, e, Rounds, j, q
      <3>11. IsSeq(s[k] \o a(j)) /\ IsSeq(r[k] \o b(j))
        BY <3>2, <3>7, JoinSeq
      <3>12. Left(a(k)) = s[k] \o a(j) /\ Left(b(k)) = r[k] \o b(j)
        BY <3>4, <3>11, JoinSeq
      <3> QED
        BY <1>5, <3>4, <3>5, <3>8, <3>9, <3>10, <3>11, <3>12 DEF AsMeant
    <2> QED
      BY <2>1, <2>2, <2>3
  <1>7. ASSUME NEW p \in R, NEW k \in Rounds
        PROVE  More(p, a(k), b(k), c(k)) = e(k) \/ AsMeant(V, More(p, a(k), b(k), c(k)))
    <2>1. IsSeq(a(k)) /\ IsSeq(b(k)) /\ IsSeq(c(k))
      BY <1>5
    <2>2. \A u \in R : More(u, a(k), b(k), c(k)) \in V
      BY <1>3
    <2> DEFINE x == a(k)
               y == b(k)
               w == c(k)
    <2>3. CASE p = Spot(<<>>, <<>>, <<>>)
      <3>1. p.draws = <<>> /\ p.meant = <<>> /\ p.todo = <<>>
        BY <2>3, SpotIs
      <3>2. IsSeq(x) /\ IsSeq(y) /\ IsSeq(w) /\ e(k) = Spot(x, y, w)
        BY <2>1
      <3> HIDE DEF x, y, w, e
      <3>3. <<>> \o x = x /\ <<>> \o y = y /\ <<>> \o w = w
        BY <3>2, JoinSeq
      <3>4. More(p, x, y, w) = e(k)
        BY <3>1, <3>2, <3>3 DEF More
      <3> QED
        BY <3>4 DEF x, y, w
    <2>4. CASE AsMeant(R, p)
      <3>1. IsSeq(x) /\ IsSeq(y) /\ IsSeq(w) /\ \A u \in R : More(u, x, y, w) \in V
        BY <2>1, <2>2
      <3> HIDE DEF x, y, w
      <3>2. AsMeant(V, More(p, x, y, w))
        BY <2>4, <3>1, AsMeantThen
      <3> QED
        BY <3>2 DEF x, y, w
    <2> QED
      BY <1>2, <2>3, <2>4 DEF Agree
  <1>8. Agree(V)
    <2> HIDE DEF a, b, c, e, Rounds
    <2> SUFFICES ASSUME NEW v \in V PROVE v = Spot(<<>>, <<>>, <<>>) \/ AsMeant(V, v)
      BY DEF Agree
    <2> QED
      BY <1>4, <1>6, <1>7
  <1>9. Spot(Each(s), Each(r), <<Counted(n, T)>>) \in V
    <2>1. 1 \in Rounds /\ n + 1 - 1 = n
      BY <1>1
    <2>2. e(1) = Spot(Each(s), Each(r), <<Counted(n, T)>>)
      BY <1>1, <2>1
    <2> HIDE DEF a, b, c, e, Rounds
    <2> QED
      BY <1>3, <2>1, <2>2
  <1> QED
    BY <1>8, <1>9 DEF Agrees

\* A field, and what follows from it.
LEMMA FieldAgrees ==
    ASSUME NEW i, i.op \in {"write", "write_text"}, NEW j, j.op = "value", NEW x,
           Written(i) = Encode(x, j.v), NEW d, NEW m, Agrees(d, m, Follow(x, j.v))
    PROVE  Agrees(<<i>> \o d, <<j>> \o m, <<x>>)
  <1> DEFINE v == j.v
             f == Follow(x, v)
             a == <<i>> \o d
             b == <<j>> \o m
             c == <<x>>
  <1>1. IsSeq(d) /\ IsSeq(m) /\ IsSeq(f)
    BY AgreesCases
  <1>2. /\ IsSeq(<<i>>) /\ <<i>> # <<>> /\ Head(<<i>>) = i /\ Tail(<<i>>) = <<>>
        /\ IsSeq(<<j>>) /\ <<j>> # <<>> /\ Head(<<j>>) = j /\ Tail(<<j>>) = <<>>
        /\ IsSeq(c) /\ c # <<>> /\ Head(c) = x /\ Tail(c) = <<>> /\ IsSeq(<<>>)
    BY OneIsSeq
  <1>3. Opened(i) = <<>> /\ Opened(j) = <<>> /\ Argument(j) = v
    BY DEF Opened, Argument
  <1>4. Left(<<i>>) = <<>> /\ Left(<<j>>) = <<>>
    <2>1. Left(<<i>>) = Opened(i) \o <<>> /\ Left(<<j>>) = Opened(j) \o <<>>
      BY <1>2 DEF Left, Opened
    <2> QED
      BY <1>2, <1>3, <2>1, JoinSeq
  <1>5. a # <<>> /\ Head(a) = i /\ IsSeq(a) /\ Left(a) = d
    <2>1. a # <<>> /\ Head(a) = i /\ IsSeq(a) /\ Left(a) = <<>> \o d
      <3> DEFINE s == <<i>>
      <3>1. /\ IsSeq(s) /\ s # <<>> /\ Head(s) = i /\ IsSeq(d) /\ Left(s) = <<>>
            /\ a = s \o d /\ IsSeq(Opened(Head(s)))
        BY <1>1, <1>2, <1>3, <1>4
      <3> HIDE DEF s, a
      <3> QED
        BY <3>1, LeftMore
    <2> QED
      BY <1>1, <2>1, JoinSeq
  <1>6. b # <<>> /\ Head(b) = j /\ IsSeq(b) /\ Left(b) = m
    <2>1. b # <<>> /\ Head(b) = j /\ IsSeq(b) /\ Left(b) = <<>> \o m
      <3> DEFINE s == <<j>>
      <3>1. /\ IsSeq(s) /\ s # <<>> /\ Head(s) = j /\ IsSeq(m) /\ Left(s) = <<>>
            /\ b = s \o m /\ IsSeq(Opened(Head(s)))
        BY <1>1, <1>2, <1>3, <1>4
      <3> HIDE DEF s, b
      <3> QED
        BY <3>1, LeftMore
    <2> QED
      BY <1>1, <2>1, JoinSeq
  <1>7. After(c, v) = f
    <2>1. After(c, v) = f \o <<>>
      BY <1>2 DEF After
    <2> QED
      BY <1>1, <2>1, JoinSeq
  <1>8. Written(i) = Encode(x, v) /\ Agrees(d, m, f)
    OBVIOUS
  <1> HIDE DEF a, b, c, f, v
  <1>9. Agrees(a, b, c)
    <2>1. Argument(Head(b)) = v /\ IsSeq(Opened(Head(a))) /\ IsSeq(Opened(Head(b)))
          /\ IsSeq(Follow(Head(c), v)) /\ Written(Head(a)) = Encode(Head(c), v)
          /\ Agrees(Left(a), Left(b), After(c, v))
      BY <1>1, <1>2, <1>3, <1>5, <1>6, <1>7, <1>8 DEF f
    <2> QED
      BY <1>2, <1>5, <1>6, <2>1, BeforeAgrees
  <1> QED
    BY <1>9 DEF a, b, c

\* A number, and a text.
LEMMA NumberAgrees ==
    ASSUME NEW n, NEW v
    PROVE  Agrees(Write(n, v), Value(v), Unsigned(n))
  <1> DEFINE i == [op |-> "write", n |-> n, v |-> v]
             j == [op |-> "value", v |-> v]
             x == [k |-> "unsigned", width |-> n]
  <1>1. Write(n, v) = <<i>> /\ Value(v) = <<j>> /\ Unsigned(n) = <<x>>
    BY DEF Write, Value, Unsigned
  <1>2. /\ i.op = "write" /\ i.n = n /\ i.v = v /\ j.op = "value" /\ j.v = v
        /\ x.k = "unsigned" /\ x.width = n
    OBVIOUS
  <1> HIDE DEF i, j, x
  <1>3. Written(i) = Encode(x, v) /\ Follow(x, v) = <<>>
    BY <1>2 DEF Written, Encode, Follow
  <1>4. Agrees(<<i>> \o <<>>, <<j>> \o <<>>, <<x>>)
    <2> DEFINE e == <<>>
    <2>1. Agrees(e, e, Follow(x, j.v)) /\ Written(i) = Encode(x, j.v)
      BY <1>2, <1>3, NothingAgrees
    <2>2. i.op \in {"write", "write_text"} /\ j.op = "value"
      BY <1>2
    <2> HIDE DEF e
    <2>3. Agrees(<<i>> \o e, <<j>> \o e, <<x>>)
      BY <2>1, <2>2, FieldAgrees
    <2> QED
      BY <2>3 DEF e
  <1>5. <<i>> \o <<>> = <<i>> /\ <<j>> \o <<>> = <<j>>
    BY OneIsSeq, JoinSeq
  <1> QED
    BY <1>1, <1>4, <1>5

LEMMA TextAgrees ==
    ASSUME NEW v, NEW x, IsText(x)
    PROVE  Agrees(WriteText(v), Value(v), <<x>>)
  <1> DEFINE i == [op |-> "write_text", v |-> v]
             j == [op |-> "value", v |-> v]
  <1>1. WriteText(v) = <<i>> /\ Value(v) = <<j>>
    BY DEF WriteText, Value
  <1>2. /\ i.op = "write_text" /\ i.v = v /\ j.op = "value" /\ j.v = v
    OBVIOUS
  <1> HIDE DEF i, j
  <1>3. Written(i) = Encode(x, v) /\ Follow(x, v) = <<>>
    BY <1>2 DEF Written, Encode, Follow, IsText
  <1>4. Agrees(<<i>> \o <<>>, <<j>> \o <<>>, <<x>>)
    <2> DEFINE e == <<>>
    <2>1. Agrees(e, e, Follow(x, j.v)) /\ Written(i) = Encode(x, j.v)
      BY <1>2, <1>3, NothingAgrees
    <2>2. i.op \in {"write", "write_text"} /\ j.op = "value"
      BY <1>2
    <2> HIDE DEF e
    <2>3. Agrees(<<i>> \o e, <<j>> \o e, <<x>>)
      BY <2>1, <2>2, FieldAgrees
    <2> QED
      BY <2>3 DEF e
  <1>5. <<i>> \o <<>> = <<i>> /\ <<j>> \o <<>> = <<j>>
    BY OneIsSeq, JoinSeq
  <1> QED
    BY <1>1, <1>4, <1>5

\* A list, of elements that agree.
LEMMA ListAgrees ==
    ASSUME NEW s, NEW r, IsSeq(s), IsSeq(r), NEW n, n = Len(s), n = Len(r),
           NEW T, IsSeq(T), \A k \in 1 .. n : Agrees(s[k], r[k], T)
    PROVE  Agrees(WriteAll(s), ListOfAll(r), ListOf(T))
  <1> DEFINE i == [op |-> "write", n |-> 4, v |-> n]
             j == [op |-> "value", v |-> n]
             x == [k |-> "list", each |-> T]
  <1>1. /\ WriteAll(s) = <<i>> \o Each(s) /\ ListOfAll(r) = <<j>> \o Each(r)
        /\ ListOf(T) = <<x>>
    BY DEF WriteAll, ListOfAll, Write, Value, ListOf
  <1>2. /\ i.op = "write" /\ i.n = 4 /\ i.v = n /\ j.op = "value" /\ j.v = n
        /\ x.k = "list" /\ x.each = T
    OBVIOUS
  <1> HIDE DEF i, j, x
  <1>3. Written(i) = Encode(x, n) /\ Follow(x, n) = <<Counted(n, T)>>
    BY <1>2 DEF Written, Encode, Follow
  <1>4. Agrees(Each(s), Each(r), <<Counted(n, T)>>)
    BY EachAgrees
  <1>5. Agrees(<<i>> \o Each(s), <<j>> \o Each(r), <<x>>)
    BY <1>2, <1>3, <1>4, FieldAgrees
  <1> QED
    BY <1>1, <1>5

\* One instruction for each element of s.
LEMMA FunIsSeq ==
    ASSUME NEW n \in Nat, NEW f, f = [i \in 1 .. n |-> f[i]]
    PROVE  IsSeq(f) /\ Len(f) = n
  <1> DEFINE S == {f[i] : i \in 1 .. n}
  <1>1. f \in [1 .. n -> S]
    <2>1. \A i \in 1 .. n : f[i] \in S
      OBVIOUS
    <2> HIDE DEF S
    <2>2. [i \in 1 .. n |-> f[i]] \in [1 .. n -> S]
      BY <2>1
    <2> QED
      BY <2>2
  <1> HIDE DEF S
  <1>2. f \in Seq(S)
    BY <1>1, SeqDef
  <1>3. Len(f) = n
    BY <1>1, <1>2, LenProperties
  <1> QED
    BY <1>2, <1>3 DEF IsSeq

LEMMA TableAgrees ==
    ASSUME NEW s, IsSeq(s), NEW f, NEW g, NEW T, IsSeq(T),
           f = [i \in DOMAIN s |-> f[i]], g = [i \in DOMAIN s |-> g[i]],
           \A i \in DOMAIN s : Agrees(f[i], g[i], T)
    PROVE  Agrees(WriteAll(f), ListOfAll(g), ListOf(T))
  <1> DEFINE n == Len(s)
  <1>1. n \in Nat /\ DOMAIN s = 1 .. n
    <2>1. PICK S : s \in Seq(S)
      BY DEF IsSeq
    <2> QED
      BY <2>1, LenProperties
  <1> HIDE DEF n
  <1>2. IsSeq(f) /\ Len(f) = n /\ IsSeq(g) /\ Len(g) = n
    <2>1. f = [i \in 1 .. n |-> f[i]] /\ g = [i \in 1 .. n |-> g[i]]
      BY <1>1
    <2> QED
      BY <1>1, <2>1, FunIsSeq
  <1>3. \A i \in 1 .. n : Agrees(f[i], g[i], T)
    BY <1>1
  <1> QED
    BY <1>2, <1>3, ListAgrees

\* What the lists of class Game are made of.
LEMMA PositionAgrees ==
    ASSUME NEW p
    PROVE  Agrees(WritePosition(p), PositionView(p), Position)
  <1>1. Agrees(Write(2, p[1]), Value(p[1]), U16) /\ Agrees(Write(2, p[2]), Value(p[2]), U16)
    BY NumberAgrees DEF U16
  <1> QED
    BY <1>1, JoinAgrees DEF WritePosition, PositionView, Position

LEMMA PlacedAgrees ==
    ASSUME NEW a, NEW p
    PROVE  Agrees(Write(1, a) \o WritePosition(p), Value(a) \o PositionView(p), U8 \o Position)
  <1>1. Agrees(Write(1, a), Value(a), U8)
    BY NumberAgrees DEF U8
  <1>2. Agrees(WritePosition(p), PositionView(p), Position)
    BY PositionAgrees
  <1> QED
    BY <1>1, <1>2, JoinAgrees

LEMMA ScoreAgrees ==
    ASSUME NEW a, NEW c
    PROVE  Agrees(Write(1, a) \o Write(4, c), Value(a) \o Value(c), U8 \o U32)
  <1>1. Agrees(Write(1, a), Value(a), U8) /\ Agrees(Write(4, c), Value(c), U32)
    BY NumberAgrees DEF U8, U32
  <1> QED
    BY <1>1, JoinAgrees

LEMMA BombAgrees ==
    ASSUME NEW b
    PROVE  Agrees(WriteBomb(b), PositionView(b[1]) \o Value(b[2]), Bomb)
  <1>1. Agrees(WritePosition(b[1]), PositionView(b[1]), Position)
    BY PositionAgrees
  <1>2. Agrees(Write(2, b[2]), Value(b[2]), U16)
    BY NumberAgrees DEF U16
  <1>3. Agrees(WritePosition(b[1]) \o Write(2, b[2]), PositionView(b[1]) \o Value(b[2]), Position \o U16)
    BY <1>1, <1>2, JoinAgrees
  <1> QED
    BY <1>3 DEF WriteBomb, Bomb

LEMMA PlayerAgrees ==
    ASSUME NEW a, NEW p
    PROVE  Agrees(Write(1, a) \o WritePlayer(p), (Value(a) \o Value(p[1])) \o Value(p[2]), U8 \o Player)
  <1>1. Agrees(Write(1, a), Value(a), U8)
    BY NumberAgrees DEF U8
  <1>2. Agrees(WriteText(p[1]), Value(p[1]), Str) /\ Agrees(WriteText(p[2]), Value(p[2]), Address)
    BY TextAgrees DEF IsText, Str, Address
  <1>3. Agrees(WriteText(p[1]) \o WriteText(p[2]), Value(p[1]) \o Value(p[2]), Str \o Address)
    BY <1>2, JoinAgrees
  <1>4. Agrees(Write(1, a) \o (WriteText(p[1]) \o WriteText(p[2])),
               Value(a) \o (Value(p[1]) \o Value(p[2])), U8 \o (Str \o Address))
    BY <1>1, <1>3, JoinAgrees
  <1>5. IsSeq(Value(a)) /\ IsSeq(Value(p[1])) /\ IsSeq(Value(p[2]))
    BY OneIsSeq DEF Value
  <1>6. Grouped(Value(a), Value(p[1]), Value(p[2]))
    BY <1>5, GroupSeq, Zenon
  <1>7. (Value(a) \o Value(p[1])) \o Value(p[2]) = Value(a) \o (Value(p[1]) \o Value(p[2]))
    BY <1>6 DEF Grouped
  <1> QED
    BY <1>4, <1>7 DEF WritePlayer, Player

\* The lists of class Game.
LEMMA PlayersAgree ==
    ASSUME NEW s, IsSeq(s)
    PROVE  Agrees(WritePlayers(s), PlayersView(s), MapOf(U8, Player))
  <1> DEFINE f == [i \in DOMAIN s |-> Write(1, s[i][1]) \o WritePlayer(s[i][2])]
             g == [i \in DOMAIN s |-> Value(s[i][1]) \o Value(s[i][2][1]) \o Value(s[i][2][2])]
             T == U8 \o Player
  <1>1. f = [i \in DOMAIN s |-> f[i]] /\ g = [i \in DOMAIN s |-> g[i]]
    OBVIOUS
  <1>2. \A i \in DOMAIN s : Agrees(f[i], g[i], T)
    BY PlayerAgrees
  <1>3. IsSeq(T)
    BY OneIsSeq, JoinSeq DEF U8, Player, Str, Address, Unsigned
  <1>4. WritePlayers(s) = WriteAll(f) /\ PlayersView(s) = ListOfAll(g)
        /\ MapOf(U8, Player) = ListOf(T)
    BY DEF WritePlayers, PlayersView, MapOf
  <1> HIDE DEF f, g, T
  <1> QED
    BY <1>1, <1>2, <1>3, <1>4, TableAgrees

LEMMA PositionsAgree ==
    ASSUME NEW s, IsSeq(s)
    PROVE  Agrees(WritePositions(s), PositionsView(s), MapOf(U8, Position))
  <1> DEFINE f == [i \in DOMAIN s |-> Write(1, s[i][1]) \o WritePosition(s[i][2])]
             g == [i \in DOMAIN s |-> Value(s[i][1]) \o PositionView(s[i][2])]
             T == U8 \o Position
  <1>1. f = [i \in DOMAIN s |-> f[i]] /\ g = [i \in DOMAIN s |-> g[i]]
    OBVIOUS
  <1>2. \A i \in DOMAIN s : Agrees(f[i], g[i], T)
    BY PlacedAgrees
  <1>3. IsSeq(T)
    BY OneIsSeq, JoinSeq DEF U8, Position, U16, Unsigned
  <1>4. WritePositions(s) = WriteAll(f) /\ PositionsView(s) = ListOfAll(g)
        /\ MapOf(U8, Position) = ListOf(T)
    BY DEF WritePositions, PositionsView, MapOf
  <1> HIDE DEF f, g, T
  <1> QED
    BY <1>1, <1>2, <1>3, <1>4, TableAgrees

LEMMA CellsAgree ==
    ASSUME NEW s, IsSeq(s)
    PROVE  /\ Agrees(WriteBlocks(s), CellsView(s), ListOf(Position))
           /\ Agrees(WriteExplosions(s), CellsView(s), ListOf(Position))
  <1> DEFINE f == [i \in DOMAIN s |-> WritePosition(s[i])]
             g == [i \in DOMAIN s |-> PositionView(s[i])]
  <1>1. f = [i \in DOMAIN s |-> f[i]] /\ g = [i \in DOMAIN s |-> g[i]]
    OBVIOUS
  <1>2. \A i \in DOMAIN s : Agrees(f[i], g[i], Position)
    BY PositionAgrees
  <1>3. IsSeq(Position)
    BY OneIsSeq, JoinSeq DEF Position, U16, Unsigned
  <1>4. WriteBlocks(s) = WriteAll(f) /\ WriteExplosions(s) = WriteAll(f)
        /\ CellsView(s) = ListOfAll(g)
    BY DEF WriteBlocks, WriteExplosions, CellsView
  <1> HIDE DEF f, g
  <1>5. Agrees(WriteAll(f), ListOfAll(g), ListOf(Position))
    BY <1>1, <1>2, <1>3, TableAgrees
  <1> QED
    BY <1>4, <1>5

LEMMA BombsAgree ==
    ASSUME NEW s, IsSeq(s)
    PROVE  Agrees(WriteBombs(s), BombsView(s), ListOf(Bomb))
  <1> DEFINE f == [i \in DOMAIN s |-> WriteBomb(s[i])]
             g == [i \in DOMAIN s |-> PositionView(s[i][1]) \o Value(s[i][2])]
  <1>1. f = [i \in DOMAIN s |-> f[i]] /\ g = [i \in DOMAIN s |-> g[i]]
    OBVIOUS
  <1>2. \A i \in DOMAIN s : Agrees(f[i], g[i], Bomb)
    BY BombAgrees
  <1>3. IsSeq(Bomb)
    BY OneIsSeq, JoinSeq DEF Bomb, Position, U16, Unsigned
  <1>4. WriteBombs(s) = WriteAll(f) /\ BombsView(s) = ListOfAll(g)
    BY DEF WriteBombs, BombsView
  <1> HIDE DEF f, g
  <1> QED
    BY <1>1, <1>2, <1>3, <1>4, TableAgrees

LEMMA ScoresAgree ==
    ASSUME NEW s, IsSeq(s)
    PROVE  Agrees(WriteScores(s), ScoresView(s), MapOf(U8, U32))
  <1> DEFINE f == [i \in DOMAIN s |-> Write(1, s[i][1]) \o Write(4, s[i][2])]
             g == [i \in DOMAIN s |-> Value(s[i][1]) \o Value(s[i][2])]
             T == U8 \o U32
  <1>1. f = [i \in DOMAIN s |-> f[i]] /\ g = [i \in DOMAIN s |-> g[i]]
    OBVIOUS
  <1>2. \A i \in DOMAIN s : Agrees(f[i], g[i], T)
    BY ScoreAgrees
  <1>3. IsSeq(T)
    BY OneIsSeq, JoinSeq DEF U8, U32, Unsigned
  <1>4. WriteScores(s) = WriteAll(f) /\ ScoresView(s) = ListOfAll(g)
        /\ MapOf(U8, U32) = ListOf(T)
    BY DEF WriteScores, ScoresView, MapOf
  <1> HIDE DEF f, g, T
  <1> QED
    BY <1>1, <1>2, <1>3, <1>4, TableAgrees

LEMMA FieldsAreSeqs ==
    ASSUME NEW g \in GameType
    PROVE  /\ IsSeq(g.players) /\ IsSeq(g.positions) /\ IsSeq(g.blocks)
           /\ IsSeq(g.bombs) /\ IsSeq(g.explosions) /\ IsSeq(g.scores)
  <1>1. ASSUME NEW V, NEW s \in MapType(V) PROVE IsSeq(s)
    BY SeqIsSeq DEF MapType
  <1>2. ASSUME NEW V, NEW s \in SetType(V) PROVE IsSeq(s)
    BY SeqIsSeq DEF SetType
  <1>3. /\ g.players \in MapType(TextType \X AddressType) /\ g.positions \in MapType(PositionType)
        /\ g.blocks \in SetType(PositionType) /\ g.bombs \in SetType(PositionType \X Tokens(U16[1]))
        /\ g.explosions \in SetType(PositionType) /\ g.scores \in MapType(Tokens(U32[1]))
    BY DEF GameType
  <1> QED
    BY <1>1, <1>2, <1>3

\* A lobby, field by field.
LEMMA LobbyAgrees ==
    ASSUME NEW g \in GameType
    PROVE  Agrees(LobbyFields(g), LobbyView(g), DisplayMessage[1].of[1])
  <1> DEFINE d1 == WriteText(g.server_name)
             d2 == d1 \o Write(1, g.players_count)
             d3 == d2 \o Write(2, g.size_x)
             d4 == d3 \o Write(2, g.size_y)
             d5 == d4 \o Write(2, g.game_length)
             d6 == d5 \o Write(2, g.explosion_radius)
             d7 == d6 \o Write(2, g.bomb_timer)
             d8 == d7 \o WritePlayers(g.players)
             m1 == Value(g.server_name)
             m2 == m1 \o Value(g.players_count)
             m3 == m2 \o Value(g.size_x)
             m4 == m3 \o Value(g.size_y)
             m5 == m4 \o Value(g.game_length)
             m6 == m5 \o Value(g.explosion_radius)
             m7 == m6 \o Value(g.bomb_timer)
             m8 == m7 \o PlayersView(g.players)
             t1 == Str
             t2 == t1 \o U8
             t3 == t2 \o U16
             t4 == t3 \o U16
             t5 == t4 \o U16
             t6 == t5 \o U16
             t7 == t6 \o U16
             t8 == t7 \o MapOf(U8, Player)
  <1>0. IsSeq(g.players)
    BY FieldsAreSeqs
  <1>1. Agrees(WriteText(g.server_name), Value(g.server_name), Str)
    BY TextAgrees DEF IsText, Str
  <1>2. Agrees(d1, m1, t1)
    BY <1>1
  <1>3. Agrees(Write(1, g.players_count), Value(g.players_count), U8)
    BY NumberAgrees DEF U8
  <1>4. Agrees(d2, m2, t2)
    BY <1>2, <1>3, JoinAgrees
  <1>5. Agrees(Write(2, g.size_x), Value(g.size_x), U16)
    BY NumberAgrees DEF U16
  <1>6. Agrees(d3, m3, t3)
    BY <1>4, <1>5, JoinAgrees
  <1>7. Agrees(Write(2, g.size_y), Value(g.size_y), U16)
    BY NumberAgrees DEF U16
  <1>8. Agrees(d4, m4, t4)
    BY <1>6, <1>7, JoinAgrees
  <1>9. Agrees(Write(2, g.game_length), Value(g.game_length), U16)
    BY NumberAgrees DEF U16
  <1>10. Agrees(d5, m5, t5)
    BY <1>8, <1>9, JoinAgrees
  <1>11. Agrees(Write(2, g.explosion_radius), Value(g.explosion_radius), U16)
    BY NumberAgrees DEF U16
  <1>12. Agrees(d6, m6, t6)
    BY <1>10, <1>11, JoinAgrees
  <1>13. Agrees(Write(2, g.bomb_timer), Value(g.bomb_timer), U16)
    BY NumberAgrees DEF U16
  <1>14. Agrees(d7, m7, t7)
    BY <1>12, <1>13, JoinAgrees
  <1>15. Agrees(WritePlayers(g.players), PlayersView(g.players), MapOf(U8, Player))
    BY <1>0, PlayersAgree
  <1>16. Agrees(d8, m8, t8)
    BY <1>14, <1>15, JoinAgrees
  <1>17. LobbyFields(g) = d8 /\ LobbyView(g) = m8 /\ DisplayMessage[1].of[1] = t8
    BY DEF LobbyFields, LobbyView, DisplayMessage, Enum
  <1> QED
    BY <1>16, <1>17

\* A game, field by field.
LEMMA GameAgrees ==
    ASSUME NEW g \in GameType
    PROVE  Agrees(GameFields(g), GameView(g), DisplayMessage[1].of[2])
  <1> DEFINE d1 == WriteText(g.server_name)
             d2 == d1 \o Write(2, g.size_x)
             d3 == d2 \o Write(2, g.size_y)
             d4 == d3 \o Write(2, g.game_length)
             d5 == d4 \o Write(2, g.turn)
             d6 == d5 \o WritePlayers(g.players)
             d7 == d6 \o WritePositions(g.positions)
             d8 == d7 \o WriteBlocks(g.blocks)
             d9 == d8 \o WriteBombs(g.bombs)
             d10 == d9 \o WriteExplosions(g.explosions)
             d11 == d10 \o WriteScores(g.scores)
             m1 == Value(g.server_name)
             m2 == m1 \o Value(g.size_x)
             m3 == m2 \o Value(g.size_y)
             m4 == m3 \o Value(g.game_length)
             m5 == m4 \o Value(g.turn)
             m6 == m5 \o PlayersView(g.players)
             m7 == m6 \o PositionsView(g.positions)
             m8 == m7 \o CellsView(g.blocks)
             m9 == m8 \o BombsView(g.bombs)
             m10 == m9 \o CellsView(g.explosions)
             m11 == m10 \o ScoresView(g.scores)
             t1 == Str
             t2 == t1 \o U16
             t3 == t2 \o U16
             t4 == t3 \o U16
             t5 == t4 \o U16
             t6 == t5 \o MapOf(U8, Player)
             t7 == t6 \o MapOf(U8, Position)
             t8 == t7 \o ListOf(Position)
             t9 == t8 \o ListOf(Bomb)
             t10 == t9 \o ListOf(Position)
             t11 == t10 \o MapOf(U8, U32)
  <1>0. IsSeq(g.players) /\ IsSeq(g.positions) /\ IsSeq(g.blocks)
        /\ IsSeq(g.bombs) /\ IsSeq(g.explosions) /\ IsSeq(g.scores)
    BY FieldsAreSeqs
  <1>1. Agrees(WriteText(g.server_name), Value(g.server_name), Str)
    BY TextAgrees DEF IsText, Str
  <1>2. Agrees(d1, m1, t1)
    BY <1>1
  <1>3. Agrees(Write(2, g.size_x), Value(g.size_x), U16)
    BY NumberAgrees DEF U16
  <1>4. Agrees(d2, m2, t2)
    BY <1>2, <1>3, JoinAgrees
  <1>5. Agrees(Write(2, g.size_y), Value(g.size_y), U16)
    BY NumberAgrees DEF U16
  <1>6. Agrees(d3, m3, t3)
    BY <1>4, <1>5, JoinAgrees
  <1>7. Agrees(Write(2, g.game_length), Value(g.game_length), U16)
    BY NumberAgrees DEF U16
  <1>8. Agrees(d4, m4, t4)
    BY <1>6, <1>7, JoinAgrees
  <1>9. Agrees(Write(2, g.turn), Value(g.turn), U16)
    BY NumberAgrees DEF U16
  <1>10. Agrees(d5, m5, t5)
    BY <1>8, <1>9, JoinAgrees
  <1>11. Agrees(WritePlayers(g.players), PlayersView(g.players), MapOf(U8, Player))
    BY <1>0, PlayersAgree
  <1>12. Agrees(d6, m6, t6)
    BY <1>10, <1>11, JoinAgrees
  <1>13. Agrees(WritePositions(g.positions), PositionsView(g.positions), MapOf(U8, Position))
    BY <1>0, PositionsAgree
  <1>14. Agrees(d7, m7, t7)
    BY <1>12, <1>13, JoinAgrees
  <1>15. Agrees(WriteBlocks(g.blocks), CellsView(g.blocks), ListOf(Position))
    BY <1>0, CellsAgree
  <1>16. Agrees(d8, m8, t8)
    BY <1>14, <1>15, JoinAgrees
  <1>17. Agrees(WriteBombs(g.bombs), BombsView(g.bombs), ListOf(Bomb))
    BY <1>0, BombsAgree
  <1>18. Agrees(d9, m9, t9)
    BY <1>16, <1>17, JoinAgrees
  <1>19. Agrees(WriteExplosions(g.explosions), CellsView(g.explosions), ListOf(Position))
    BY <1>0, CellsAgree
  <1>20. Agrees(d10, m10, t10)
    BY <1>18, <1>19, JoinAgrees
  <1>21. Agrees(WriteScores(g.scores), ScoresView(g.scores), MapOf(U8, U32))
    BY <1>0, ScoresAgree
  <1>22. Agrees(d11, m11, t11)
    BY <1>20, <1>21, JoinAgrees
  <1>23. GameFields(g) = d11 /\ GameView(g) = m11 /\ DisplayMessage[1].of[2] = t11
    BY DEF GameFields, GameView, DisplayMessage, Enum
  <1> QED
    BY <1>22, <1>23

\* The two messages begin with their variants.
LEMMA RespondAgrees ==
    ASSUME NEW g \in GameType
    PROVE  /\ Agrees(LobbyRespond(g), Value(0) \o LobbyView(g), DisplayMessage)
           /\ Agrees(GameRespond(g), Value(1) \o GameView(g), DisplayMessage)
  <1> DEFINE x == DisplayMessage[1]
             i(c) == [op |-> "write", n |-> 1, v |-> c]
             j(c) == [op |-> "value", v |-> c]
  <1>1. DisplayMessage = <<x>> /\ x.k = "variant"
    BY DEF DisplayMessage, Enum
  <1>2. /\ LobbyRespond(g) = <<i(0)>> \o LobbyFields(g) /\ Value(0) = <<j(0)>>
        /\ GameRespond(g) = <<i(1)>> \o GameFields(g) /\ Value(1) = <<j(1)>>
    BY DEF LobbyRespond, GameRespond, Write, Value
  <1>3. \A c : /\ i(c).op = "write" /\ i(c).n = 1 /\ i(c).v = c
               /\ j(c).op = "value" /\ j(c).v = c
    OBVIOUS
  <1>4. /\ Agrees(LobbyFields(g), LobbyView(g), x.of[1])
        /\ Agrees(GameFields(g), GameView(g), x.of[2])
    BY LobbyAgrees, GameAgrees
  <1> HIDE DEF i, j, x
  <1>5. \A c : Written(i(c)) = <<c>> /\ Encode(x, c) = <<c>>
    BY <1>1, <1>3 DEF Written, Encode, EncodeInt
  <1>6. Follow(x, 0) = x.of[1] /\ Follow(x, 1) = x.of[2]
    BY <1>1 DEF Follow
  <1>7. ASSUME NEW c, NEW d, NEW m, Agrees(d, m, Follow(x, c))
        PROVE  Agrees(<<i(c)>> \o d, <<j(c)>> \o m, <<x>>)
    <2> DEFINE p == i(c)
               q == j(c)
    <2>1. /\ p.op \in {"write", "write_text"} /\ q.op = "value"
          /\ Written(p) = Encode(x, q.v) /\ Agrees(d, m, Follow(x, q.v))
      BY <1>3, <1>5, <1>7
    <2> HIDE DEF p, q
    <2>2. Agrees(<<p>> \o d, <<q>> \o m, <<x>>)
      BY <2>1, FieldAgrees
    <2> QED
      BY <2>2 DEF p, q
  <1>8. Agrees(<<i(0)>> \o LobbyFields(g), <<j(0)>> \o LobbyView(g), <<x>>)
    BY <1>4, <1>6, <1>7
  <1>9. Agrees(<<i(1)>> \o GameFields(g), <<j(1)>> \o GameView(g), <<x>>)
    BY <1>4, <1>6, <1>7
  <1> QED
    BY <1>1, <1>2, <1>8, <1>9

\* The invariant: the bytes are the same so far, and what is left agrees.
GuiInv == bytes = writer.output /\ Agrees(draws, meant, writer.todo)

LEMMA GuiInit == Init => GuiInv
  <1> SUFFICES ASSUME Init PROVE GuiInv
    OBVIOUS
  <1>1. draws = <<>> /\ meant = <<>> /\ bytes = <<>> /\ writer = Serializer(<<>>)
    BY DEF Init
  <1>2. writer.output = <<>> /\ writer.todo = <<>>
    BY <1>1 DEF Serializer
  <1> QED
    BY <1>1, <1>2, NothingAgrees DEF GuiInv

LEMMA DrawGui ==
    ASSUME NEW g \in Games, Draw(g)
    PROVE  GuiInv'
  <1>1. g \in GameType
    BY ClientBytesAssumption
  <1>2. bytes' = <<>> /\ writer' = Serializer(DisplayMessage)
    BY DEF Draw
  <1>3. \/ draws' = LobbyRespond(g) /\ meant' = Value(0) \o LobbyView(g)
        \/ draws' = GameRespond(g) /\ meant' = Value(1) \o GameView(g)
    BY DEF Draw
  <1>4. (writer').output = <<>> /\ (writer').todo = DisplayMessage
    BY <1>2 DEF Serializer
  <1>5. Agrees(draws', meant', DisplayMessage)
    BY <1>1, <1>3, RespondAgrees
  <1> QED
    BY <1>2, <1>4, <1>5 DEF GuiInv

LEMMA DrawFieldGui ==
    ASSUME GuiInv, DrawField
    PROVE  GuiInv'
  <1> DEFINE v == Argument(Head(meant))
  <1>1. /\ draws # <<>> /\ meant # <<>>
        /\ draws' = Left(draws) /\ bytes' = bytes \o Written(Head(draws))
        /\ meant' = Left(meant) /\ writer' = Serialize(writer, v)
    BY DEF DrawField
  <1>2. bytes = writer.output /\ Agrees(draws, meant, writer.todo)
    BY DEF GuiInv
  <1>3. /\ Written(Head(draws)) = Encode(Head(writer.todo), v)
        /\ Agrees(Left(draws), Left(meant), After(writer.todo, v))
    BY <1>1, <1>2, AgreesCases
  <1>4. /\ (writer').todo = After(writer.todo, v)
        /\ (writer').output = writer.output \o Encode(Head(writer.todo), v)
    BY <1>1 DEF Serialize
  <1> QED
    BY <1>1, <1>2, <1>3, <1>4 DEF GuiInv

LEMMA OtherGui == ASSUME GuiInv, UNCHANGED guiVars PROVE GuiInv'
  BY DEF GuiInv, guiVars

LEMMA GuiStep ==
    ASSUME GuiInv, [Next]_vars
    PROVE  GuiInv'
  <1>1. CASE ServerWrites
    BY <1>1, OtherGui DEF ServerWrites
  <1>2. CASE ServerCloses
    BY <1>2, OtherGui DEF ServerCloses
  <1>3. ASSUME NEW stale \in Byte, Receive(stale) PROVE GuiInv'
    BY <1>3, OtherGui DEF Receive
  <1>4. ASSUME NEW stale \in Byte, Exit(stale) PROVE GuiInv'
    BY <1>4, OtherGui DEF Exit
  <1>5. CASE Proceed
    BY <1>5, OtherGui DEF Proceed
  <1>6. ASSUME NEW d \in Datagrams, DatagramArrives(d) PROVE GuiInv'
    BY <1>6, OtherGui DEF DatagramArrives
  <1>7. CASE LibraryReads
    BY <1>7, OtherGui DEF LibraryReads
  <1>8. ASSUME NEW started \in BOOLEAN, Ask(started) PROVE GuiInv'
    BY <1>8, OtherGui DEF Ask
  <1>9. CASE ServerReads
    BY <1>9, OtherGui DEF ServerReads
  <1>10. ASSUME NEW g \in Games, Draw(g) PROVE GuiInv'
    BY <1>10, DrawGui
  <1>11. CASE DrawField
    BY <1>11, DrawFieldGui
  <1>12. CASE UNCHANGED vars
    BY <1>12, OtherGui DEF vars
  <1>13. CASE Abort
    BY <1>13, OtherGui DEF Abort
  <1> QED
    BY <1>1, <1>2, <1>3, <1>4, <1>5, <1>6, <1>7, <1>8, <1>9, <1>10, <1>11, <1>12, <1>13 DEF Next

LEMMA GuiDrawn == ASSUME GuiInv PROVE DrawnAsMeant
  <1>1. bytes = writer.output /\ Agrees(draws, meant, writer.todo)
    BY DEF GuiInv
  <1>2. \/ draws = <<>> /\ meant = <<>> /\ writer.todo = <<>>
        \/ draws # <<>> /\ meant # <<>> /\ writer.todo # <<>>
    BY <1>1, AgreesCases
  <1> QED
    BY <1>1, <1>2 DEF DrawnAsMeant

\* What the C++ serialisers write for the interface, in every state of class Game and
\* for lists of every length, are the bytes that the library writes for the same
\* message, instruction by instruction.
THEOREM DrawnAsMeantCorrect == Spec => []DrawnAsMeant
  <1>1. GuiInv /\ [Next]_vars => GuiInv'
    BY GuiStep
  <1>2. GuiInv => DrawnAsMeant
    BY GuiDrawn
  <1> QED
    BY <1>1, <1>2, GuiInit, PTL DEF Spec

=============================================================================
