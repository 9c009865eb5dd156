---------------------------- MODULE LibraryProofs ----------------------------
(***************************************************************************)
(* What to_bytes writes, from_bytes reads back, and the random numbers are *)
(* in their ranges: for every type that the library supports, every value, *)
(* every byte string and every place where one is cut off.                 *)
(***************************************************************************)
EXTENDS Library, CodecProofs

\* The calls that a program may make.
K == DOMAIN Samples

\* The types are sequences of supported calls.
LEMMA TypesTyped ==
    /\ Supported(K)
    /\ \A n \in DOMAIN Types : Types[n] \in Seq(K) /\ Types[n] \in Todo(K)
    /\ <<>> \in Todo(K)
  <1>1. Supported(K) /\ \A n \in DOMAIN Types : Types[n] \in Seq(K)
    BY LibraryAssumption DEF K
  <1>2. ASSUME NEW T \in Seq(K) PROVE T \in Todo(K)
    BY SeqMonotonic DEF Todo, Frame
  <1> QED
    BY <1>1, <1>2, EmptySeq DEF Todo

\* The samples are arguments that the calls can have.
LEMMA ArgumentsAreTokens ==
    ASSUME NEW x \in Frame(K), NEW t \in Arguments(x)
    PROVE  t \in Tokens(x)
  <1>1. CASE x.k = "counted"
    BY <1>1 DEF Arguments, Tokens
  <1>2. CASE x.k # "counted"
    <2>1. x \in DOMAIN Samples
      BY <1>2 DEF Frame, K
    <2> QED
      BY <1>2, <2>1, LibraryAssumption DEF Arguments
  <1> QED
    BY <1>1, <1>2

-----------------------------------------------------------------------------
(* The invariant.                                                          *)

Writers == [todo : Todo(K), calls : CallsOf(K), output : Seq(Byte)]

Typed == /\ type \in DOMAIN Types
         /\ writer \in Writers /\ reader \in Readers(K)
         /\ lost \in 0 .. Len(writer.output)
         /\ reader.r = "unread" => lost = 0

\* What a Serializer has made of the beginning of a value is a script.
Written(T, w) == [todo |-> T, bytes |-> w.output, calls |-> w.calls]

Writes == source = "to_bytes" =>
              /\ Script(K, <<>>, Written(Types[type], writer), writer.todo)
              /\ reader.r # "unread" => writer.todo = <<>>

\* The Deserializer has taken the beginning of what it was given, as the Serializer
\* would make it but for the spelling of an address.
Takes == reader.r # "unread" => Retold(reader, Arrived)

\* What it has not read is the rest of the script, without the bytes `m` that
\* never arrived.
Rest(d, m, c) == [todo |-> d.todo, bytes |-> d.input \o m, calls |-> c]

Remains(w, d, m, c) == /\ w.calls = d.calls \o c
                       /\ Script(K, <<>>, Rest(d, m, c), <<>>)

ReadsBack == source = "to_bytes" /\ reader.r # "unread" =>
                 /\ reader.r = "ok" \/ (reader.r = "eof" /\ lost > 0)
                 /\ \E m \in Seq(Byte), c \in CallsOf(K) : Len(m) = lost /\ Remains(writer, reader, m, c)

Inv == Typed /\ Writes /\ Takes /\ ReadsBack

-----------------------------------------------------------------------------

\* Nothing has been written and nothing read.
LEMMA InitInv == Init => Inv
  <1> SUFFICES ASSUME Init PROVE Inv
    OBVIOUS
  <1> DEFINE T == Types[type]
  <1>1. /\ type \in DOMAIN Types /\ writer = Serializer(T) /\ lost = 0 /\ reader = Unread
    BY DEF Init
  <1>2. T \in Seq(K) /\ T \in Todo(K)
    BY <1>1, TypesTyped
  <1> HIDE DEF T
  <1>3. reader \in Readers(K) /\ reader.r = "unread"
    BY <1>1, <1>2, EmptySeq, Begins
  <1>4. writer \in Writers /\ Len(writer.output) = 0
    <2>1. <<>> \in CallsOf(K) /\ <<>> \in Seq(Byte) /\ Len(<<>>) = 0
      BY EmptySeq DEF CallsOf
    <2> QED
      BY <1>1, <1>2, <2>1 DEF Serializer, Writers
  <1>5. Script(K, <<>>, Written(Types[type], writer), writer.todo)
    <2>1. Written(Types[type], writer) = End(T) /\ writer.todo = T
      BY <1>1 DEF Written, End, Serializer, T
    <2> QED
      BY <1>2, <2>1, ScriptEmpty
  <1> QED
    BY <1>1, <1>3, <1>4, <1>5 DEF Inv, Typed, Writes, Takes, ReadsBack

\* A call of the Serializer (serializer.rs) makes the script longer.
LEMMA ToBytesInv == ASSUME Inv, ToBytes PROVE Inv'
  <1>1. PICK t \in Arguments(Head(writer.todo)) : writer' = Serialize(writer, t)
    BY DEF ToBytes
  <1>2. /\ source = "to_bytes" /\ reader.r = "unread" /\ writer.todo # <<>>
        /\ UNCHANGED <<type, source, lost, reader>>
    BY DEF ToBytes
  <1>3. writer.todo \in Todo(K) /\ writer.calls \in CallsOf(K) /\ writer.output \in Seq(Byte)
        /\ writer \in Writers /\ lost = 0
    BY <1>2 DEF Inv, Typed, Writers
  <1> DEFINE x == writer.todo
             h == Head(x)
  <1>4. h \in Frame(K)
    BY <1>2, <1>3, HeadTailProperties DEF Todo
  <1>5. t \in Tokens(h)
    BY <1>1, <1>4, ArgumentsAreTokens, Zenon
  <1> DEFINE y == Encode(h, t)
             c == Calls(x, t)
             z == After(x, t)
  <1>6. z \in Todo(K) /\ c \in CallsOf(K) /\ y \in Seq(Byte)
    <2>1. z \in Todo(K) /\ c \in CallsOf(K)
      BY <1>2, <1>3, <1>5, TypesTyped, AfterTyped, Zenon
    <2> QED
      BY <1>4, <1>5, <2>1, TypesTyped, FrameCalls DEF CallOK
  <1>7. writer' = [todo |-> z, calls |-> writer.calls \o c, output |-> writer.output \o y]
    BY <1>1 DEF Serialize
  <1>8. Script(K, <<>>, Longer(Written(Types[type], writer), y, c), z)
    <2>1. Script(K, <<>>, Written(Types[type], writer), x)
      BY <1>2 DEF Inv, Writes
    <2>2. x = Begun(<<>>, x)
      BY <1>2 DEF Begun
    <2>3. /\ Supported(K) /\ <<>> \in Todo(K) /\ x \in Todo(K) /\ x # <<>> /\ t \in Tokens(Head(x))
      BY <1>2, <1>3, <1>5, TypesTyped
    <2> HIDE DEF x
    <2> QED
      BY <2>1, <2>2, <2>3, ScriptExtend, Zenon
  <1> HIDE DEF x, h, y, c, z
  <1>9. writer' \in Writers
    BY <1>3, <1>6, <1>7, ConcatProperties DEF Writers, CallsOf
  <1>10. Written(Types[type'], writer') = Longer(Written(Types[type], writer), y, c)
    <2>1. /\ writer'.output = writer.output \o y /\ writer'.calls = writer.calls \o c
          /\ type' = type
      BY <1>2, <1>7
    <2> QED
      BY <2>1 DEF Written, Longer
  <1>11. Writes'
    BY <1>2, <1>7, <1>8, <1>10 DEF Writes
  <1>12. Typed'
    <2>1. Len(writer'.output) \in Nat
      BY <1>9 DEF Writers
    <2> QED
      BY <1>2, <1>3, <1>9, <2>1 DEF Typed, Inv
  <1> QED
    BY <1>2, <1>11, <1>12 DEF Inv, Takes, ReadsBack

\* The bytes that anybody may send are only bytes.
LEMMA ByteArrivesInv == ASSUME Inv, ByteArrives PROVE Inv'
  <1>1. PICK x \in Byte : writer' = [writer EXCEPT !.output = Append(@, x)]
    BY DEF ByteArrives
  <1>2. /\ source = "anybody" /\ reader.r = "unread"
        /\ UNCHANGED <<type, source, lost, reader>>
    BY DEF ByteArrives
  <1>3. writer \in Writers /\ lost = 0
    BY <1>2 DEF Inv, Typed
  <1>4. writer' \in Writers
    <2>1. Append(writer.output, x) \in Seq(Byte)
      BY <1>3, AppendProperties DEF Writers
    <2> QED
      BY <1>1, <1>3, <2>1 DEF Writers
  <1>5. Len(writer'.output) \in Nat
    BY <1>4 DEF Writers
  <1>6. Typed'
    BY <1>2, <1>3, <1>4, <1>5 DEF Inv, Typed
  <1> QED
    BY <1>2, <1>6 DEF Inv, Writes, Takes, ReadsBack

\* from_bytes begins with all of the script (deserializer.rs).
LEMMA FromBytesInv == ASSUME Inv, FromBytes PROVE Inv'
  <1> DEFINE T == Types[type]
             o == writer.output
             n == Len(o) - lost'
             m == From(o, n + 1)
             c == writer.calls
  <1>1. /\ source = "to_bytes" => writer.todo = <<>>
        /\ type' = type /\ source' = source /\ writer' = writer
        /\ UNCHANGED <<type, source, writer>>
        /\ lost' \in 0 .. (IF source = "to_bytes" THEN Len(o) ELSE 0)
        /\ reader' = Deserializer(T, Arrived')
    BY DEF FromBytes
  <1>2. type \in DOMAIN Types /\ writer \in Writers
    BY DEF Inv, Typed
  <1>3. T \in Seq(K) /\ o \in Seq(Byte) /\ Len(o) \in Nat /\ c \in CallsOf(K)
    BY <1>2, TypesTyped DEF Writers
  <1>4. lost' \in 0 .. Len(o) /\ n \in 0 .. Len(o) /\ Len(o) - n = lost'
    <2> DEFINE k == Len(o)
    <2>1. k \in Nat /\ lost' \in 0 .. (IF source = "to_bytes" THEN k ELSE 0)
      BY <1>1, <1>3
    <2> HIDE DEF k
    <2>2. lost' \in 0 .. k
      BY <2>1
    <2>3. ASSUME NEW a \in Nat, NEW j \in 0 .. a PROVE a - j \in 0 .. a /\ a - (a - j) = j
      OBVIOUS
    <2>4. k - lost' \in 0 .. k /\ k - (k - lost') = lost'
      BY <2>1, <2>2, <2>3
    <2> QED
      BY <2>2, <2>4 DEF k
  <1>5. Arrived' = SubSeq(o, 1, n)
    BY <1>1 DEF Arrived
  <1> HIDE DEF n
  <1>6. /\ Arrived' \in Seq(Byte) /\ m \in Seq(Byte) /\ Len(m) = lost' /\ Arrived' \o m = o
    <2>1. /\ SubSeq(o, 1, n) \in Seq(Byte) /\ From(o, n + 1) \in Seq(Byte)
          /\ Len(From(o, n + 1)) = Len(o) - n /\ SubSeq(o, 1, n) \o From(o, n + 1) = o
      BY <1>3, <1>4, Cut, Zenon
    <2> QED
      BY <1>4, <1>5, <2>1
  <1> HIDE DEF T, o, m, c
  <1>7. /\ reader' \in Readers(K) /\ reader'.r = "ok"
        /\ Retold(reader', Arrived')
    BY <1>1, <1>3, <1>6, Begins
  <1>8. Typed'
    BY <1>1, <1>2, <1>4, <1>7 DEF Typed, o
  <1>9. Writes'
    <2>1. source = "to_bytes" => Script(K, <<>>, Written(Types[type], writer), writer.todo)
      BY DEF Inv, Writes
    <2>2. Written(Types[type'], writer') = Written(Types[type], writer)
      BY <1>1 DEF Written
    <2> QED
      BY <1>1, <2>1, <2>2 DEF Writes
  <1>10. ASSUME source = "to_bytes" PROVE Remains(writer', reader', m, c)
    <2>1. writer.todo = <<>> /\ Script(K, <<>>, Written(Types[type], writer), writer.todo)
      BY <1>1, <1>10 DEF Inv, Writes
    <2>2. reader'.todo = T /\ reader'.input = Arrived' /\ reader'.calls = <<>>
      BY <1>1 DEF Deserializer
    <2>3. Rest(reader', m, c) = Written(Types[type], writer)
      BY <1>6, <2>2 DEF Rest, Written, T, o, c
    <2>4. writer'.calls = reader'.calls \o c
      <3>1. <<>> \o c = c
        BY <1>3, ConcatEmptySeq DEF CallsOf
      <3> QED
        BY <1>1, <2>2, <3>1 DEF c
    <2> QED
      BY <2>1, <2>3, <2>4 DEF Remains
  <1> QED
    BY <1>1, <1>3, <1>6, <1>7, <1>8, <1>9, <1>10 DEF Inv, Takes, ReadsBack

\* What has arrived are bytes.
LEMMA ArrivedTyped == ASSUME Inv PROVE Arrived \in Seq(Byte)
  <1> DEFINE o == writer.output
             n == Len(o) - lost
  <1>1. o \in Seq(Byte) /\ lost \in 0 .. Len(o) /\ Len(o) \in Nat
    BY LenProperties DEF Inv, Typed, Writers
  <1> HIDE DEF o
  <1>2. n \in 0 .. Len(o)
    BY <1>1
  <1> HIDE DEF n
  <1>3. SubSeq(o, 1, n) \in Seq(Byte)
    BY <1>1, <1>2
  <1> QED
    BY <1>3 DEF Arrived, o, n

\* One call of the Deserializer (deserializer.rs) repeats the call of the Serializer.
LEMMA ReadsInv == ASSUME Inv, Reads PROVE Inv'
  <1> DEFINE d == reader
             x == d.todo
             h == Head(x)
  <1>1. /\ Reading(d) /\ reader' = Deserialize(d)
        /\ type' = type /\ source' = source /\ writer' = writer /\ lost' = lost
    BY DEF Reads
  <1>2. /\ d.r = "ok" /\ x # <<>> /\ d \in Readers(K) /\ Supported(K) /\ <<>> \in Todo(K)
        /\ d.input \in Seq(Byte) /\ d.calls \in CallsOf(K)
    BY <1>1, TypesTyped DEF Reading, Readers, Inv, Typed
  <1>3. reader' \in Readers(K) /\ Retold(reader', Arrived)
    <2>1. Arrived \in Seq(Byte)
      BY ArrivedTyped
    <2>2. Retold(d, Arrived)
      BY <1>2 DEF Inv, Takes
    <2> QED
      BY <1>1, <1>2, <2>1, <2>2, Deserializes, Zenon
  <1>4. reader'.r \in {"ok", "eof", "bad"}
    <2>1. Answers(h, d.input)
      <3>1. h \in Frame(K)
        BY <1>2, HeadTailProperties DEF Todo, Readers
      <3> QED
        BY <1>2, <3>1, FrameCalls DEF CallOK
    <2>2. CASE Decode(h, d.input) \in {Eof, Bad}
      <3>1. /\ reader' = [d EXCEPT !.r = Decode(h, d.input).r]
            /\ Decode(h, d.input).r \in {"eof", "bad"}
        BY <1>1, <2>2, DeserializeNot
      <3> QED
        BY <1>2, <3>1 DEF Readers
    <2>3. ASSUME NEW v, NEW r, Decode(h, d.input) = Ok(v, r) PROVE reader'.r = "ok"
      <3>1. reader' = [todo |-> After(x, v), input |-> r, calls |-> d.calls \o Calls(x, v),
                       again |-> d.again \o Encode(h, Rewritten(h, v)), r |-> "ok"]
        BY <1>1, <2>3, DeserializeOk
      <3> QED
        BY <3>1
    <2> QED
      BY <2>1, <2>2, <2>3 DEF Answers
  <1>5. Typed'
    BY <1>1, <1>2, <1>3, <1>4 DEF Inv, Typed
  <1>6. Writes'
    BY <1>1, <1>2 DEF Inv, Writes
  <1>7. Takes'
    <2>1. Arrived' = Arrived
      BY <1>1 DEF Arrived
    <2> QED
      BY <1>3, <2>1 DEF Takes
  <1>8. ASSUME source = "to_bytes" PROVE ReadsBack'
    <2>1. PICK m \in Seq(Byte), c \in CallsOf(K) : Len(m) = lost /\ Remains(writer, d, m, c)
      BY <1>2, <1>8 DEF Inv, ReadsBack
    <2> DEFINE p == Rest(d, m, c)
    <2>2. writer.calls = d.calls \o c /\ Script(K, <<>>, p, <<>>)
      BY <2>1 DEF Remains
    <2>3. p.todo = x /\ p.bytes = d.input \o m /\ p.calls = c
      BY DEF Rest
    <2> HIDE DEF p
    <2>4. /\ p \in Point(K)
          /\ p = End(<<>>) \/ \E q \in Point(K) : Link(<<>>, p, q) /\ Script(K, <<>>, q, <<>>)
      BY <2>2, ScriptHead
    <2>5. p # End(<<>>)
      BY <1>2, <2>3 DEF End
    <2>6. PICK q \in Point(K) : Link(<<>>, p, q) /\ Script(K, <<>>, q, <<>>)
      BY <2>4, <2>5
    <2>7. x = Begun(<<>>, p.todo)
      BY <1>2, <2>3 DEF Begun
    <2>8. Repeats(x, d.input, m, p, q) \/ Halfway(x, d.input, m, p, q)
      <3> DEFINE b == d.input
      <3>1. b \in Seq(Byte) /\ p.bytes = b \o m
        BY <1>2, <2>3
      <3> HIDE DEF x, b, d
      <3> QED
        BY <1>2, <2>4, <2>6, <2>7, <3>1, ReadLink, Zenon DEF b
    <2>9. CASE Decode(h, d.input) = Eof /\ m # <<>>
      <3>1. reader' = [d EXCEPT !.r = "eof"]
        BY <1>1, <2>9, DeserializeNot DEF Eof
      <3>2. reader'.r = "eof" /\ reader'.todo = d.todo /\ reader'.input = d.input
            /\ reader'.calls = d.calls
        BY <1>2, <3>1 DEF Readers
      <3>3. lost > 0
        <4>1. Len(m) \in Nat \ {0}
          BY <2>9, LenProperties, EmptySeq
        <4> QED
          BY <2>1, <4>1
      <3>4. Remains(writer', reader', m, c)
        BY <1>1, <2>1, <3>2 DEF Remains, Rest
      <3> QED
        BY <1>1, <2>1, <3>2, <3>3, <3>4 DEF ReadsBack
    <2>10. ASSUME NEW v \in Tokens(h), NEW r \in Seq(Byte),
                  Decode(h, d.input) = Ok(v, r),
                  q.todo = After(x, v), q.bytes = r \o m, p.calls = Calls(x, v) \o q.calls
           PROVE  ReadsBack'
      <3> DEFINE k == Calls(x, v)
                 e == q.calls
                 f == d.calls
      <3>1. /\ reader'.r = "ok" /\ reader'.todo = After(x, v) /\ reader'.input = r
            /\ reader'.calls = f \o k
        <4>1. reader' = [todo |-> After(x, v), input |-> r, calls |-> f \o k,
                         again |-> d.again \o Encode(h, Rewritten(h, v)), r |-> "ok"]
          BY <1>1, <2>10, DeserializeOk
        <4> HIDE DEF x, f, k, h
        <4> QED
          BY <4>1
      <3>2. k \in CallsOf(K) /\ e \in CallsOf(K) /\ f \in CallsOf(K)
        <4>1. x \in Todo(K)
          BY <1>2 DEF Readers
        <4>2. k \in CallsOf(K)
          BY <1>2, <4>1, AfterTyped
        <4> QED
          BY <1>2, <4>2 DEF Point
      <3>3. c = k \o e
        BY <2>3, <2>10
      <3> HIDE DEF k, e, f
      <3>4. Grouped(f, k, e)
        BY <3>2, Regroup, Zenon DEF CallsOf
      <3>5. writer'.calls = reader'.calls \o e
        BY <1>1, <2>2, <3>1, <3>3, <3>4 DEF Grouped, f
      <3>6. Rest(reader', m, e) = q
        BY <2>10, <3>1 DEF Rest, Point, e
      <3>7. Remains(writer', reader', m, e)
        BY <2>6, <3>5, <3>6 DEF Remains
      <3> QED
        BY <1>1, <2>1, <3>1, <3>2, <3>7 DEF ReadsBack
    <2> QED
      BY <2>8, <2>9, <2>10 DEF Repeats, Halfway
  <1>9. source # "to_bytes" => ReadsBack'
    BY <1>1 DEF ReadsBack
  <1> QED
    BY <1>5, <1>6, <1>7, <1>8, <1>9 DEF Inv

\* One step for each action of the library.
LEMMA NextInv == Inv /\ [Next]_vars => Inv'
  <1> SUFFICES ASSUME Inv, [Next]_vars PROVE Inv'
    OBVIOUS
  <1>1. CASE Calculates \/ UNCHANGED vars
    <2>1. type' = type /\ source' = source /\ writer' = writer /\ lost' = lost /\ reader' = reader
      BY <1>1 DEF Calculates, vars, bytesVars
    <2> QED
      BY <2>1 DEF Inv, Typed, Writes, Takes, ReadsBack, Arrived
  <1> QED
    BY <1>1, ToBytesInv, ByteArrivesInv, FromBytesInv, ReadsInv DEF Next

\* The invariant holds in every state.
LEMMA InvAlways == Spec => []Inv
  BY InitInv, NextInv, PTL DEF Spec

\* A Deserializer that is at the end of its type has read everything that
\* arrived, and nothing is missing.
LEMMA Finished ==
    ASSUME Inv, source = "to_bytes", reader.r = "ok", reader.todo = <<>>
    PROVE  reader.input = <<>> /\ lost = 0 /\ reader.calls = writer.calls
  <1> DEFINE d == reader
  <1>1. d.input \in Seq(Byte) /\ d.calls \in CallsOf(K)
    BY DEF Inv, Typed, Readers
  <1>2. PICK m \in Seq(Byte), c \in CallsOf(K) : Len(m) = lost /\ Remains(writer, d, m, c)
    BY DEF Inv, ReadsBack
  <1> DEFINE p == Rest(d, m, c)
  <1>3. writer.calls = d.calls \o c /\ Script(K, <<>>, p, <<>>)
    BY <1>2 DEF Remains
  <1>4. p.todo = <<>> /\ p.bytes = d.input \o m /\ p.calls = c
    BY DEF Rest
  <1> HIDE DEF p
  <1>5. p = End(<<>>)
    <2>1. ASSUME NEW q PROVE ~ Link(<<>>, p, q)
      BY <1>4 DEF Link, Begun
    <2> QED
      BY <1>3, <2>1, ScriptHead
  <1>6. d.input \o m = <<>> /\ c = <<>>
    BY <1>4, <1>5 DEF End
  <1>7. d.input = <<>> /\ m = <<>>
    <2>1. Len(d.input \o m) = 0
      BY <1>6, EmptySeq
    <2>2. Len(d.input \o m) = Len(d.input) + Len(m)
      BY <1>1, ConcatProperties
    <2>3. Len(d.input) \in Nat /\ Len(m) \in Nat
      BY <1>1, LenProperties
    <2>4. Len(d.input) = 0 /\ Len(m) = 0
      BY <2>1, <2>2, <2>3
    <2> QED
      BY <1>1, <2>4, EmptySeq
  <1>8. lost = 0
    BY <1>2, <1>7, EmptySeq
  <1>9. d.calls \o <<>> = d.calls
    BY <1>1, ConcatEmptySeq DEF CallsOf
  <1> QED
    BY <1>3, <1>6, <1>7, <1>8, <1>9

\* What to_bytes has made of any value of any type, from_bytes takes apart into
\* the same calls, and never finds malformed (serializer.rs:10-14).
THEOREM RoundTripCorrect == Spec => []RoundTrip
  <1>1. Inv => RoundTrip
    <2> SUFFICES ASSUME Inv, source = "to_bytes", lost = 0
                 PROVE  /\ reader.r \in {"unread", "ok"} /\ ~ Refused(reader)
                        /\ Accepted(reader) => reader.calls = writer.calls
      BY DEF RoundTrip
    <2>1. reader.r \in {"unread", "ok"}
      BY DEF Inv, ReadsBack
    <2> QED
      BY <2>1, Finished DEF Refused, Accepted
  <1> QED
    BY <1>1, InvAlways, PTL

\* Whatever bytes from_bytes accepts, they are the ones that to_bytes makes of the
\* calls that it answered, if and only if no address is spelled in another way
\* (deserializer.rs:35-46).
THEOREM OneFormCorrect == Spec => []OneFormOnly
  <1>1. Inv => OneFormOnly
    <2> SUFFICES ASSUME Inv, Accepted(reader) PROVE reader.again = Arrived <=> Plain(reader.calls)
      BY DEF OneFormOnly
    <2>1. reader.r # "unread" /\ reader \in Readers(K)
      BY DEF Accepted, Inv, Typed
    <2>2. Retold(reader, Arrived)
      BY <2>1 DEF Inv, Takes
    <2>3. Arrived \in Seq(Byte)
      BY ArrivedTyped
    <2> QED
      BY <2>1, <2>2, <2>3, AcceptedRetold
  <1> QED
    BY <1>1, InvAlways, PTL

\* Wherever what to_bytes has made is cut off, from_bytes finds neither a value
\* nor an error in the beginning (deserializer.rs:153-156).
THEOREM WaitsCorrect == Spec => []WaitsForRest
  <1>1. Inv => WaitsForRest
    <2> SUFFICES ASSUME Inv, source = "to_bytes", lost > 0
                 PROVE  ~ Accepted(reader) /\ ~ Refused(reader)
      BY DEF WaitsForRest
    <2>1. lost \in Nat /\ lost # 0
      BY DEF Inv, Typed
    <2>2. reader.r # "unread" => reader.r # "bad"
      BY DEF Inv, ReadsBack
    <2> QED
      BY <2>1, <2>2, Finished DEF Accepted, Refused
  <1> QED
    BY <1>1, InvAlways, PTL

-----------------------------------------------------------------------------
(* The random numbers.                                                     *)

\* The other module of the library leaves the generator alone.
LEMMA RandomBehaviour == Spec => RandSpec
  <1>1. Init => New
    BY DEF Init
  <1>2. [Next]_vars => [Draws]_randVars
    BY DEF Next, ToBytes, ByteArrives, FromBytes, Reads, Calculates, vars
  <1> QED
    BY <1>1, <1>2, PTL DEF Spec, RandSpec

\* A remainder is below its divisor (random.rs:16, 25, 26).
LEMMA Remainder ==
    ASSUME NEW a \in Int, NEW b \in Nat \ {0}
    PROVE  a % b \in 0 .. b - 1
  BY SMT

\* A number below the divisor is its own remainder.
LEMMA SmallRemainder ==
    ASSUME NEW a \in Nat, NEW b \in Nat \ {0}, a < b
    PROVE  a % b = a
  BY SMT

\* The second remainder of range_u16 changes nothing (random.rs:26): what the
\* first one leaves is below `max`, which is at most the largest u16.
LEMMA PickInRange ==
    ASSUME NEW n \in Nat, NEW min \in U16Numbers, NEW max \in U16Numbers, min < max
    PROVE  Pick(n, min, max) \in min .. max - 1
  <1>1. min \in Nat /\ max \in Nat /\ max <= MaxU16 /\ MaxU16 \in Nat \ {0}
    BY RandAssumption DEF U16Numbers
  <1>2. max - min \in Nat \ {0}
    BY <1>1
  <1>3. n % (max - min) \in 0 .. (max - min) - 1
    BY <1>2, Remainder
  <1> DEFINE k == (n % (max - min)) + min
  <1>4. k \in min .. max - 1 /\ k \in Nat /\ k < MaxU16
    BY <1>1, <1>3
  <1> HIDE DEF k
  <1>5. k % MaxU16 = k
    BY <1>1, <1>4, SmallRemainder
  <1> QED
    BY <1>4, <1>5 DEF Pick, k

\* Every new seed is below the modulus (random.rs:16-17).
LEMMA AdvanceTyped ==
    ASSUME seed \in 0 .. Word - 1, Advance
    PROVE  seed' \in 0 .. Modulus - 1 /\ seed' \in 0 .. Word - 1
  <1>1. seed * Multiplier \in Int
    BY RandAssumption
  <1>2. (seed * Multiplier) % Modulus \in 0 .. Modulus - 1
    BY <1>1, Remainder, RandAssumption
  <1> QED
    BY <1>2, RandAssumption DEF Advance

-----------------------------------------------------------------------------

\* A number of the right type and in its range.
Drawn(r) == /\ r \in [value : Nat, min : Nat, max : Nat]
            /\ r.min <= r.value /\ r.value < r.max

\* Both at once, because what next_u32 returns is in its range by the type of
\* the seed.
RandInv == RandOK /\ InRange

\* A number that is well typed and in its range is added.
LEMMA AppendKeeps ==
    ASSUME RandOK, InRange, NEW r, Drawn(r), returned' = Append(returned, r)
    PROVE  /\ returned' \in Seq([value : Nat, min : Nat, max : Nat])
           /\ InRange'
  <1>1. returned \in Seq([value : Nat, min : Nat, max : Nat])
    BY DEF RandOK
  <1>2. returned' \in Seq([value : Nat, min : Nat, max : Nat])
    BY <1>1 DEF Drawn
  <1>3. ASSUME NEW i \in DOMAIN returned'
        PROVE  returned'[i].min <= returned'[i].value /\ returned'[i].value < returned'[i].max
    <2>1. Len(returned') = Len(returned) + 1 /\ i \in 1 .. Len(returned')
      BY <1>1, <1>3
    <2>2. CASE i = Len(returned) + 1
      BY <1>1, <2>2 DEF Drawn
    <2>3. CASE i \in 1 .. Len(returned)
      BY <1>1, <2>3 DEF InRange
    <2> QED
      BY <1>1, <2>1, <2>2, <2>3
  <1> QED
    BY <1>2, <1>3 DEF InRange

\* The state of the generator keeps its type, and each of its numbers is in the
\* range that was asked for: the upper end excluded, for next_u32 a 32-bit word.
THEOREM RangeCorrect == Spec => [](RandOK /\ InRange)
  <1>1. New => RandInv
    <2> SUFFICES ASSUME New PROVE RandInv
      OBVIOUS
    <2>1. returned = <<>> /\ first = seed /\ seed \in Seeds
      BY DEF New
    <2>2. returned \in Seq([value : Nat, min : Nat, max : Nat])
      BY <2>1
    <2>3. DOMAIN returned = {}
      BY <2>1
    <2> QED
      BY <2>1, <2>2, <2>3, RandAssumption DEF RandInv, RandOK, InRange
  <1>2. RandInv /\ [Draws]_randVars => RandInv'
    <2> SUFFICES ASSUME RandInv, [Draws]_randVars PROVE RandInv'
      OBVIOUS
    <2> USE DEF RandInv
    <2>1. seed \in 0 .. Word - 1 /\ Word \in Nat
      BY RandAssumption DEF RandOK
    <2>2. CASE NextU32
      <3>1. Drawn([value |-> seed, min |-> 0, max |-> Word])
        BY <2>1 DEF Drawn
      <3>2. seed' \in 0 .. Word - 1 /\ first' = first
        BY <2>1, <2>2, AdvanceTyped DEF NextU32, Advance
      <3> QED
        BY <2>2, <3>1, <3>2, AppendKeeps DEF NextU32, RandOK
    <2>3. ASSUME NEW min \in U16Numbers, NEW max \in U16Numbers, RangeU16(min, max)
          PROVE  RandInv'
      <3>1. min < max /\ min \in Nat /\ max \in Nat
        BY <2>3, RandAssumption DEF RangeU16, U16Numbers
      <3>2. Pick(seed, min, max) \in min .. max - 1
        BY <2>1, <3>1, PickInRange
      <3>3. Drawn([value |-> Pick(seed, min, max), min |-> min, max |-> max])
        BY <3>1, <3>2 DEF Drawn
      <3>4. seed' \in 0 .. Word - 1 /\ first' = first
        BY <2>1, <2>3, AdvanceTyped DEF RangeU16, Advance
      <3> QED
        BY <2>3, <3>3, <3>4, AppendKeeps DEF RangeU16, RandOK
    <2>4. CASE UNCHANGED randVars
      BY <2>4 DEF randVars, RandOK, InRange
    <2> QED
      BY <2>2, <2>3, <2>4 DEF Draws
  <1> QED
    BY <1>1, <1>2, RandomBehaviour, PTL DEF RandSpec, RandInv

\* A generator that starts with neither 0 nor the modulus never reaches 0, where
\* it would return 0 for ever (random.rs:16). The modulus never comes back as
\* a seed, so that the invariant is about the remainder of the seed.
THEOREM NeverStuckCorrect == Spec => []NeverStuck
  <1> DEFINE Alive == seed \in 0 .. Word - 1 /\ (first % Modulus # 0 => seed % Modulus # 0)
  <1>1. New => Alive
    BY RandAssumption DEF New
  <1>2. Alive /\ [Draws]_randVars => Alive'
    <2> SUFFICES ASSUME Alive, [Draws]_randVars PROVE Alive'
      OBVIOUS
    <2>1. CASE Advance
      <3>1. seed' \in 0 .. Modulus - 1 /\ seed' \in 0 .. Word - 1
        BY <2>1, AdvanceTyped
      <3>2. first % Modulus # 0 => seed' # 0
        BY <2>1, PrimeAssumption DEF Advance
      <3>3. seed' \in Nat /\ seed' < Modulus /\ Modulus \in Nat \ {0}
        BY <3>1, RandAssumption
      <3>4. seed' % Modulus = seed'
        BY <3>3, SmallRemainder
      <3> QED
        BY <2>1, <3>1, <3>2, <3>4 DEF Advance
    <2>2. CASE UNCHANGED randVars
      BY <2>2 DEF randVars
    <2> QED
      BY <2>1, <2>2 DEF Draws, NextU32, RangeU16
  <1>3. Alive => NeverStuck
    <2>1. 0 % Modulus = 0
      BY SmallRemainder, RandAssumption
    <2> QED
      BY <2>1 DEF NeverStuck
  <1> QED
    BY <1>1, <1>2, <1>3, RandomBehaviour, PTL DEF RandSpec

=============================================================================
