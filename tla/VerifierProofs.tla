--------------------------- MODULE VerifierProofs ---------------------------
(***************************************************************************)
(* The stream of the verifier is read as it was written, and datagrams are *)
(* read exactly: for all messages of any number, of any kind and with any  *)
(* contents, all speeds of the peer and of the reader, and every place     *)
(* where a connection ends.                                                *)
(***************************************************************************)
EXTENDS Verifier, CodecProofs

\* The calls that the peer may make.
K == DOMAIN Samples

\* The types are sequences of supported calls.
LEMMA TypesTyped ==
    ASSUME NEW e \in DOMAIN MessageTypes, NEW T, T = MessageTypes[e]
    PROVE  /\ T \in Seq(K) /\ T \in Todo(K) /\ T # <<>>
           /\ Supported(K) /\ <<>> \in Todo(K)
  <1>1. Supported(K) /\ T \in Seq(K)
    BY VerifierAssumption DEF K
  <1>2. T \in Todo(K) /\ <<>> \in Todo(K)
    BY <1>1, SeqMonotonic, EmptySeq DEF Todo, Frame
  <1>3. T # <<>>
    <2>1. ASSUME NEW v PROVE Enum(v) # <<>>
      BY DEF Enum
    <2>2. e \in {"client", "server", "display", "input"}
      BY DEF MessageTypes
    <2>3. T \in {ClientMessage, ServerMessage, DisplayMessage, InputMessage}
      BY <2>2 DEF MessageTypes
    <2> QED
      BY <2>1, <2>3 DEF ClientMessage, ServerMessage, DisplayMessage, InputMessage
  <1> QED
    BY <1>1, <1>2, <1>3

\* The samples are arguments that the calls can have.
LEMMA ArgumentsAreTokens ==
    ASSUME NEW x \in Frame(K), NEW t \in Arguments(x)
    PROVE  t \in Tokens(x)
  <1>1. CASE x.k = "counted"
    BY <1>1 DEF Arguments, Tokens
  <1>2. CASE x.k # "counted"
    <2>1. x \in DOMAIN Samples
      BY <1>2 DEF Frame, K
    <2> QED
      BY <1>2, <2>1, VerifierAssumption DEF Arguments
  <1> QED
    BY <1>1, <1>2

-----------------------------------------------------------------------------
(* The invariant.                                                          *)

Typed == /\ expects \in DOMAIN MessageTypes
         /\ writes \in Todo(K) /\ reads \in Todo(K) /\ pending \in CallsOf(K)
         /\ wire \in Seq(Byte) /\ open \in BOOLEAN
         /\ lost \in Nat /\ (open => lost = 0)
         /\ datagram \in Seq(Byte) /\ reader \in Readers(K)

\* The reader repeats the calls of the peer, with the bytes on the wire between the
\* two, and those that never arrived.
Following == \E m \in Seq(Byte) :
                 Len(m) = lost /\ InStep(K, MessageType, reads, wire, m, pending, writes)

\* The loop has ended at the end of a stream only.
Ended == /\ state \in {"reading", "eof"}
         /\ state = "eof" => ~ open /\ Incoming.r = "eof"

\* from_bytes has taken the beginning of the datagram, as to_bytes would make it
\* but for the spelling of an address.
Takes == reader.r # "unread" => Retold(reader, datagram)

Inv == Typed /\ Following /\ Ended /\ Takes

\* A connection begins with nothing written and nothing read.
LEMMA InitInv == Init => Inv
  <1> SUFFICES ASSUME Init PROVE Inv
    OBVIOUS
  <1>1. /\ expects \in DOMAIN MessageTypes
        /\ writes = <<>> /\ pending = <<>> /\ lost = 0 /\ wire = <<>> /\ open = TRUE
        /\ reads = <<>> /\ state = "reading" /\ datagram = <<>> /\ reader = Unread
    BY DEF Init
  <1>2. Unread \in Readers(K) /\ Unread.r = "unread" /\ <<>> \in Todo(K) /\ <<>> \in CallsOf(K)
    BY <1>1, TypesTyped, Begins, EmptySeq DEF CallsOf
  <1>3. Typed
    BY <1>1, <1>2, EmptySeq DEF Typed
  <1>4. Following
    BY <1>1, <1>2, InStepBegins, EmptySeq DEF Following
  <1> QED
    BY <1>1, <1>2, <1>3, <1>4 DEF Inv, Ended, Takes

\* The calls of the peer, and of the reader.
LEMMA CurrentCall ==
    ASSUME Typed, NEW todo \in Todo(K), NEW x, x = Current(todo)
    PROVE  /\ Supported(K) /\ MessageType \in Todo(K) /\ MessageType # <<>>
           /\ x = Begun(MessageType, todo) /\ Head(x) \in Frame(K) /\ CallOK(Head(x))
  <1>1. MessageType \in Todo(K) /\ MessageType # <<>> /\ Supported(K)
    BY TypesTyped DEF Typed, MessageType
  <1>2. x = Begun(MessageType, todo)
    BY DEF Current, Begun
  <1> QED
    BY <1>1, <1>2, NextCall, Zenon

-----------------------------------------------------------------------------
(* The peer.                                                               *)

\* While the connection is open nothing is missing.
LEMMA AllThere ==
    ASSUME Typed, Following, open
    PROVE  lost = 0 /\ InStep(K, MessageType, reads, wire, <<>>, pending, writes)
  <1>1. lost = 0
    BY DEF Typed
  <1>2. PICK m \in Seq(Byte) :
           Len(m) = lost /\ InStep(K, MessageType, reads, wire, m, pending, writes)
    BY DEF Following
  <1>3. m = <<>>
    BY <1>1, <1>2, EmptySeq
  <1> QED
    BY <1>1, <1>2, <1>3

\* One call of the peer.
LEMMA PeerWritesInv == ASSUME Inv, PeerWrites PROVE Inv'
  <1> DEFINE x == Current(writes)
             h == Head(x)
             M == MessageType
  <1>1. PICK t \in Arguments(h) :
            /\ writes' = After(x, t)
            /\ wire' = wire \o Encode(h, t)
            /\ pending' = pending \o Calls(x, t)
    BY DEF PeerWrites
  <1>2. /\ open /\ expects' = expects /\ lost' = lost /\ open' = open /\ reads' = reads
        /\ state' = state /\ datagram' = datagram /\ reader' = reader
    BY DEF PeerWrites, args, udpVars
  <1>3. /\ writes \in Todo(K) /\ wire \in Seq(Byte) /\ pending \in CallsOf(K) /\ reads \in Todo(K)
        /\ Typed
    BY DEF Inv, Typed
  <1>4. /\ Supported(K) /\ M \in Todo(K) /\ M # <<>> /\ x = Begun(M, writes)
        /\ Head(x) \in Frame(K)
    BY <1>3, CurrentCall, Zenon
  <1>5. t \in Tokens(Head(x))
    BY <1>1, <1>4, ArgumentsAreTokens, Zenon
  <1>6. lost = 0 /\ InStep(K, M, reads, wire, <<>>, pending, writes)
    BY <1>2, <1>3, AllThere DEF Inv
  <1> HIDE DEF x, M
  <1>7. /\ wire' \in Seq(Byte) /\ pending' \in CallsOf(K) /\ writes' \in Todo(K)
        /\ InStep(K, M, reads, wire', <<>>, pending', writes')
    BY <1>1, <1>3, <1>4, <1>5, <1>6, InStepWrites, Zenon
  <1>8. M' = M
    BY <1>2 DEF MessageType, M
  <1>9. Following'
    BY <1>2, <1>6, <1>7, <1>8, EmptySeq DEF Following, M
  <1> QED
    BY <1>2, <1>3, <1>7, <1>9 DEF Inv, Typed, Ended, Takes

\* What is cut off the wire is missing from then on.
LEMMA PeerClosesInv == ASSUME Inv, PeerCloses PROVE Inv'
  <1>1. /\ open /\ open' = FALSE /\ expects' = expects /\ writes' = writes /\ pending' = pending
        /\ reads' = reads /\ state' = state /\ datagram' = datagram /\ reader' = reader
    BY DEF PeerCloses, args, udpVars
  <1>2. PICK k \in 0 .. Len(wire) : wire' = SubSeq(wire, 1, k) /\ lost' = Len(wire) - k
    BY DEF PeerCloses
  <1>3. Typed /\ wire \in Seq(Byte) /\ state = "reading"
    BY <1>1 DEF Inv, Typed, Ended
  <1>4. InStep(K, MessageType, reads, wire, <<>>, pending, writes)
    BY <1>1, <1>3, AllThere DEF Inv
  <1>5. PICK n \in Seq(Byte) : /\ SubSeq(wire, 1, k) \in Seq(Byte) /\ Len(n) = Len(wire) - k
                               /\ InStep(K, MessageType, reads, SubSeq(wire, 1, k), n, pending,
                                         writes)
    BY <1>3, <1>4, InStepCut
  <1>6. MessageType' = MessageType
    BY <1>1 DEF MessageType
  <1>7. Following'
    BY <1>1, <1>2, <1>5, <1>6 DEF Following
  <1>8. Typed'
    <2>1. lost' \in Nat
      BY <1>2, <1>5, LenProperties
    <2> QED
      BY <1>1, <1>2, <1>3, <1>5, <2>1 DEF Typed
  <1>9. Ended'
    BY <1>1, <1>3 DEF Ended
  <1> QED
    BY <1>1, <1>7, <1>8, <1>9 DEF Inv, Takes

-----------------------------------------------------------------------------
(* The reader.                                                             *)

\* A call of the reader that succeeds is the oldest of the peer's.
LEMMA ReaderReads ==
    ASSUME Inv, Incoming.r = "ok", NEW x, x = Current(reads)
    PROVE  \E m \in Seq(Byte) : /\ Len(m) = lost
                                /\ ReadsNext(K, MessageType, x, wire, m, pending, writes)
  <1>1. PICK m \in Seq(Byte) :
           Len(m) = lost /\ InStep(K, MessageType, reads, wire, m, pending, writes)
    BY DEF Inv, Following
  <1>2. /\ reads \in Todo(K) /\ wire \in Seq(Byte) /\ pending \in CallsOf(K) /\ writes \in Todo(K)
        /\ Typed
    BY DEF Inv, Typed
  <1>3. /\ Supported(K) /\ MessageType \in Todo(K) /\ MessageType # <<>>
        /\ x = Begun(MessageType, reads)
    BY <1>2, CurrentCall, Zenon
  <1>4. Decode(Head(x), wire).r = "ok"
    BY DEF Incoming
  <1>5. ReadsNext(K, MessageType, x, wire, m, pending, writes)
    BY <1>1, <1>2, <1>3, <1>4, InStepReads, Zenon
  <1> QED
    BY <1>1, <1>5

\* One that does not succeed waits for bytes.
LEMMA ReaderWaits ==
    ASSUME Inv, Incoming.r # "ok"
    PROVE  Incoming = Eof
  <1> DEFINE x == Current(reads)
  <1>1. PICK m \in Seq(Byte) :
           Len(m) = lost /\ InStep(K, MessageType, reads, wire, m, pending, writes)
    BY DEF Inv, Following
  <1>2. /\ reads \in Todo(K) /\ wire \in Seq(Byte) /\ pending \in CallsOf(K) /\ writes \in Todo(K)
        /\ Typed
    BY DEF Inv, Typed
  <1>3. /\ Supported(K) /\ MessageType \in Todo(K) /\ MessageType # <<>>
        /\ x = Begun(MessageType, reads)
    BY <1>2, CurrentCall, Zenon
  <1>4. Decode(Head(x), wire).r # "ok" /\ Incoming = Decode(Head(x), wire)
    BY DEF Incoming
  <1> HIDE DEF x
  <1>5. Decode(Head(x), wire) = Eof
    BY <1>1, <1>2, <1>3, <1>4, InStepWaits, Zenon
  <1> QED
    BY <1>4, <1>5

\* One call: the reader is where the script is after it.
LEMMA ReadCallInv == ASSUME Inv, ReadCall PROVE Inv'
  <1> DEFINE x == Current(reads)
             h == Head(x)
             M == MessageType
  <1>1. /\ Incoming.r = "ok" /\ reads' = After(x, Incoming.v) /\ wire' = Incoming.rest
        /\ pending' = From(pending, Len(Calls(x, Incoming.v)) + 1)
        /\ expects' = expects /\ writes' = writes /\ lost' = lost /\ open' = open
        /\ state' = state /\ state = "reading" /\ datagram' = datagram /\ reader' = reader
    BY DEF ReadCall, args, udpVars
  <1>2. PICK m \in Seq(Byte) : Len(m) = lost /\ ReadsNext(K, M, x, wire, m, pending, writes)
    BY <1>1, ReaderReads
  <1>3. PICK v \in Tokens(h), r \in Seq(Byte), f \in CallsOf(K) :
           /\ Decode(h, wire) = Ok(v, r)
           /\ pending = Calls(x, v) \o f
           /\ After(x, v) \in Todo(K)
           /\ InStep(K, M, After(x, v), r, m, f, writes)
    BY <1>2 DEF ReadsNext
  <1>4. Incoming.v = v /\ Incoming.rest = r
    BY <1>3 DEF Incoming, Ok
  <1>5. Calls(x, v) \in CallsOf(K)
    <2>1. reads \in Todo(K) /\ Typed
      BY DEF Inv, Typed
    <2>2. x \in Todo(K) /\ x # <<>> /\ Supported(K)
      BY <2>1, CurrentCall, NextCall, Zenon
    <2> QED
      BY <1>3, <2>2, AfterTyped, Zenon
  <1> HIDE DEF x, h, M
  <1>6. pending' = f
    <2> DEFINE c == Calls(x, v)
    <2> HIDE DEF c
    <2>1. From(c \o f, Len(c) + 1) = f
      BY <1>5, Parts, Zenon DEF CallsOf, c
    <2> QED
      BY <1>1, <1>3, <1>4, <2>1 DEF c
  <1>7. M' = M
    BY <1>1 DEF MessageType, M
  <1>8. Following'
    BY <1>1, <1>2, <1>3, <1>4, <1>6, <1>7 DEF Following, M
  <1>9. Typed'
    BY <1>1, <1>3, <1>4, <1>6 DEF Inv, Typed
  <1> QED
    BY <1>1, <1>8, <1>9 DEF Inv, Ended, Takes

\* The loop ends with an error only where the stream has ended.
LEMMA StopReadingInv == ASSUME Inv, StopReading PROVE Inv'
  <1>1. /\ Incoming.r # "ok" /\ (Incoming.r = "eof" => ~ open) /\ state' = Incoming.r
        /\ expects' = expects /\ writes' = writes /\ pending' = pending /\ lost' = lost
        /\ wire' = wire /\ open' = open /\ reads' = reads
        /\ datagram' = datagram /\ reader' = reader
    BY DEF StopReading, args, udpVars
  <1>2. Incoming.r = "eof"
    BY <1>1, ReaderWaits DEF Eof
  <1>3. MessageType' = MessageType
    BY <1>1 DEF MessageType
  <1>4. Incoming' = Incoming
    BY <1>1, <1>3 DEF Incoming, Current
  <1>5. Ended'
    BY <1>1, <1>2, <1>4 DEF Ended
  <1> QED
    BY <1>1, <1>3, <1>5 DEF Inv, Typed, Takes, Following

\* The next connection begins like the first.
LEMMA AcceptInv == ASSUME Inv, Accept PROVE Inv'
  <1>1. /\ writes' = <<>> /\ pending' = <<>> /\ lost' = 0 /\ wire' = <<>> /\ open' = TRUE
        /\ reads' = <<>> /\ state' = "reading"
        /\ expects' = expects /\ datagram' = datagram /\ reader' = reader
    BY DEF Accept, args, udpVars
  <1>2. <<>> \in Todo(K) /\ <<>> \in CallsOf(K)
    BY EmptySeq DEF Todo, CallsOf
  <1>3. Typed'
    BY <1>1, <1>2, EmptySeq DEF Inv, Typed
  <1>4. Following'
    BY <1>1, <1>2, InStepBegins, EmptySeq DEF Following
  <1> QED
    BY <1>1, <1>3, <1>4 DEF Inv, Ended, Takes

\* The datagrams leave the connection alone.
LEMMA DatagramInv ==
    ASSUME Inv, ReadDatagram \/ ReadDatagramCall \/ NextDatagram \/ UNCHANGED vars
    PROVE  Inv'
  <1>1. /\ expects' = expects /\ writes' = writes /\ pending' = pending /\ lost' = lost
        /\ wire' = wire /\ open' = open /\ reads' = reads /\ state' = state
    BY DEF ReadDatagram, ReadDatagramCall, NextDatagram, vars, args, tcpVars
  <1>2. MessageType' = MessageType
    BY <1>1 DEF MessageType
  <1>3. Following' /\ Ended'
    <2>1. Incoming' = Incoming
      BY <1>1, <1>2 DEF Incoming, Current
    <2> QED
      BY <1>1, <1>2, <2>1 DEF Inv, Following, Ended
  <1>4. datagram' \in Seq(Byte) /\ reader' \in Readers(K) /\ Takes'
    <2> DEFINE T == MessageType
    <2>1. T \in Seq(K) /\ Supported(K)
      BY TypesTyped DEF Inv, Typed, MessageType
    <2>2. CASE ReadDatagram
      <3>1. datagram' \in Seq(Byte) /\ reader' = Deserializer(T, datagram')
        BY <2>2, VerifierAssumption DEF ReadDatagram
      <3> HIDE DEF T
      <3> QED
        BY <2>1, <3>1, Begins DEF Takes
    <2>3. CASE ReadDatagramCall
      <3>1. Reading(reader) /\ reader' = Deserialize(reader) /\ datagram' = datagram
            /\ reader \in Readers(K) /\ datagram \in Seq(Byte)
        BY <2>3 DEF ReadDatagramCall, Inv, Typed
      <3>2. Retold(reader, datagram)
        BY <3>1 DEF Inv, Takes, Reading
      <3>3. reader' \in Readers(K) /\ Retold(reader', datagram)
        BY <2>1, <3>1, <3>2, Deserializes, Zenon
      <3> QED
        BY <3>1, <3>3 DEF Takes
    <2>4. CASE NextDatagram
      <3>1. datagram' = <<>> /\ reader' = Unread
        BY <2>4 DEF NextDatagram
      <3> QED
        BY <2>1, <3>1, EmptySeq, Begins DEF Takes
    <2>5. CASE UNCHANGED vars
      BY <2>5 DEF vars, udpVars, Inv, Typed, Takes
    <2> QED
      BY <2>2, <2>3, <2>4, <2>5
  <1> QED
    BY <1>1, <1>3, <1>4 DEF Inv, Typed

\* The invariant holds in every state.
LEMMA InvAlways == Spec => []Inv
  <1>1. Inv /\ [Next]_vars => Inv'
    BY PeerWritesInv, PeerClosesInv, ReadCallInv, StopReadingInv, AcceptInv, DatagramInv DEF Next
  <1> QED
    BY <1>1, InitInv, PTL DEF Spec

-----------------------------------------------------------------------------

\* Each call that succeeds returns what the peer wrote with the oldest call that
\* the reader has not repeated, and no call fails (verifier.rs:70-80).
THEOREM StreamCorrect == Spec => []StreamReadsBack
  <1> DEFINE x == Current(reads)
             h == Head(x)
  <1>1. Inv => StreamReadsBack
    <2> SUFFICES ASSUME Inv, Incoming.r = "ok", h.k # "counted"
                 PROVE  /\ pending # <<>>
                        /\ Head(pending) = [at |-> x, token |-> Incoming.v]
      BY DEF StreamReadsBack, Inv, Ended
    <2>1. PICK m \in Seq(Byte) : ReadsNext(K, MessageType, x, wire, m, pending, writes)
      BY ReaderReads
    <2>2. PICK v \in Tokens(h), r \in Seq(Byte), f \in CallsOf(K) :
             Decode(h, wire) = Ok(v, r) /\ pending = Calls(x, v) \o f
      BY <2>1 DEF ReadsNext
    <2> DEFINE a == [at |-> x, token |-> v]
    <2>3. Incoming.v = v /\ pending = <<a>> \o f
      BY <2>2 DEF Incoming, Ok, Calls
    <2> HIDE DEF a
    <2>4. pending # <<>> /\ Head(pending) = a
      BY <2>3 DEF CallsOf
    <2> QED
      BY <2>3, <2>4 DEF a
  <1> QED
    BY <1>1, InvAlways, PTL

\* At the end of a stream everything has been read that had arrived whole, and what
\* is left over is the beginning of one call.
THEOREM CutCorrect == Spec => []OnlyTheCutMessageMissing
  <1> DEFINE x == Current(reads)
             h == Head(x)
  <1>1. Inv => OnlyTheCutMessageMissing
    <2> SUFFICES ASSUME Inv, state = "eof" PROVE OnlyTheCutMessageMissing
      BY DEF OnlyTheCutMessageMissing
    <2>1. PICK m \in Seq(Byte) :
             Len(m) = lost /\ InStep(K, MessageType, reads, wire, m, pending, writes)
      BY DEF Inv, Following
    <2>2. /\ reads \in Todo(K) /\ wire \in Seq(Byte) /\ pending \in CallsOf(K)
          /\ writes \in Todo(K) /\ Typed /\ Decode(h, wire).r = "eof"
      BY DEF Inv, Typed, Ended, Incoming
    <2>3. /\ Supported(K) /\ MessageType \in Todo(K) /\ MessageType # <<>>
          /\ x = Begun(MessageType, reads)
      BY <2>2, CurrentCall, Zenon
    <2>4. CASE /\ wire = <<>> /\ m = <<>> /\ pending = <<>>
               /\ Script(K, MessageType, End(writes), reads)
      <3>1. writes = <<>> => reads = <<>>
        <4>1. MessageType \in Seq(K)
          BY TypesTyped DEF Inv, Typed, MessageType
        <4> QED
          BY <2>3, <2>4, <4>1, BetweenMessages, Zenon
      <3> QED
        BY <2>1, <2>4, <3>1, EmptySeq DEF OnlyTheCutMessageMissing
    <2>5. ASSUME NEW q \in Point(K), NEW p, p = There(reads, wire \o m, pending),
                 Repeats(x, wire, m, p, q) \/ Halfway(x, wire, m, p, q)
          PROVE  OnlyTheCutMessageMissing
      <3>1. /\ m # <<>> /\ h.k # "counted"
            /\ \E v \in Tokens(h) :
                 /\ p.calls = Calls(x, v) \o q.calls
                 /\ \E n \in 0 .. Len(Encode(h, v)) - 1 : wire = SubSeq(Encode(h, v), 1, n)
        <4>1. ~ Repeats(x, wire, m, p, q)
          BY <2>2 DEF Repeats, Ok
        <4>2. Halfway(x, wire, m, p, q)
          BY <2>5, <4>1
        <4> QED
          BY <4>2 DEF Halfway
      <3>2. PICK v \in Tokens(h) :
              /\ p.calls = Calls(x, v) \o q.calls
              /\ \E n \in 0 .. Len(Encode(h, v)) - 1 : wire = SubSeq(Encode(h, v), 1, n)
        BY <3>1
      <3> DEFINE a == [at |-> x, token |-> v]
                 f == q.calls
      <3>3. f \in CallsOf(K) /\ pending = <<a>> \o f /\ pending \in CallsOf(K)
        BY <2>2, <2>5, <3>1, <3>2 DEF Calls, There, Point
      <3>4. a.at = x /\ a.token = v
        OBVIOUS
      <3> HIDE DEF a, f, x
      <3>5. pending # <<>> /\ Head(pending) = a
        BY <3>3 DEF CallsOf
      <3>6. lost # 0
        BY <2>1, <3>1, EmptySeq
      <3>7. Head(pending).at = x /\ Head(pending).token = v
        BY <3>4, <3>5
      <3> QED
        BY <3>2, <3>5, <3>6, <3>7 DEF OnlyTheCutMessageMissing
    <2> QED
      BY <2>1, <2>2, <2>3, <2>4, <2>5, InStepCases
  <1> QED
    BY <1>1, InvAlways, PTL

\* A datagram that from_bytes accepts is what to_bytes makes of the calls that it
\* answered, and no byte more, if and only if the addresses in it are spelled as
\* to_bytes spells them (deserializer.rs:35-46).
THEOREM DatagramCorrect == Spec => []DatagramExact
  <1>1. Inv => DatagramExact
    <2> SUFFICES ASSUME Inv, Accepted(reader) PROVE datagram = reader.again <=> Plain(reader.calls)
      BY DEF DatagramExact
    <2>1. reader.r # "unread" /\ reader \in Readers(K) /\ datagram \in Seq(Byte)
      BY DEF Accepted, Inv, Typed
    <2>2. Retold(reader, datagram)
      BY <2>1 DEF Inv, Takes
    <2> QED
      BY <2>1, <2>2, AcceptedRetold
  <1> QED
    BY <1>1, InvAlways, PTL

=============================================================================
