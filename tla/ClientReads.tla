---------------------------- MODULE ClientReads ----------------------------
(***************************************************************************)
(* How thread S gets a message out of the stream: recv puts a field into a *)
(* local array, the array is written into the Buffer, and the methods of   *)
(* class Game and the constructors read it from there, with a cursor of    *)
(* their own.  A handler is a sequence of such instructions.               *)
(***************************************************************************)
EXTENDS Codec

\* class Buffer: the bytes written so far, and how many of them were read.
\* Behind what was written there are zeros.
EmptyBuffer == [bytes |-> <<>>, read |-> 0]

WriteIntoBuffer(b, s) == [b EXCEPT !.bytes = @ \o s]

ReadBytes(b, n) == [i \in 1 .. n |-> IF b.read + i <= Len(b.bytes)
                                     THEN b.bytes[b.read + i] ELSE 0]

Number(s) == BigEndian(Len(s), s)

\* read_1_byte(), as the length of read_n_bytes(...)
TextLength(b) == Number(ReadBytes(b, 1))

\* recv, and write_into_buffer
Field(n) == <<[op |-> "field", n |-> n]>>
\* read_str
Text == <<[op |-> "text"]>>
\* recv of a number that is not written into the buffer
Local(n) == <<[op |-> "local", n |-> n]>>
\* for (i = 0; i < local; i++) body
Times(body) == <<[op |-> "times", n |-> 4, body |-> body]>>
\* switch (local)
Choose(cases) == <<[op |-> "choose", n |-> 1, cases |-> cases]>>
\* read_1_byte() ... read_8_bytes()
Take(n) == <<[op |-> "take", n |-> n]>>
\* read_n_bytes(read_1_byte())
TakeText == <<[op |-> "take_text"]>>
\* reset_buffer
Reset == <<[op |-> "reset"]>>
\* In a loop, with `left` rounds to go.
Again(left, body) == <<[op |-> "again", left |-> left, body |-> body]>>

Receives(i) == i.op \in {"field", "text", "local", "times", "choose"}

\* What class Game, or the control of a handler, is given: a number or a text.
Gives(i) == i.op \in {"local", "times", "choose", "take", "take_text"}

\* The bytes that recv is asked for; of a text also those of the second recv.
Wanted(i, wire) ==
    IF i.op = "text" THEN IF wire = <<>> THEN 1 ELSE wire[1] + 1 ELSE i.n

\* get_n_bytes_from_server.  When the stream ends inside a field recv returns what
\* there is of it; the rest of the local array keeps what it held.
Received(i, wire, stale) ==
    [j \in 1 .. Wanted(i, wire) |-> IF j <= Len(wire) THEN wire[j] ELSE stale]

\* recv returns 0 at the end of the stream, and when it is asked for no bytes.
Gone(i, wire) == IF wire = <<>> THEN TRUE
                 ELSE i.op = "text" /\ (wire[1] = 0 \/ Len(wire) = 1)

Unknown(i, got) == i.op = "choose" /\ Number(got) >= Len(i.cases)

\* The instructions that an instruction leads to.
Inside(i, got) ==
    CASE i.op = "times"                 -> Again(Number(got), i.body)
      [] i.op = "choose"                -> i.cases[Number(got) + 1]
      [] i.op = "again" /\ i.left > 0   -> i.body \o Again(i.left - 1, i.body)
      [] OTHER                          -> <<>>

\* What it does to the buffer.
Buffered(i, got, b) ==
    CASE i.op \in {"field", "text"} -> WriteIntoBuffer(b, got)
      [] i.op = "take"              -> [b EXCEPT !.read = @ + i.n]
      [] i.op = "take_text"         -> [b EXCEPT !.read = @ + 1 + TextLength(b)]
      [] i.op = "reset"             -> EmptyBuffer
      [] OTHER                      -> b

\* What it gives.
Given(i, got, b) ==
    CASE i.op = "take"      -> Number(ReadBytes(b, i.n))
      [] i.op = "take_text" -> ReadBytes([b EXCEPT !.read = @ + 1], TextLength(b))
      [] OTHER              -> Number(got)

-----------------------------------------------------------------------------
(* The handlers.                                                           *)

ReadPosition == Field(2) \o Field(2)
APosition    == Take(2) \o Take(2)

BombPlaced   == (Field(4) \o ReadPosition) \o (Take(4) \o APosition)
BombExploded == Field(4) \o Take(4)
                \o Reset \o Times(Field(1) \o Take(1))
                \o Reset \o Times(ReadPosition \o APosition)
PlayerMoved  == (Field(1) \o ReadPosition) \o (Take(1) \o APosition)
BlockPlaced  == ReadPosition \o APosition

Events == <<BombPlaced, BombExploded, PlayerMoved, BlockPlaced>>

\* MUTANT: the buffer is not reset before an event.
DeserializeEventOnTop == Choose(Events)

DeserializeEvent == Choose([e \in DOMAIN Events |-> Reset \o Events[e]])

Hello ==
    (Text \o Field(1) \o Field(2) \o Field(2) \o Field(2) \o Field(2) \o Field(2))
    \o (TakeText \o Take(1) \o Take(2) \o Take(2) \o Take(2) \o Take(2) \o Take(2)) \o Reset

AcceptedPlayer == (Field(1) \o (Text \o Text)) \o (Take(1) \o (TakeText \o TakeText)) \o Reset

GameStarted == Times(Reset \o AcceptedPlayer)

Turn == Local(2) \o Times(DeserializeEvent)

\* MUTANT: the scores at the end of a game are left in the stream.
GameEndedNoScores == <<>>

GameEnded == Times(Local(1) \o Local(4))

Handlers == Choose(<<Hello, AcceptedPlayer, GameStarted, Turn, GameEnded>>)

\* One round of server_to_gui_handler.
Round == Reset \o Handlers

=============================================================================
