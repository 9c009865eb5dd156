------------------------------- MODULE Codec -------------------------------
(***************************************************************************)
(* The binary format of the Rust library (src/src/serialize), call by      *)
(* call.  serde takes a value apart into calls of the Serializer, one for  *)
(* each number, string, length or variant, and puts it together again from *)
(* the same calls of the Deserializer, in the order that the type gives.   *)
(*                                                                         *)
(* A type is the sequence of the calls to be made for it.  A struct or a   *)
(* tuple is its fields, a newtype such as PlayerId its content: nothing is *)
(* written for them.  What the call after a length or a variant is depends *)
(* on the argument, its token.                                             *)
(*                                                                         *)
(* HashSet and BTreeMap are lists in the order of their iteration; that    *)
(* they drop a repeated entry comes after the calls.  A SocketAddr is the  *)
(* text of an address: reading parses it, and writing has one spelling for *)
(* what may be read in several, as [::1]:80 and [0:0:0:0:0:0:0:1]:80.      *)
(* Floating point numbers, char and byte arrays are not supported by the   *)
(* library.                                                                *)
(***************************************************************************)
EXTENDS Integers, Sequences

CONSTANTS Base,      \* values of a byte: 256
          Canonical  \* for each text that names an address, how it is written

Byte == 0 .. Base - 1

\* A byte that no UTF-8 string contains, as 255.
NotUtf8 == Base - 1

\* The strings that fit.
Texts == {s \in Seq(Byte \ {NotUtf8}) : Len(s) < Base}

ASSUME BaseAssumption == Base \in Nat /\ Base >= 6

\* What the standard library promises: an address that was written can be read,
\* and is written in the same way again.
ASSUME AddressAssumption ==
    /\ DOMAIN Canonical \subseteq Texts
    /\ \A s \in DOMAIN Canonical : /\ Canonical[s] \in DOMAIN Canonical
                                  /\ Canonical[Canonical[s]] = Canonical[s]

Unsigned(width) == <<[k |-> "unsigned", width |-> width]>>
Signed(width)   == <<[k |-> "signed", width |-> width]>>
U8  == Unsigned(1)
U16 == Unsigned(2)
U32 == Unsigned(4)
U64 == Unsigned(8)
Str     == <<[k |-> "str"]>>
Address == <<[k |-> "address"]>>

ListOf(T)  == <<[k |-> "list", each |-> T]>>
MapOf(K, V) == ListOf(K \o V)

\* One byte says which of them follows.
Enum(variants) == <<[k |-> "variant", of |-> variants]>>
Unit        == Enum(<<<<>>>>)
Bool        == Enum(<<<<>>, <<>>>>)
OptionOf(T) == Enum(<<<<>>, T>>)

\* Inside a list, with `left` elements to come.
Counted(left, T) == [k |-> "counted", left |-> left, each |-> T]

Position  == U16 \o U16
Player    == Str \o Address
Bomb      == Position \o U16
Direction == Enum(<<<<>>, <<>>, <<>>, <<>>>>)

Event == Enum(<<U32 \o Position,
                U32 \o ListOf(U8) \o ListOf(Position),
                U8 \o Position,
                Position>>)

ServerMessage == Enum(<<Str \o U8 \o U16 \o U16 \o U16 \o U16 \o U16,
                        U8 \o Player,
                        MapOf(U8, Player),
                        U16 \o ListOf(Event),
                        MapOf(U8, U32)>>)

ClientMessage == Enum(<<Str, <<>>, <<>>, Direction>>)

InputMessage == Enum(<<<<>>, <<>>, Direction>>)

DisplayMessage ==
    Enum(<<Str \o U8 \o U16 \o U16 \o U16 \o U16 \o U16 \o MapOf(U8, Player),
           Str \o U16 \o U16 \o U16 \o U16 \o MapOf(U8, Player) \o MapOf(U8, Position)
             \o ListOf(Position) \o ListOf(Bomb) \o ListOf(Position) \o MapOf(U8, U32)>>)

-----------------------------------------------------------------------------
(* Numbers, big-endian: the high half and the low half.                    *)

Size2 == Base * Base
Size4 == Size2 * Size2
Size8 == Size4 * Size4

Size(width) == CASE width = 1 -> Base  [] width = 2 -> Size2
                 [] width = 4 -> Size4 [] width = 8 -> Size8

Bytes2(n) == <<n \div Base, n % Base>>
Bytes4(n) == Bytes2(n \div Size2) \o Bytes2(n % Size2)
Bytes8(n) == Bytes4(n \div Size4) \o Bytes4(n % Size4)

EncodeInt(width, n) == CASE width = 1 -> <<n>>      [] width = 2 -> Bytes2(n)
                         [] width = 4 -> Bytes4(n)  [] width = 8 -> Bytes8(n)

Number2(b) == b[1] * Base + b[2]
Number4(b) == Number2(b) * Size2 + Number2(SubSeq(b, 3, 4))
Number8(b) == Number4(b) * Size4 + Number4(SubSeq(b, 5, 8))

BigEndian(width, b) == CASE width = 1 -> b[1]       [] width = 2 -> Number2(b)
                         [] width = 4 -> Number4(b) [] width = 8 -> Number8(b)

-----------------------------------------------------------------------------
(* Calls.                                                                  *)

\* What a call can be made with.
Tokens(x) ==
    CASE x.k = "unsigned" -> 0 .. Size(x.width) - 1
      [] x.k = "signed"   -> (Size(x.width) \div 2) - Size(x.width) .. (Size(x.width) \div 2) - 1
      [] x.k = "str"      -> Texts
      [] x.k = "address"  -> DOMAIN Canonical
      [] x.k = "list"     -> 0 .. Size4 - 1
      [] x.k = "variant"  -> 0 .. Len(x.of) - 1
      [] x.k = "counted"  -> {0}

\* The calls that come next because of it.
Follow(x, t) ==
    CASE x.k = "list"    -> <<Counted(t, x.each)>>
      [] x.k = "variant" -> x.of[t + 1]
      [] x.k = "counted" -> IF x.left = 0 THEN <<>> ELSE x.each \o <<Counted(x.left - 1, x.each)>>
      [] OTHER           -> <<>>

After(todo, t) == Follow(Head(todo), t) \o Tail(todo)

\* What the Serializer is called with for the value that t stands for.
Rewritten(x, t) == IF x.k = "address" THEN Canonical[t] ELSE t

\* Writing.
Encode(x, t) ==
    CASE x.k = "unsigned" -> EncodeInt(x.width, t)
      [] x.k = "signed"   -> EncodeInt(x.width, IF t < 0 THEN t + Size(x.width) ELSE t)
      [] x.k = "str"      -> <<Len(t)>> \o t
      [] x.k = "address"  -> <<Len(t)>> \o t
      [] x.k = "list"     -> EncodeInt(4, t)
      [] x.k = "variant"  -> <<t>>
      [] x.k = "counted"  -> <<>>

\* Reading.  The result says whether it succeeded, and what is left.
Ok(v, rest) == [r |-> "ok", v |-> v, rest |-> rest]
Eof == [r |-> "eof"]     \* UnexpectedEof: not enough bytes (yet)
Bad == [r |-> "bad"]     \* any other error

From(b, n) == SubSeq(b, n, Len(b))

\* MUTANT: the least significant byte first.
DecodeIntLittle(width, b) ==
    IF Len(b) < width THEN Eof
    ELSE Ok(BigEndian(width, [i \in 1 .. width |-> b[width + 1 - i]]), From(b, width + 1))

DecodeInt(width, b) ==
    IF Len(b) < width THEN Eof ELSE Ok(BigEndian(width, b), From(b, width + 1))

\* MUTANT: the sign bit is a bit like the others.
DecodeSignedLarge(width, b) == DecodeInt(width, b)

\* Two's complement.
DecodeSigned(width, b) ==
    LET d == DecodeInt(width, b)
    IN  IF d.r = "ok" /\ d.v >= Size(width) \div 2
        THEN Ok(d.v - Size(width), d.rest) ELSE d

\* MUTANT: every byte that is too large is taken for the last variant.
DecodeVariantAny(n, b) ==
    IF b = <<>> THEN Eof ELSE Ok(IF b[1] >= n THEN n - 1 ELSE b[1], From(b, 2))

\* The byte of a boolean, a unit, an option or an enum.
DecodeVariant(n, b) ==
    IF b = <<>> THEN Eof
    ELSE IF b[1] >= n THEN Bad ELSE Ok(b[1], From(b, 2))

\* MUTANT: the last byte of the input is never available.
DecodeStrShort(b) ==
    IF b = <<>> \/ Len(b) <= b[1] + 1 THEN Eof
    ELSE Ok(SubSeq(b, 2, b[1] + 1), From(b, b[1] + 2))

\* MUTANT: a string shorter than announced is malformed.
DecodeStrStrict(b) ==
    IF b = <<>> THEN Eof
    ELSE IF Len(b) < b[1] + 1 \/ \E i \in 2 .. b[1] + 1 : b[i] = NotUtf8 THEN Bad
    ELSE Ok(SubSeq(b, 2, b[1] + 1), From(b, b[1] + 2))

DecodeStr(b) ==
    IF b = <<>> \/ Len(b) < b[1] + 1 THEN Eof
    ELSE IF \E i \in 2 .. b[1] + 1 : b[i] = NotUtf8 THEN Bad
    ELSE Ok(SubSeq(b, 2, b[1] + 1), From(b, b[1] + 2))

\* A string, parsed: another error than that of an unfinished string.
DecodeAddress(b) ==
    LET d == DecodeStr(b)
    IN  IF d.r = "ok" /\ d.v \notin DOMAIN Canonical THEN Bad ELSE d

Decode(x, b) ==
    CASE x.k = "unsigned" -> DecodeInt(x.width, b)
      [] x.k = "signed"   -> DecodeSigned(x.width, b)
      [] x.k = "str"      -> DecodeStr(b)
      [] x.k = "address"  -> DecodeAddress(b)
      [] x.k = "list"     -> DecodeInt(4, b)
      [] x.k = "variant"  -> DecodeVariant(Len(x.of), b)
      [] x.k = "counted"  -> Ok(0, b)

-----------------------------------------------------------------------------
(* Values.                                                                 *)

\* A call with its argument, and what was left to do when it was made.
Calls(todo, t) == IF Head(todo).k = "counted" THEN <<>> ELSE <<[at |-> todo, token |-> t]>>

\* to_bytes: a Serializer in the middle of a value.
Serializer(T) == [todo |-> T, calls |-> <<>>, output |-> <<>>]

Serialize(s, t) == [todo   |-> After(s.todo, t),
                    calls  |-> s.calls \o Calls(s.todo, t),
                    output |-> s.output \o Encode(Head(s.todo), t)]

\* from_bytes: a Deserializer in the middle of a value; `again` is a history of
\* what a Serializer makes of the value so far.
Deserializer(T, b) == [todo |-> T, input |-> b, calls |-> <<>>, again |-> <<>>, r |-> "ok"]

\* There are no bytes yet.
Unread == [Deserializer(<<>>, <<>>) EXCEPT !.r = "unread"]

Deserialize(d) ==
    LET x == Decode(Head(d.todo), d.input)
    IN  IF x.r = "ok"
        THEN [todo  |-> After(d.todo, x.v), input |-> x.rest,
              calls |-> d.calls \o Calls(d.todo, x.v),
              again |-> d.again \o Encode(Head(d.todo), Rewritten(Head(d.todo), x.v)),
              r     |-> "ok"]
        ELSE [d EXCEPT !.r = x.r]

\* Every address has been spelled as the Serializer spells it.
Plain(calls) == \A i \in 1 .. Len(calls) :
                    Rewritten(Head(calls[i].at), calls[i].token) = calls[i].token

Reading(d) == d.r = "ok" /\ d.todo # <<>>

\* MUTANT: what follows the value is ignored.
AcceptedLenient(d) == d.r = "ok" /\ d.todo = <<>>

\* from_bytes: the bytes hold one value and nothing else.
Accepted(d) == d.r = "ok" /\ d.todo = <<>> /\ d.input = <<>>

\* Not accepted, and not for want of bytes.
Refused(d) == d.r = "bad" \/ (d.r = "ok" /\ d.todo = <<>> /\ d.input # <<>>)

-----------------------------------------------------------------------------

\* The calls of S are supported, and so is what they lead to: numbers of the
\* widths that Rust has, and enums with a byte for each variant.
Supported(S) ==
    \A x \in S :
        \/ x.k \in {"unsigned", "signed"} /\ x.width \in {1, 2, 4, 8}
        \/ x.k \in {"str", "address"}
        \/ x.k = "list" /\ x.each \in Seq(S)
        \/ x.k = "variant" /\ x.of \in Seq(Seq(S)) /\ Len(x.of) <= Base

=============================================================================
