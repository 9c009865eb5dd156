------------------------------ MODULE Library ------------------------------
(***************************************************************************)
(* The library crate as any program may use it: to_bytes and from_bytes of *)
(* the serialisation, applied to values of every type it supports and to   *)
(* byte strings that nobody may have written, and the random numbers of    *)
(* module Rand.                                                            *)
(***************************************************************************)
EXTENDS Codec, Rand

CONSTANTS Types,      \* types, by name
          Samples,    \* for each call, arguments that a program makes it with
          MaxBytes    \* bound: length of the arbitrary byte strings

ASSUME LibraryAssumption ==
    /\ Supported(DOMAIN Samples)
    /\ \A x \in DOMAIN Samples : /\ Samples[x] \subseteq Tokens(x)
                                  /\ \A t \in Samples[x] : Rewritten(x, t) = t
    /\ \A n \in DOMAIN Types : Types[n] \in Seq(DOMAIN Samples)
    /\ MaxBytes \in Nat

VARIABLES part,      \* the module of the library that this behaviour is about
          type,      \* the type the program works with
          source,    \* who makes the bytes: to_bytes or anybody
          writer,    \* the Serializer; of anybody's bytes, only the output
          lost,      \* history: bytes that were cut off before they were read
          reader     \* the Deserializer; it has no type before from_bytes

bytesVars == <<type, source, writer, lost, reader>>
vars == <<part, bytesVars, randVars>>

\* The modules share nothing: the one that is not used keeps some first state.
Init == /\ New
        /\ type \in DOMAIN Types /\ source \in {"to_bytes", "anybody"}
        /\ writer = Serializer(Types[type]) /\ lost = 0
        /\ reader = Unread
        /\ \/ part = "serialize" /\ seed = CHOOSE s \in Seeds : TRUE
           \/ part = "random" /\ type = CHOOSE t \in DOMAIN Types : TRUE

\* What the program may call the Serializer with.
Arguments(x) == IF x.k = "counted" THEN {0} ELSE Samples[x]

\* to_bytes: one call.
ToBytes == /\ part = "serialize" /\ source = "to_bytes"
           /\ reader.r = "unread" /\ writer.todo # <<>>
           /\ \E t \in Arguments(Head(writer.todo)) : writer' = Serialize(writer, t)
           /\ UNCHANGED <<part, type, source, lost, reader, randVars>>

\* One more byte from somewhere.
ByteArrives == /\ part = "serialize" /\ source = "anybody"
               /\ reader.r = "unread" /\ Len(writer.output) < MaxBytes
               /\ \E x \in Byte : writer' = [writer EXCEPT !.output = Append(@, x)]
               /\ UNCHANGED <<part, type, source, lost, reader, randVars>>

Arrived == SubSeq(writer.output, 1, Len(writer.output) - lost)

\* from_bytes: of a value, or of its beginning.
FromBytes == /\ part = "serialize" /\ reader.r = "unread"
             /\ source = "to_bytes" => writer.todo = <<>>
             /\ UNCHANGED <<part, type, source, writer, randVars>>
             /\ lost' \in 0 .. (IF source = "to_bytes" THEN Len(writer.output) ELSE 0)
             /\ reader' = Deserializer(Types[type], Arrived')

\* from_bytes: one call.
Reads == /\ part = "serialize" /\ Reading(reader)
         /\ reader' = Deserialize(reader)
         /\ UNCHANGED <<part, type, source, writer, lost, randVars>>

\* next_u32 or range_u16
Calculates == /\ part = "random"
              /\ Draws
              /\ UNCHANGED <<part, bytesVars>>

Next == ToBytes \/ ByteArrives \/ FromBytes \/ Reads \/ Calculates

Spec == Init /\ [][Next]_vars

-----------------------------------------------------------------------------

\* What to_bytes wrote, from_bytes returns (serializer.rs:10-14): call by call,
\* with negative numbers, empty options and the longest strings.
RoundTrip == source = "to_bytes" /\ lost = 0 =>
                 /\ reader.r \in {"unread", "ok"} /\ ~ Refused(reader)
                 /\ Accepted(reader) => reader.calls = writer.calls

\* Nothing but an address has two forms (and a set or a map, when its entries come
\* in another order or twice): whatever from_bytes accepts is what to_bytes makes
\* of the calls that it answered, unless an address in it has another spelling
\* (deserializer.rs:35-46, 59-76, 180-203; lib.rs:110-113).
OneFormOnly == Accepted(reader) => (reader.again = Arrived <=> Plain(reader.calls))

\* A beginning of something valid is never called malformed, so that a reader may
\* wait for more, nor taken for the whole (deserializer.rs:153-156).
WaitsForRest == source = "to_bytes" /\ lost > 0 => ~ Accepted(reader) /\ ~ Refused(reader)

=============================================================================
