------------------------------ MODULE Verifier ------------------------------
(***************************************************************************)
(* The verifier tool (src/src/bin/verifier.rs): it prints what it reads    *)
(* from one TCP connection after another, or from datagrams.  It is the    *)
(* only program that uses the library, and shows what the format promises: *)
(* messages need no separators, and no bytes have two readings.            *)
(*                                                                         *)
(* Peer and reader go through their messages call by call, at their own    *)
(* pace: a reader blocks in the middle of a message until there is more.   *)
(***************************************************************************)
EXTENDS Codec

CONSTANTS Samples,    \* for each call, arguments that the peer makes it with
          Datagrams,  \* byte strings that arrive as datagrams
          MaxAhead    \* bound: calls that the peer is ahead of the reader

MessageTypes == [client |-> ClientMessage, server |-> ServerMessage,
                 display |-> DisplayMessage, input |-> InputMessage]

ASSUME VerifierAssumption ==
    /\ Supported(DOMAIN Samples)
    /\ \A x \in DOMAIN Samples : Samples[x] \subseteq Tokens(x)
    /\ \A t \in DOMAIN MessageTypes : MessageTypes[t] \in Seq(DOMAIN Samples)
    /\ \A d \in Datagrams : d \in Seq(Byte)
    /\ MaxAhead \in Nat

VARIABLES udp,        \* ARGS.udp
          expects,    \* ARGS.message_type
          writes,     \* what the peer has left to write of its message
          pending,    \* history: calls it made that the reader has not repeated
          lost,       \* history: bytes the peer wrote that never arrived
          wire,       \* bytes not yet read
          open,       \* the peer has not closed the connection
          reads,      \* what is left to read of a message, <<>> between two
          state,      \* "reading", or how the loop ended: "eof", "bad"
          datagram,   \* the last datagram
          reader      \* from_bytes of it; unread while waiting for the next

args == <<udp, expects>>
tcpVars == <<writes, pending, lost, wire, open, reads, state>>
udpVars == <<datagram, reader>>
vars == <<args, tcpVars, udpVars>>

MessageType == MessageTypes[expects]

\* After a message comes a message.
Current(todo) == IF todo = <<>> THEN MessageType ELSE todo

Init == /\ udp \in BOOLEAN
        /\ expects \in DOMAIN MessageTypes
        /\ writes = <<>> /\ pending = <<>> /\ lost = 0 /\ wire = <<>> /\ open = TRUE
        /\ reads = <<>> /\ state = "reading"
        /\ datagram = <<>> /\ reader = Unread

\* What the peer may have to write.
Arguments(x) == IF x.k = "counted" THEN {0} ELSE Samples[x]

\* The peer of the connection: one call.
PeerWrites ==
    LET todo == Current(writes)
    IN  /\ ~ udp /\ open
        /\ \E t \in Arguments(Head(todo)) :
             /\ writes' = After(todo, t)
             /\ wire' = wire \o Encode(Head(todo), t)
             /\ pending' = pending \o Calls(todo, t)
        /\ Len(pending') <= MaxAhead
        /\ UNCHANGED <<args, lost, open, reads, state, udpVars>>

\* It may go away in the middle of a message, or of a number.
PeerCloses == /\ ~ udp /\ open
              /\ open' = FALSE
              /\ \E k \in 0 .. Len(wire) : /\ wire' = SubSeq(wire, 1, k)
                                           /\ lost' = Len(wire) - k
              /\ UNCHANGED <<args, writes, pending, reads, state, udpVars>>

\* What the next call makes of the bytes that have arrived.
Incoming == Decode(Head(Current(reads)), wire)

\* deserialize_message_from_stream: one call.  With too few bytes the reader
\* waits for more, until the stream ends.  A complete message is printed, and
\* the loop begins the next.
ReadCall == /\ ~ udp /\ state = "reading"
            /\ Incoming.r = "ok"
            /\ reads' = After(Current(reads), Incoming.v)
            /\ wire' = Incoming.rest
            /\ pending' = From(pending, Len(Calls(Current(reads), Incoming.v)) + 1)
            /\ UNCHANGED <<args, writes, lost, open, state, udpVars>>

StopReading == /\ ~ udp /\ state = "reading"
               /\ Incoming.r # "ok"
               /\ Incoming.r = "eof" => ~ open
               /\ state' = Incoming.r
               /\ UNCHANGED <<args, writes, pending, lost, wire, open, reads, udpVars>>

\* The next connection.
Accept == /\ ~ udp /\ state # "reading"
          /\ writes' = <<>> /\ pending' = <<>> /\ lost' = 0 /\ wire' = <<>> /\ open' = TRUE
          /\ reads' = <<>> /\ state' = "reading"
          /\ UNCHANGED <<args, udpVars>>

\* recv_from, and from_bytes on what it returned.
ReadDatagram == /\ udp /\ reader.r = "unread"
                /\ datagram' \in Datagrams
                /\ reader' = Deserializer(MessageType, datagram')
                /\ UNCHANGED <<args, tcpVars>>

\* from_bytes: one call.
ReadDatagramCall == /\ udp /\ Reading(reader)
                    /\ reader' = Deserialize(reader)
                    /\ UNCHANGED <<args, tcpVars, datagram>>

\* It is printed, or the error is; nothing is kept.
NextDatagram == /\ udp /\ reader.r # "unread" /\ ~ Reading(reader)
                /\ datagram' = <<>> /\ reader' = Unread
                /\ UNCHANGED <<args, tcpVars>>

Next == PeerWrites \/ PeerCloses \/ ReadCall \/ StopReading \/ Accept
        \/ ReadDatagram \/ ReadDatagramCall \/ NextDatagram

Spec == Init /\ [][Next]_vars

-----------------------------------------------------------------------------

\* A stream is read as it was written: each call that succeeds returns what the
\* peer wrote with the oldest call that the reader has not repeated, at the same
\* place of the same message, and none finds the stream malformed, wherever it
\* ends (verifier.rs:70-80).
StreamReadsBack ==
    /\ state # "bad"
    /\ state = "reading" /\ Incoming.r = "ok" /\ Head(Current(reads)).k # "counted" =>
         /\ pending # <<>>
         /\ Head(pending) = [at |-> Current(reads), token |-> Incoming.v]

\* At the end of a stream nothing is missing but what was cut off: everything that
\* arrived whole has been read, to the last message, and what is left over is the
\* beginning of a call and does not complete it.
OnlyTheCutMessageMissing ==
    state = "eof" =>
      IF lost = 0 THEN pending = <<>> /\ wire = <<>> /\ (writes = <<>> => reads = <<>>)
      ELSE /\ pending # <<>>
           /\ LET call == Encode(Head(Head(pending).at), Head(pending).token)
              IN  \E n \in 0 .. Len(call) - 1 : wire = SubSeq(call, 1, n)

\* What from_bytes accepts is what to_bytes would make of the calls that it
\* answered if and only if the addresses in it are spelled as to_bytes spells
\* them: one byte more or less is noticed, and numbers, lengths and variants have
\* one form only (deserializer.rs:35-46).  What a set or a map makes of the
\* entries, their order and repeated ones, is another matter.
DatagramExact == Accepted(reader) => (datagram = reader.again <=> Plain(reader.calls))

=============================================================================
