---------------------------- MODULE ClientBytes ----------------------------
(***************************************************************************)
(* What the C++ client reads and writes, byte by byte.  It does not use    *)
(* the library of module Codec: its handlers read field after field from   *)
(* the socket, and its serialisers write field after field into a Buffer.  *)
(* The server and the interface, as far as bytes go, are the library.      *)
(***************************************************************************)
EXTENDS ClientReads

CONSTANTS Samples,      \* for each call, arguments that the server makes it with
          MaxAhead,     \* bound: bytes on the wire before the server writes more
          PlayerName,   \* player_name, from the command line
          Datagrams,    \* byte strings that may arrive from the interface
          MaxAsked,     \* bound: calls in requests on the way to the server
          BufferSize,   \* bytes in a Buffer: 65507
          Games         \* states of class Game that may be drawn

\* What class Game can be: as its fields were read from messages (game.h:27-42).
TextType      == Tokens(Str[1])
\* The server writes addresses with the library.
AddressType   == {s \in Tokens(Address[1]) : Rewritten(Address[1], s) = s}
PositionType  == Tokens(U16[1]) \X Tokens(U16[1])
MapType(V)    == {s \in Seq(Tokens(U8[1]) \X V) : Len(s) < Size4}
SetType(V)    == {s \in Seq(V) : Len(s) < Size4}

GameType ==
    [server_name : TextType, players_count : Tokens(U8[1]),
     size_x : Tokens(U16[1]), size_y : Tokens(U16[1]), game_length : Tokens(U16[1]),
     explosion_radius : Tokens(U16[1]), bomb_timer : Tokens(U16[1]), turn : Tokens(U16[1]),
     players : MapType(TextType \X AddressType), positions : MapType(PositionType),
     blocks : SetType(PositionType), bombs : SetType(PositionType \X Tokens(U16[1])),
     explosions : SetType(PositionType), scores : MapType(Tokens(U32[1]))]

ASSUME ClientBytesAssumption ==
    /\ Supported(DOMAIN Samples) /\ ServerMessage \in Seq(DOMAIN Samples)
    /\ \A x \in DOMAIN Samples : Samples[x] \subseteq Tokens(x)
    /\ MaxAhead \in Nat /\ MaxAsked \in Nat
    \* A longer name is sent with a wrong length (client.cpp:146).
    /\ PlayerName \in TextType
    /\ \A d \in Datagrams : d \in Seq(Byte)
    /\ Games \subseteq GameType

\* Settings, a player, and the lists of an explosion fit into a Buffer.
ASSUME BufferAssumption ==
    /\ BufferSize \in Nat /\ BufferSize >= Base + 11 /\ BufferSize >= 2 * Base + 1
    /\ \A n \in Samples[ListOf(U8)[1]] : n <= BufferSize
    /\ \A n \in Samples[ListOf(Position)[1]] : 4 * n <= BufferSize

VARIABLES way,          \* the direction that this behaviour is about
          writes,       \* what the server has left to write of its message
          pending,      \* history: calls it made that class Game was not given yet
          wire,         \* bytes of the server that S has not received
          open,         \* the server has not closed the connection
          code, buf,    \* S: instructions left in this round, and its buffer
          short,        \* history: recv returned less than it was asked for
          ended,        \* "no", or how the process ended
          datagram,     \* what G has received from the interface
          input,        \* history: the library's reading of it
          up,           \* bytes sent to the server that it has not read
          serves,       \* what the server has left to read of a request
          asked,        \* history: calls of the requests that it has not read
          draws, bytes, \* the serialiser of class Game: what is left, and its buffer
          meant,        \* history: what it means to say, the values left
          writer        \* history: the Serializer of the library with these values

downVars == <<writes, pending, wire, open, code, buf, short, ended>>
upVars == <<datagram, input, up, serves, asked>>
guiVars == <<draws, bytes, meant, writer>>
vars == <<way, downVars, upVars, guiVars>>

\* The three directions share no state, so their steps need not be interleaved.
Ways == {"from_server", "to_server", "to_gui"}

Init == /\ way \in Ways
        /\ writes = <<>> /\ pending = <<>> /\ wire = <<>> /\ open = TRUE
        /\ code = <<>> /\ buf = EmptyBuffer /\ short = FALSE /\ ended = "no"
        /\ datagram = <<>> /\ input = Unread /\ up = <<>> /\ serves = <<>> /\ asked = <<>>
        /\ draws = <<>> /\ bytes = <<>> /\ meant = <<>> /\ writer = Serializer(<<>>)

\* After a message comes a message.
Current(T, todo) == IF todo = <<>> THEN T ELSE todo

-----------------------------------------------------------------------------
(* Messages from the server.                                               *)

Arguments(x) == IF x.k = "counted" THEN {0} ELSE Samples[x]

\* The server writes a call of a message.
ServerWrites ==
    LET todo == Current(ServerMessage, writes)
    IN  /\ way = "from_server" /\ open /\ Len(wire) <= MaxAhead
        /\ \E t \in Arguments(Head(todo)) :
             /\ writes' = After(todo, t)
             /\ wire' = wire \o Encode(Head(todo), t)
             /\ pending' = pending \o Calls(todo, t)
        /\ UNCHANGED <<way, open, code, buf, short, ended, upVars, guiVars>>

\* It goes away; what it wrote last may not arrive.
ServerCloses == /\ way = "from_server" /\ open
                /\ open' = FALSE
                /\ \E k \in 0 .. Len(wire) : wire' = SubSeq(wire, 1, k)
                /\ UNCHANGED <<way, writes, pending, code, buf, short, ended, upVars, guiVars>>

\* server_to_gui_handler, round after round.
Code == IF code = <<>> THEN Round ELSE code

Instruction == Head(Code)

Goes(got) == /\ code' = Inside(Instruction, got) \o Tail(Code)
             /\ buf' = Buffered(Instruction, got, buf)
             /\ pending' = IF Gives(Instruction) THEN From(pending, 2) ELSE pending

\* recv waits for all it wants as long as the connection is open.
Waits == open /\ Len(wire) < Wanted(Instruction, wire)

Receive(stale) ==
    LET got == Received(Instruction, wire, stale)
    IN  /\ way = "from_server" /\ ended = "no" /\ Receives(Instruction) /\ ~ Waits
        /\ ~ Gone(Instruction, wire) /\ ~ Unknown(Instruction, got)
        /\ Goes(got)
        /\ wire' = From(wire, Wanted(Instruction, wire) + 1)
        /\ short' = (short \/ Len(wire) < Wanted(Instruction, wire))
        /\ UNCHANGED <<way, writes, open, ended, upVars, guiVars>>

\* Without the server.
Proceed == /\ way = "from_server" /\ ended = "no" /\ ~ Receives(Instruction)
           /\ Goes(<<>>)
           /\ UNCHANGED <<way, writes, wire, open, short, ended, upVars, guiVars>>

Exit(stale) ==
    /\ way = "from_server" /\ ended = "no" /\ Receives(Instruction) /\ ~ Waits
    /\ \/ Gone(Instruction, wire) /\ ended' = "exit0"
       \/ /\ ~ Gone(Instruction, wire)
          /\ Unknown(Instruction, Received(Instruction, wire, stale))
          /\ ended' = "exit1"
    /\ UNCHANGED <<way, writes, pending, wire, open, code, buf, short, upVars, guiVars>>

\* explode_bomb looks for the bomb: bombs.at throws when half an id, and stale
\* bytes, name none.  The whole ids that the server sends are known (StreamInSync
\* of module Bomberman).
LooksForBomb == LET rest == Tail(BombExploded)
                IN  Len(Code) >= Len(rest) /\ SubSeq(Code, 1, Len(rest)) = rest

Abort == /\ way = "from_server" /\ ended = "no" /\ LooksForBomb /\ short
         /\ ended' = "aborted"
         /\ UNCHANGED <<way, writes, pending, wire, open, code, buf, short, upVars, guiVars>>

-----------------------------------------------------------------------------
(* Requests to the server.                                                 *)

\* MUTANT: the code is passed on as it came.
RequestSameCode(d, started) ==
    IF started THEN d ELSE <<0, Len(PlayerName) % Base>> \o PlayerName

\* What parse_msg_from_gui writes into the buffer for a valid datagram.
Request(d, started) ==
    IF started THEN <<d[1] + 1>> \o Tail(d)
    ELSE <<0, Len(PlayerName) % Base>> \o PlayerName

\* The datagrams that it does not drop.
IsValid(d) == \/ Len(d) = 1 /\ d[1] \in {0, 1}
              \/ Len(d) = 2 /\ d[1] = 2 /\ d[2] < 4

\* ClientMessage::from(InputMessage), and Join outside a game: the calls that the
\* library makes for it.
Meaning(calls, started) ==
    LET variant == IF started THEN calls[1].token + 1 ELSE 0
        fields  == IF started THEN Tail(calls) ELSE <<[token |-> PlayerName]>>
        rest    == After(ClientMessage, variant)
    IN  Calls(ClientMessage, variant)
        \o (IF fields = <<>> THEN <<>> ELSE Calls(rest, fields[1].token))

\* get_msg_from_gui
DatagramArrives(d) == /\ way = "to_server" /\ input = Unread /\ Len(asked) <= MaxAsked
                      /\ datagram' = d
                      /\ input' = Deserializer(InputMessage, d)
                      /\ UNCHANGED <<way, downVars, up, serves, asked, guiVars>>

\* What the interface meant, if anything.
LibraryReads == /\ way = "to_server" /\ Reading(input)
                /\ input' = Deserialize(input)
                /\ UNCHANGED <<way, downVars, datagram, up, serves, asked, guiVars>>

\* parse_msg_from_gui and send_msg_to_server, in a game or not.
Ask(started) ==
    /\ way = "to_server" /\ input # Unread /\ ~ Reading(input)
    /\ up' = IF IsValid(datagram) THEN up \o Request(datagram, started) ELSE up
    /\ asked' = IF Accepted(input) THEN asked \o Meaning(input.calls, started) ELSE asked
    /\ datagram' = <<>> /\ input' = Unread
    /\ UNCHANGED <<way, downVars, serves, guiVars>>

\* What the server makes of the next bytes.
Served == Decode(Head(Current(ClientMessage, serves)), up)

ServerReads == /\ way = "to_server" /\ Served.r = "ok"
               /\ serves' = After(Current(ClientMessage, serves), Served.v)
               /\ up' = Served.rest
               /\ asked' = From(asked, 2)
               /\ UNCHANGED <<way, downVars, datagram, input, guiVars>>

-----------------------------------------------------------------------------
(* Messages to the interface.                                              *)

\* write_into_buffer
Write(n, v)  == <<[op |-> "write", n |-> n, v |-> v]>>
\* A text with its length.
WriteText(s) == <<[op |-> "write_text", v |-> s]>>
\* for (auto &element: ...)
Each(elements) == <<[op |-> "each", of |-> elements]>>

Written(i) == CASE i.op = "write"      -> EncodeInt(i.n, i.v)
                [] i.op = "write_text" -> <<Len(i.v)>> \o i.v
                [] i.op = "each"       -> <<>>

\* What is left after the first instruction.
Left(s) == (IF Head(s).op = "each" /\ Head(s).of # <<>>
            THEN Head(Head(s).of) \o Each(Tail(Head(s).of)) ELSE <<>>) \o Tail(s)

WriteAll(elements) == Write(4, Len(elements)) \o Each(elements)

WritePosition(p) == Write(2, p[1]) \o Write(2, p[2])
WritePlayer(p)   == WriteText(p[1]) \o WriteText(p[2])
WriteBomb(b)     == WritePosition(b[1]) \o Write(2, b[2])

WritePlayers(s)    == WriteAll([i \in DOMAIN s |-> Write(1, s[i][1]) \o WritePlayer(s[i][2])])
WritePositions(s)  == WriteAll([i \in DOMAIN s |-> Write(1, s[i][1]) \o WritePosition(s[i][2])])
WriteBlocks(s)     == WriteAll([i \in DOMAIN s |-> WritePosition(s[i])])
WriteBombs(s)      == WriteAll([i \in DOMAIN s |-> WriteBomb(s[i])])
WriteExplosions(s) == WriteAll([i \in DOMAIN s |-> WritePosition(s[i])])
WriteScores(s)     == WriteAll([i \in DOMAIN s |-> Write(1, s[i][1]) \o Write(4, s[i][2])])

LobbyFields(g) ==
    WriteText(g.server_name) \o Write(1, g.players_count)
    \o Write(2, g.size_x) \o Write(2, g.size_y) \o Write(2, g.game_length)
    \o Write(2, g.explosion_radius) \o Write(2, g.bomb_timer)
    \o WritePlayers(g.players)

\* MUTANT: the number of players is written here, too.
GameFieldsCounted(g) ==
    WriteText(g.server_name) \o Write(1, g.players_count)
    \o Write(2, g.size_x) \o Write(2, g.size_y) \o Write(2, g.game_length)
    \o Write(2, g.turn) \o WritePlayers(g.players)
    \o WritePositions(g.positions) \o WriteBlocks(g.blocks)
    \o WriteBombs(g.bombs) \o WriteExplosions(g.explosions)
    \o WriteScores(g.scores)

GameFields(g) ==
    WriteText(g.server_name)
    \o Write(2, g.size_x) \o Write(2, g.size_y) \o Write(2, g.game_length)
    \o Write(2, g.turn) \o WritePlayers(g.players)
    \o WritePositions(g.positions) \o WriteBlocks(g.blocks)
    \o WriteBombs(g.bombs) \o WriteExplosions(g.explosions)
    \o WriteScores(g.scores)

LobbyRespond(g) == Write(1, 0) \o LobbyFields(g)
GameRespond(g)  == Write(1, 1) \o GameFields(g)

\* The arguments of the Serializer for what class Game means to say.
Value(v) == <<[op |-> "value", v |-> v]>>

Argument(i) == IF i.op = "each" THEN 0 ELSE i.v

ListOfAll(elements) == Value(Len(elements)) \o Each(elements)

PositionView(p) == Value(p[1]) \o Value(p[2])
PlayersView(s) ==
    ListOfAll([i \in DOMAIN s |-> Value(s[i][1]) \o Value(s[i][2][1]) \o Value(s[i][2][2])])
PositionsView(s) == ListOfAll([i \in DOMAIN s |-> Value(s[i][1]) \o PositionView(s[i][2])])
CellsView(s)     == ListOfAll([i \in DOMAIN s |-> PositionView(s[i])])
BombsView(s)     == ListOfAll([i \in DOMAIN s |-> PositionView(s[i][1]) \o Value(s[i][2])])
ScoresView(s)    == ListOfAll([i \in DOMAIN s |-> Value(s[i][1]) \o Value(s[i][2])])

LobbyView(g) ==
    Value(g.server_name) \o Value(g.players_count)
    \o Value(g.size_x) \o Value(g.size_y) \o Value(g.game_length)
    \o Value(g.explosion_radius) \o Value(g.bomb_timer)
    \o PlayersView(g.players)

GameView(g) ==
    Value(g.server_name)
    \o Value(g.size_x) \o Value(g.size_y) \o Value(g.game_length) \o Value(g.turn)
    \o PlayersView(g.players) \o PositionsView(g.positions) \o CellsView(g.blocks)
    \o BombsView(g.bombs) \o CellsView(g.explosions) \o ScoresView(g.scores)

\* serialize_lobby_respond or serialize_game_respond begins, with an empty buffer.
Draw(g) == /\ way = "to_gui" /\ draws = <<>>
           /\ \/ draws' = LobbyRespond(g) /\ meant' = Value(0) \o LobbyView(g)
              \/ draws' = GameRespond(g) /\ meant' = Value(1) \o GameView(g)
           /\ bytes' = <<>> /\ writer' = Serializer(DisplayMessage)
           /\ UNCHANGED <<way, downVars, upVars>>

\* The next field, by the client and by the library.
DrawField == /\ way = "to_gui" /\ draws # <<>> /\ meant # <<>>
             /\ draws' = Left(draws) /\ bytes' = bytes \o Written(Head(draws))
             /\ meant' = Left(meant) /\ writer' = Serialize(writer, Argument(Head(meant)))
             /\ UNCHANGED <<way, downVars, upVars>>

-----------------------------------------------------------------------------

Next == \/ ServerWrites \/ ServerCloses
        \/ \E stale \in Byte : Receive(stale) \/ Exit(stale)
        \/ Proceed \/ Abort
        \/ \E d \in Datagrams : DatagramArrives(d)
        \/ LibraryReads
        \/ \E started \in BOOLEAN : Ask(started)
        \/ ServerReads
        \/ \E g \in Games : Draw(g)
        \/ DrawField

Spec == Init /\ [][Next]_vars

-----------------------------------------------------------------------------

\* What the server wrote reaches class Game, message by message and field by
\* field, through local arrays, the buffer and two cursors: each field is given
\* that the server wrote first of those not given yet, and rounds and messages
\* begin together.  The client never meets a code it does not know, and the end of
\* the connection spoils at most the message it cuts (client.cpp:168-236;
\* events.cpp:15-62; utils.h:94-114).
OnlyCutMessageSpoiled ==
    LET i   == Instruction
        got == SubSeq(wire, 1, i.n)
    IN  /\ ended # "exit1"
        /\ short => ~ open /\ wire = <<>>
        /\ ~ short /\ Gives(i) /\ (Receives(i) => Len(wire) >= i.n) =>
             /\ pending # <<>>
             /\ Head(pending).token = Given(i, got, buf)
             /\ Code = Handlers => Head(pending).at = ServerMessage

\* A message may be longer than the buffer; no write goes beyond its end as long
\* as every single event, and every player, fits (buffer.cpp:42; events.cpp:69).
StaysInBuffer == Len(buf.bytes) <= BufferSize

\* The server understands every request, as it was meant, and in order; a
\* datagram that is no message of the interface asks for nothing
\* (client.cpp:113-151; lib.rs:53-61).
RequestsUnderstood ==
    IF up = <<>> THEN asked = <<>> /\ serves = <<>>
    ELSE /\ Served.r = "ok"
         /\ asked # <<>>
         /\ Head(asked) = [at |-> Current(ClientMessage, serves), token |-> Served.v]

\* The binary format of the interface, which the C++ client writes without the
\* library, is the one of the library, which writes the same bytes for the same
\* message (game.cpp:7-103; player.cpp:11-16).
DrawnAsMeant == /\ bytes = writer.output
                /\ draws = <<>> <=> meant = <<>>
                /\ draws = <<>> <=> writer.todo = <<>>

=============================================================================
