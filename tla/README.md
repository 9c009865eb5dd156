# A TLA+ model of the Bomberman client

The repository holds the client side of a networked Bomberman game: a C++
client (`src/src/client`) between a TCP game server and a UDP user interface,
the user interface itself (`src/src/bin/gui.rs`), and a Rust library with the
reference serialisation (`src/src/serialize`), used by a verifier tool. The
server is not part of it.

The client is the heart of the system. It has two threads, no locks, one atomic
flag, and keeps a replica of the state of the game from the events the server
sends. This project asks whether that replica is right, whether the two threads
and the server agree on what is going on, and how the process ends; whether what
the client sends reaches the window, as what, and in which order; and whether
the two implementations of the format, one in C++ and one in Rust, agree byte by
byte.

## 1. Inventory

| Part | State | Operations | Talks to | Modelled by |
|---|---|---|---|---|
| Thread S, `server_to_gui_handler` (client.cpp, events.cpp, player.cpp, utils.h) | place in the stream, `buf_server_to_gui` | one handler per message, one per event, `send_msg_to_gui` | server (TCP in), GUI (UDP out), flag | `Client`; byte by byte `ClientBytes` |
| Thread G, `gui_to_server_handler` (client.cpp) | `buf_gui_to_server` | recv, parse, send | GUI (UDP in), server (TCP out), flag | `Client`; byte by byte `ClientBytes` |
| `Game` (game.cpp, game.h) | players, positions, blocks, bombs, explosions, scores, dead players, destroyed blocks, turn | `add_player`, `move_player`, `kill_player`, `place_block`, `place_bomb`, `explode_bomb`, `destroy_block`, `erase_destroyed_blocks`, `add_scores`, `reset_turn`, `reset_game`, `set_turn`, two serialisers | owned by S | `Game`; `explode_bomb` in detail by `Explosion`, the serialisers by `ClientBytes` |
| Connection (utils.h, lib.rs) | two byte streams | recv with `MSG_WAITALL`, send, close | | `Wire`, `ClientBytes` |
| Server (external) | lobby, players, board, bombs, log of turns | join, commands, turns, end of game | | `Server` |
| GUI (gui.rs) | UDP socket with its pending error, channel of 10 messages, two event queues, entities on the screen | receive thread, `read_stream`, `draw`, `send_input` | client | `Gui`; what is drawn, `Picture` |
| `Buffer` | 65507 bytes, two cursors | writes, reads, reset | both threads, `Game` | `ClientReads`; what is sent from it, `ClientBytes` |
| Serialisation library (src/src/serialize, lib.rs) | place in the input | `to_bytes`, `from_bytes`, serialise, deserialise | used by the verifier | `Codec`, `Library` |
| Verifier (verifier.rs) | mode, message type, connection | accept, read messages; read datagrams | any peer | `Verifier` |
| `Random` | seed | `next_u32`, `range_u16` | used by no program here | `Rand` |
| Start-up (`parse_cli_params`, constructors) | | | | not modelled |

How they interact. S reads a message, changes `Game`, and sends the GUI a Lobby
or a Game message. It raises `is_game_started` at GameStarted and lowers it at
GameEnded. G reads the flag once for each key: outside a game any key means Join,
in a game it means what it says. `exit` in either thread ends both.

What makes each part correct:

* `Game`: after every turn it equals the state of the server, for a client
  that was there from the start and for one that is sent the whole log later;
  nothing leaks from one turn or game into the next.
* `explode_bomb`: computes the cross cut off at the first blocks, and returns.
* S: never loses its place in the stream, draws every turn, ends with the
  connection, and reports the right reason.
* G: turns keys into the request that fits the phase of the game, and a
  request never takes effect in a game it was not meant for.
* Client and interface together: a spectator sees the states of the server, each
  one, in order; and the pictures fit each other.
* GUI: the window never goes back to an older message, shows nothing but one
  message, misses nothing the kernel has taken unless something newer is shown,
  and sends every key once and in order.
* The library: every value is read back as it was written, from a stream without
  separators too, and `from_bytes` accepts nothing that is not exactly one value.
* The C++ side: it reads what the library writes, and the library reads what it
  writes.
* `Random`: stays in the range asked for, and never gets stuck.

What is hard here, and listed line by line under `hazards` in PROJECT.json: the
flag read long before the request takes effect; a replica that counts timers
down and derives explosions and scores without being told; deferred erasure of
blocks; resets split over two methods; the end of the connection between any two
reads, and inside one; zero-length strings; 16-bit arithmetic at its limit; in
the GUI a bounded channel, an event queue that forgets, systems in an unknown
order, and a socket error that two threads share.

## 2. Modules

| Module | Contents |
|---|---|
| `Board` | cells, `InRange`, `Shields`, and `BlastArea`, the declarative meaning of an explosion |
| `Explosion` | `explode_bomb` loop by loop, with the 16-bit counter; implements `BlastArea` |
| `ExplosionProofs` | TLAPS proofs about `Explosion` |
| `Game` | class Game: a record and one operator per method; what the GUI is sent |
| `Wire` | the streams `down` and `up`, their elements, the state `link` of the connection |
| `Client` | the two threads, the flag, the GUI socket, the end of the process |
| `Server` | the environment: lobby, games, log, one followed client |
| `Bomberman` | composition, fairness and the properties |
| `Feed` | abstract: states are announced and shown one by one, in order |
| `Picture` | what `draw` makes of a message: texts, table, shapes, what hides what |
| `Broadcast` | `Bomberman` with the history of what the server announces; the client implements `Feed`; properties of consecutive pictures and of the end of the process |
| `Spectator` | abstract: a window that shows one message at a time and never goes back |
| `Gui` | gui.rs: socket, receive thread, channel, event queues, systems of a frame; implements `Spectator` |
| `ClientReads` | the instructions by which thread S gets the fields of a message through local arrays and the Buffer into class Game, and the handlers made of them |
| `ClientBytes` | what the C++ client reads and writes, byte by byte and instruction by instruction, against `Codec` |
| `Codec` | the message types, and what the library writes and reads for each call that serde makes |
| `Rand` | the random number generator |
| `Library` | the library crate: `to_bytes` and `from_bytes`, call by call, on values of every supported type and on arbitrary bytes, and the calls of `Rand` |
| `Verifier` | the verifier's two loops on top of `Codec`, with a peer that may go away anywhere |
| `BombermanProofs` | TLAPS proofs about `Bomberman`: every method of class Game keeps the record well-typed; types; the agreement on the flag, and that no command outlives its game |
| `ReplicaProofs` | TLAPS proofs about `Bomberman`: the client's copy of the game, its place in the stream, and how the process ends; and about `Broadcast`: it implements `Feed`; consecutive pictures |
| `GuiProofs` | TLAPS proofs about `Gui`: it implements `Spectator`; the keys |
| `CodecProofs` | TLAPS proofs about `Codec`: each call is read as it was written, whatever comes behind it; a reader in step with a writer |
| `LibraryProofs`, `VerifierProofs` | TLAPS proofs about whole values: `Library`, with `Rand`, and `Verifier` |
| `ClientBytesProofs` | TLAPS proofs about `ClientBytes`: what the C++ client reads and writes is what the library writes and reads |
| `MC...` | instances for TLC |

`Wire` is extended by `Client` and `Server`, which share its variables;
`Bomberman` extends both. `Game` is used by all of them for its types.

**State and code.** In `Client`, `game` is `Client::game`, `is_game_started` the
atomic. `sPc` and `left` say where S is: before a message code, or inside
the loop over the events of a Turn with `left` events to go. `gPc`, `input` and
`request` are thread G and its buffer between recv, parse and send. `shown` is
the last message sent to the GUI. `gui` is the port of the GUI, with `refused`
for a pending ICMP error. `proc` is how the process ended. `inputs` and
`lobbies`, and in `Server` `told` and `strayJoin`, are history variables that
only bounds and properties read, as is the field `lobby` of a request.

**Atomicity.** Only S touches `game` and its buffer, only G its own. A handler
of S accesses shared state once (the flag, or the socket), so it is one step.
Each event of a Turn is nevertheless a step of its own, so that keys, failures
and the server interleave with a half-read turn. G reads the flag in one step
and sends in another: this is the race that matters.

**Players.** A player is who it is and nothing else: "me" is the client under test;
`Strangers` says which others may join in an instance, and `EmptyNames` which of them all
have an empty name.

**Stream elements.** A message is an element of `down`; a Turn is a header with
the length of its list, followed by its events, as `handle_turn_msg` reads it.
The lists inside the other messages are read by S alone without visible steps and
are part of their element. Server name, addresses and the settings are constant and left out of the records.
Single bytes, and fields torn by the end of the connection, are the subject of
`ClientBytes`.

**Failures.** The stream to the client ends after any of its elements (`StreamEnds`),
also in the middle of a turn. Either the server has gone (`fin`: what is there still
arrives, then recv returns 0 and the process exits with 0), perhaps before it wrote all
that it was to send; or the connection has broken (`rst`: a tail is lost, then recv
fails). A write after `fin` succeeds and brings a reset
(`pipe`); the next write raises SIGPIPE. A closed GUI port makes the second
send after it fail.

**The server** is written from sections 2.1 and 2.5-2.10 of src/README.md. Random
choices are arbitrary, the turn timer may fire at any time, bombs go off in the
order of their ids and do not see each other's effect on blocks, blocks vanish
before the players act, destroyed robots reappear instead of acting, commands
count from players in a game only and the last one of a turn wins. The server waits for
nobody: it ends a game and opens the next lobby while the client may still be reading
the last (`MaxLag` bounds only how far behind the client may be when a game or a turn
begins). That the server counts bomb timers in 16 bits, as the type `u16` of
src/README.md:204 suggests, is a choice of the model; it matters for a timer of 0 only.

**`Broadcast`** adds three histories to `Bomberman` and nothing else. `coming` runs
beside `down` and holds the state that each message to be shown announces, taken
from the variables of the *server* in the step that announces it; `backlog` holds
those of the turns so far, for a client that connects later. `ends` says where in the
stream the message of each of these states ends, so that one can tell which of them
arrived whole when the stream is cut. The property that
`shown`, computed by the *client* from events, moves through `coming` element by
element is the refinement `Feed` with `queue <- coming`. `Picture` then says what
the window makes of `shown`.

**`Gui`.** `socket` is the receive queue of the kernel, `refused` the pending
error of the socket that the thread and `send_input` share through `try_clone`,
`hand` the message between `recv_from` and `display_tx.send`, `channel` the bounded
channel, `messages` and `keys` Bevy's double-buffered event queues with the
position of their only reader, `systems` how far each of the three systems is in
this frame, `commands` what `draw` asked for. One round of a loop is one step, so
the thread, the systems and the kernel interleave inside a frame; `draw` and
`read_stream` exclude each other, as Bevy schedules two systems that use the same
event queue, in either order; commands take effect after all systems. Messages
are their numbers in the order of sending. `fates` is a history.

**`ClientReads`** and **`ClientBytes`.** A handler is the sequence of what it does with the
socket, the local array and the buffer: receive a `Field` or a `Text` into the array and
write it into the buffer, a `Local` number that is used from the array, `Take` a number
or a text from the buffer with the read cursor, `Reset`, loops (`Times`, `Again`) and
`Choose`, which is `switch`. `code` holds the instructions left in this round of thread S,
and a step is one of them: `Receive`, or `Proceed` for those that need no bytes. `Received`
is `recv` with `MSG_WAITALL`: it waits while the connection is open, and returns a short
count after its end (`short`), when the rest of the local array keeps any old value
(`stale`, one byte value standing for all). `Abort` is the exception of `bombs.at` for a
bomb that nobody knows; it can only be met when the id is half of one. The server writes call by call of the library;
`pending` is the history of the calls whose arguments the client was not `Given` yet.
`Request` writes what `parse_msg_from_gui` writes; `datagram` and `input` are the same
datagram, read by the client and by the library, `up` and `asked` what follows from
each. `draws` are the instructions of a serialiser that are left, `meant` the values
that it means to write and `writer` a Serializer of the library that is given them. The
other side of each is `Codec`, translated from the Rust library and not from this code.

**`Codec`.** serde takes a value apart into calls of the Serializer, one for each
number, string, length or variant, and the generated code of the reader makes the same
calls of the Deserializer. A type is the sequence of its calls; a Serializer or a
Deserializer is in the middle of one, with the calls it has left in `todo`. What comes
after a length or a variant depends on its value (`Follow`): `Counted`, as in
deserializer.rs, holds the elements of a list that are left. bool, unit, Option and enum
are all a byte below the number of their variants. A `SocketAddr` is a text that is
parsed when it is read (another error when it is no address) and spelled out again when
it is written. Which texts are addresses, and how each is written, is the constant
`Canonical`; of the standard library it is only assumed that what is written can be read
and is then written in the same way (`AddressAssumption`). Nothing is recursive, and a reader
that blocks in the middle of a value is a state like any other.

**`Library`** is one use of `to_bytes` and `from_bytes`, a step for each call, or a few
calls of `Rand`; the two share nothing, and a behaviour is about one of them. What is
passed to `from_bytes` was written by `to_bytes` and perhaps cut off (`lost` bytes), or by
anybody. `calls` are the calls made so far with their arguments, which stand for the
value; `again` is what `to_bytes` would make of them (`Rewritten` spells the addresses, and
`Plain` says that they were spelled so before). **`Rand`** keeps the numbers
of random.rs as constants, since TLC computes with 32 bits and TLAPS with any.

## 3. Runs

Bounds are constants: `MaxBombs` bombs per game, `MaxGames` games, `MaxInputs`
key presses, `MaxLag` unread elements above which the server waits before it
starts a game or another turn. Nothing else waits for the client: the end of a game,
accepted players and the rest of a turn are sent however much is unread, so that the
server may be in its lobby while the client has not read the start of the last game.

| Run | Asks | Instance, and why it is enough |
|---|---|---|
| `explosion` | do the loops compute `BlastArea` and end | 3x3 board, radius 2, every set of blocks, two bombs. The arms reach both edges, the corners and beyond. Proved in general as well. |
| `explosion_max_radius` | the same at the largest radius | radius equal to the largest counter value: **violated** |
| `replica` | is the screen the state of the server, and do the pictures made of it fit each other | 3x1 board, two robots, two bombs with timer 2, three turns, robots may move and place blocks: two bombs can go off together, shield each other's cells, and kill a robot twice; a client that connects at any moment |
| `session` | does the client implement `Feed`; do the flag, the keys, the stream and the server agree | 2x1 board, one initial block, two robots, a bomb, two games of two turns: one reset of everything between them. A client that connects at any moment of either, and lags by up to two unread elements; three datagrams, of a key and of nothing, which is Join and command, or Join in both games |
| `failures` | what does each end of the process mean, and what does success; does every turn arrive, does every end of the connection end the process, does a key in the lobby join; do bombs run down when `bomb_timer` is 0 | two games of two turns and one player, who is the client under test, somebody with a name or somebody without; a client that connects at any moment, lags, and replays; the stream cut after each element by a close or a break, and GUI failure at any step; two presses of a key, so that it can be pressed in the lobby while the client still believes in the last game; `bomb_timer` 0, so that a bomb wraps to 65535 in the turn after it was placed; under `FairSpec` |
| `gui` | does the window implement `Spectator`, is what arrives drawn, is every key handled once and in order | four datagrams and keys in any mixture: JSON from the client, binary, or from elsewhere, a key with and one without meaning; room for one message in the socket and one in the channel, so that both fill up; a client that comes and goes at any time; under `FairSpec` |
| `client_bytes` | do the handlers read what the library writes, do server and interface read what the client writes | bytes of six values. Messages of every kind, one after another, with every kind of event, lists of no, one and two elements, turns of none, one and three events, the empty and the longest string; the server at most one field ahead of the client, cut after every byte; any stale byte. Datagrams of up to three bytes, several on the way, in a game and outside; a name of the greatest length a byte can hold. States with empty and full lists. The three directions share no state: a behaviour is about one of them. Proved in general as well |
| `library` | are the two entry points inverse to each other; is every random number in range, and never 0 for ever | fourteen types, one of each kind and nested ones, with bytes of six values; two addresses, one with three spellings: every number of one and two bytes, the limits of eight, strings up to two bytes and the longest, lists of up to two elements and a length that takes two bytes; cut after any byte. Every string of up to five bytes, which is longer than every length prefix. The primes 31 and 13 for modulus and multiplier, words of 32 values, u16 of 8; every seed and range, two calls. Proved in general as well |
| `verifier` | does the library read back what it wrote, and accept nothing else | bytes of twelve values; every kind of message and event, empty and longest strings, lists of up to two elements, smallest and largest numbers, addresses with one spelling and with two; messages without end on each connection, a peer up to three calls ahead of the reader, cut after any byte; datagrams with one byte dropped, added or altered. Proved in general as well |
| `empty_name_exit` | is exit 0 the end of the connection | **violated** |
| `exit_code` | is the exit code 1 after the connection is lost | **violated** |
| `gui_client` | is what the client sends drawn | datagrams as the client of this repository sends them, binary and from another port: **violated**; under `FairSpec` |

The properties, in `Bomberman` and `Explosion`, are stated there in words. The
central one is `ScreenAgrees`: whenever S has caught up, the last message sent
to the GUI is the lobby or the game as the server has it, all nine fields. Since
S may catch up before the next turn starts, this covers every turn, and since
`Connect` is possible in every state, every way of joining late. S handles a
replayed turn as any other. `NoStaleCommand` is about G: a command tagged with the
game it was composed in takes effect in that game only. It is not true without
`~ strayJoin`: a surplus Join of an impatient player can be served a game later.
`LobbyKeyJoins` is about G too, and has a condition as well: the client has read the
end of every game it was told of (`lobbies = told`). Section 4 says what happens before.

`ShowsWhatServerAnnounced` is stronger in one respect and weaker in another: it
holds at every moment and not only when S has caught up, nothing is skipped,
repeated or out of order; but it speaks of what the server announced, which is
the history of a model of the server. `DeathsMatchExplosions` and `BombsRunDown`
need no server at all: they compare two consecutive pictures, and hold because
scores (from lists of victims), explosions (computed) and timers (counted down)
come by different ways and agree. They are checked as action properties on
`shown`, turn by turn.

`ShowsNewer` and `TakenIsDrawn` leave open what the kernel drops: a message lost
between client and GUI is never repeated, so after a lost Lobby message the window
shows the last turn of a game until the next message. `OnlyCutMessageSpoiled` is
the most that can be said of a torn connection: the last message handled may be
one the server did not send, all before it are right, and the client never dies
of an unknown code. `StaysInBuffer` scales: in the instance a Hello just fits
into the 17 bytes of the buffer, and a Turn and a GameStarted are longer than it;
with 65507 bytes every Hello and every player fits, and every event with up to
16000 blocks (`BufferAssumption`).

`session` has no failures: they end the client, and `failures` asks how.
`ExitsHaveCause` looks at the step that ends the process, because the reason may be
gone a step later. Exit code 0 says less than it seems: the stream may have been cut in the
middle of a turn. But every state of which the whole message arrived has then been sent to
the GUI, and only the beginning of one message is lost; the property says so with `ends`.

`DatagramExact` and `OneFormOnly` are about the calls that the library answers. Two
datagrams with the same calls but for the spelling of an address are both accepted, and one
of them, or neither, is what the library would write: an accepted datagram is what it
would write exactly if its addresses are spelled as it spells them. What a HashSet or a
BTreeMap does with the entries it is given (repeated ones, and their order) comes after
the calls and is left out.

`BombsRunDown` includes a `bomb_timer` of 0, which no program checks. The first picture
of such a bomb shows 0 and the second 65535 (`failures`), from where it runs down.

`CHECK_DEADLOCK FALSE` is set because the system stops when the bounds are used
up or the process has ended; not for `verifier`, which serves for ever.

`Verifier` is a component of its own: no program of the repository talks to it.
Peer and reader go through their messages independently, call by call: `writes` and
`reads` are the calls left of the present message of each. `wire` is what was written
and is not yet read, `pending` the history of the calls it consists of, with their place
in the message; `Incoming` is what the next call makes of the bytes there are: "eof"
means wait, or, once the peer is gone, the end of the loop.

**Fairness** (`Fairness`, in `FairSpec` of `Broadcast`): weak fairness of thread S, of G's parse and send, and
of the server. Both threads are plain OS threads in endless loops without locks;
the server acts on a timer. Key presses, joins of others, connecting and failures
are not fair. `Explosion` assumes that the loops keep running. `FairSpec` of `Gui`
assumes that the receive thread and the frames go on: one is an endless loop in a
thread of its own, and Bevy runs frame after frame until the window is closed.
Weak fairness is enough for both, since nothing they wait for is taken away by
somebody else, but for the room in the channel, which frames make.

## 4. Findings

* `explosion_radius = 65535` is a legal setting (`u16`), but `cord_t i <=
  explosion_radius` is then always true: the client hangs in the first explosion
  unless blocks end all four arms.
* An empty string in a message ends the client with success: recv of zero bytes
  returns zero (`ExitZeroMeansClosed`). One nameless player, whom src/README.md:132-136
  allows, ends every client that hears of it in this way.
* A lost connection gives exit code 0, or death by SIGPIPE, where
  section 4 of src/README.md asks for 1.
* gui.rs speaks JSON (`serde_json`, lines 79 and 128) where section 3 of
  src/README.md, and the client, use the binary format; and its connected UDP socket
  takes datagrams from `client_address` only, while the client sends from a second
  socket with another port. Each alone keeps the window black (`gui_client`).

Remarks that no run is about:

* When the connection ends inside a field, `recv` returns a short count that nobody
  looks at: the client handles, and draws, a message with old bytes of a local
  array, or, when the field was the id of a bomb, looks for a bomb nobody knows and is
  ended by the exception of `bombs.at`. `OnlyCutMessageSpoiled` allows for both, and for
  nothing worse.
* The flag follows the stream. A client that is behind its server, or replays a game that
  is over, takes a key pressed in the lobby for a command; the server ignores commands in
  its lobby, and the key is lost. src/README.md (lines 190 and 339) has the server ignore such
  messages, and a later key joins, so this is a weakness and not a contradiction;
  `LobbyKeyJoins` is therefore stated for a client that has read the end of the last game.
* A player name of 256 bytes or more is announced with its length modulo 256 and
  sent as a whole: the server reads its tail as requests. `RequestsUnderstood` is
  checked with the longest name for which it holds.
* A key pressed while the client does not listen makes the *next* send fail as
  well, with the error of the first (`OneKeyMissedAtMost`), although section 3 of
  src/README.md promises a message for every key.
* random.rs is not the generator of section 2.4 of src/README.md: it has another
  multiplier and modulus, and its first number is the seed. 279410273 is a square
  modulo 4294967291, so that the generator returns at most half of the numbers below
  its modulus before it repeats (it looks like 279470273 with a digit changed).
* The shapes of gui.rs hang below the lower edge of their cell by one cell, so that
  on boards of few rows the bottom row leaves the window.

## 5. Proofs

`ExplosionProofs` proves, from `BoardAssumption` and `CordAssumption` alone, for
every board, radius, counter width and number of bombs:

* `TypeCorrect`: `Spec => []TypeOK`.
* `ExplosionCorrect`: `Spec => []ExplosionsAreUnionOfBlasts`. The property says
  nothing about the middle of a loop and is not inductive. `LoopInv` adds that: the
  cells behind the counter are in the set; no cell is in the set that does not
  belong to an earlier bomb, a finished arm or the present arm; and no block was
  met so far. Three facts of geometry carry it: a cell reached before any block
  is in the blast (`FreeArmInBlast`), nothing behind a block is (`BlockEndsArm`),
  and the four arms are all of it (`ArmsCoverBlast`). The invariant bounds the set
  from both sides instead of fixing it, which makes it hold even when the counter
  wraps: the loops may not end, but they never compute anything wrong.

`BombermanProofs` proves `TypeCorrectness`, `Spec => []TypeOK`, from the
assumptions named in `Board`, `Game`, `Client` and `Server`, for every board,
number of players, bombs, games and inputs. `TypeOK` is not inductive: a client that
connects is sent AcceptedPlayer for the ids 0, 1, ... up to their number, which
are players only if the ids have no gap (`Numbered`); an acting robot must be
somewhere, and a game must have been counted before its first player joined
(`Playing`). `IInv` adds both. The steps of S rest on one lemma per
method of class Game.

The second part proves `FlagCorrect`, `Spec => []FlagAgrees`: whenever S has read
everything, the flag says whether a game is on. The property is about empty
streams only. Its invariant `FlagInv` is about every state: the last GameStarted or
GameEnded in `down` says what the server has come to, and the flag does when
there is none; the log that a late client is sent has neither. It holds while the
connection is up and the process runs, which is all the property asks.

The third part proves `NoStaleCorrect`, `Spec => []NoStaleCommand`. G reads the flag
long before the server serves the request, so that nothing in one state tells
which game a request is for; the tag `lobby`, the number of ends of games the client
had seen when it composed it, does. Three facts make `StaleInv` inductive. The
client has seen no more ends than the server has told it of, which takes a count of
those in `down` (`Within`: there is a function that counts along the stream, which
needs no induction over it). Requests are composed, sent and served in the order
of their tags (`RequestsInOrder`). And once a Join of the present lobby was accepted,
nothing under way, nor in the hands of G, is older (`RequestsFresh`). A command that is
accepted is then no older than the lobby and no younger either.

`ReplicaProofs` proves `ScreenCorrect` and `StreamCorrect`, that is
`ScreenAgrees` and `StreamInSync`. When S has caught up its copy
equals the state of the server; at any other moment the two are related by the
stream between them only. `ReplicaInv` therefore says that there is a *run*: a function
from positions in `down` to states of S (events still expected, copy of the
game, views sent so far) which starts at the present state of S, in which every
element is of a kind S can read in the state it meets and leads to the next state by
what the handler does (`Run`), and whose last state agrees with the server
(`Agrees`). In the middle of a turn the server has done what it has not announced
yet, and agreement means that the events collected so far lead from the copy to
the board (`Course`, `MidGame`). A client that may still connect is
covered by the same statement about `log` (`Recorded`). A step of S takes the first
state of the run away; a step of the server adds states to its end; a broken
connection cuts it off. `BoardInv` has what the server must keep for this: bombs have
unused numbers, and the robots hit are those where the flames are, which is why a
client that computes flames and deaths by itself gets them right.

Its second half proves `BroadcastCorrect`: `Broadcast` implements `Feed`, so that
the states the server announces are shown in order and unchanged, none is skipped
and no other is shown (that they are shown at all is `TurnsDelivered`). Its invariant `BInv` is `ReplicaInv` with the history `coming` for the views.
On it rest `PictureCorrect`, `DeathsCorrect` and `BombsCorrect`, for
`PictureComplete`, `DeathsMatchExplosions` and `BombsRunDown`. The last two compare
a picture with the next; `SpectatorInv` makes that a property of states: the view
shown and those still to come form a chain in which each follows its predecessor by
the rules of a turn, and the server is as far as it can be after the last of them
(`Since`), down to the bombs that are due and have not gone off. That no timer is 0
outside of this (`Clock`) is what lets a bomb with timer 1 explode in the next picture.
`GameAssumption` lets `bomb_timer` be any 16-bit number, 0 included: `Clock` and the
rules of a turn count modulo `MaxU16 + 1`, which only has to be at least 2.

The last part proves `ExitsCorrect`, for `ExitsHaveCause`. Success means that no state
is left of which the whole message is in the stream; but by the time of the exit the
histories are those of a stream that was cut, perhaps in the middle of a turn. `EndsInv`
counts: a function along the stream says how many states have ended up to each place
(`CountsAlong`), `ends` are the places where it rises (`Marks`), and from the
present place of S it rises once for each state in `coming`. Sending adds a place and
a mark (`MarksMore`), a cut takes places but no marks away (`MarksPrefix`), and a step of S
takes the first place, with its mark if it sends a state. At the end nothing of a whole
message is left, so all marks lie behind the end of the stream.

`GuiProofs` proves `ShowsNewerCorrect`: `Gui` implements `Spectator`. A message
passes six places on its way (socket, hand of the receive thread, channel, event
queue, pending commands, screen); `Ordered` says that what is further on was sent
earlier, whichever order the systems of a frame take. `TypeCorrect` includes the
capacities of channel and socket. `KeysCorrect` proves `KeysOnceInOrder`: an event queue
forgets what is two updates old, but `send_input` runs once in each frame, so that
all a frame will drop has been read before (`KeysRead`). `OneKeyMissedCorrect` proves
`OneKeyMissedAtMost`, from the invariant that a pending error was left by the key
handled last (`RefusedInv`).

`CodecProofs` has no theorem about a specification, only what is true of one call, for
every supported kind, every argument and every size of a byte: what `Encode` writes,
`Decode` reads back and leaves alone what comes behind it; whatever `Decode` accepts is
what `Encode` makes of its result, but for the spelling of an address; a proper beginning is "eof", never "bad"; and the
calls that follow are supported again. The numbers of two, four and eight bytes
are built from halves, so that each is one lemma about a quotient and a remainder.

A value is any number of calls, and induction over it is out of the prover's reach;
but the programs make the calls one after the other, so that the induction is the one
over the steps of a behaviour. In `LibraryProofs` the invariant `IInv` relates a reader to
the writer long since finished through a *script*: a sequence of places, each with the
calls left to do there and the bytes and calls still to come, that leads by one call at
a time to the end (`Script`). What the Serializer has written is one, from the type to
its `todo` (`Writes`), and so is what the Deserializer has before it, together with the
bytes that were cut off (`ReadsBack`): every call that is read takes the first place
away. With
`CodecProofs` for one call it follows that the reader does what the script says until
the bytes run out: `RoundTripCorrect` and `WaitsCorrect`. `OneFormCorrect` has nothing to
do with a writer. Were there no addresses it would need only that `again` and `input`
make up what has arrived. With them the two can differ, and what is needed is a comparison
(`Retold`, in `CodecProofs`): as long as all addresses were `Plain` what was read equals
`again`; the first that is not makes the two differ in a way that nothing read later
takes back, because a text is found again from its length whatever comes behind it.

In `VerifierProofs` both sides move, and messages have no end. `InStep`, in the last part of
`CodecProofs`, is that `pending` leads from the reader's `todo` to the writer's, call by
call, and that `wire` is what these calls write, up to what was cut. The reader makes the
calls that write nothing (the end of a list or of a message) when it gets there and not
when the writer does: therefore it may be ahead of the writer, but by such calls only, and
only when `pending` is empty. `StreamCorrect`, `CutCorrect` and `DatagramCorrect` follow.

`ClientBytesProofs` proves the four properties of `ClientBytes`. On one side of each
is the library, call by call; on the other a program that was not made from the types but
written by hand. It is compared with them once, statically; induction over the
behaviour does the rest.

* `OnlyCutMessageSpoiledCorrect` and `StaysInBufferCorrect`: a *place* is the
  instructions the client has left, the calls whose bytes are in the buffer and were not
  taken yet, the calls the server has left, and the size of the buffer. `Runs` says of
  instructions and calls that there is a set of places which lead to one another, and to the
  end of both, such that an instruction wants as many bytes as its call has and the buffer
  has room for them. Such sets are put together as the handlers are: one behind
  the other, in loops, over the cases of a switch (`JoinRuns`, `TimesRuns`,
  `ChooseRuns`). `Receiving` and `Taking` are the two halves of a handler, which first writes fields
  into the buffer and then takes them out, and `Handles` is both. `RoundHandled` is then one statement about `Round` and
  `ServerMessage`, for lists and turns of any length. The invariant adds the bytes: those
  in the buffer are what the library writes for the calls not taken yet (`Loaded`), and the
  client is in step with the server (`InStep`).
* `RequestsUnderstoodCorrect`: `HasRead` says how far the library has come in a datagram
  and what the calls were; the datagrams it accepts are then those that `IsValid`
  accepts, and `Request` writes what `Meaning` says. The server is `InStep` with that.
* `DrawnAsMeantCorrect`: `Agrees` relates the instructions of a serialiser, the values
  meant and the calls of the type: there is a set of places, closed under steps, in which
  all three write the same bytes next and end together. The serialisers are built from
  `FieldAgrees`, `JoinAgrees` and `ListAgrees`, as they are in game.cpp.

`LibraryProofs` also proves, for `Rand`, `RangeCorrect`: the state of the
generator keeps its type and every number is in its range, `RandOK /\ InRange`
being inductive; `PickInRange` shows that the second remainder never changes
anything. `NeverStuckCorrect`, `Spec => []NeverStuck`, needs `PrimeAssumption`,
which stands for the modulus being prime and the multiplier no multiple of it, and
the invariant that the *remainder* of the seed is not 0: the first seed alone may
be above the modulus.

Nothing is assumed but the named assumptions on the constants. `StaleInv` and
`SpectatorInv` can be evaluated, and TLC found both to hold on the instances of the
runs before they were proved; `ReplicaInv` and the invariants of `LibraryProofs`,
`VerifierProofs` and `ClientBytesProofs` quantify over functions into all states of S,
over scripts, over places and over bytes, and are proved only.

Only model-checked: every liveness property (fairness and ENABLED are out of the
prover's reach), that is `ExplodeBombReturns`, `EndsWithConnection`,
`TurnsDelivered`, `LobbyKeyJoins` and `TakenIsDrawn`. Every
safety property of a passing run is proved.

## 6. Not modelled

* GUI: fonts, wording and layout of the texts, the outlines of shapes, the end of
  the program (closing the window, or a panic of the receive thread after it),
  failures of `setup`. Bevy itself is modelled as far as the systems see it.
* The size of messages to the interface. Section 3 of src/README.md lets the client
  assume that they fit into one datagram, and so into the buffer.
* The library: floating point, char and byte arrays, for which it panics; the
  grammar of addresses, which is a parameter; strings too long for their length byte and
  sequences of unknown length, for which `to_bytes` panics. Values end at the calls: the
  order of the entries of a HashSet or BTreeMap, and that a repeated entry replaces
  the one before, are left out.
* The client as a reader of messages a server of the protocol would not send:
  `ClientBytes` has cut messages but no malformed ones.
* Client and GUI are not composed into one module: as `gui_client` shows, nothing
  would ever pass between them. `Broadcast` ends, and
  `Gui` begins, at the datagram; `Feed` and `Spectator` say what each side promises,
  and fit together: the numbers of `Spectator` count the steps of `Feed`.
* Command line, name resolution, socket set-up: run once, before the threads.

## 7. Plan

1. Done: the client (`Board`, `Explosion`, `Game`, `Wire`, `Client`, `Server`,
   `Bomberman`), the spectator's view (`Feed`, `Picture`, `Broadcast`), the GUI
   (`Spectator`, `Gui`), the format (`Codec`, `Library`, `ClientReads`,
   `ClientBytes`, `Verifier`),
   the generator (`Rand`).
2. Done: the proofs of every safety property of `Bomberman`, `Broadcast`, `Gui`,
   `Explosion`, `Library` with `Rand`, `Verifier` and `ClientBytes` that a run checks.
3. Left: the liveness properties, which stay with TLC; the start-up of the client.
