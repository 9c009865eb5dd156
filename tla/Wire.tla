-------------------------------- MODULE Wire --------------------------------
(***************************************************************************)
(* The TCP connection between server and client (src/README.md, section 2) *)
(* as it looks from src/src/client: one reliable FIFO stream in each       *)
(* direction, which ends when the server closes it or breaks.              *)
(*                                                                         *)
(* An element of a stream is what the client reads as a unit: a message,   *)
(* and for Turn its header and then each event on its own.  A header       *)
(* carries the length n of the list of events that follows it.             *)
(***************************************************************************)
EXTENDS Game, Sequences

VARIABLES down,   \* stream from the server to the client
          up,     \* stream from the client to the server
          link    \* state of the connection, as the client's kernel sees it

wireVars == <<down, up, link>>

\* "up"    both directions work
\* "fin"   the server closed the connection, the client has not written since
\* "pipe"  the client wrote to the closed connection and a reset came back
\* "rst"   the connection broke
Link == {"up", "fin", "pipe", "rst"}

\* From the server.
Hello               == [t |-> "hello"]
AcceptedPlayer(p,w) == [t |-> "accepted", id |-> p, player |-> w]
GameStarted(m)      == [t |-> "started", players |-> m]
Turn(k, len)        == [t |-> "turn", turn |-> k, n |-> len]
GameEnded           == [t |-> "ended"]

BombPlaced(b, c)         == [t |-> "bombPlaced", id |-> b, pos |-> c]
BombExploded(b, dead, c) == [t |-> "bombExploded", id |-> b,
                             robots |-> dead, blocks |-> c]
PlayerMoved(p, c)        == [t |-> "playerMoved", id |-> p, pos |-> c]
BlockPlaced(c)           == [t |-> "blockPlaced", pos |-> c]

Event == [t : {"bombPlaced"}, id : BombId, pos : Cell]
         \cup [t : {"bombExploded"}, id : BombId,
               robots : SUBSET PlayerId, blocks : SUBSET Cell]
         \cup [t : {"playerMoved"}, id : PlayerId, pos : Cell]
         \cup [t : {"blockPlaced"}, pos : Cell]

Message == {Hello, GameEnded}
           \cup [t : {"accepted"}, id : PlayerId, player : Player]
           \cup [t : {"started"}, players : MapOf(PlayerId, Player)]
           \cup [t : {"turn"}, turn : Nat, n : Nat]

\* The codes that the two switch statements of the client know.
MessageKinds == {"hello", "accepted", "started", "turn", "ended"}
EventKinds == {"bombPlaced", "bombExploded", "playerMoved", "blockPlaced"}

\* To the server: code 0 Join, 1 PlaceBomb, 2 PlaceBlock, 3 Move.  `lobby` is
\* not on the wire; it is the number of games the client had seen the end of
\* when it composed the message, and only properties read it.
Request(code, dir, lobby) == [code |-> code, dir |-> dir, lobby |-> lobby]

Requests == [code : 0 .. 3, dir : 0 .. 3, lobby : Nat]

WireOK == /\ down \in Seq(Message \cup Event)
          /\ up \in Seq(Requests)
          /\ link \in Link

=============================================================================
