-------------------------------- MODULE Game --------------------------------
(***************************************************************************)
(* The aggregated game state of the client: class Game of                  *)
(* src/src/client/game.h and game.cpp.  The state is a record with the     *)
(* fields of the class that change, and each method is an operator that    *)
(* returns the new record.  The settings announced by Hello (board,        *)
(* radius, timer) never change afterwards and are constants.               *)
(***************************************************************************)
EXTENDS Board

CONSTANTS MaxU16,         \* largest uint16_t: 65535
          BombTimer,      \* bomb_timer of the Hello message
          PlayersCount,   \* players_count of the Hello message
          MaxBombs        \* bound: bombs placed in one game

ASSUME GameAssumption == /\ MaxU16 \in Nat \ {0}
                         /\ BombTimer \in 0 .. MaxU16
                         /\ PlayersCount \in 1 .. 256
                         /\ MaxBombs \in Nat

PlayerId == 0 .. PlayersCount - 1

BombId == 0 .. MaxBombs - 1

\* A Player is its name and address: whose robot it is, which is all that is
\* told apart here.  "me" is the client under test, "other" and "another" are
\* anyone else.
Player == {"me", "other", "another"}

Timer == 0 .. MaxU16

Bomb == [pos : Cell, timer : Timer]

\* The maps from some of the keys K to values in V.
MapOf(K, V) == UNION {[D -> V] : D \in SUBSET K}

EmptyMap == [k \in {} |-> k]

\* map[k] = v, and map.insert({k, v}) for a key that is not there.
Put(f, k, v) == [x \in DOMAIN f \cup {k} |-> IF x = k THEN v ELSE f[x]]

\* map.erase of the keys K.
Erase(f, K) == [x \in DOMAIN f \ K |-> f[x]]

GameOK(g) ==
    /\ g \in [turn              : Nat,
              players           : MapOf(PlayerId, Player),
              players_positions : MapOf(PlayerId, Cell),
              blocks            : SUBSET Cell,
              bombs             : [DOMAIN g.bombs -> Bomb],
              explosions        : SUBSET Cell,
              scores            : [DOMAIN g.scores -> Nat],
              dead_players      : SUBSET PlayerId,
              destroyed_blocks  : SUBSET Cell]
    /\ DOMAIN g.bombs \subseteq BombId
    /\ DOMAIN g.scores \subseteq PlayerId

\* The two constructors; the one from Hello sets the settings as well.
NewGame == [turn              |-> 0,
            players           |-> EmptyMap,
            players_positions |-> EmptyMap,
            blocks            |-> {},
            bombs             |-> EmptyMap,
            explosions        |-> {},
            scores            |-> EmptyMap,
            dead_players      |-> {},
            destroyed_blocks  |-> {}]

\* MUTANT: no score is set up.
AddPlayersUnscored(g, new) ==
    [g EXCEPT !.players = [p \in DOMAIN @ \cup DOMAIN new |-> IF p \in DOMAIN @
                                                             THEN @[p] ELSE new[p]]]

\* add_player for every entry of new: insert keeps an entry that is there.
AddPlayers(g, new) ==
    LET ids == DOMAIN g.players \cup DOMAIN new
        sc  == DOMAIN g.scores \cup DOMAIN new
    IN  [g EXCEPT !.players = [p \in ids |-> IF p \in DOMAIN g.players
                                             THEN g.players[p] ELSE new[p]],
                  !.scores  = [p \in sc |-> IF p \in DOMAIN g.scores
                                            THEN g.scores[p] ELSE 0]]

SetTurn(g, n) == [g EXCEPT !.turn = n]

MovePlayer(g, p, c) == [g EXCEPT !.players_positions = Put(@, p, c)]

PlaceBlock(g, c) == [g EXCEPT !.blocks = @ \cup {c}]

PlaceBomb(g, b, c) ==
    [g EXCEPT !.bombs = IF b \in DOMAIN @ THEN @
                        ELSE Put(@, b, [pos |-> c, timer |-> BombTimer])]

\* bombs.at(b) throws when there is no such bomb: see HasBomb in Client.
ExplodeBomb(g, b) ==
    [g EXCEPT !.explosions = @ \cup BlastArea(g.bombs[b].pos, g.blocks),
              !.bombs = Erase(@, {b})]

\* MUTANT: the victims of the last bomb of a turn alone.
KillPlayersLast(g, robots) == [g EXCEPT !.dead_players = robots]

\* kill_player and destroy_block for the two lists of a BombExploded event.
KillPlayers(g, robots) == [g EXCEPT !.dead_players = @ \cup robots]

DestroyBlocks(g, cells) == [g EXCEPT !.destroyed_blocks = @ \cup cells]

\* scores[p] += 1, where a missing score starts at 0.
AddScores(g) ==
    [g EXCEPT !.scores =
        [p \in DOMAIN @ \cup g.dead_players |->
            (IF p \in DOMAIN @ THEN @[p] ELSE 0)
            + (IF p \in g.dead_players THEN 1 ELSE 0)]]

\* MUTANT: the blocks hit by a bomb stay.
EraseDestroyedBlocksNot(g) == g

EraseDestroyedBlocks(g) == [g EXCEPT !.blocks = @ \ g.destroyed_blocks]

\* MUTANT: the decrement saturates.
TickStops(t) == IF t = 0 THEN 0 ELSE t - 1

\* timer -= 1 on a uint16_t: bomb_timer may be 0, and 0 becomes the largest.
Tick(t) == IF t = 0 THEN MaxU16 ELSE t - 1

Aged(f) == [b \in DOMAIN f |-> [f[b] EXCEPT !.timer = Tick(@)]]

\* MUTANT: the destroyed blocks are remembered for the next turn.
ResetTurnKeepsBlocks(g) ==
    [g EXCEPT !.dead_players = {},
              !.explosions = {},
              !.bombs = Aged(@)]

\* MUTANT: the bombs do not count down.
ResetTurnStopsClock(g) ==
    [g EXCEPT !.dead_players = {},
              !.explosions = {},
              !.destroyed_blocks = {}]

ResetTurn(g) ==
    [g EXCEPT !.dead_players = {},
              !.explosions = {},
              !.destroyed_blocks = {},
              !.bombs = Aged(@)]

\* MUTANT: the players of the last game stay.
ResetGameKeepsPlayers(g) == [g EXCEPT !.players_positions = EmptyMap,
                                      !.blocks = {},
                                      !.bombs = EmptyMap,
                                      !.explosions = {},
                                      !.scores = EmptyMap]

\* The turn number and the two sets emptied by reset_turn are left alone.
ResetGame(g) == [g EXCEPT !.players = EmptyMap,
                          !.players_positions = EmptyMap,
                          !.blocks = {},
                          !.bombs = EmptyMap,
                          !.explosions = {},
                          !.scores = EmptyMap]

\* The two messages for the GUI (serialize_lobby_respond and
\* serialize_game_respond): the fields they carry.
LobbyView(g) == [t |-> "lobby", players |-> g.players]

GameView(g) == [t          |-> "game",
                turn       |-> g.turn,
                players    |-> g.players,
                positions  |-> g.players_positions,
                blocks     |-> g.blocks,
                bombs      |-> g.bombs,
                explosions |-> g.explosions,
                scores     |-> g.scores]

ViewOK(v) ==
    \/ v \in [t : {"lobby"}, players : MapOf(PlayerId, Player)]
    \/ /\ v \in [t : {"game"}, turn : Nat,
                 players    : MapOf(PlayerId, Player),
                 positions  : MapOf(PlayerId, Cell),
                 blocks     : SUBSET Cell,
                 bombs      : [DOMAIN v.bombs -> Bomb],
                 explosions : SUBSET Cell,
                 scores     : [DOMAIN v.scores -> Nat]]
       /\ DOMAIN v.bombs \subseteq BombId
       /\ DOMAIN v.scores \subseteq PlayerId

=============================================================================
