------------------------------- MODULE Server -------------------------------
(***************************************************************************)
(* The game server, as far as the client depends on it.  Its program is    *)
(* not part of the repository: this module is the environment of the       *)
(* client and follows sections 2.1 and 2.5-2.10 of src/README.md.          *)
(*                                                                         *)
(* The server plays games with anonymous players and with the client under *)
(* test ("me"), which may connect at any time.  Timers and the random      *)
(* generator are nondeterministic choices.                                 *)
(***************************************************************************)
EXTENDS Wire, FiniteSets

CONSTANTS GameLength,      \* game_length: turns after turn 0
          InitialBlocks,   \* initial_blocks
          MaxGames,        \* bound: games in one behaviour
          MaxLag,          \* bound: a game and a turn begin when no more is unread
          Strangers,       \* bound: who may join besides the client under test
          OtherMoves       \* bound: what they may do in a turn

ASSUME ServerAssumption ==
    /\ GameLength \in Nat /\ InitialBlocks \in Nat
    /\ MaxGames \in Nat /\ MaxLag \in Nat
    /\ Strangers \subseteq Player \ {"me"} /\ OtherMoves \subseteq 0 .. 3

VARIABLES stage,       \* "lobby", or in a game "idle", "bombs", "players"
          connected,   \* the client is connected
          joined,      \* the players of this lobby or game
          games,       \* games that have ended
          turn, positions, blocks, bombs, deaths, nextBomb,  \* the game
          due,         \* bombs that go off this turn and have not been handled
          hit,         \* robots destroyed in this turn
          blast,       \* cells covered by explosions in this turn
          actor,       \* next player to act
          events,      \* events of this turn so far
          log,         \* what a late client is sent: the Turn messages so far
          command,     \* last request of "me" in this turn, or NoCommand
          told,        \* history: GameEnded messages sent to the client
          strayJoin    \* history: a Join was accepted in a later lobby than
                       \* the one the client had composed it in

boardVars == <<turn, positions, blocks, bombs, deaths, nextBomb>>
turnVars == <<due, hit, blast, actor, events>>
historyVars == <<told, strayJoin>>
serverVars == <<stage, connected, joined, games, boardVars, turnVars, log, command,
                historyVars>>

NoCommand == [code |-> 0, dir |-> 0, lobby |-> 0]

ServerOK == /\ stage \in {"lobby", "idle", "bombs", "players"}
            /\ connected \in BOOLEAN
            /\ joined \in MapOf(PlayerId, Player)
            /\ games \in 0 .. MaxGames
            /\ turn \in Nat
            /\ positions \in MapOf(PlayerId, Cell)
            /\ blocks \subseteq Cell
            /\ bombs \in [DOMAIN bombs -> Bomb] /\ DOMAIN bombs \subseteq BombId
            /\ deaths \in [DOMAIN deaths -> Nat] /\ DOMAIN deaths \subseteq PlayerId
            /\ nextBomb \in 0 .. MaxBombs
            /\ due \subseteq BombId
            /\ hit \subseteq PlayerId
            /\ blast \subseteq Cell
            /\ actor \in 0 .. PlayersCount
            /\ events \in Seq(Event)
            /\ log \in Seq(Message \cup Event)
            /\ command \in Requests
            /\ told \in Nat
            /\ strayJoin \in BOOLEAN

ServerInit == /\ stage = "lobby"
              /\ connected = FALSE
              /\ joined = EmptyMap
              /\ games = 0
              /\ turn = 0 /\ positions = EmptyMap /\ blocks = {}
              /\ bombs = EmptyMap /\ deaths = EmptyMap /\ nextBomb = 0
              /\ due = {} /\ hit = {} /\ blast = {} /\ actor = 0
              /\ events = <<>>
              /\ log = <<>>
              /\ command = NoCommand
              /\ told = 0 /\ strayJoin = FALSE

Send(messages) == down' = (IF connected THEN down \o messages ELSE down)

\* Only what takes time waits for the client: a server that ends a game or
\* accepts a player does not know how much of its stream has been read.
CanSend == link = "up" /\ Len(down) <= MaxLag

-----------------------------------------------------------------------------

\* AcceptedPlayer for every player so far, in the order of their ids.
Roster == [k \in 1 .. Cardinality(DOMAIN joined) |->
              AcceptedPlayer(k - 1, joined[k - 1])]

Connect == /\ link = "up"
           /\ ~ connected
           /\ connected' = TRUE
           /\ down' = <<Hello>> \o (IF stage = "lobby" THEN Roster
                                    ELSE <<GameStarted(joined)>> \o log)
           /\ log' = <<>>
           /\ UNCHANGED <<up, link, stage, joined, games, boardVars, turnVars>>
           /\ UNCHANGED <<command, historyVars>>

Admit(who) == LET p == Cardinality(DOMAIN joined)
              IN  /\ joined' = Put(joined, p, who)
                  /\ Send(<<AcceptedPlayer(p, who)>>)

LobbyFull == Cardinality(DOMAIN joined) = PlayersCount

OtherJoins == /\ link = "up"
              /\ stage = "lobby" /\ ~ LobbyFull /\ games < MaxGames
              /\ \E who \in Strangers : Admit(who)
              /\ UNCHANGED <<up, link, stage, connected, games, boardVars>>
              /\ UNCHANGED <<turnVars, log, command, historyVars>>

Plays(who) == \E p \in DOMAIN joined : joined[p] = who

\* The next request of the client.  Join counts in the lobby only, everything
\* else in a game and from a player only; the last request of a turn wins.
AcceptJoin == /\ link = "up"
              /\ up # <<>> /\ Head(up).code = 0
              /\ stage = "lobby" /\ ~ LobbyFull /\ ~ Plays("me")
              /\ games < MaxGames
              /\ Admit("me")
              /\ up' = Tail(up)
              /\ strayJoin' = (strayJoin \/ Head(up).lobby # told)
              /\ UNCHANGED <<link, stage, connected, games, boardVars, turnVars>>
              /\ UNCHANGED <<log, command, told>>

AcceptCommand == /\ link = "up"
                 /\ up # <<>> /\ Head(up).code # 0
                 /\ stage = "idle" /\ Plays("me")
                 /\ command' = Head(up)
                 /\ up' = Tail(up)
                 /\ UNCHANGED <<down, link, stage, connected, joined, games>>
                 /\ UNCHANGED <<boardVars, turnVars, log, historyVars>>

IgnoreRequest == /\ link = "up"
                 /\ up # <<>>
                 /\ IF Head(up).code = 0 THEN stage # "lobby" \/ Plays("me")
                                              \/ games = MaxGames
                    ELSE stage = "lobby" \/ ~ Plays("me")
                 /\ up' = Tail(up)
                 /\ UNCHANGED <<down, link, serverVars>>

-----------------------------------------------------------------------------

\* The list of events is complete: it is sent, and kept for late clients.
SendTurn(k, list) ==
    LET msg == <<Turn(k, Len(list))>> \o list
    IN  /\ Send(msg)
        /\ log' = (IF connected THEN log ELSE log \o msg)

\* The game starts when the lobby is full: robots and blocks are placed at
\* random and make up turn 0.
StartGame ==
    /\ CanSend
    /\ stage = "lobby" /\ LobbyFull
    /\ stage' = "idle"
    /\ turn' = 0
    /\ \E at \in [PlayerId -> Cell], b \in [1 .. InitialBlocks -> Cell] :
         LET spawned == [k \in 1 .. PlayersCount |-> PlayerMoved(k - 1, at[k - 1])]
             placed  == [k \in 1 .. InitialBlocks |-> BlockPlaced(b[k])]
             list    == spawned \o placed
             msg     == <<Turn(0, Len(list))>> \o list
         IN  /\ positions' = at
             /\ blocks' = {b[k] : k \in 1 .. InitialBlocks}
             /\ Send(<<GameStarted(joined)>> \o msg)
             /\ log' = (IF connected THEN <<>> ELSE msg)
    /\ bombs' = EmptyMap /\ nextBomb' = 0
    /\ deaths' = [p \in PlayerId |-> 0]
    /\ due' = {} /\ hit' = {} /\ blast' = {} /\ actor' = 0 /\ events' = <<>>
    /\ command' = NoCommand
    /\ UNCHANGED <<up, link, connected, joined, games, historyVars>>

\* The turn duration is over: timers are decreased, those at 0 go off.
BeginTurn ==
    /\ CanSend
    /\ stage = "idle" /\ turn < GameLength
    /\ bombs' = Aged(bombs)
    /\ due' = {b \in DOMAIN bombs : bombs'[b].timer = 0}
    /\ stage' = "bombs"
    /\ hit' = {} /\ blast' = {} /\ actor' = 0 /\ events' = <<>>
    /\ UNCHANGED <<wireVars, connected, joined, games, turn, positions>>
    /\ UNCHANGED <<blocks, deaths, nextBomb, log, command, historyVars>>

\* Bombs are handled one after another and see the same blocks.
ExplodeNextBomb ==
    /\ stage = "bombs" /\ link = "up"
    /\ \E b \in due :
         LET cells  == BlastArea(bombs[b].pos, blocks)
             robots == {p \in DOMAIN positions : positions[p] \in cells}
         IN  /\ \A c \in due : b <= c
             /\ due' = due \ {b}
             /\ hit' = hit \cup robots
             /\ blast' = blast \cup cells
             /\ bombs' = Erase(bombs, {b})
             /\ events' = Append(events, BombExploded(b, robots, blocks \cap cells))
    /\ UNCHANGED <<wireVars, stage, connected, joined, games, turn, positions>>
    /\ UNCHANGED <<blocks, deaths, nextBomb, actor, log, command>>
    /\ UNCHANGED historyVars

BombsDone ==
    /\ stage = "bombs" /\ link = "up" /\ due = {}
    /\ stage' = "players"
    /\ blocks' = blocks \ blast
    /\ deaths' = [p \in DOMAIN deaths |-> deaths[p] + (IF p \in hit THEN 1 ELSE 0)]
    /\ UNCHANGED <<wireVars, connected, joined, games, turn, positions>>
    /\ UNCHANGED <<bombs, nextBomb, turnVars, log, command, historyVars>>

-----------------------------------------------------------------------------

Target(c, dir) == CASE dir = 0 -> <<c[1], c[2] + 1>>
                    [] dir = 1 -> <<c[1] + 1, c[2]>>
                    [] dir = 2 -> <<c[1], c[2] - 1>>
                    [] dir = 3 -> <<c[1] - 1, c[2]>>

\* It is the turn of player `actor`, and this is what becomes of it.
MyTurn(moved, event) ==
    /\ stage = "players" /\ link = "up"
    /\ actor < PlayersCount
    /\ actor' = actor + 1
    /\ events' = events \o event
    /\ positions' = [positions EXCEPT ![actor] = moved]
    /\ UNCHANGED <<wireVars, stage, connected, joined, games, turn, deaths>>
    /\ UNCHANGED <<due, hit, blast, log, command, historyVars>>

Commands == IF joined[actor] = "me" THEN {command}
            ELSE [code : {0} \cup (OtherMoves \cap {1, 2}), dir : {0}]
                 \cup [code : OtherMoves \cap {3}, dir : 0 .. 3]

\* A destroyed robot reappears anywhere and does nothing else.
Respawn == /\ actor \in hit
           /\ \E c \in Cell : MyTurn(c, <<PlayerMoved(actor, c)>>)
           /\ UNCHANGED <<blocks, bombs, nextBomb>>

\* Nothing was asked for, or nothing that is allowed.
Rests(m) == /\ \/ m.code = 0
               \/ m.code = 1 /\ nextBomb = MaxBombs
               \/ m.code = 2 /\ positions[actor] \in blocks
               \/ m.code = 3 /\ Target(positions[actor], m.dir) \notin Cell \ blocks
            /\ MyTurn(positions[actor], <<>>)
            /\ UNCHANGED <<blocks, bombs, nextBomb>>

PlacesBomb(m) ==
    /\ m.code = 1 /\ nextBomb < MaxBombs
    /\ bombs' = Put(bombs, nextBomb, [pos |-> positions[actor], timer |-> BombTimer])
    /\ nextBomb' = nextBomb + 1
    /\ MyTurn(positions[actor], <<BombPlaced(nextBomb, positions[actor])>>)
    /\ UNCHANGED blocks

PlacesBlock(m) ==
    /\ m.code = 2 /\ positions[actor] \notin blocks
    /\ blocks' = blocks \cup {positions[actor]}
    /\ MyTurn(positions[actor], <<BlockPlaced(positions[actor])>>)
    /\ UNCHANGED <<bombs, nextBomb>>

Moves(m) ==
    /\ m.code = 3 /\ Target(positions[actor], m.dir) \in Cell \ blocks
    /\ MyTurn(Target(positions[actor], m.dir),
              <<PlayerMoved(actor, Target(positions[actor], m.dir))>>)
    /\ UNCHANGED <<blocks, bombs, nextBomb>>

\* A robot that was not destroyed does what its player asked for.
Act == /\ stage = "players" /\ actor < PlayersCount /\ actor \notin hit
       /\ \E m \in Commands :
            Rests(m) \/ PlacesBomb(m) \/ PlacesBlock(m) \/ Moves(m)

EndTurn == /\ stage = "players" /\ link = "up"
           /\ actor = PlayersCount
           /\ stage' = "idle"
           /\ turn' = turn + 1
           /\ SendTurn(turn + 1, events)
           /\ command' = NoCommand
           /\ UNCHANGED <<up, link, connected, joined, games, positions>>
           /\ UNCHANGED <<blocks, bombs, deaths, nextBomb, turnVars, historyVars>>

EndGame == /\ link = "up"
           /\ stage = "idle" /\ turn = GameLength
           /\ stage' = "lobby"
           /\ games' = games + 1
           /\ joined' = EmptyMap
           /\ log' = <<>>
           /\ command' = NoCommand
           /\ Send(<<GameEnded>>)
           /\ told' = (IF connected THEN told + 1 ELSE told)
           /\ UNCHANGED <<up, link, connected, boardVars, turnVars, strayJoin>>

-----------------------------------------------------------------------------

\* The stream to the client ends after any of its elements, also in the middle
\* of a turn.
StreamEnds(how) == /\ link = "up" /\ connected
                   /\ link' = how
                   /\ \E k \in 0 .. Len(down) : down' = SubSeq(down, 1, k)
                   /\ UNCHANGED <<up, serverVars>>

\* The server goes away, perhaps before it has written all of what it was to
\* send; or the connection breaks, and what was under way is lost.
CloseConnection == StreamEnds("fin")

BreakConnection == StreamEnds("rst")

ServerStep == \/ StartGame \/ BeginTurn \/ ExplodeNextBomb \/ BombsDone
              \/ Respawn \/ Act \/ EndTurn \/ EndGame
              \/ AcceptJoin \/ AcceptCommand \/ IgnoreRequest

=============================================================================
