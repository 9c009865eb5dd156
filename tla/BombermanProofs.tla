-------------------------- MODULE BombermanProofs --------------------------
(***************************************************************************)
(* Bomberman for every value of the constants: types, the flag of the      *)
(* client and the stage of the server, and that no command outlives its    *)
(* game.                                                                   *)
(*                                                                         *)
(* TypeOK is not inductive: that the roster sent to a new client consists  *)
(* of players needs the ids of the lobby to have no gap, that an acting    *)
(* robot is somewhere needs all robots to be on the board, and that games  *)
(* are not counted beyond their bound needs the bound to have been tested  *)
(* when the first player joined.  ServerInv adds these facts.              *)
(*                                                                         *)
(* FlagAgrees speaks of moments at which S has read everything, and says   *)
(* nothing of how they come about.  FlagInv says it of every moment: the   *)
(* last signal under way, or the flag when there is none, is what the      *)
(* server has come to.                                                     *)
(*                                                                         *)
(* NoStaleCommand is about the requests that were composed under the flag. *)
(* StaleInv counts the ends of games that are under way, and follows the   *)
(* order in which requests are composed, sent and served.                  *)
(***************************************************************************)
EXTENDS Bomberman, FiniteSetTheorems, SequenceTheorems, TLAPS

-----------------------------------------------------------------------------
(* Lemmas about the operators of Game: every method of the class keeps the *)
(* state well-formed.                                                      *)

LEMMA MapOfMember ==
    ASSUME NEW K, NEW V, NEW f
    PROVE  f \in MapOf(K, V) <=> f \in [DOMAIN f -> V] /\ DOMAIN f \subseteq K
BY DEF MapOf

LEMMA EmptyMapType == ASSUME NEW K, NEW V PROVE EmptyMap \in MapOf(K, V)
BY MapOfMember DEF EmptyMap

LEMMA PutType ==
    ASSUME NEW K, NEW V, NEW f \in MapOf(K, V), NEW k \in K, NEW v \in V
    PROVE  Put(f, k, v) \in MapOf(K, V)
<1>1. f \in [DOMAIN f -> V] /\ DOMAIN f \subseteq K BY MapOfMember
<1>2. Put(f, k, v) \in [DOMAIN f \cup {k} -> V] BY <1>1 DEF Put
<1>. QED BY <1>1, <1>2, MapOfMember

LEMMA EraseType ==
    ASSUME NEW K, NEW V, NEW f \in MapOf(K, V), NEW E
    PROVE  Erase(f, E) \in MapOf(K, V)
<1>1. f \in [DOMAIN f -> V] /\ DOMAIN f \subseteq K BY MapOfMember
<1>2. Erase(f, E) \in [DOMAIN f \ E -> V] BY <1>1 DEF Erase
<1>. QED BY <1>1, <1>2, MapOfMember

LEMMA BlastAreaType == ASSUME NEW p, NEW B PROVE BlastArea(p, B) \subseteq Cell
BY DEF BlastArea

LEMMA TickType == ASSUME NEW t \in Timer PROVE Tick(t) \in Timer
BY GameAssumption DEF Tick, Timer

LEMMA AgedType ==
    ASSUME NEW f \in MapOf(BombId, Bomb) PROVE Aged(f) \in MapOf(BombId, Bomb)
<1>1. f \in [DOMAIN f -> Bomb] /\ DOMAIN f \subseteq BombId BY MapOfMember
<1>2. ASSUME NEW b \in DOMAIN f PROVE [f[b] EXCEPT !.timer = Tick(@)] \in Bomb
  BY <1>1, TickType DEF Bomb
<1>. QED BY <1>1, <1>2, MapOfMember DEF Aged

\* GameOK with every map as a member of MapOf.
GameType == [turn              : Nat,
             players           : MapOf(PlayerId, Player),
             players_positions : MapOf(PlayerId, Cell),
             blocks            : SUBSET Cell,
             bombs             : MapOf(BombId, Bomb),
             explosions        : SUBSET Cell,
             scores            : MapOf(PlayerId, Nat),
             dead_players      : SUBSET PlayerId,
             destroyed_blocks  : SUBSET Cell]

LEMMA GameTypeOK == ASSUME NEW g PROVE GameOK(g) <=> g \in GameType
<1>1. ASSUME GameOK(g) PROVE g \in GameType
  BY <1>1, MapOfMember DEF GameOK, GameType
<1>2. ASSUME g \in GameType PROVE GameOK(g)
  <2>1. g.bombs \in MapOf(BombId, Bomb) /\ g.scores \in MapOf(PlayerId, Nat)
    BY <1>2 DEF GameType
  <2>. QED BY <1>2, <2>1, MapOfMember DEF GameOK, GameType
<1>. QED BY <1>1, <1>2

LEMMA NewGameType == NewGame \in GameType
BY EmptyMapType DEF NewGame, GameType

LEMMA AddPlayersType ==
    ASSUME NEW g \in GameType, NEW new \in MapOf(PlayerId, Player)
    PROVE  AddPlayers(g, new) \in GameType
<1>. DEFINE ids == DOMAIN g.players \cup DOMAIN new
            sc  == DOMAIN g.scores \cup DOMAIN new
            pl  == [p \in ids |-> IF p \in DOMAIN g.players
                                  THEN g.players[p] ELSE new[p]]
            ss  == [p \in sc |-> IF p \in DOMAIN g.scores THEN g.scores[p] ELSE 0]
<1>1. /\ g.players \in [DOMAIN g.players -> Player] /\ DOMAIN g.players \subseteq PlayerId
      /\ new \in [DOMAIN new -> Player] /\ DOMAIN new \subseteq PlayerId
      /\ g.scores \in [DOMAIN g.scores -> Nat] /\ DOMAIN g.scores \subseteq PlayerId
  BY MapOfMember DEF GameType
<1>2. pl \in [ids -> Player] /\ ids \subseteq PlayerId BY <1>1
<1>3. ss \in [sc -> Nat] /\ sc \subseteq PlayerId BY <1>1
<1>4. pl \in MapOf(PlayerId, Player) /\ ss \in MapOf(PlayerId, Nat)
  BY <1>2, <1>3, MapOfMember
<1>5. AddPlayers(g, new) = [g EXCEPT !.players = pl, !.scores = ss]
  BY DEF AddPlayers
<1>. HIDE DEF pl, ss
<1>. QED BY <1>4, <1>5 DEF GameType

LEMMA SetTurnType == ASSUME NEW g \in GameType, NEW n \in Nat PROVE SetTurn(g, n) \in GameType
BY DEF SetTurn, GameType

LEMMA MovePlayerType ==
    ASSUME NEW g \in GameType, NEW p \in PlayerId, NEW c \in Cell
    PROVE  MovePlayer(g, p, c) \in GameType
<1>1. Put(g.players_positions, p, c) \in MapOf(PlayerId, Cell)
  BY PutType DEF GameType
<1>. QED BY <1>1 DEF MovePlayer, GameType

LEMMA PlaceBlockType ==
    ASSUME NEW g \in GameType, NEW c \in Cell PROVE PlaceBlock(g, c) \in GameType
BY DEF PlaceBlock, GameType

LEMMA PlaceBombType ==
    ASSUME NEW g \in GameType, NEW b \in BombId, NEW c \in Cell
    PROVE  PlaceBomb(g, b, c) \in GameType
<1>1. [pos |-> c, timer |-> BombTimer] \in Bomb
  BY GameAssumption DEF Bomb, Timer
<1>2. Put(g.bombs, b, [pos |-> c, timer |-> BombTimer]) \in MapOf(BombId, Bomb)
  BY <1>1, PutType DEF GameType
<1>. QED BY <1>2 DEF PlaceBomb, GameType

LEMMA ExplodeBombType ==
    ASSUME NEW g \in GameType, NEW b PROVE ExplodeBomb(g, b) \in GameType
<1>1. Erase(g.bombs, {b}) \in MapOf(BombId, Bomb) BY EraseType DEF GameType
<1>2. BlastArea(g.bombs[b].pos, g.blocks) \subseteq Cell BY BlastAreaType
<1>. QED BY <1>1, <1>2 DEF ExplodeBomb, GameType

LEMMA KillPlayersType ==
    ASSUME NEW g \in GameType, NEW R \in SUBSET PlayerId
    PROVE  KillPlayers(g, R) \in GameType
BY DEF KillPlayers, GameType

LEMMA DestroyBlocksType ==
    ASSUME NEW g \in GameType, NEW C \in SUBSET Cell
    PROVE  DestroyBlocks(g, C) \in GameType
BY DEF DestroyBlocks, GameType

LEMMA AddScoresType == ASSUME NEW g \in GameType PROVE AddScores(g) \in GameType
<1>. DEFINE ids == DOMAIN g.scores \cup g.dead_players
            ss  == [p \in ids |-> (IF p \in DOMAIN g.scores THEN g.scores[p] ELSE 0)
                                  + (IF p \in g.dead_players THEN 1 ELSE 0)]
<1>1. /\ g.scores \in [DOMAIN g.scores -> Nat] /\ DOMAIN g.scores \subseteq PlayerId
      /\ g.dead_players \subseteq PlayerId
  BY MapOfMember DEF GameType
<1>2. ss \in [ids -> Nat] /\ ids \subseteq PlayerId BY <1>1
<1>3. ss \in MapOf(PlayerId, Nat) BY <1>2, MapOfMember
<1>4. AddScores(g) = [g EXCEPT !.scores = ss] BY DEF AddScores, GameType
<1>. HIDE DEF ss
<1>. QED BY <1>3, <1>4 DEF GameType

LEMMA EraseDestroyedBlocksType ==
    ASSUME NEW g \in GameType PROVE EraseDestroyedBlocks(g) \in GameType
BY DEF EraseDestroyedBlocks, GameType

LEMMA ResetTurnType == ASSUME NEW g \in GameType PROVE ResetTurn(g) \in GameType
<1>1. Aged(g.bombs) \in MapOf(BombId, Bomb) BY AgedType DEF GameType
<1>. QED BY <1>1 DEF ResetTurn, GameType

LEMMA ResetGameType == ASSUME NEW g \in GameType PROVE ResetGame(g) \in GameType
BY EmptyMapType DEF ResetGame, GameType

LEMMA LobbyViewType == ASSUME NEW g \in GameType PROVE ViewOK(LobbyView(g))
BY DEF LobbyView, ViewOK, GameType

LEMMA GameViewType == ASSUME NEW g \in GameType PROVE ViewOK(GameView(g))
<1>1. /\ g.bombs \in [DOMAIN g.bombs -> Bomb] /\ DOMAIN g.bombs \subseteq BombId
      /\ g.scores \in [DOMAIN g.scores -> Nat] /\ DOMAIN g.scores \subseteq PlayerId
  BY MapOfMember DEF GameType
<1>. QED BY <1>1 DEF GameView, ViewOK, GameType

-----------------------------------------------------------------------------
(* Types.                                                                  *)

\* Ids are given in the order of joining (README, section 2.6).
Numbered == \E n \in 0 .. PlayersCount : DOMAIN joined = 0 .. n - 1

Playing == /\ stage # "lobby" => DOMAIN positions = PlayerId
           /\ stage # "lobby" \/ DOMAIN joined # {} => games < MaxGames

ServerInv == ServerOK /\ Numbered /\ Playing

IInv == WireOK /\ ClientOK /\ ServerInv

-----------------------------------------------------------------------------
(* What the threads of the client leave behind.                            *)

LEMMA ReadType ==
    ASSUME WireOK, down # <<>>, down' = Tail(down), UNCHANGED <<up, link>>
    PROVE  WireOK' /\ Head(down) \in Message \cup Event
BY HeadTailProperties DEF WireOK

LEMMA SendToGuiType ==
    ASSUME ClientOK, NEW v, ViewOK(v), SendToGui(v)
    PROVE  /\ (shown = NoView \/ ViewOK(shown))'
           /\ gui' \in {"up", "gone", "refused"}
           /\ proc' \in Proc
BY DEF ClientOK, SendToGui, Die, Proc

\* The kind of a message fixes its fields.
LEMMA MessageFields ==
    ASSUME NEW m \in Message \cup Event
    PROVE  /\ m.t = "accepted" => m.id \in PlayerId /\ m.player \in Player
           /\ m.t = "started" => m.players \in MapOf(PlayerId, Player)
           /\ m.t = "turn" => m.turn \in Nat /\ m.n \in Nat
           /\ m.t = "bombPlaced" => m.id \in BombId /\ m.pos \in Cell
           /\ m.t = "bombExploded" => /\ m.robots \in SUBSET PlayerId
                                      /\ m.blocks \in SUBSET Cell
           /\ m.t = "playerMoved" => m.id \in PlayerId /\ m.pos \in Cell
           /\ m.t = "blockPlaced" => m.pos \in Cell
BY DEF Message, Event, Hello, GameEnded

LEMMA ThreadSType ==
    ASSUME WireOK, ClientOK, ThreadS
    PROVE  WireOK' /\ ClientOK'
<1>. game \in GameType BY GameTypeOK DEF ClientOK
<1>1. CASE ReadEmptyString
  <2>1. WireOK' BY <1>1, ReadType DEF ReadEmptyString, Read
  <2>2. ClientOK'
    BY <1>1 DEF ReadEmptyString, Die, ClientOK, gameVars, inputVars, Proc
  <2>. QED BY <2>1, <2>2
<1>2. CASE HandleHello
  <2>1. WireOK' BY <1>2, ReadType DEF HandleHello, Read
  <2>2. game' \in GameType BY <1>2, NewGameType DEF HandleHello
  <2>3. SendToGui(LobbyView(game')) /\ ViewOK(LobbyView(game'))
    BY <1>2, <2>2, LobbyViewType DEF HandleHello
  <2>4. ClientOK'
    BY <1>2, <2>2, <2>3, SendToGuiType, GameTypeOK DEF HandleHello, ClientOK, inputVars
  <2>. QED BY <2>1, <2>4
<1>3. CASE HandleAcceptedPlayer
  <2>. DEFINE m == Head(down)
              new == [p \in {m.id} |-> m.player]
  <2>1. WireOK' /\ m \in Message \cup Event /\ m.t = "accepted"
    BY <1>3, ReadType DEF HandleAcceptedPlayer, Read
  <2>2. m.id \in PlayerId /\ m.player \in Player BY <2>1, MessageFields
  <2>3. new \in MapOf(PlayerId, Player) BY <2>2, MapOfMember
  <2>4. game' = AddPlayers(game, new) BY <1>3 DEF HandleAcceptedPlayer
  <2>5. game' \in GameType BY <2>3, <2>4, AddPlayersType
  <2>6. SendToGui(LobbyView(game')) /\ ViewOK(LobbyView(game'))
    BY <1>3, <2>5, LobbyViewType DEF HandleAcceptedPlayer
  <2>7. ClientOK'
    BY <1>3, <2>5, <2>6, SendToGuiType, GameTypeOK
    DEF HandleAcceptedPlayer, ClientOK, inputVars
  <2>. QED BY <2>1, <2>7
<1>4. CASE HandleGameStarted
  <2>1. WireOK' /\ Head(down) \in Message \cup Event /\ Head(down).t = "started"
    BY <1>4, ReadType DEF HandleGameStarted, Read
  <2>2. Head(down).players \in MapOf(PlayerId, Player) BY <2>1, MessageFields
  <2>3. game' \in GameType BY <1>4, <2>2, AddPlayersType DEF HandleGameStarted
  <2>4. ClientOK' BY <1>4, <2>3, GameTypeOK DEF HandleGameStarted, ClientOK, inputVars
  <2>. QED BY <2>1, <2>4
<1>5. CASE BeginTurnMsg
  <2>1. WireOK' /\ Head(down) \in Message \cup Event /\ Head(down).t = "turn"
    BY <1>5, ReadType DEF BeginTurnMsg, Read
  <2>2. Head(down).turn \in Nat /\ Head(down).n \in Nat BY <2>1, MessageFields
  <2>3. game' \in GameType BY <1>5, <2>2, SetTurnType DEF BeginTurnMsg
  <2>4. ClientOK' BY <1>5, <2>2, <2>3, GameTypeOK DEF BeginTurnMsg, ClientOK, inputVars
  <2>. QED BY <2>1, <2>4
<1>6. ASSUME NEW kind, ReadEvent(kind), game' \in GameType, proc' \in Proc
      PROVE  WireOK' /\ ClientOK'
  <2>1. WireOK' BY <1>6, ReadType DEF ReadEvent
  <2>2. left' \in Nat BY <1>6 DEF ReadEvent, ClientOK
  <2>3. ClientOK' BY <1>6, <2>2, GameTypeOK DEF ReadEvent, ClientOK, inputVars
  <2>. QED BY <2>1, <2>3
<1>7. ASSUME NEW kind, ReadEvent(kind)
      PROVE  Head(down) \in Message \cup Event /\ Head(down).t = kind
  BY <1>7, ReadType DEF ReadEvent
<1>8. proc \in Proc BY DEF ClientOK
<1>9. CASE HandleBombPlaced
  <2>1. Head(down).id \in BombId /\ Head(down).pos \in Cell
    BY <1>9, <1>7, MessageFields DEF HandleBombPlaced
  <2>2. game' \in GameType BY <1>9, <2>1, PlaceBombType DEF HandleBombPlaced
  <2>. QED BY <1>9, <2>2, <1>6, <1>8 DEF HandleBombPlaced
<1>10. CASE HandleBombExploded
  <2>. DEFINE e == Head(down)
  <2>1. e.robots \in SUBSET PlayerId /\ e.blocks \in SUBSET Cell
    BY <1>10, <1>7, MessageFields DEF HandleBombExploded
  <2>2. DestroyBlocks(KillPlayers(ExplodeBomb(game, e.id), e.robots), e.blocks)
            \in GameType
    BY <2>1, ExplodeBombType, KillPlayersType, DestroyBlocksType
  <2>3. game' \in GameType /\ proc' \in Proc
    BY <1>10, <2>2, <1>8 DEF HandleBombExploded, Proc
  <2>. QED BY <1>10, <2>3, <1>6 DEF HandleBombExploded
<1>11. CASE HandlePlayerMoved
  <2>1. Head(down).id \in PlayerId /\ Head(down).pos \in Cell
    BY <1>11, <1>7, MessageFields DEF HandlePlayerMoved
  <2>2. game' \in GameType BY <1>11, <2>1, MovePlayerType DEF HandlePlayerMoved
  <2>. QED BY <1>11, <2>2, <1>6, <1>8 DEF HandlePlayerMoved
<1>12. CASE HandleBlockPlaced
  <2>1. Head(down).pos \in Cell
    BY <1>12, <1>7, MessageFields DEF HandleBlockPlaced
  <2>2. game' \in GameType BY <1>12, <2>1, PlaceBlockType DEF HandleBlockPlaced
  <2>. QED BY <1>12, <2>2, <1>6, <1>8 DEF HandleBlockPlaced
<1>13. CASE FinishTurnMsg
  <2>. DEFINE g == EraseDestroyedBlocks(AddScores(game))
  <2>1. g \in GameType BY AddScoresType, EraseDestroyedBlocksType
  <2>2. game' \in GameType BY <1>13, <2>1, ResetTurnType DEF FinishTurnMsg
  <2>3. SendToGui(GameView(g)) /\ ViewOK(GameView(g))
    BY <1>13, <2>1, GameViewType DEF FinishTurnMsg
  <2>4. ClientOK'
    BY <1>13, <2>2, <2>3, SendToGuiType, GameTypeOK DEF FinishTurnMsg, ClientOK, inputVars
  <2>5. WireOK' BY <1>13 DEF FinishTurnMsg, WireOK, wireVars
  <2>. QED BY <2>4, <2>5
<1>14. CASE HandleGameEnded
  <2>1. WireOK' BY <1>14, ReadType DEF HandleGameEnded, Read
  <2>2. game' \in GameType BY <1>14, ResetGameType DEF HandleGameEnded
  <2>3. SendToGui(LobbyView(game')) /\ ViewOK(LobbyView(game'))
    BY <1>14, <2>2, LobbyViewType DEF HandleGameEnded
  <2>4. lobbies' \in Nat BY <1>14 DEF HandleGameEnded, ClientOK
  <2>5. ClientOK'
    BY <1>14, <2>2, <2>3, <2>4, SendToGuiType, GameTypeOK
    DEF HandleGameEnded, ClientOK, inputVars
  <2>. QED BY <2>1, <2>5
<1>15. CASE ServerGone
  <2>1. WireOK' BY <1>15 DEF ServerGone, WireOK, wireVars
  <2>2. ClientOK'
    BY <1>15 DEF ServerGone, Die, ClientOK, gameVars, inputVars, Proc
  <2>. QED BY <2>1, <2>2
<1>. QED
  BY <1>1, <1>2, <1>3, <1>4, <1>5, <1>9, <1>10, <1>11, <1>12, <1>13, <1>14, <1>15
  DEF ThreadS

LEMMA ThreadGType ==
    ASSUME WireOK, ClientOK, ThreadG
    PROVE  WireOK' /\ ClientOK'
<1>1. CASE ReceiveInput
  <2>1. inputs' \in 0 .. MaxInputs
    BY <1>1, ClientAssumption DEF ReceiveInput, ClientOK
  <2>. QED BY <1>1, <2>1 DEF ReceiveInput, WireOK, ClientOK, wireVars, gameVars
<1>2. CASE ParseInput
  <2>1. request' \in Requests
    <3>1. CASE IsKeyPress(input) /\ request' = Translate(input, is_game_started)
      <4>1. input \in [len : Nat, code : 0 .. 255, dir : 0 .. 255]
        BY <3>1, ClientAssumption DEF ClientOK, IsKeyPress, NoInput
      <4>2. input.dir \in Nat /\ lobbies \in Nat BY <4>1 DEF ClientOK
      <4>. QED BY <3>1, <4>2 DEF IsKeyPress, Translate, Request, Requests
    <3>2. CASE request' = request BY <3>2 DEF ClientOK
    <3>. QED BY <1>2, <3>1, <3>2 DEF ParseInput
  <2>2. gPc' \in {"recv", "parse", "send"} BY <1>2 DEF ParseInput
  <2>. QED BY <1>2, <2>1, <2>2 DEF ParseInput, WireOK, ClientOK, wireVars, gameVars
<1>3. CASE SendRequest
  <2>1. up' \in Seq(Requests)
    BY <1>3, AppendProperties DEF SendRequest, WireOK, ClientOK
  <2>2. link' \in Link /\ proc' \in Proc
    BY <1>3 DEF SendRequest, WireOK, ClientOK, Link, Proc
  <2>. QED BY <1>3, <2>1, <2>2 DEF SendRequest, WireOK, ClientOK, gameVars
<1>. QED BY <1>1, <1>2, <1>3 DEF ThreadG

-----------------------------------------------------------------------------
(* What the server leaves behind.                                          *)

LEMMA PlayersCountType == PlayersCount \in Nat \ {0}
BY GameAssumption

LEMMA LobbyCount ==
    ASSUME Numbered
    PROVE  /\ Cardinality(DOMAIN joined) \in 0 .. PlayersCount
           /\ DOMAIN joined = 0 .. Cardinality(DOMAIN joined) - 1
<1>1. PICK n \in 0 .. PlayersCount : DOMAIN joined = 0 .. n - 1 BY DEF Numbered
<1>2. n \in Int BY <1>1, PlayersCountType
<1>3. Cardinality(0 .. n - 1) = n BY <1>1, <1>2, FS_Interval
<1>. QED BY <1>1, <1>3

LEMMA AcceptedPlayerType ==
    ASSUME NEW p \in PlayerId, NEW w \in Player
    PROVE  AcceptedPlayer(p, w) \in Message
BY DEF AcceptedPlayer, Message

LEMMA RosterType ==
    ASSUME ServerOK, Numbered
    PROVE  Roster \in Seq(Message \cup Event)
<1>. DEFINE n == Cardinality(DOMAIN joined)
<1>1. n \in Nat /\ n <= PlayersCount /\ DOMAIN joined = 0 .. n - 1
  BY LobbyCount, PlayersCountType
<1>2. joined \in [DOMAIN joined -> Player] BY MapOfMember DEF ServerOK
<1>3. ASSUME NEW k \in 1 .. n PROVE AcceptedPlayer(k - 1, joined[k - 1]) \in Message
  <2>1. k - 1 \in PlayerId BY <1>1, PlayersCountType DEF PlayerId
  <2>2. joined[k - 1] \in Player BY <1>1, <1>2
  <2>. QED BY <2>1, <2>2, AcceptedPlayerType
<1>. HIDE DEF n
<1>4. [k \in 1 .. n |-> AcceptedPlayer(k - 1, joined[k - 1])] \in Seq(Message \cup Event)
  BY <1>1, <1>3
<1>. QED BY <1>4 DEF Roster, n

LEMMA SendType ==
    ASSUME WireOK, NEW m \in Seq(Message \cup Event), Send(m)
    PROVE  down' \in Seq(Message \cup Event)
BY ConcatProperties DEF Send, WireOK

\* A new player: the ids stay without gap.
LEMMA AdmitType ==
    ASSUME WireOK, ServerInv, NEW who \in Player, ~ LobbyFull, Admit(who)
    PROVE  /\ joined' \in MapOf(PlayerId, Player)
           /\ Numbered'
           /\ down' \in Seq(Message \cup Event)
<1>. DEFINE p == Cardinality(DOMAIN joined)
<1>1. p \in Nat /\ p < PlayersCount /\ DOMAIN joined = 0 .. p - 1
  BY LobbyCount, PlayersCountType DEF LobbyFull, ServerInv
<1>. HIDE DEF p
<1>2. p \in PlayerId BY <1>1, PlayersCountType DEF PlayerId
<1>3. joined' = Put(joined, p, who) /\ Send(<<AcceptedPlayer(p, who)>>)
  BY DEF Admit, p
<1>4. joined' \in MapOf(PlayerId, Player)
  BY <1>2, <1>3, PutType DEF ServerInv, ServerOK
<1>5. DOMAIN joined' = 0 .. (p + 1) - 1 BY <1>1, <1>3 DEF Put
<1>6. Numbered' BY <1>1, <1>5, PlayersCountType DEF Numbered
<1>7. <<AcceptedPlayer(p, who)>> \in Seq(Message \cup Event)
  BY <1>2, AcceptedPlayerType
<1>. QED BY <1>3, <1>4, <1>6, <1>7, SendType

LEMMA ConnectType == ASSUME WireOK, ServerInv, Connect PROVE WireOK' /\ ServerInv'
<1>. DEFINE MS == Seq(Message \cup Event)
<1>1. Roster \in MS BY RosterType DEF ServerInv
<1>2. <<GameStarted(joined)>> \in MS
  BY DEF GameStarted, Message, ServerInv, ServerOK
<1>3. log \in MS /\ <<Hello>> \in MS /\ <<>> \in MS
  BY DEF Message, ServerInv, ServerOK
<1>. HIDE DEF MS
<1>4. <<GameStarted(joined)>> \o log \in MS BY <1>2, <1>3, ConcatProperties DEF MS
<1>5. (IF stage = "lobby" THEN Roster ELSE <<GameStarted(joined)>> \o log) \in MS
  BY <1>1, <1>4
<1>6. down' \in MS BY <1>3, <1>5, ConcatProperties DEF Connect, MS
<1>7. log' \in MS BY <1>3 DEF Connect
<1>8. WireOK' BY <1>6 DEF Connect, WireOK, MS
<1>9. ServerOK' /\ Numbered' /\ Playing'
  BY <1>7 DEF Connect, ServerInv, ServerOK, Numbered, Playing, boardVars, turnVars,
              historyVars, MS
<1>. QED BY <1>8, <1>9 DEF ServerInv

\* Whoever joins is a player, and nobody but the client under test is "me".
LEMMA Stranger == ASSUME OtherJoins PROVE \E who \in Player \ {"me"} : Admit(who)
BY ServerAssumption DEF OtherJoins

LEMMA SomebodyJoins ==
    ASSUME OtherJoins \/ AcceptJoin PROVE \E who \in Player : ~ LobbyFull /\ Admit(who)
<1>1. CASE OtherJoins
  <2>1. ~ LobbyFull BY <1>1 DEF OtherJoins
  <2>. QED BY <1>1, <2>1, Stranger
<1>2. CASE AcceptJoin BY <1>2 DEF AcceptJoin, Player
<1>. QED BY <1>1, <1>2

LEMMA OtherJoinsType == ASSUME WireOK, ServerInv, OtherJoins PROVE WireOK' /\ ServerInv'
<1>1. /\ joined' \in MapOf(PlayerId, Player)
      /\ Numbered'
      /\ down' \in Seq(Message \cup Event)
  BY AdmitType, SomebodyJoins
<1>. QED
  BY <1>1 DEF OtherJoins, WireOK, ServerInv, ServerOK, Playing, boardVars, turnVars,
              historyVars

LEMMA TakeRequest ==
    ASSUME WireOK, up # <<>>, up' = Tail(up)
    PROVE  up' \in Seq(Requests) /\ Head(up) \in Requests
BY HeadTailProperties DEF WireOK

LEMMA AcceptJoinType == ASSUME WireOK, ServerInv, AcceptJoin PROVE WireOK' /\ ServerInv'
<1>1. /\ joined' \in MapOf(PlayerId, Player)
      /\ Numbered'
      /\ down' \in Seq(Message \cup Event)
  BY AdmitType DEF AcceptJoin, Player
<1>2. up' \in Seq(Requests) BY TakeRequest DEF AcceptJoin
<1>3. strayJoin' \in BOOLEAN BY DEF AcceptJoin, ServerInv, ServerOK
<1>. QED
  BY <1>1, <1>2, <1>3
  DEF AcceptJoin, WireOK, ServerInv, ServerOK, Playing, boardVars, turnVars

LEMMA AcceptCommandType ==
    ASSUME WireOK, ServerInv, AcceptCommand PROVE WireOK' /\ ServerInv'
<1>1. up' \in Seq(Requests) /\ command' \in Requests BY TakeRequest DEF AcceptCommand
<1>. QED
  BY <1>1 DEF AcceptCommand, WireOK, ServerInv, ServerOK, Numbered, Playing, boardVars,
              turnVars, historyVars

LEMMA ServerUnchanged ==
    ASSUME ServerInv, UNCHANGED serverVars PROVE ServerInv'
BY DEF ServerInv, ServerOK, Numbered, Playing, serverVars, boardVars, turnVars, historyVars

LEMMA IgnoreRequestType ==
    ASSUME WireOK, ServerInv, IgnoreRequest PROVE WireOK' /\ ServerInv'
<1>1. up' \in Seq(Requests) BY TakeRequest DEF IgnoreRequest
<1>. QED BY <1>1, ServerUnchanged DEF IgnoreRequest, WireOK

-----------------------------------------------------------------------------

LEMMA EventTypes ==
    /\ \A b \in BombId, c \in Cell : BombPlaced(b, c) \in Event
    /\ \A b \in BombId, R \in SUBSET PlayerId, C \in SUBSET Cell :
           BombExploded(b, R, C) \in Event
    /\ \A p \in PlayerId, c \in Cell : PlayerMoved(p, c) \in Event
    /\ \A c \in Cell : BlockPlaced(c) \in Event
BY DEF BombPlaced, BombExploded, PlayerMoved, BlockPlaced, Event

LEMMA TurnMessageType ==
    ASSUME NEW k \in Nat, NEW list \in Seq(Event)
    PROVE  <<Turn(k, Len(list))>> \o list \in Seq(Message \cup Event)
<1>1. Turn(k, Len(list)) \in Message BY DEF Turn, Message
<1>2. <<Turn(k, Len(list))>> \in Seq(Message \cup Event) BY <1>1
<1>3. list \in Seq(Message \cup Event) OBVIOUS
<1>. QED BY <1>2, <1>3, ConcatProperties

\* The events of turn 0: a robot for every player, then the blocks.
LEMMA TurnZeroType ==
    ASSUME NEW at \in [PlayerId -> Cell], NEW b \in [1 .. InitialBlocks -> Cell]
    PROVE  [k \in 1 .. PlayersCount |-> PlayerMoved(k - 1, at[k - 1])]
               \o [k \in 1 .. InitialBlocks |-> BlockPlaced(b[k])] \in Seq(Event)
<1>. DEFINE spawned == [k \in 1 .. PlayersCount |-> PlayerMoved(k - 1, at[k - 1])]
            placed  == [k \in 1 .. InitialBlocks |-> BlockPlaced(b[k])]
<1>1. spawned \in Seq(Event)
  <2>1. ASSUME NEW k \in 1 .. PlayersCount PROVE PlayerMoved(k - 1, at[k - 1]) \in Event
    <3>1. k - 1 \in PlayerId BY PlayersCountType DEF PlayerId
    <3>. QED BY <3>1, EventTypes
  <2>. QED BY <2>1, PlayersCountType
<1>2. placed \in Seq(Event)
  <2>1. ASSUME NEW k \in 1 .. InitialBlocks PROVE BlockPlaced(b[k]) \in Event
    BY EventTypes
  <2>. QED BY <2>1, ServerAssumption
<1>. HIDE DEF spawned, placed
<1>3. spawned \o placed \in Seq(Event) BY <1>1, <1>2, ConcatProperties
<1>. QED BY <1>3 DEF spawned, placed

LEMMA StartGameType == ASSUME WireOK, ServerInv, StartGame PROVE WireOK' /\ ServerInv'
<1>. DEFINE MS == Seq(Message \cup Event)
<1>1. PICK at \in [PlayerId -> Cell], b \in [1 .. InitialBlocks -> Cell] :
         LET spawned == [k \in 1 .. PlayersCount |-> PlayerMoved(k - 1, at[k - 1])]
             placed  == [k \in 1 .. InitialBlocks |-> BlockPlaced(b[k])]
             list    == spawned \o placed
             msg     == <<Turn(0, Len(list))>> \o list
         IN  /\ positions' = at
             /\ blocks' = {b[k] : k \in 1 .. InitialBlocks}
             /\ Send(<<GameStarted(joined)>> \o msg)
             /\ log' = (IF connected THEN <<>> ELSE msg)
  BY DEF StartGame
<1>. DEFINE spawned == [k \in 1 .. PlayersCount |-> PlayerMoved(k - 1, at[k - 1])]
            placed  == [k \in 1 .. InitialBlocks |-> BlockPlaced(b[k])]
            list    == spawned \o placed
            msg     == <<Turn(0, Len(list))>> \o list
<1>4. list \in Seq(Event) BY TurnZeroType
<1>. HIDE DEF list
<1>5. msg \in MS BY <1>4, TurnMessageType
<1>6. <<GameStarted(joined)>> \in MS
  BY DEF GameStarted, Message, ServerInv, ServerOK
<1>7. <<GameStarted(joined)>> \o msg \in MS
  <2>. HIDE DEF msg
  <2>. QED BY <1>5, <1>6, ConcatProperties
<1>8. /\ positions' = at
      /\ blocks' = {b[k] : k \in 1 .. InitialBlocks}
      /\ Send(<<GameStarted(joined)>> \o msg)
      /\ log' = (IF connected THEN <<>> ELSE msg)
  BY <1>1 DEF list
<1>. HIDE DEF msg, MS
<1>9. down' \in MS BY <1>7, <1>8, SendType DEF MS
<1>10. log' \in MS BY <1>5, <1>8 DEF MS
<1>11. positions' \in MapOf(PlayerId, Cell) /\ DOMAIN positions' = PlayerId
  BY <1>8, MapOfMember
<1>12. blocks' \subseteq Cell BY <1>8
<1>13. /\ bombs' \in [DOMAIN bombs' -> Bomb] /\ DOMAIN bombs' \subseteq BombId
       /\ nextBomb' \in 0 .. MaxBombs
  BY GameAssumption DEF StartGame, EmptyMap
<1>14. deaths' \in [DOMAIN deaths' -> Nat] /\ DOMAIN deaths' \subseteq PlayerId
  BY DEF StartGame
<1>15. command' \in Requests BY DEF StartGame, NoCommand, Requests
<1>16. games < MaxGames
  <2>1. Cardinality(DOMAIN joined) # 0 BY PlayersCountType DEF StartGame, LobbyFull
  <2>2. DOMAIN joined # {} BY <2>1, FS_EmptySet
  <2>. QED BY <2>2 DEF ServerInv, Playing
<1>17. WireOK' BY <1>9 DEF StartGame, WireOK, MS
<1>. /\ stage' = "idle" /\ turn' = 0 /\ actor' = 0
     /\ due' = {} /\ hit' = {} /\ blast' = {} /\ events' = <<>>
     /\ UNCHANGED <<connected, joined, games, told, strayJoin>>
  BY DEF StartGame, historyVars
<1>18. ServerOK'
  BY <1>10, <1>11, <1>12, <1>13, <1>14, <1>15, PlayersCountType
  DEF ServerInv, ServerOK, MS
<1>19. Numbered' /\ Playing'
  BY <1>11, <1>16 DEF StartGame, ServerInv, Numbered, Playing
<1>. QED BY <1>17, <1>18, <1>19 DEF ServerInv

LEMMA WireUnchanged == ASSUME WireOK, UNCHANGED wireVars PROVE WireOK'
BY DEF WireOK, wireVars

LEMMA BombMap ==
    ASSUME ServerOK PROVE bombs \in MapOf(BombId, Bomb)
BY MapOfMember DEF ServerOK

LEMMA BeginTurnType == ASSUME WireOK, ServerInv, BeginTurn PROVE WireOK' /\ ServerInv'
<1>1. bombs' \in MapOf(BombId, Bomb) BY BombMap, AgedType DEF BeginTurn, ServerInv
<1>2. DOMAIN bombs' = DOMAIN bombs BY DEF BeginTurn, Aged
<1>3. due' \subseteq BombId BY <1>2 DEF BeginTurn, ServerInv, ServerOK
<1>4. bombs' \in [DOMAIN bombs' -> Bomb] /\ DOMAIN bombs' \subseteq BombId
  BY <1>1, MapOfMember
<1>5. WireOK' BY WireUnchanged DEF BeginTurn
<1>6. ServerOK'
  BY <1>3, <1>4, PlayersCountType DEF BeginTurn, ServerInv, ServerOK, historyVars
<1>7. Numbered' /\ Playing' BY DEF BeginTurn, ServerInv, Numbered, Playing
<1>. QED BY <1>5, <1>6, <1>7 DEF ServerInv

LEMMA ExplodeNextBombType ==
    ASSUME WireOK, ServerInv, ExplodeNextBomb PROVE WireOK' /\ ServerInv'
<1>1. PICK b \in due :
         LET cells  == BlastArea(bombs[b].pos, blocks)
             robots == {p \in DOMAIN positions : positions[p] \in cells}
         IN  /\ due' = due \ {b}
             /\ hit' = hit \cup robots
             /\ blast' = blast \cup cells
             /\ bombs' = Erase(bombs, {b})
             /\ events' = Append(events, BombExploded(b, robots, blocks \cap cells))
  BY DEF ExplodeNextBomb
<1>. DEFINE cells  == BlastArea(bombs[b].pos, blocks)
            robots == {p \in DOMAIN positions : positions[p] \in cells}
<1>2. cells \subseteq Cell BY BlastAreaType
<1>3. robots \subseteq PlayerId BY MapOfMember DEF ServerInv, ServerOK
<1>. HIDE DEF cells, robots
<1>4. BombExploded(b, robots, blocks \cap cells) \in Event
  BY <1>2, <1>3, EventTypes DEF ServerInv, ServerOK
<1>5. events' \in Seq(Event)
  BY <1>1, <1>4, AppendProperties DEF ServerInv, ServerOK, cells, robots
<1>6. bombs' \in MapOf(BombId, Bomb) BY <1>1, BombMap, EraseType DEF ServerInv
<1>7. bombs' \in [DOMAIN bombs' -> Bomb] /\ DOMAIN bombs' \subseteq BombId
  BY <1>6, MapOfMember
<1>8. due' \subseteq BombId /\ hit' \subseteq PlayerId /\ blast' \subseteq Cell
  BY <1>1, <1>2, <1>3 DEF ServerInv, ServerOK, cells, robots
<1>9. WireOK' BY WireUnchanged DEF ExplodeNextBomb
<1>10. ServerOK'
  BY <1>5, <1>7, <1>8 DEF ExplodeNextBomb, ServerInv, ServerOK, historyVars
<1>11. Numbered' /\ Playing' BY DEF ExplodeNextBomb, ServerInv, Numbered, Playing
<1>. QED BY <1>9, <1>10, <1>11 DEF ServerInv

LEMMA BombsDoneType == ASSUME WireOK, ServerInv, BombsDone PROVE WireOK' /\ ServerInv'
<1>1. deaths' \in [DOMAIN deaths' -> Nat] /\ DOMAIN deaths' \subseteq PlayerId
  BY DEF BombsDone, ServerInv, ServerOK
<1>2. WireOK' BY WireUnchanged DEF BombsDone
<1>3. ServerOK'
  BY <1>1 DEF BombsDone, ServerInv, ServerOK, turnVars, historyVars
<1>4. Numbered' /\ Playing' BY DEF BombsDone, ServerInv, Numbered, Playing
<1>. QED BY <1>2, <1>3, <1>4 DEF ServerInv

LEMMA MyTurnType ==
    ASSUME WireOK, ServerInv, NEW moved \in Cell, NEW event \in Seq(Event),
           MyTurn(moved, event),
           blocks' \subseteq Cell, bombs' \in MapOf(BombId, Bomb),
           nextBomb' \in 0 .. MaxBombs
    PROVE  WireOK' /\ ServerInv'
<1>1. positions' \in MapOf(PlayerId, Cell) /\ DOMAIN positions' = DOMAIN positions
  <2>1. positions \in [DOMAIN positions -> Cell] /\ DOMAIN positions \subseteq PlayerId
    BY MapOfMember DEF ServerInv, ServerOK
  <2>2. positions' \in [DOMAIN positions -> Cell] BY <2>1 DEF MyTurn
  <2>. QED BY <2>1, <2>2, MapOfMember
<1>2. events' \in Seq(Event)
  BY ConcatProperties DEF MyTurn, ServerInv, ServerOK
<1>3. actor' \in 0 .. PlayersCount
  BY PlayersCountType DEF MyTurn, ServerInv, ServerOK
<1>4. bombs' \in [DOMAIN bombs' -> Bomb] /\ DOMAIN bombs' \subseteq BombId
  BY MapOfMember
<1>5. WireOK' BY WireUnchanged DEF MyTurn
<1>6. ServerOK'
  BY <1>1, <1>2, <1>3, <1>4 DEF MyTurn, ServerInv, ServerOK, historyVars
<1>7. Numbered' /\ Playing' BY <1>1 DEF MyTurn, ServerInv, Numbered, Playing
<1>. QED BY <1>5, <1>6, <1>7 DEF ServerInv

\* The acting robot is on the board: this is what Playing is for.
LEMMA ActorPosition ==
    ASSUME ServerInv, stage = "players", actor < PlayersCount
    PROVE  actor \in PlayerId /\ positions[actor] \in Cell
<1>1. actor \in PlayerId BY PlayersCountType DEF ServerInv, ServerOK, PlayerId
<1>2. positions \in [PlayerId -> Cell]
  BY MapOfMember DEF ServerInv, ServerOK, Playing
<1>. QED BY <1>1, <1>2

LEMMA RespawnType == ASSUME WireOK, ServerInv, Respawn PROVE WireOK' /\ ServerInv'
<1>1. PICK c \in Cell : MyTurn(c, <<PlayerMoved(actor, c)>>) BY DEF Respawn
<1>2. actor \in PlayerId BY <1>1, ActorPosition DEF MyTurn
<1>3. <<PlayerMoved(actor, c)>> \in Seq(Event) BY <1>2, EventTypes
<1>4. /\ blocks' \subseteq Cell
      /\ bombs' \in MapOf(BombId, Bomb)
      /\ nextBomb' \in 0 .. MaxBombs
  BY BombMap DEF Respawn, ServerInv, ServerOK
<1>. QED BY <1>1, <1>3, <1>4, MyTurnType

LEMMA ActType == ASSUME WireOK, ServerInv, Act PROVE WireOK' /\ ServerInv'
<1>1. PICK m \in Commands : Rests(m) \/ PlacesBomb(m) \/ PlacesBlock(m) \/ Moves(m)
  BY DEF Act
<1>2. actor \in PlayerId /\ positions[actor] \in Cell BY ActorPosition DEF Act
<1>3. /\ blocks \subseteq Cell
      /\ bombs \in MapOf(BombId, Bomb)
      /\ nextBomb \in 0 .. MaxBombs
  BY BombMap DEF ServerInv, ServerOK
<1>4. CASE Rests(m)
  <2>1. <<>> \in Seq(Event) OBVIOUS
  <2>. QED BY <1>2, <1>3, <1>4, <2>1, MyTurnType DEF Rests
<1>5. CASE PlacesBomb(m)
  <2>1. nextBomb \in BombId /\ nextBomb' \in 0 .. MaxBombs
    BY <1>3, <1>5, GameAssumption DEF PlacesBomb, BombId
  <2>2. [pos |-> positions[actor], timer |-> BombTimer] \in Bomb
    BY <1>2, GameAssumption DEF Bomb, Timer
  <2>3. bombs' \in MapOf(BombId, Bomb)
    BY <1>3, <1>5, <2>1, <2>2, PutType DEF PlacesBomb
  <2>4. <<BombPlaced(nextBomb, positions[actor])>> \in Seq(Event)
    BY <1>2, <2>1, EventTypes
  <2>5. blocks' \subseteq Cell BY <1>3, <1>5 DEF PlacesBomb
  <2>. QED BY <1>2, <1>5, <2>1, <2>3, <2>4, <2>5, MyTurnType DEF PlacesBomb
<1>6. CASE PlacesBlock(m)
  <2>1. <<BlockPlaced(positions[actor])>> \in Seq(Event) BY <1>2, EventTypes
  <2>2. blocks' \subseteq Cell BY <1>2, <1>3, <1>6 DEF PlacesBlock
  <2>. QED BY <1>2, <1>3, <1>6, <2>1, <2>2, MyTurnType DEF PlacesBlock
<1>7. CASE Moves(m)
  <2>. DEFINE c == Target(positions[actor], m.dir)
  <2>1. c \in Cell BY <1>7 DEF Moves
  <2>. HIDE DEF c
  <2>2. <<PlayerMoved(actor, c)>> \in Seq(Event) BY <1>2, <2>1, EventTypes
  <2>3. MyTurn(c, <<PlayerMoved(actor, c)>>) /\ UNCHANGED <<blocks, bombs, nextBomb>>
    BY <1>7 DEF Moves, c
  <2>. QED BY <1>3, <2>1, <2>2, <2>3, MyTurnType
<1>. QED BY <1>1, <1>4, <1>5, <1>6, <1>7

LEMMA EndTurnType == ASSUME WireOK, ServerInv, EndTurn PROVE WireOK' /\ ServerInv'
<1>. DEFINE msg == <<Turn(turn + 1, Len(events))>> \o events
<1>1. turn + 1 \in Nat /\ events \in Seq(Event) BY DEF ServerInv, ServerOK
<1>2. msg \in Seq(Message \cup Event) BY <1>1, TurnMessageType
<1>3. Send(msg) /\ log' = (IF connected THEN log ELSE log \o msg)
  BY DEF EndTurn, SendTurn
<1>. HIDE DEF msg
<1>4. down' \in Seq(Message \cup Event) BY <1>2, <1>3, SendType
<1>5. log' \in Seq(Message \cup Event)
  BY <1>2, <1>3, ConcatProperties DEF ServerInv, ServerOK
<1>6. command' \in Requests BY DEF EndTurn, NoCommand, Requests
<1>7. WireOK' BY <1>4 DEF EndTurn, WireOK
<1>8. ServerOK'
  BY <1>1, <1>5, <1>6 DEF EndTurn, ServerInv, ServerOK, turnVars, historyVars
<1>9. Numbered' /\ Playing' BY DEF EndTurn, ServerInv, Numbered, Playing
<1>. QED BY <1>7, <1>8, <1>9 DEF ServerInv

LEMMA EndGameType == ASSUME WireOK, ServerInv, EndGame PROVE WireOK' /\ ServerInv'
<1>1. <<GameEnded>> \in Seq(Message \cup Event) BY DEF Message
<1>2. down' \in Seq(Message \cup Event) BY <1>1, SendType DEF EndGame
<1>3. joined' \in MapOf(PlayerId, Player) /\ DOMAIN joined' = {}
  BY EmptyMapType DEF EndGame, EmptyMap
<1>4. games' \in 0 .. MaxGames
  BY ServerAssumption DEF EndGame, ServerInv, ServerOK, Playing
<1>5. told' \in Nat BY DEF EndGame, ServerInv, ServerOK
<1>6. log' \in Seq(Message \cup Event) /\ command' \in Requests
  BY DEF EndGame, NoCommand, Requests
<1>7. WireOK' BY <1>2 DEF EndGame, WireOK
<1>8. ServerOK'
  BY <1>3, <1>4, <1>5, <1>6 DEF EndGame, ServerInv, ServerOK, boardVars, turnVars
<1>9. Numbered'
  <2>1. DOMAIN joined' = 0 .. 0 - 1 BY <1>3
  <2>. QED BY <2>1, PlayersCountType DEF Numbered
<1>10. Playing' BY <1>3 DEF EndGame, Playing
<1>. QED BY <1>7, <1>8, <1>9, <1>10 DEF ServerInv

LEMMA CutType ==
    ASSUME WireOK, ServerInv, NEW how \in Link, StreamEnds(how)
    PROVE  WireOK' /\ ServerInv'
<1>1. PICK k \in 0 .. Len(down) : down' = SubSeq(down, 1, k) BY DEF StreamEnds
<1>2. down \in Seq(Message \cup Event) BY DEF WireOK
<1>3. \A i \in 1 .. k : down[i] \in Message \cup Event BY <1>1, <1>2
<1>4. down' \in Seq(Message \cup Event) BY <1>1, <1>2, <1>3, SubSeqProperties
<1>. QED BY <1>4, ServerUnchanged DEF StreamEnds, WireOK

-----------------------------------------------------------------------------
(* The theorem.                                                            *)

LEMMA TypeInit == Init => IInv
<1>. SUFFICES ASSUME Init PROVE IInv OBVIOUS
<1>1. WireOK BY DEF Init, WireOK, Link
<1>2. ClientOK
  <2>1. GameOK(game) BY NewGameType, GameTypeOK DEF Init, ClientInit
  <2>2. 0 \in 0 .. MaxInputs BY ClientAssumption
  <2>3. Request(0, 0, 0) \in Requests BY DEF Request, Requests
  <2>. QED BY <2>1, <2>2, <2>3 DEF Init, ClientInit, ClientOK, Proc
<1>3. EmptyMap \in MapOf(PlayerId, Player) /\ EmptyMap \in MapOf(PlayerId, Cell)
      /\ EmptyMap \in [DOMAIN EmptyMap -> Bomb] /\ EmptyMap \in [DOMAIN EmptyMap -> Nat]
      /\ DOMAIN EmptyMap = {}
  BY EmptyMapType DEF EmptyMap
<1>. /\ joined = EmptyMap /\ positions = EmptyMap /\ bombs = EmptyMap /\ deaths = EmptyMap
     /\ stage = "lobby" /\ connected = FALSE /\ games = 0 /\ turn = 0 /\ nextBomb = 0
     /\ blocks = {} /\ due = {} /\ hit = {} /\ blast = {} /\ actor = 0
     /\ events = <<>> /\ log = <<>> /\ command = NoCommand /\ told = 0 /\ strayJoin = FALSE
  BY DEF Init, ServerInit
<1>4. ServerOK
  <2>1. 0 \in 0 .. MaxGames /\ 0 \in 0 .. MaxBombs /\ 0 \in 0 .. PlayersCount
    BY GameAssumption, ServerAssumption
  <2>2. NoCommand \in Requests BY DEF NoCommand, Requests
  <2>3. <<>> \in Seq(Event) /\ <<>> \in Seq(Message \cup Event) OBVIOUS
  <2>. QED BY <1>3, <2>1, <2>2, <2>3 DEF ServerOK
<1>5. Numbered
  <2>1. DOMAIN joined = 0 .. 0 - 1 BY <1>3
  <2>. QED BY <2>1, PlayersCountType DEF Numbered
<1>6. Playing BY <1>3 DEF Playing
<1>. QED BY <1>1, <1>2, <1>4, <1>5, <1>6 DEF IInv, ServerInv

LEMMA ClientUnchanged == ASSUME ClientOK, UNCHANGED clientVars PROVE ClientOK'
BY DEF ClientOK, clientVars, gameVars, inputVars

LEMMA TypeNext == IInv /\ [Next]_vars => IInv'
<1>. SUFFICES ASSUME IInv, [Next]_vars PROVE IInv' OBVIOUS
<1>. WireOK /\ ClientOK /\ ServerInv BY DEF IInv
<1>1. CASE S
  BY <1>1, ThreadSType, ServerUnchanged DEF S, IInv
<1>2. CASE Input \/ G
  BY <1>2, ThreadGType, ServerUnchanged DEF Input, G, ThreadG, IInv
<1>3. CASE ServerRuns
  <2>1. WireOK' /\ ServerInv'
    BY <1>3, StartGameType, BeginTurnType, ExplodeNextBombType, BombsDoneType,
       RespawnType, ActType, EndTurnType, EndGameType,
       AcceptJoinType, AcceptCommandType, IgnoreRequestType
    DEF ServerRuns, ServerStep
  <2>. QED BY <1>3, <2>1, ClientUnchanged DEF ServerRuns, IInv
<1>4. CASE (OtherJoins \/ Connect) /\ UNCHANGED clientVars
  BY <1>4, OtherJoinsType, ConnectType, ClientUnchanged DEF IInv
<1>5. CASE GuiCloses /\ UNCHANGED serverVars
  <2>1. WireOK' /\ ClientOK'
    BY <1>5 DEF GuiCloses, WireOK, ClientOK, wireVars, gameVars, inputVars
  <2>. QED BY <1>5, <2>1, ServerUnchanged DEF IInv
<1>6. CASE (CloseConnection \/ BreakConnection) /\ UNCHANGED clientVars
  BY <1>6, CutType, ClientUnchanged DEF IInv, CloseConnection, BreakConnection, Link
<1>7. CASE UNCHANGED vars
  BY <1>7, WireUnchanged, ClientUnchanged, ServerUnchanged DEF vars, IInv
<1>. QED
  BY <1>1, <1>2, <1>3, <1>4, <1>5, <1>6, <1>7 DEF Next, Environment, Failure

\* Every variable of the client, the streams and the server has its type in
\* every state, for all boards, numbers of players, bombs, games and inputs.
THEOREM TypeCorrectness == Spec => []TypeOK
<1>1. IInv => TypeOK BY DEF IInv, ServerInv, TypeOK
<1>. QED BY TypeInit, TypeNext, <1>1, PTL DEF Spec

-----------------------------------------------------------------------------
(* The flag.                                                               *)

\* The two messages that change the flag.
Signal(m) == m.t \in {"started", "ended"}

Quiet(s) == \A i \in 1 .. Len(s) : ~ Signal(s[i])

\* The last signal in s says whether a game is on.
Proclaims(s, on) == \E i \in 1 .. Len(s) : /\ Signal(s[i])
                                           /\ s[i].t = "started" <=> on
                                           /\ \A j \in i + 1 .. Len(s) : ~ Signal(s[j])

\* What the flag will be when s has been read.
WillBe(s, flag, on) == (Quiet(s) /\ (flag <=> on)) \/ Proclaims(s, on)

FlagInv == /\ ~ connected => down = <<>> /\ ~ is_game_started
           /\ connected /\ link = "up" /\ proc = "running" =>
                  WillBe(down, is_game_started, stage # "lobby")
           /\ Quiet(log)

-----------------------------------------------------------------------------
(* Signals in sequences.                                                   *)

LEMMA QuietConcat ==
    ASSUME NEW T, NEW s \in Seq(T), NEW m \in Seq(T), Quiet(s), Quiet(m)
    PROVE  Quiet(s \o m)
BY ConcatProperties DEF Quiet

LEMMA ProclaimsConcatQuiet ==
    ASSUME NEW T, NEW s \in Seq(T), NEW m \in Seq(T), NEW on,
           Proclaims(s, on), Quiet(m)
    PROVE  Proclaims(s \o m, on)
<1>1. PICK i \in 1 .. Len(s) : /\ Signal(s[i])
                               /\ s[i].t = "started" <=> on
                               /\ \A j \in i + 1 .. Len(s) : ~ Signal(s[j])
  BY DEF Proclaims
<1>2. /\ i \in 1 .. Len(s \o m) /\ (s \o m)[i] = s[i]
      /\ \A j \in i + 1 .. Len(s \o m) : ~ Signal((s \o m)[j])
  BY <1>1, ConcatProperties DEF Quiet
<1>. QED BY <1>1, <1>2 DEF Proclaims

LEMMA WillBeConcatQuiet ==
    ASSUME NEW T, NEW s \in Seq(T), NEW m \in Seq(T), NEW flag, NEW on,
           WillBe(s, flag, on), Quiet(m)
    PROVE  WillBe(s \o m, flag, on)
BY QuietConcat, ProclaimsConcatQuiet DEF WillBe

LEMMA ProclaimsConcat ==
    ASSUME NEW T, NEW s \in Seq(T), NEW m \in Seq(T), NEW on, Proclaims(m, on)
    PROVE  Proclaims(s \o m, on)
<1>1. PICK i \in 1 .. Len(m) : /\ Signal(m[i])
                               /\ m[i].t = "started" <=> on
                               /\ \A j \in i + 1 .. Len(m) : ~ Signal(m[j])
  BY DEF Proclaims
<1>. DEFINE k == Len(s) + i
<1>2. /\ k \in 1 .. Len(s \o m) /\ (s \o m)[k] = m[i]
      /\ \A j \in k + 1 .. Len(s \o m) : ~ Signal((s \o m)[j])
  BY <1>1, ConcatProperties
<1>. QED BY <1>1, <1>2 DEF Proclaims

\* Reading takes the first element away and obeys it.
LEMMA WillBeTail ==
    ASSUME NEW T, NEW s \in Seq(T), s # <<>>, NEW flag, NEW next, NEW on,
           WillBe(s, flag, on),
           next <=> IF Signal(Head(s)) THEN Head(s).t = "started" ELSE flag
    PROVE  WillBe(Tail(s), next, on)
<1>1. /\ Len(s) \in Nat \ {0} /\ Len(Tail(s)) = Len(s) - 1 /\ Head(s) = s[1]
      /\ \A j \in 1 .. Len(Tail(s)) : Tail(s)[j] = s[j + 1]
  BY HeadTailProperties
<1>2. CASE Quiet(s) /\ (flag <=> on)
  <2>1. Quiet(Tail(s)) BY <1>1, <1>2 DEF Quiet
  <2>2. ~ Signal(Head(s)) BY <1>1, <1>2 DEF Quiet
  <2>. QED BY <1>2, <2>1, <2>2 DEF WillBe
<1>3. CASE Proclaims(s, on)
  <2>1. PICK i \in 1 .. Len(s) : /\ Signal(s[i])
                                 /\ s[i].t = "started" <=> on
                                 /\ \A j \in i + 1 .. Len(s) : ~ Signal(s[j])
    BY <1>3 DEF Proclaims
  <2>2. CASE i = 1
    <3>1. Quiet(Tail(s)) BY <1>1, <2>1, <2>2 DEF Quiet
    <3>2. next <=> on BY <1>1, <2>1, <2>2
    <3>. QED BY <3>1, <3>2 DEF WillBe
  <2>3. CASE i # 1
    <3>1. /\ i - 1 \in 1 .. Len(Tail(s)) /\ Tail(s)[i - 1] = s[i]
          /\ \A j \in i .. Len(Tail(s)) : ~ Signal(Tail(s)[j])
      BY <1>1, <2>1, <2>3
    <3>2. (i - 1) + 1 = i BY <2>1
    <3>3. Proclaims(Tail(s), on) BY <2>1, <3>1, <3>2 DEF Proclaims
    <3>. QED BY <3>3 DEF WillBe
  <2>. QED BY <2>2, <2>3
<1>. QED BY <1>2, <1>3 DEF WillBe

-----------------------------------------------------------------------------
(* The steps of the client.                                                *)

LEMMA FlagServerUnchanged ==
    ASSUME UNCHANGED serverVars
    PROVE  UNCHANGED <<stage, connected, log>>
BY DEF serverVars

\* S reads one element: it obeys a signal, or the process ends.
LEMMA FlagRead ==
    ASSUME WireOK, FlagInv, connected, proc = "running", down # <<>>,
           down' = Tail(down), UNCHANGED <<up, link>>, UNCHANGED serverVars,
           proc' = "running" =>
               (is_game_started' <=> IF Signal(Head(down)) THEN Head(down).t = "started"
                                                           ELSE is_game_started)
    PROVE  FlagInv'
<1>. UNCHANGED <<stage, connected, log>> BY FlagServerUnchanged
<1>1. ASSUME link' = "up", proc' = "running"
      PROVE  WillBe(down', is_game_started', stage # "lobby")
  <2>1. WillBe(down, is_game_started, stage # "lobby") BY <1>1 DEF FlagInv
  <2>2. down \in Seq(Message \cup Event) BY DEF WireOK
  <2>. QED BY <1>1, <2>1, <2>2, WillBeTail
<1>. QED BY <1>1 DEF FlagInv, Quiet

LEMMA FlagKept ==
    ASSUME FlagInv, UNCHANGED <<down, link, is_game_started, stage, connected, log>>,
           proc' = "running" => proc = "running"
    PROVE  FlagInv'
BY DEF FlagInv, Quiet

LEMMA FlagS == ASSUME IInv, FlagInv, S PROVE FlagInv'
<1>. WireOK /\ connected /\ UNCHANGED serverVars BY DEF IInv, S
<1>1. UNCHANGED <<stage, connected, log>> BY FlagServerUnchanged
<1>2. CASE ReadEmptyString
  BY <1>2, FlagRead DEF ReadEmptyString, Read, Die
<1>3. CASE HandleHello \/ HandleAcceptedPlayer \/ BeginTurnMsg
  BY <1>3, FlagRead DEF HandleHello, HandleAcceptedPlayer, BeginTurnMsg, Read, Signal
<1>4. CASE HandleGameStarted
  BY <1>4, FlagRead DEF HandleGameStarted, Read, Signal
<1>5. CASE HandleGameEnded
  BY <1>5, FlagRead DEF HandleGameEnded, Read, Signal
<1>6. CASE HandleBombPlaced \/ HandleBombExploded \/ HandlePlayerMoved \/ HandleBlockPlaced
  BY <1>6, FlagRead
  DEF HandleBombPlaced, HandleBombExploded, HandlePlayerMoved, HandleBlockPlaced,
      ReadEvent, Signal
<1>7. CASE FinishTurnMsg
  BY <1>1, <1>7, FlagKept DEF FinishTurnMsg, wireVars
<1>8. CASE ServerGone
  BY <1>1, <1>8, FlagKept DEF ServerGone, Die, wireVars, gameVars
<1>. QED
  BY <1>2, <1>3, <1>4, <1>5, <1>6, <1>7, <1>8 DEF S, ThreadS

LEMMA FlagG == ASSUME FlagInv, Input \/ G PROVE FlagInv'
<1>1. UNCHANGED <<stage, connected, log>> BY FlagServerUnchanged DEF Input, G
<1>2. CASE ReceiveInput \/ ParseInput
  BY <1>1, <1>2, FlagKept DEF ReceiveInput, ParseInput, wireVars, gameVars
<1>3. CASE SendRequest
  \* Only a connection that is no longer up changes its state.
  <2>1. link' = "up" => link = "up" BY <1>3 DEF SendRequest
  <2>2. UNCHANGED <<down, is_game_started>> /\ proc = "running"
    BY <1>3 DEF SendRequest, gameVars
  <2>. QED BY <1>1, <2>1, <2>2 DEF FlagInv, Quiet
<1>. QED BY <1>2, <1>3 DEF Input, G

-----------------------------------------------------------------------------
(* The steps of the server.                                                *)

\* Messages without a signal.
LEMMA FlagSendQuiet ==
    ASSUME WireOK, FlagInv, UNCHANGED clientVars, NEW m \in Seq(Message \cup Event),
           Quiet(m), Send(m), UNCHANGED <<connected, link>>,
           stage # "lobby" <=> stage' # "lobby", Quiet(log')
    PROVE  FlagInv'
<1>. UNCHANGED <<is_game_started, proc>> BY DEF clientVars, gameVars
<1>1. CASE ~ connected BY <1>1 DEF FlagInv, Send
<1>2. CASE connected
  <2>1. down' = down \o m BY <1>2 DEF Send
  <2>2. down \in Seq(Message \cup Event) BY DEF WireOK
  <2>3. ASSUME link' = "up", proc' = "running"
        PROVE  WillBe(down', is_game_started', stage' # "lobby")
    <3>1. WillBe(down, is_game_started, stage # "lobby") BY <1>2, <2>3 DEF FlagInv
    <3>2. WillBe(down \o m, is_game_started, stage # "lobby")
      BY <2>2, <3>1, WillBeConcatQuiet
    <3>. QED BY <2>1, <3>2
  <2>. QED BY <1>2, <2>3 DEF FlagInv
<1>. QED BY <1>1, <1>2

\* Messages with the signal for the new stage.
LEMMA FlagSendSignal ==
    ASSUME WireOK, FlagInv, UNCHANGED clientVars, NEW m \in Seq(Message \cup Event),
           Proclaims(m, stage' # "lobby"), Send(m), UNCHANGED <<connected, link>>,
           Quiet(log')
    PROVE  FlagInv'
<1>. UNCHANGED <<is_game_started, proc>> BY DEF clientVars, gameVars
<1>1. CASE ~ connected BY <1>1 DEF FlagInv, Send
<1>2. CASE connected
  <2>1. down' = down \o m BY <1>2 DEF Send
  <2>2. down \in Seq(Message \cup Event) BY DEF WireOK
  <2>3. Proclaims(down \o m, stage' # "lobby") BY <2>2, ProclaimsConcat
  <2>. QED BY <1>2, <2>1, <2>3 DEF FlagInv, WillBe
<1>. QED BY <1>1, <1>2

\* The server neither sends nor leaves or enters the lobby.
LEMMA FlagServerKeeps ==
    ASSUME FlagInv, UNCHANGED clientVars, UNCHANGED <<down, link, connected, log>>,
           stage # "lobby" <=> stage' # "lobby"
    PROVE  FlagInv'
BY DEF FlagInv, Quiet, clientVars, gameVars

\* An event is never mistaken for a signal.
LEMMA TurnQuiet ==
    ASSUME NEW k \in Nat, NEW list \in Seq(Event)
    PROVE  Quiet(<<Turn(k, Len(list))>> \o list)
<1>1. \A i \in 1 .. Len(list) : ~ Signal(list[i])
  <2>1. \A e \in Event : ~ Signal(e) BY DEF Event, Signal
  <2>. QED BY <2>1
<1>2. list \in Seq(Message \cup Event) /\ <<Turn(k, Len(list))>> \in Seq(Message \cup Event)
  <2>1. Turn(k, Len(list)) \in Message BY DEF Turn, Message
  <2>. QED BY <2>1
<1>3. Quiet(<<Turn(k, Len(list))>>) BY DEF Quiet, Signal, Turn
<1>. QED BY <1>1, <1>2, <1>3, QuietConcat DEF Quiet

LEMMA FlagAdmit ==
    ASSUME IInv, FlagInv, NEW who \in Player, ~ LobbyFull, Admit(who),
           UNCHANGED clientVars, UNCHANGED <<connected, link, stage, log>>
    PROVE  FlagInv'
<1>. DEFINE p == Cardinality(DOMAIN joined)
<1>1. p \in PlayerId
  BY LobbyCount, PlayersCountType DEF LobbyFull, IInv, ServerInv, PlayerId
<1>. HIDE DEF p
<1>2. <<AcceptedPlayer(p, who)>> \in Seq(Message \cup Event) BY <1>1, AcceptedPlayerType
<1>3. Quiet(<<AcceptedPlayer(p, who)>>) BY DEF Quiet, Signal, AcceptedPlayer
<1>4. Send(<<AcceptedPlayer(p, who)>>) BY DEF Admit, p
<1>5. WireOK /\ Quiet(log') BY DEF IInv, FlagInv, Quiet
<1>. QED BY <1>2, <1>3, <1>4, <1>5, FlagSendQuiet

LEMMA FlagConnect == ASSUME IInv, FlagInv, Connect, UNCHANGED clientVars PROVE FlagInv'
<1>. DEFINE MS == Seq(Message \cup Event)
<1>. WireOK /\ ServerOK /\ Numbered BY DEF IInv, ServerInv
<1>. UNCHANGED <<is_game_started, proc>> BY DEF clientVars, gameVars
<1>1. <<Hello>> \in MS /\ Quiet(<<Hello>>) BY DEF Message, Quiet, Signal, Hello
<1>2. ~ is_game_started /\ connected' /\ stage' = stage /\ Quiet(log')
  BY DEF Connect, FlagInv, Quiet
<1>3. CASE stage = "lobby"
  <2>1. Roster \in MS BY RosterType
  <2>2. Quiet(Roster)
    <3>1. Cardinality(DOMAIN joined) \in Nat BY LobbyCount, PlayersCountType
    <3>. QED BY <3>1 DEF Roster, Quiet, Signal, AcceptedPlayer
  <2>3. Quiet(<<Hello>> \o Roster) BY <1>1, <2>1, <2>2, QuietConcat
  <2>4. down' = <<Hello>> \o Roster BY <1>3 DEF Connect
  <2>. QED BY <1>2, <1>3, <2>3, <2>4 DEF FlagInv, WillBe
<1>4. CASE stage # "lobby"
  <2>1. <<GameStarted(joined)>> \in MS BY DEF GameStarted, Message, ServerOK
  <2>2. Proclaims(<<GameStarted(joined)>>, TRUE) BY DEF Proclaims, Signal, GameStarted
  <2>3. log \in MS /\ Quiet(log) BY DEF ServerOK, FlagInv
  <2>4. Proclaims(<<GameStarted(joined)>> \o log, TRUE)
    BY <2>1, <2>2, <2>3, ProclaimsConcatQuiet
  <2>5. <<GameStarted(joined)>> \o log \in MS BY <2>1, <2>3, ConcatProperties
  <2>6. Proclaims(<<Hello>> \o (<<GameStarted(joined)>> \o log), TRUE)
    BY <1>1, <2>4, <2>5, ProclaimsConcat
  <2>7. down' = <<Hello>> \o (<<GameStarted(joined)>> \o log) BY <1>4 DEF Connect
  <2>. QED BY <1>2, <1>4, <2>6, <2>7 DEF FlagInv, WillBe, Proclaims
<1>. QED BY <1>3, <1>4

LEMMA FlagStartGame ==
    ASSUME IInv, FlagInv, StartGame, UNCHANGED clientVars PROVE FlagInv'
<1>. DEFINE MS == Seq(Message \cup Event)
<1>. WireOK /\ ServerOK BY DEF IInv, ServerInv
<1>1. PICK at \in [PlayerId -> Cell], b \in [1 .. InitialBlocks -> Cell] :
         LET spawned == [k \in 1 .. PlayersCount |-> PlayerMoved(k - 1, at[k - 1])]
             placed  == [k \in 1 .. InitialBlocks |-> BlockPlaced(b[k])]
             list    == spawned \o placed
             msg     == <<Turn(0, Len(list))>> \o list
         IN  /\ Send(<<GameStarted(joined)>> \o msg)
             /\ log' = (IF connected THEN <<>> ELSE msg)
  BY DEF StartGame
<1>. DEFINE list == [k \in 1 .. PlayersCount |-> PlayerMoved(k - 1, at[k - 1])]
                        \o [k \in 1 .. InitialBlocks |-> BlockPlaced(b[k])]
            msg  == <<Turn(0, Len(list))>> \o list
<1>2. list \in Seq(Event) BY TurnZeroType
<1>3. Send(<<GameStarted(joined)>> \o msg) /\ log' = (IF connected THEN <<>> ELSE msg)
  BY <1>1
<1>. HIDE DEF list
<1>4. msg \in MS /\ Quiet(msg) BY <1>2, TurnMessageType, TurnQuiet
<1>. HIDE DEF msg
<1>5. <<GameStarted(joined)>> \in MS BY DEF GameStarted, Message, ServerOK
<1>6. Proclaims(<<GameStarted(joined)>>, TRUE) BY DEF Proclaims, Signal, GameStarted
<1>7. Proclaims(<<GameStarted(joined)>> \o msg, TRUE)
  BY <1>4, <1>5, <1>6, ProclaimsConcatQuiet
<1>8. <<GameStarted(joined)>> \o msg \in MS BY <1>4, <1>5, ConcatProperties
<1>9. Quiet(log') BY <1>3, <1>4 DEF Quiet
<1>10. stage' # "lobby" /\ UNCHANGED <<connected, link>> BY DEF StartGame
<1>11. Proclaims(<<GameStarted(joined)>> \o msg, stage' # "lobby")
  BY <1>7, <1>10 DEF Proclaims
<1>. HIDE DEF MS
<1>. QED BY <1>3, <1>8, <1>9, <1>10, <1>11, FlagSendSignal DEF MS

LEMMA FlagEndTurn == ASSUME IInv, FlagInv, EndTurn, UNCHANGED clientVars PROVE FlagInv'
<1>. DEFINE msg == <<Turn(turn + 1, Len(events))>> \o events
<1>. WireOK /\ ServerOK BY DEF IInv, ServerInv
<1>1. turn + 1 \in Nat /\ events \in Seq(Event) BY DEF ServerOK
<1>2. msg \in Seq(Message \cup Event) /\ Quiet(msg) BY <1>1, TurnMessageType, TurnQuiet
<1>3. Send(msg) /\ log' = (IF connected THEN log ELSE log \o msg)
  BY DEF EndTurn, SendTurn
<1>. HIDE DEF msg
<1>4. log \in Seq(Message \cup Event) /\ Quiet(log) BY DEF ServerOK, FlagInv
<1>5. Quiet(log') BY <1>2, <1>3, <1>4, QuietConcat
<1>6. stage # "lobby" /\ stage' # "lobby" /\ UNCHANGED <<connected, link>> BY DEF EndTurn
<1>. QED BY <1>2, <1>3, <1>5, <1>6, FlagSendQuiet

LEMMA FlagEndGame == ASSUME IInv, FlagInv, EndGame, UNCHANGED clientVars PROVE FlagInv'
<1>1. <<GameEnded>> \in Seq(Message \cup Event) BY DEF Message
<1>2. stage' = "lobby" /\ Send(<<GameEnded>>) /\ UNCHANGED <<connected, link>>
      /\ Quiet(log')
  BY DEF EndGame, Quiet
<1>3. Proclaims(<<GameEnded>>, stage' # "lobby")
  BY <1>2 DEF Proclaims, Signal, GameEnded
<1>4. WireOK BY DEF IInv
<1>. QED BY <1>1, <1>2, <1>3, <1>4, FlagSendSignal

LEMMA FlagServerRuns == ASSUME IInv, FlagInv, ServerRuns PROVE FlagInv'
<1>. UNCHANGED clientVars BY DEF ServerRuns
<1>1. CASE BeginTurn \/ ExplodeNextBomb \/ BombsDone
  BY <1>1, FlagServerKeeps DEF BeginTurn, ExplodeNextBomb, BombsDone, wireVars
<1>2. CASE Respawn \/ Act
  <2>1. UNCHANGED <<wireVars, stage, connected, log>>
    BY <1>2 DEF Respawn, Act, Rests, PlacesBomb, PlacesBlock, Moves, MyTurn
  <2>. QED BY <2>1, FlagServerKeeps DEF wireVars
<1>3. CASE AcceptJoin
  BY <1>3, FlagAdmit DEF AcceptJoin, Player
<1>4. CASE AcceptCommand \/ IgnoreRequest
  BY <1>4, FlagServerKeeps DEF AcceptCommand, IgnoreRequest, serverVars
<1>. QED
  BY <1>1, <1>2, <1>3, <1>4, FlagStartGame, FlagEndTurn, FlagEndGame
  DEF ServerRuns, ServerStep

-----------------------------------------------------------------------------
(* The theorem.                                                            *)

LEMMA FlagInit == Init => FlagInv
BY DEF Init, ClientInit, ServerInit, FlagInv, Quiet

LEMMA FlagNext == IInv /\ FlagInv /\ [Next]_vars => FlagInv'
<1>. SUFFICES ASSUME IInv, FlagInv, [Next]_vars PROVE FlagInv' OBVIOUS
<1>1. CASE S BY <1>1, FlagS
<1>2. CASE Input \/ G BY <1>2, FlagG
<1>3. CASE ServerRuns BY <1>3, FlagServerRuns
<1>4. CASE OtherJoins /\ UNCHANGED clientVars
  <2>1. UNCHANGED <<connected, link, stage, log>> BY <1>4 DEF OtherJoins
  <2>. QED BY <1>4, <2>1, FlagAdmit, SomebodyJoins
<1>5. CASE Connect /\ UNCHANGED clientVars BY <1>5, FlagConnect
<1>6. CASE GuiCloses /\ UNCHANGED serverVars
  BY <1>6, FlagKept DEF GuiCloses, serverVars, wireVars, gameVars
<1>7. CASE (CloseConnection \/ BreakConnection) /\ UNCHANGED clientVars
  BY <1>7 DEF CloseConnection, BreakConnection, StreamEnds, FlagInv, Quiet, serverVars,
              clientVars, gameVars
<1>8. CASE UNCHANGED vars
  BY <1>8, FlagKept DEF vars, wireVars, clientVars, gameVars, serverVars
<1>. QED
  BY <1>1, <1>2, <1>3, <1>4, <1>5, <1>6, <1>7, <1>8 DEF Next, Environment, Failure

\* Whenever S has read everything the server sent, client and server agree
\* whether a game is on, for every number of players, games and turns, however
\* late the client connects and whichever thread or connection fails.
THEOREM FlagCorrect == Spec => []FlagAgrees
<1>1. FlagInv => FlagAgrees
  BY DEF FlagInv, FlagAgrees, CaughtUp, WillBe, Proclaims, Quiet
<1>. QED BY TypeInit, TypeNext, FlagInit, FlagNext, <1>1, PTL DEF Spec

-----------------------------------------------------------------------------
(* No command of an earlier game.                                          *)
(*                                                                         *)
(* A request carries the number of games whose end the client had seen.    *)
(* The client has never seen more ends than the server has told it of, and *)
(* the requests reach the server in order: once a Join of the present      *)
(* lobby was accepted, nothing older is under way.                         *)

Ends(m) == IF m.t = "ended" THEN 1 ELSE 0

\* After k games have ended c[i] have, when i elements of s are read.
Counts(c, s, k, limit) == /\ c \in [0 .. Len(s) -> Nat]
                          /\ c[0] = k
                          /\ \A i \in 1 .. Len(s) : c[i] = c[i - 1] + Ends(s[i])
                          /\ \A i \in 0 .. Len(s) : c[i] <= limit

\* With those that end in s there are no more than the limit.
Within(s, k, limit) == \E c : Counts(c, s, k, limit)

\* Requests are sent in the order in which they were composed.
RequestsInOrder ==
    /\ \A i, j \in 1 .. Len(up) : i <= j => up[i].lobby <= up[j].lobby
    /\ \A i \in 1 .. Len(up) : up[i].lobby <= lobbies
    /\ gPc = "send" => /\ request.lobby <= lobbies
                       /\ \A i \in 1 .. Len(up) : up[i].lobby <= request.lobby

\* What a player of this game may still send is of this game.
RequestsFresh ==
    Plays("me") /\ ~ strayJoin =>
        /\ told <= lobbies
        /\ \A i \in 1 .. Len(up) : told <= up[i].lobby
        /\ gPc = "send" => told <= request.lobby

StaleInv == /\ Within(down, lobbies, told)
            /\ RequestsInOrder
            /\ RequestsFresh
            /\ NoStaleCommand

LEMMA WithinTail ==
    ASSUME NEW T, NEW s \in Seq(T), s # <<>>, NEW k, NEW n, Within(s, k, n),
           NEW p, p = Tail(s), NEW l, l = k + Ends(Head(s))
    PROVE  Within(p, l, n)
<1>1. /\ Len(s) \in Nat \ {0} /\ Len(p) = Len(s) - 1 /\ Head(s) = s[1]
      /\ \A j \in 1 .. Len(p) : p[j] = s[j + 1]
  BY HeadTailProperties
<1>2. PICK c : Counts(c, s, k, n) BY DEF Within
<1>3. PICK d : d = [i \in 0 .. Len(p) |-> c[i + 1]] OBVIOUS
<1>4. \A i \in 0 .. Len(p) : i + 1 \in 0 .. Len(s) /\ i + 1 \in 1 .. Len(s) BY <1>1
<1>5. d \in [0 .. Len(p) -> Nat] /\ \A i \in 0 .. Len(p) : d[i] = c[i + 1] /\ d[i] <= n
  BY <1>2, <1>3, <1>4 DEF Counts
<1>6. d[0] = l
  <2>1. 0 \in 0 .. Len(p) /\ 1 \in 1 .. Len(s) BY <1>1
  <2>2. c[1] = c[0] + Ends(s[1]) /\ c[0] = k BY <1>2, <2>1 DEF Counts
  <2>3. d[0] = c[1] BY <1>5, <2>1
  <2>. QED BY <1>1, <2>2, <2>3
<1>7. \A i \in 1 .. Len(p) : d[i] = d[i - 1] + Ends(p[i])
  <2>. SUFFICES ASSUME NEW i \in 1 .. Len(p) PROVE d[i] = d[i - 1] + Ends(p[i])
    OBVIOUS
  <2>1. i \in 0 .. Len(p) /\ i - 1 \in 0 .. Len(p) /\ (i - 1) + 1 = i /\ (i + 1) - 1 = i
        /\ i + 1 \in 1 .. Len(s)
    BY <1>1
  <2>2. c[i + 1] = c[(i + 1) - 1] + Ends(s[i + 1]) BY <1>2, <2>1 DEF Counts
  <2>3. d[i] = c[i + 1] /\ d[i - 1] = c[(i - 1) + 1] BY <1>5, <2>1
  <2>. QED BY <1>1, <2>1, <2>2, <2>3
<1>. QED BY <1>5, <1>6, <1>7 DEF Within, Counts

\* Messages of which none is an end.
LEMMA WithinConcat ==
    ASSUME NEW T, NEW s \in Seq(T), NEW m \in Seq(T), NEW k, NEW n, Within(s, k, n),
           \A i \in 1 .. Len(m) : m[i].t # "ended",
           NEW p, p = s \o m
    PROVE  Within(p, k, n)
<1>1. /\ Len(p) = Len(s) + Len(m) /\ Len(s) \in Nat /\ Len(m) \in Nat
      /\ \A i \in 1 .. Len(p) : p[i] = IF i <= Len(s) THEN s[i] ELSE m[i - Len(s)]
  BY ConcatProperties
<1>2. PICK c : Counts(c, s, k, n) BY DEF Within
<1>3. PICK d : d = [i \in 0 .. Len(p) |-> IF i <= Len(s) THEN c[i] ELSE c[Len(s)]]
  OBVIOUS
<1>4. /\ \A i \in 0 .. Len(s) : i \in 0 .. Len(p) /\ d[i] = c[i]
      /\ \A i \in Len(s) .. Len(p) : i \in 0 .. Len(p) /\ d[i] = c[Len(s)]
      /\ Len(s) \in 0 .. Len(s)
  BY <1>1, <1>3
<1>5. \A i \in 0 .. Len(p) : d[i] \in Nat /\ d[i] <= n
  <2>. SUFFICES ASSUME NEW i \in 0 .. Len(p) PROVE d[i] \in Nat /\ d[i] <= n OBVIOUS
  <2>1. i \in 0 .. Len(s) \/ i \in Len(s) .. Len(p) BY <1>1
  <2>. QED BY <1>2, <1>4, <2>1 DEF Counts
<1>6. d \in [0 .. Len(p) -> Nat] BY <1>3, <1>5
<1>7. \A i \in 1 .. Len(p) : d[i] = d[i - 1] + Ends(p[i])
  <2>. SUFFICES ASSUME NEW i \in 1 .. Len(p) PROVE d[i] = d[i - 1] + Ends(p[i])
    OBVIOUS
  <2>1. CASE i <= Len(s)
    <3>1. i \in 1 .. Len(s) /\ i \in 0 .. Len(s) /\ i - 1 \in 0 .. Len(s) BY <1>1, <2>1
    <3>2. c[i] = c[i - 1] + Ends(s[i]) BY <1>2, <3>1 DEF Counts
    <3>. QED BY <1>1, <1>4, <2>1, <3>1, <3>2
  <2>2. CASE ~ (i <= Len(s))
    <3>1. i \in Len(s) .. Len(p) /\ i - 1 \in Len(s) .. Len(p) /\ i - Len(s) \in 1 .. Len(m)
      BY <1>1, <2>2
    <3>2. Ends(p[i]) = 0 BY <1>1, <2>2, <3>1 DEF Ends
    <3>3. PICK z : z = c[Len(s)] OBVIOUS
    <3>4. z \in Nat BY <1>2, <1>4, <3>3 DEF Counts
    <3>5. d[i] = z /\ d[i - 1] = z BY <1>4, <3>1, <3>3
    <3>6. z = z + 0 BY <3>4
    <3>. QED BY <3>2, <3>5, <3>6
  <2>. QED BY <2>1, <2>2
<1>8. d[0] = k
  <2>1. 0 \in 0 .. Len(s) BY <1>1
  <2>. QED BY <1>2, <1>4, <2>1 DEF Counts
<1>. QED BY <1>5, <1>6, <1>7, <1>8 DEF Within, Counts

LEMMA WithinEnded ==
    ASSUME NEW T, NEW s \in Seq(T), GameEnded \in T, NEW k, NEW n \in Nat, Within(s, k, n),
           NEW p, p = s \o <<GameEnded>>
    PROVE  Within(p, k, n + 1)
<1>0. PICK e : e = GameEnded OBVIOUS
<1>1. /\ Len(p) = Len(s) + 1 /\ Len(s) \in Nat
      /\ \A i \in 1 .. Len(s) : p[i] = s[i]
      /\ p[Len(s) + 1] = e
  <2>1. <<e>> \in Seq(T) /\ Len(<<e>>) = 1 /\ <<e>>[1] = e BY <1>0
  <2>2. p = s \o <<e>> BY <1>0
  <2>. QED BY <2>1, <2>2, ConcatProperties
<1>2. PICK c : Counts(c, s, k, n) BY DEF Within
<1>3. PICK d : d = [i \in 0 .. Len(p) |-> IF i <= Len(s) THEN c[i] ELSE c[Len(s)] + 1]
  OBVIOUS
<1>4. /\ \A i \in 0 .. Len(s) : i \in 0 .. Len(p) /\ d[i] = c[i] /\ d[i] \in Nat /\ d[i] <= n
      /\ Len(s) \in 0 .. Len(s)
  <2>1. \A i \in 0 .. Len(s) : i \in 0 .. Len(p) /\ i <= Len(s) BY <1>1
  <2>2. \A i \in 0 .. Len(s) : d[i] = c[i] BY <1>3, <2>1
  <2>3. \A i \in 0 .. Len(s) : c[i] \in Nat /\ c[i] <= n BY <1>2 DEF Counts
  <2>4. Len(s) \in 0 .. Len(s) BY <1>1
  <2>. QED BY <2>1, <2>2, <2>3, <2>4
<1>5. d[Len(p)] = c[Len(s)] + 1 /\ c[Len(s)] = d[Len(s)]
  BY <1>1, <1>3, <1>4
<1>6. \A i \in 0 .. Len(p) : d[i] \in Nat /\ d[i] <= n + 1
  <2>. SUFFICES ASSUME NEW i \in 0 .. Len(p) PROVE d[i] \in Nat /\ d[i] <= n + 1 OBVIOUS
  <2>1. i \in 0 .. Len(s) \/ i = Len(p) BY <1>1
  <2>. QED BY <1>4, <1>5, <2>1
<1>7. d \in [0 .. Len(p) -> Nat] BY <1>3, <1>6
<1>8. \A i \in 1 .. Len(p) : d[i] = d[i - 1] + Ends(p[i])
  <2>. SUFFICES ASSUME NEW i \in 1 .. Len(p) PROVE d[i] = d[i - 1] + Ends(p[i])
    OBVIOUS
  <2>1. CASE i <= Len(s)
    <3>1. i \in 1 .. Len(s) /\ i \in 0 .. Len(s) /\ i - 1 \in 0 .. Len(s) BY <1>1, <2>1
    <3>2. c[i] = c[i - 1] + Ends(s[i]) BY <1>2, <3>1 DEF Counts
    <3>3. d[i] = c[i] /\ d[i - 1] = c[i - 1] BY <1>4, <3>1
    <3>4. p[i] = s[i] BY <1>1, <3>1
    <3>. QED BY <3>2, <3>3, <3>4
  <2>2. CASE ~ (i <= Len(s))
    <3>1. i = Len(p) /\ i = Len(s) + 1 /\ i - 1 = Len(s) BY <1>1, <2>2
    <3>2. Ends(p[i]) = 1 BY <1>0, <1>1, <3>1 DEF Ends, GameEnded
    <3>. QED BY <1>5, <3>1, <3>2
  <2>. QED BY <2>1, <2>2
<1>9. d[0] = k
  <2>1. 0 \in 0 .. Len(s) BY <1>1
  <2>. QED BY <1>2, <1>4, <2>1 DEF Counts
<1>. QED BY <1>6, <1>7, <1>8, <1>9 DEF Within, Counts

LEMMA WithinPrefix ==
    ASSUME NEW T, NEW s \in Seq(T), NEW k, NEW n, Within(s, k, n), NEW l \in 0 .. Len(s),
           NEW p, p = SubSeq(s, 1, l)
    PROVE  Within(p, k, n)
<1>1. l \in Nat /\ l <= Len(s) /\ Len(s) \in Nat OBVIOUS
<1>2. Len(p) = l /\ \A i \in 1 .. l : p[i] = s[i] BY SubSeqProperties
<1>3. PICK c : Counts(c, s, k, n) BY DEF Within
<1>4. PICK d : d = [i \in 0 .. l |-> c[i]] OBVIOUS
<1>5. \A i \in 0 .. l : i \in 0 .. Len(s) /\ d[i] = c[i] BY <1>1, <1>4
<1>6. d \in [0 .. l -> Nat] /\ \A i \in 0 .. l : d[i] <= n BY <1>3, <1>4, <1>5 DEF Counts
<1>7. \A i \in 1 .. l : d[i] = d[i - 1] + Ends(p[i])
  <2>. SUFFICES ASSUME NEW i \in 1 .. l PROVE d[i] = d[i - 1] + Ends(p[i]) OBVIOUS
  <2>1. i \in 0 .. l /\ i - 1 \in 0 .. l /\ i \in 1 .. Len(s) BY <1>1
  <2>2. c[i] = c[i - 1] + Ends(s[i]) BY <1>3, <2>1 DEF Counts
  <2>. QED BY <1>2, <1>5, <2>1, <2>2
<1>8. d[0] = k
  <2>1. 0 \in 0 .. l BY <1>1
  <2>. QED BY <1>3, <1>5, <2>1 DEF Counts
<1>. QED BY <1>2, <1>6, <1>7, <1>8 DEF Within, Counts

LEMMA WithinLimit ==
    ASSUME NEW s, Len(s) \in Nat, NEW k, NEW n, Within(s, k, n) PROVE k <= n
<1>1. 0 \in 0 .. Len(s) OBVIOUS
<1>. QED BY <1>1 DEF Within, Counts

-----------------------------------------------------------------------------
(* The steps of the client and of the server.                              *)

LEMMA ToldType == ASSUME IInv PROVE told \in Nat /\ lobbies \in Nat
BY DEF IInv, ClientOK, ServerInv, ServerOK

\* No request changes, nor the game it is for.
LEMMA RequestsKept ==
    ASSUME IInv, IInv', RequestsInOrder, RequestsFresh, NoStaleCommand,
           UNCHANGED <<up, gPc, request, told, strayJoin, joined>>,
           command' \in {command, NoCommand}, lobbies' >= lobbies
    PROVE  RequestsInOrder' /\ RequestsFresh' /\ NoStaleCommand'
<1>1. lobbies \in Nat /\ lobbies' \in Nat /\ told \in Nat
  BY DEF IInv, ClientOK, ServerInv, ServerOK
<1>2. request.lobby \in Nat /\ \A i \in 1 .. Len(up) : up[i].lobby \in Nat
  <2>1. request \in Requests /\ up \in Seq(Requests) BY DEF IInv, ClientOK, WireOK
  <2>2. \A r \in Requests : r.lobby \in Nat BY DEF Requests
  <2>3. \A i \in 1 .. Len(up) : up[i] \in Requests BY <2>1
  <2>. QED BY <2>1, <2>2, <2>3
<1>3. RequestsInOrder' BY <1>1, <1>2 DEF RequestsInOrder
<1>4. Plays("me")' <=> Plays("me") BY DEF Plays
<1>5. RequestsFresh' BY <1>1, <1>4 DEF RequestsFresh
<1>6. NoStaleCommand' BY DEF NoStaleCommand, NoCommand
<1>. QED BY <1>3, <1>5, <1>6

\* S counts the ends it reads.
LEMMA StaleS == ASSUME IInv, IInv', StaleInv, S PROVE StaleInv'
<1>1. /\ UNCHANGED <<up, gPc, request>>
      /\ \/ UNCHANGED <<down, lobbies>>
         \/ /\ down # <<>> /\ down' = Tail(down)
            /\ \/ lobbies' = lobbies + Ends(Head(down))
               \/ lobbies' = lobbies /\ Head(down).t # "ended"
  <2>1. CASE ReadEmptyString
    BY <2>1 DEF ReadEmptyString, Read, gameVars, inputVars
  <2>2. CASE HandleHello \/ HandleAcceptedPlayer \/ HandleGameStarted \/ BeginTurnMsg
    BY <2>2 DEF HandleHello, HandleAcceptedPlayer, HandleGameStarted, BeginTurnMsg, Read,
                inputVars
  <2>3. CASE HandleBombPlaced \/ HandleBombExploded \/ HandlePlayerMoved \/ HandleBlockPlaced
    BY <2>3 DEF HandleBombPlaced, HandleBombExploded, HandlePlayerMoved, HandleBlockPlaced,
                ReadEvent, inputVars
  <2>4. CASE FinishTurnMsg BY <2>4 DEF FinishTurnMsg, wireVars, inputVars
  <2>5. CASE HandleGameEnded BY <2>5 DEF HandleGameEnded, Read, inputVars, Ends
  <2>6. CASE ServerGone BY <2>6 DEF ServerGone, wireVars, gameVars, inputVars
  <2>. QED BY <2>1, <2>2, <2>3, <2>4, <2>5, <2>6 DEF S, ThreadS
<1>2. UNCHANGED <<told, strayJoin, joined, command>> BY DEF S, serverVars, historyVars
<1>3. lobbies \in Nat /\ down \in Seq(Message \cup Event) BY DEF IInv, ClientOK, WireOK
<1>4. CASE UNCHANGED <<down, lobbies>>
  <2>1. Within(down, lobbies, told)' BY <1>2, <1>4 DEF StaleInv, Within, Counts
  <2>2. lobbies' >= lobbies BY <1>3, <1>4
  <2>. QED BY <1>1, <1>2, <2>1, <2>2, RequestsKept DEF StaleInv
<1>5. CASE /\ down # <<>> /\ down' = Tail(down)
           /\ \/ lobbies' = lobbies + Ends(Head(down))
              \/ lobbies' = lobbies /\ Head(down).t # "ended"
  <2>1. lobbies' = lobbies + Ends(Head(down)) /\ lobbies' >= lobbies
    BY <1>3, <1>5 DEF Ends
  <2>2. PICK s, k, n, p, l : /\ s = down /\ k = lobbies /\ n = told
                             /\ p = Tail(s) /\ l = k + Ends(Head(s))
    OBVIOUS
  <2>3. s \in Seq(Message \cup Event) /\ s # <<>> /\ Within(s, k, n)
    BY <1>3, <1>5, <2>2 DEF StaleInv
  <2>4. Within(p, l, n) BY <2>2, <2>3, WithinTail
  <2>5. down' = p /\ lobbies' = l /\ told' = n BY <1>2, <1>5, <2>1, <2>2
  <2>6. Within(down, lobbies, told)' BY <2>4, <2>5 DEF Within, Counts
  <2>. QED BY <1>1, <1>2, <2>1, <2>6, RequestsKept DEF StaleInv
<1>. QED BY <1>1, <1>4, <1>5

LEMMA WithinKept ==
    ASSUME Within(down, lobbies, told), UNCHANGED <<down, lobbies, told>>
    PROVE  Within(down, lobbies, told)'
BY DEF Within, Counts

\* A request carries the number of ends seen when it is composed, and keeps it
\* until it is sent after all others.
LEMMA StaleG == ASSUME IInv, IInv', StaleInv, Input \/ G PROVE StaleInv'
<1>1. UNCHANGED <<told, strayJoin, joined, command>>
  BY DEF Input, G, serverVars, historyVars
<1>2. UNCHANGED <<down, lobbies>>
  BY DEF Input, G, ReceiveInput, ParseInput, SendRequest, wireVars, gameVars
<1>3. Within(down, lobbies, told)' BY <1>1, <1>2, WithinKept DEF StaleInv
<1>4. lobbies \in Nat /\ told \in Nat /\ up \in Seq(Requests) /\ request \in Requests
  BY DEF IInv, ClientOK, WireOK, ServerInv, ServerOK
<1>5. (Plays("me")' <=> Plays("me")) /\ NoStaleCommand'
  BY <1>1 DEF Plays, NoStaleCommand, StaleInv
<1>6. told <= lobbies \/ ~ (Plays("me") /\ ~ strayJoin) BY DEF StaleInv, RequestsFresh
<1>7. CASE UNCHANGED up /\ gPc' # "send"
  <2>1. RequestsInOrder' BY <1>2, <1>7 DEF StaleInv, RequestsInOrder
  <2>2. RequestsFresh' BY <1>1, <1>2, <1>5, <1>7 DEF StaleInv, RequestsFresh
  <2>. QED BY <1>3, <1>5, <2>1, <2>2 DEF StaleInv
<1>8. CASE ParseInput /\ gPc' = "send"
  <2>1. UNCHANGED up /\ request'.lobby = lobbies
    BY <1>8 DEF ParseInput, Translate, Request, wireVars
  <2>2. RequestsInOrder' BY <1>2, <1>4, <2>1 DEF StaleInv, RequestsInOrder
  <2>3. RequestsFresh' BY <1>1, <1>2, <1>5, <1>6, <2>1 DEF StaleInv, RequestsFresh
  <2>. QED BY <1>3, <1>5, <2>2, <2>3 DEF StaleInv
<1>9. CASE SendRequest /\ up' # up
  <2>1. gPc = "send" /\ gPc' = "recv" /\ up' = Append(up, request) BY <1>9 DEF SendRequest
  <2>2. /\ Len(up') = Len(up) + 1 /\ Len(up) \in Nat
        /\ \A i \in 1 .. Len(up) : up'[i] = up[i]
        /\ up'[Len(up) + 1] = request
    BY <1>4, <2>1, AppendProperties
  <2>3. \A i \in 1 .. Len(up') : i \in 1 .. Len(up) \/ i = Len(up) + 1 BY <2>2
  <2>4. request.lobby \in Nat BY <1>4 DEF Requests
  <2>5. ASSUME NEW i \in 1 .. Len(up'), NEW j \in 1 .. Len(up'), i <= j
        PROVE  up'[i].lobby <= up'[j].lobby
    <3>1. CASE j \in 1 .. Len(up)
      <4>1. i \in 1 .. Len(up) BY <2>2, <2>5, <3>1
      <4>. QED BY <2>2, <2>5, <3>1, <4>1 DEF StaleInv, RequestsInOrder
    <3>2. CASE j = Len(up) + 1
      <4>1. CASE i \in 1 .. Len(up) BY <2>1, <2>2, <3>2, <4>1 DEF StaleInv, RequestsInOrder
      <4>2. CASE i = Len(up) + 1 BY <2>2, <2>4, <3>2, <4>2
      <4>. QED BY <2>3, <4>1, <4>2
    <3>. QED BY <2>3, <3>1, <3>2
  <2>6. \A i \in 1 .. Len(up') : up'[i].lobby <= lobbies
    BY <2>1, <2>2, <2>3 DEF StaleInv, RequestsInOrder
  <2>7. RequestsInOrder' BY <1>2, <2>1, <2>5, <2>6 DEF RequestsInOrder
  <2>8. RequestsFresh'
    BY <1>1, <1>2, <1>5, <2>1, <2>2, <2>3 DEF StaleInv, RequestsFresh
  <2>. QED BY <1>3, <1>5, <2>7, <2>8 DEF StaleInv
<1>. QED BY <1>7, <1>8, <1>9
  DEF Input, G, ReceiveInput, ParseInput, SendRequest, wireVars


\* A step of the server that leaves both streams and the lobby alone.
LEMMA StaleKept ==
    ASSUME IInv, IInv', StaleInv, UNCHANGED <<down, up, gPc, request, lobbies>>,
           UNCHANGED <<told, strayJoin, joined, command>>
    PROVE  StaleInv'
<1>1. Within(down, lobbies, told)' BY WithinKept DEF StaleInv
<1>2. lobbies' >= lobbies BY ToldType
<1>. QED BY <1>1, <1>2, RequestsKept DEF StaleInv

\* Messages of which none is an end.
LEMMA StaleSend ==
    ASSUME IInv, Within(down, lobbies, told), UNCHANGED <<lobbies, told>>,
           NEW m \in Seq(Message \cup Event), Send(m),
           \A i \in 1 .. Len(m) : m[i].t # "ended"
    PROVE  Within(down, lobbies, told)'
<1>1. CASE ~ connected
  <2>1. UNCHANGED down BY <1>1 DEF Send
  <2>. QED BY <2>1, WithinKept
<1>2. CASE connected
  <2>1. down' = down \o m BY <1>2 DEF Send
  <2>2. PICK s, k, n, p : s = down /\ k = lobbies /\ n = told /\ p = s \o m OBVIOUS
  <2>3. s \in Seq(Message \cup Event) /\ Within(s, k, n) BY <2>2 DEF IInv, WireOK
  <2>4. Within(p, k, n) BY <2>2, <2>3, WithinConcat
  <2>5. down' = p /\ lobbies' = k /\ told' = n BY <2>1, <2>2
  <2>. QED BY <2>4, <2>5 DEF Within, Counts
<1>. QED BY <1>1, <1>2

\* A turn with its events, and the start of a game before it.
LEMMA StaleTurn ==
    ASSUME IInv, IInv', StaleInv, NEW m \in Seq(Message \cup Event), Send(m),
           \A i \in 1 .. Len(m) : m[i].t # "ended", command' = NoCommand,
           UNCHANGED <<up, gPc, request, lobbies, told, strayJoin, joined>>
    PROVE  StaleInv'
<1>1. Within(down, lobbies, told)' BY StaleSend DEF StaleInv
<1>2. lobbies' >= lobbies BY ToldType
<1>. QED BY <1>1, <1>2, RequestsKept DEF StaleInv

\* p is the list s followed by the list m.
Chained(p, s, m, T) == /\ p \in Seq(T) /\ Len(p) = Len(s) + Len(m)
                       /\ \A i \in 1 .. Len(s) : p[i] = s[i]
                       /\ \A i \in 1 .. Len(m) : p[Len(s) + i] = m[i]

LEMMA ConcatParts ==
    ASSUME NEW T, NEW s \in Seq(T), NEW m \in Seq(T)
    PROVE  Chained(s \o m, s, m, T)
BY ConcatProperties DEF Chained

\* One message and what follows it.
HeadOf(x, s, T) == /\ x \in T /\ x.t # "ended"
                   /\ s \in Seq(T) /\ Quiet(s)

\* A list of messages none of which ends a game.
Unended(q, T) == q \in Seq(T) /\ \A i \in 1 .. Len(q) : q[i].t # "ended"

LEMMA HeadedQuiet ==
    ASSUME NEW T, NEW x, NEW s, HeadOf(x, s, T)
    PROVE  Unended(<<x>> \o s, T)
<1>1. x \in T /\ x.t # "ended" /\ s \in Seq(T) /\ Quiet(s) BY DEF HeadOf
<1>2. PICK g : g = <<x>> OBVIOUS
<1>3. g \in Seq(T) /\ Len(g) = 1 /\ g[1] = x BY <1>1, <1>2
<1>4. PICK p : p = g \o s OBVIOUS
<1>5. Chained(g \o s, g, s, T)
  <2>1. g \in Seq(T) BY <1>3
  <2>2. s \in Seq(T) BY <1>1
  <2>. QED BY <2>1, <2>2, ConcatParts
<1>6. /\ Len(p) = 1 + Len(s) /\ p[1] = x
      /\ \A i \in 1 .. Len(s) : p[1 + i] = s[i]
  BY <1>3, <1>4, <1>5 DEF Chained
<1>7. Len(s) \in Nat /\ \A i \in 1 .. Len(s) : s[i].t # "ended"
  BY <1>1 DEF Quiet, Signal
<1>8. ASSUME NEW i \in 1 .. Len(p) PROVE p[i].t # "ended"
  <2>1. CASE i = 1 BY <1>1, <1>6, <2>1
  <2>2. CASE i # 1
    <3>1. i - 1 \in 1 .. Len(s) /\ 1 + (i - 1) = i BY <1>6, <1>7, <2>2
    <3>2. p[1 + (i - 1)] = s[i - 1] BY <1>6, <3>1
    <3>. QED BY <1>7, <3>1, <3>2
  <2>. QED BY <2>1, <2>2
<1>9. Unended(p, T) BY <1>4, <1>5, <1>8 DEF Unended, Chained
<1>. QED BY <1>2, <1>4, <1>9

LEMMA StaleStartGame ==
    ASSUME IInv, IInv', StaleInv, StartGame, UNCHANGED clientVars PROVE StaleInv'
<1>. DEFINE MS == Seq(Message \cup Event)
<1>. ServerOK BY DEF IInv, ServerInv
<1>1. PICK at \in [PlayerId -> Cell], b \in [1 .. InitialBlocks -> Cell] :
         LET spawned == [k \in 1 .. PlayersCount |-> PlayerMoved(k - 1, at[k - 1])]
             placed  == [k \in 1 .. InitialBlocks |-> BlockPlaced(b[k])]
             list    == spawned \o placed
             msg     == <<Turn(0, Len(list))>> \o list
         IN  Send(<<GameStarted(joined)>> \o msg)
  BY DEF StartGame
<1>. DEFINE list == [k \in 1 .. PlayersCount |-> PlayerMoved(k - 1, at[k - 1])]
                        \o [k \in 1 .. InitialBlocks |-> BlockPlaced(b[k])]
            msg  == <<Turn(0, Len(list))>> \o list
<1>2. list \in Seq(Event) BY TurnZeroType
<1>3. Send(<<GameStarted(joined)>> \o msg) BY <1>1
<1>. HIDE DEF list
<1>4. msg \in MS /\ Quiet(msg) BY <1>2, TurnMessageType, TurnQuiet
<1>. HIDE DEF msg
<1>5. PICK g, w : g = GameStarted(joined) /\ w = msg OBVIOUS
<1>6. /\ g \in Message \cup Event /\ g.t # "ended"
      /\ w \in MS /\ Quiet(w)
  BY <1>4, <1>5 DEF GameStarted, Message, ServerOK
<1>7. PICK m : m = <<g>> \o w OBVIOUS
<1>8. m \in MS /\ \A i \in 1 .. Len(m) : m[i].t # "ended"
  <2>1. HeadOf(g, w, Message \cup Event) BY <1>6 DEF HeadOf
  <2>2. Unended(<<g>> \o w, Message \cup Event) BY <2>1, HeadedQuiet
  <2>. QED BY <1>7, <2>2 DEF Unended
<1>9. Send(m) BY <1>3, <1>5, <1>7
<1>10. command' = NoCommand /\ UNCHANGED <<up, told, strayJoin, joined>>
  BY DEF StartGame, historyVars
<1>11. UNCHANGED <<gPc, request, lobbies>> BY DEF clientVars, inputVars, gameVars
<1>. HIDE DEF MS
<1>. QED BY <1>8, <1>9, <1>10, <1>11, StaleTurn DEF MS

LEMMA StaleEndTurn ==
    ASSUME IInv, IInv', StaleInv, EndTurn, UNCHANGED clientVars PROVE StaleInv'
<1>. DEFINE msg == <<Turn(turn + 1, Len(events))>> \o events
<1>. ServerOK BY DEF IInv, ServerInv
<1>1. turn + 1 \in Nat /\ events \in Seq(Event) BY DEF ServerOK
<1>2. msg \in Seq(Message \cup Event) /\ Quiet(msg) BY <1>1, TurnMessageType, TurnQuiet
<1>3. Send(msg) BY DEF EndTurn, SendTurn
<1>. HIDE DEF msg
<1>4. \A i \in 1 .. Len(msg) : msg[i].t # "ended" BY <1>2 DEF Quiet, Signal
<1>5. command' = NoCommand /\ UNCHANGED <<up, told, strayJoin, joined>>
  BY DEF EndTurn, historyVars
<1>6. UNCHANGED <<gPc, request, lobbies>> BY DEF clientVars, inputVars, gameVars
<1>. QED BY <1>2, <1>3, <1>4, <1>5, <1>6, StaleTurn

\* A game ends: nobody plays, and the client is to see one more end.
LEMMA StaleEndGame ==
    ASSUME IInv, IInv', StaleInv, EndGame, UNCHANGED clientVars PROVE StaleInv'
<1>1. UNCHANGED <<up, gPc, request, lobbies>>
  BY DEF EndGame, clientVars, inputVars, gameVars
<1>2. RequestsInOrder' BY <1>1 DEF StaleInv, RequestsInOrder
<1>3. RequestsFresh' BY DEF EndGame, RequestsFresh, Plays, EmptyMap
<1>4. NoStaleCommand' BY DEF EndGame, NoStaleCommand, NoCommand
<1>5. CASE ~ connected
  <2>1. UNCHANGED <<down, told>> BY <1>5 DEF EndGame, Send
  <2>. QED BY <1>1, <1>2, <1>3, <1>4, <2>1, WithinKept DEF StaleInv
<1>6. CASE connected
  <2>1. down' = down \o <<GameEnded>> /\ told' = told + 1 BY <1>6 DEF EndGame, Send
  <2>2. PICK s, k, n, p : s = down /\ k = lobbies /\ n = told /\ p = s \o <<GameEnded>>
    OBVIOUS
  <2>3. s \in Seq(Message \cup Event) /\ n \in Nat /\ Within(s, k, n)
    BY <2>2, ToldType DEF IInv, WireOK, StaleInv
  <2>4. GameEnded \in Message \cup Event BY DEF Message
  <2>5. Within(p, k, n + 1) BY <2>2, <2>3, <2>4, WithinEnded
  <2>6. down' = p /\ lobbies' = k /\ told' = n + 1 BY <1>1, <2>1, <2>2
  <2>7. Within(down, lobbies, told)' BY <2>5, <2>6 DEF Within, Counts
  <2>. QED BY <1>2, <1>3, <1>4, <2>7 DEF StaleInv
<1>. QED BY <1>5, <1>6


\* The server takes the first request.
LEMMA RequestTaken ==
    ASSUME IInv, RequestsInOrder, up # <<>>, up' = Tail(up),
           UNCHANGED <<gPc, request, lobbies>>
    PROVE  /\ RequestsInOrder'
           /\ Head(up) \in Requests /\ 1 \in 1 .. Len(up) /\ Head(up) = up[1]
           /\ \A i \in 1 .. Len(up') : i + 1 \in 1 .. Len(up) /\ up'[i] = up[i + 1]
           /\ Head(up).lobby <= lobbies
           /\ \A i \in 1 .. Len(up') : Head(up).lobby <= up'[i].lobby
           /\ gPc = "send" => Head(up).lobby <= request.lobby
<1>1. up \in Seq(Requests) BY DEF IInv, WireOK
<1>2. /\ Len(up) \in Nat \ {0} /\ Len(up') = Len(up) - 1 /\ Head(up) = up[1]
      /\ \A i \in 1 .. Len(up') : up'[i] = up[i + 1]
  BY <1>1, HeadTailProperties
<1>3. 1 \in 1 .. Len(up) /\ \A i \in 1 .. Len(up') : i + 1 \in 1 .. Len(up) /\ 1 <= i + 1
  BY <1>2
<1>4. up[1] \in Requests BY <1>1, <1>3
<1>5. \A i \in 1 .. Len(up') : up[1].lobby <= up[i + 1].lobby
  BY <1>3 DEF RequestsInOrder
<1>6. \A i, j \in 1 .. Len(up') : i <= j => up'[i].lobby <= up'[j].lobby
  <2>. SUFFICES ASSUME NEW i \in 1 .. Len(up'), NEW j \in 1 .. Len(up'), i <= j
                PROVE  up'[i].lobby <= up'[j].lobby
    OBVIOUS
  <2>1. i + 1 \in 1 .. Len(up) /\ j + 1 \in 1 .. Len(up) /\ i + 1 <= j + 1 BY <1>3
  <2>2. up[i + 1].lobby <= up[j + 1].lobby BY <2>1 DEF RequestsInOrder
  <2>. QED BY <1>2, <2>2
<1>7. \A i \in 1 .. Len(up') : up'[i].lobby <= lobbies
  BY <1>2, <1>3 DEF RequestsInOrder
<1>8. gPc = "send" => /\ request.lobby <= lobbies
                      /\ \A i \in 1 .. Len(up') : up'[i].lobby <= request.lobby
  BY <1>2, <1>3 DEF RequestsInOrder
<1>9. RequestsInOrder' BY <1>6, <1>7, <1>8 DEF RequestsInOrder
<1>10. up[1].lobby <= lobbies /\ (gPc = "send" => up[1].lobby <= request.lobby)
  BY <1>3 DEF RequestsInOrder
<1>. QED BY <1>2, <1>3, <1>4, <1>5, <1>9, <1>10

\* A player is told of with a message that ends nothing.
LEMMA StaleAdmit ==
    ASSUME IInv, StaleInv, NEW who \in Player, ~ LobbyFull, Admit(who),
           UNCHANGED <<lobbies, told>>
    PROVE  Within(down, lobbies, told)'
<1>. DEFINE p == Cardinality(DOMAIN joined)
<1>1. p \in PlayerId
  BY LobbyCount, PlayersCountType DEF LobbyFull, IInv, ServerInv, PlayerId
<1>2. Send(<<AcceptedPlayer(p, who)>>) BY DEF Admit
<1>. HIDE DEF p
<1>3. <<AcceptedPlayer(p, who)>> \in Seq(Message \cup Event) BY <1>1, AcceptedPlayerType
<1>4. PICK m : m = <<AcceptedPlayer(p, who)>> OBVIOUS
<1>5. \A i \in 1 .. Len(m) : m[i].t # "ended" BY <1>4 DEF AcceptedPlayer
<1>. QED BY <1>2, <1>3, <1>4, <1>5, StaleSend DEF StaleInv

LEMMA StaleOtherJoins ==
    ASSUME IInv, IInv', StaleInv, OtherJoins, UNCHANGED clientVars PROVE StaleInv'
<1>1. UNCHANGED <<up, gPc, request, lobbies, command, told, strayJoin>>
  BY DEF OtherJoins, clientVars, inputVars, gameVars, historyVars
<1>2. Within(down, lobbies, told)' BY <1>1, StaleAdmit, SomebodyJoins
<1>3. RequestsInOrder' BY <1>1 DEF StaleInv, RequestsInOrder
<1>4. Plays("me")' => Plays("me")
  <2>1. PICK who \in Player \ {"me"} :
              joined' = Put(joined, Cardinality(DOMAIN joined), who)
    BY Stranger DEF Admit
  <2>. QED BY <2>1 DEF Plays, Put
<1>5. RequestsFresh' BY <1>1, <1>4 DEF StaleInv, RequestsFresh
<1>6. NoStaleCommand' BY <1>1 DEF StaleInv, NoStaleCommand
<1>. QED BY <1>2, <1>3, <1>5, <1>6 DEF StaleInv

\* A Join that is not a stray one was composed in this lobby, and so was all
\* that comes after it.
LEMMA StaleAcceptJoin ==
    ASSUME IInv, IInv', StaleInv, AcceptJoin, UNCHANGED clientVars PROVE StaleInv'
<1>1. UNCHANGED <<gPc, request, lobbies, command, told>> /\ up # <<>> /\ up' = Tail(up)
  BY DEF AcceptJoin, clientVars, inputVars, gameVars
<1>2. Within(down, lobbies, told)' BY <1>1, StaleAdmit DEF AcceptJoin, Player
<1>3. /\ RequestsInOrder' /\ Head(up).lobby <= lobbies
      /\ \A i \in 1 .. Len(up') : Head(up).lobby <= up'[i].lobby
      /\ gPc = "send" => Head(up).lobby <= request.lobby
  BY <1>1, RequestTaken DEF StaleInv
<1>4. ~ strayJoin' => ~ strayJoin /\ Head(up).lobby = told BY DEF AcceptJoin
<1>5. RequestsFresh' BY <1>1, <1>3, <1>4 DEF RequestsFresh
<1>6. NoStaleCommand' BY <1>1, <1>4 DEF StaleInv, NoStaleCommand
<1>. QED BY <1>2, <1>3, <1>5, <1>6 DEF StaleInv

\* The next request is taken and the lobby stays as it is.
LEMMA FreshTaken ==
    ASSUME IInv, StaleInv, up # <<>>, up' = Tail(up),
           UNCHANGED <<gPc, request, lobbies, told, strayJoin, joined>>
    PROVE  RequestsInOrder' /\ RequestsFresh'
<1>1. /\ RequestsInOrder'
      /\ \A i \in 1 .. Len(up') : i + 1 \in 1 .. Len(up) /\ up'[i] = up[i + 1]
  BY RequestTaken DEF StaleInv
<1>2. Plays("me")' <=> Plays("me") BY DEF Plays
<1>3. RequestsFresh' BY <1>1, <1>2 DEF StaleInv, RequestsFresh
<1>. QED BY <1>1, <1>3

\* A command that is accepted comes from a player, so that it is not older
\* than the lobby; the client cannot have seen later ones.
LEMMA StaleAcceptCommand ==
    ASSUME IInv, IInv', StaleInv, AcceptCommand, UNCHANGED clientVars PROVE StaleInv'
<1>1. /\ UNCHANGED <<down, gPc, request, lobbies, told, strayJoin, joined>>
      /\ up # <<>> /\ up' = Tail(up) /\ command' = Head(up) /\ Plays("me")
  BY DEF AcceptCommand, clientVars, inputVars, gameVars, historyVars
<1>2. Within(down, lobbies, told)' BY <1>1, WithinKept DEF StaleInv
<1>3. RequestsInOrder' /\ RequestsFresh' BY <1>1, FreshTaken
<1>4. ASSUME ~ strayJoin PROVE Head(up).lobby = told
  <2>1. /\ Head(up) \in Requests /\ 1 \in 1 .. Len(up) /\ Head(up) = up[1]
        /\ Head(up).lobby <= lobbies
    BY <1>1, RequestTaken DEF StaleInv
  <2>2. told <= up[1].lobby BY <1>1, <1>4, <2>1 DEF StaleInv, RequestsFresh
  <2>3. lobbies <= told
    <3>1. down \in Seq(Message \cup Event) BY DEF IInv, WireOK
    <3>2. Len(down) \in Nat BY <3>1
    <3>. QED BY <3>2, WithinLimit DEF StaleInv
  <2>4. Head(up).lobby \in Nat BY <2>1 DEF Requests
  <2>. QED BY <2>1, <2>2, <2>3, <2>4, ToldType
<1>5. NoStaleCommand' BY <1>1, <1>4 DEF NoStaleCommand
<1>. QED BY <1>2, <1>3, <1>5 DEF StaleInv

LEMMA StaleIgnoreRequest ==
    ASSUME IInv, IInv', StaleInv, IgnoreRequest, UNCHANGED clientVars PROVE StaleInv'
<1>1. /\ UNCHANGED <<down, gPc, request, lobbies, told, strayJoin, joined, command>>
      /\ up # <<>> /\ up' = Tail(up)
  BY DEF IgnoreRequest, clientVars, inputVars, gameVars, historyVars, serverVars
<1>2. Within(down, lobbies, told)' BY <1>1, WithinKept DEF StaleInv
<1>3. RequestsInOrder' /\ RequestsFresh' BY <1>1, FreshTaken
<1>4. NoStaleCommand' BY <1>1 DEF StaleInv, NoStaleCommand
<1>. QED BY <1>2, <1>3, <1>4 DEF StaleInv


\* What a client is sent when it connects ends nothing.
LEMMA StaleConnect ==
    ASSUME IInv, IInv', FlagInv, StaleInv, Connect, UNCHANGED clientVars PROVE StaleInv'
<1>. DEFINE MS == Seq(Message \cup Event)
<1>. ServerOK /\ Numbered BY DEF IInv, ServerInv
<1>1. UNCHANGED <<up, gPc, request, lobbies, told, strayJoin, joined, command>>
  BY DEF Connect, clientVars, inputVars, gameVars, historyVars
<1>2. PICK m : m = (IF stage = "lobby" THEN Roster ELSE <<GameStarted(joined)>> \o log)
  OBVIOUS
<1>3. m \in MS /\ \A i \in 1 .. Len(m) : m[i].t # "ended"
  <2>1. CASE stage = "lobby"
    <3>1. m = Roster BY <1>2, <2>1
    <3>2. Cardinality(DOMAIN joined) \in Nat BY LobbyCount, PlayersCountType
    <3>3. \A i \in 1 .. Len(Roster) : Roster[i].t # "ended"
      BY <3>2 DEF Roster, AcceptedPlayer
    <3>. QED BY <3>1, <3>3, RosterType
  <2>2. CASE stage # "lobby"
    <3>1. PICK g, w : g = GameStarted(joined) /\ w = log OBVIOUS
    <3>2. g \in Message \cup Event /\ g.t # "ended"
      BY <3>1 DEF GameStarted, Message, ServerOK
    <3>3. w \in MS /\ Quiet(w) /\ m = <<g>> \o w
      BY <1>2, <2>2, <3>1 DEF ServerOK, FlagInv
    <3>4. PICK v : v = <<g>> \o w OBVIOUS
    <3>5. v \in MS /\ \A i \in 1 .. Len(v) : v[i].t # "ended"
      <4>1. HeadOf(g, w, Message \cup Event) BY <3>2, <3>3 DEF HeadOf
      <4>2. Unended(<<g>> \o w, Message \cup Event) BY <4>1, HeadedQuiet
      <4>. QED BY <3>4, <4>2 DEF Unended
    <3>. QED BY <3>3, <3>4, <3>5
  <2>. QED BY <2>1, <2>2
<1>4. down = <<>> BY DEF Connect, FlagInv
<1>5. PICK s, k, n, h, r, p : /\ s = down /\ k = lobbies /\ n = told
                              /\ h = <<Hello>> /\ r = s \o h /\ p = r \o m
  OBVIOUS
<1>6. s \in MS /\ Within(s, k, n) BY <1>5 DEF StaleInv, IInv, WireOK
<1>7. h \in MS /\ \A i \in 1 .. Len(h) : h[i].t # "ended"
  BY <1>5 DEF Message, Hello
<1>8. Within(r, k, n) BY <1>5, <1>6, <1>7, WithinConcat
<1>9. r \in MS /\ r = h BY <1>4, <1>5, <1>7, EmptySeq, ConcatEmptySeq
<1>10. Within(p, k, n) BY <1>3, <1>5, <1>8, <1>9, WithinConcat
<1>11. down' = p BY <1>2, <1>5, <1>9 DEF Connect
<1>12. Within(down, lobbies, told)' BY <1>1, <1>5, <1>10, <1>11 DEF Within, Counts
<1>13. lobbies' >= lobbies BY <1>1, ToldType
<1>. QED BY <1>1, <1>12, <1>13, RequestsKept DEF StaleInv

\* What is lost is the end of what was under way.
LEMMA StaleCut ==
    ASSUME IInv, IInv', StaleInv, NEW how, StreamEnds(how), UNCHANGED clientVars
    PROVE  StaleInv'
<1>1. UNCHANGED <<up, gPc, request, lobbies, told, strayJoin, joined, command>>
  BY DEF StreamEnds, clientVars, inputVars, gameVars, serverVars, historyVars
<1>2. PICK l \in 0 .. Len(down) : down' = SubSeq(down, 1, l) BY DEF StreamEnds
<1>3. PICK s, k, n, p : s = down /\ k = lobbies /\ n = told /\ p = SubSeq(s, 1, l)
  OBVIOUS
<1>4. s \in Seq(Message \cup Event) /\ Within(s, k, n) BY <1>3 DEF StaleInv, IInv, WireOK
<1>5. Within(p, k, n) BY <1>3, <1>4, WithinPrefix
<1>6. Within(down, lobbies, told)' BY <1>1, <1>2, <1>3, <1>5 DEF Within, Counts
<1>7. lobbies' >= lobbies BY <1>1, ToldType
<1>. QED BY <1>1, <1>6, <1>7, RequestsKept DEF StaleInv

LEMMA StaleServerRuns == ASSUME IInv, IInv', StaleInv, ServerRuns PROVE StaleInv'
<1>. UNCHANGED clientVars BY DEF ServerRuns
<1>1. UNCHANGED <<gPc, request, lobbies>> BY DEF clientVars, inputVars, gameVars
<1>2. CASE BeginTurn \/ ExplodeNextBomb \/ BombsDone
  BY <1>1, <1>2, StaleKept
  DEF BeginTurn, ExplodeNextBomb, BombsDone, wireVars, historyVars
<1>3. CASE Respawn \/ Act
  <2>1. UNCHANGED <<wireVars, historyVars, joined, command>>
    BY <1>3 DEF Respawn, Act, Rests, PlacesBomb, PlacesBlock, Moves, MyTurn
  <2>. QED BY <1>1, <2>1, StaleKept DEF wireVars, historyVars
<1>. QED
  BY <1>2, <1>3, StaleStartGame, StaleEndTurn, StaleEndGame, StaleAcceptJoin,
     StaleAcceptCommand, StaleIgnoreRequest
  DEF ServerRuns, ServerStep

LEMMA StaleInit == Init => StaleInv
<1>. SUFFICES ASSUME Init PROVE StaleInv OBVIOUS
<1>1. RequestsInOrder BY DEF Init, ClientInit, RequestsInOrder
<1>2. RequestsFresh BY DEF Init, ServerInit, RequestsFresh, Plays, EmptyMap
<1>3. NoStaleCommand BY DEF Init, ServerInit, NoStaleCommand, NoCommand
<1>4. Within(<<>>, 0, 0)
  <2>1. PICK c : c = [i \in 0 .. 0 |-> 0] OBVIOUS
  <2>2. c \in [0 .. 0 -> Nat] /\ \A i \in 0 .. 0 : c[i] = 0 BY <2>1
  <2>3. Len(<<>>) = 0 OBVIOUS
  <2>. QED BY <2>2, <2>3 DEF Within, Counts
<1>5. down = <<>> /\ lobbies = 0 /\ told = 0 BY DEF Init, ClientInit, ServerInit
<1>. QED BY <1>1, <1>2, <1>3, <1>4, <1>5 DEF StaleInv

LEMMA StaleNext == IInv /\ IInv' /\ FlagInv /\ StaleInv /\ [Next]_vars => StaleInv'
<1>. SUFFICES ASSUME IInv, IInv', FlagInv, StaleInv, [Next]_vars PROVE StaleInv' OBVIOUS
<1>1. CASE S BY <1>1, StaleS
<1>2. CASE Input \/ G BY <1>2, StaleG
<1>3. CASE ServerRuns BY <1>3, StaleServerRuns
<1>4. CASE OtherJoins /\ UNCHANGED clientVars BY <1>4, StaleOtherJoins
<1>5. CASE Connect /\ UNCHANGED clientVars BY <1>5, StaleConnect
<1>6. CASE GuiCloses /\ UNCHANGED serverVars
  BY <1>6, StaleKept
  DEF GuiCloses, serverVars, historyVars, wireVars, gameVars, inputVars
<1>7. CASE (CloseConnection \/ BreakConnection) /\ UNCHANGED clientVars
  BY <1>7, StaleCut DEF CloseConnection, BreakConnection
<1>8. CASE UNCHANGED vars
  BY <1>8, StaleKept
  DEF vars, wireVars, clientVars, gameVars, inputVars, serverVars, historyVars
<1>. QED
  BY <1>1, <1>2, <1>3, <1>4, <1>5, <1>6, <1>7, <1>8
  DEF Next, Environment, Failure

\* A key pressed in one game never moves the robot in a later one, except after
\* a surplus Join: for any number of players, games and keys, however late the
\* client connects, however long its two threads are delayed between reading
\* the flag and sending, and whatever a broken connection loses.
THEOREM NoStaleCorrect == Spec => []NoStaleCommand
<1>1. StaleInv => NoStaleCommand BY DEF StaleInv
<1>. QED
  BY TypeInit, TypeNext, FlagInit, FlagNext, StaleInit, StaleNext, <1>1, PTL DEF Spec

=============================================================================
