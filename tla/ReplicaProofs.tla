--------------------------- MODULE ReplicaProofs ---------------------------
(***************************************************************************)
(* The client's copy of the game, and what a spectator sees of it, for     *)
(* every value of the constants.                                           *)
(*                                                                         *)
(* What the client holds and what the server holds are related only by     *)
(* what is still under way.  The invariant says so with a run: the states  *)
(* that the copy will go through while S reads the rest of the stream.     *)
(* The run starts at the present state of S, each element of the stream    *)
(* takes it one state further, no element is out of place, and its last    *)
(* state is that of the server.  Every step of the system takes the first  *)
(* state of the run away or adds states at its end.                        *)
(***************************************************************************)
EXTENDS Broadcast, BombermanProofs

\* The messages that S will send to the GUI.
View == [t : {"lobby"}, players : MapOf(PlayerId, Player)]
        \cup [t          : {"game"},
              turn       : Nat,
              players    : MapOf(PlayerId, Player),
              positions  : MapOf(PlayerId, Cell),
              blocks     : SUBSET Cell,
              bombs      : MapOf(BombId, Bomb),
              explosions : SUBSET Cell,
              scores     : MapOf(PlayerId, Nat)]

\* A state of S between two reads: how many events it expects (none: a
\* message), its copy of the game, and how many views it has sent on the way.
State == [left : Nat, game : GameType, sent : Nat]

\* The game after a turn of which all events have been read.
Finished(g) == EraseDestroyedBlocks(AddScores(g))

\* What each event does to the copy of the game.
Happened(g, e) ==
    CASE e.t = "bombPlaced"   -> PlaceBomb(g, e.id, e.pos)
      [] e.t = "bombExploded" -> DestroyBlocks(KillPlayers(ExplodeBomb(g, e.id),
                                                           e.robots), e.blocks)
      [] e.t = "playerMoved"  -> MovePlayer(g, e.id, e.pos)
      [] e.t = "blockPlaced"  -> PlaceBlock(g, e.pos)

\* The event can be applied: the bomb that explodes is known.
Possible(g, e) == /\ e \in Event
                  /\ e.t = "bombExploded" => e.id \in DOMAIN g.bombs

\* In a turn l events are left and the copy is g; after the last one the turn
\* is finished and shown: views are those of the sequence q, one by one.
InTurn(l, g, sent, d, q) ==
    \/ l > 0 /\ d = [left |-> l, game |-> g, sent |-> sent]
    \/ /\ l = 0
       /\ d = [left |-> 0, game |-> ResetTurn(Finished(g)), sent |-> sent + 1]
       /\ q[sent + 1] = GameView(Finished(g))

\* The lobby is shown.
InLobby(g, sent, d, q) == /\ d = [left |-> 0, game |-> g, sent |-> sent + 1]
                          /\ q[sent + 1] = LobbyView(g)

\* S reads m in state c, where it belongs, and comes to state d.
Reads(c, m, d, q) ==
    \/ /\ c.left = 0 /\ m.t = "hello"
       /\ InLobby(NewGame, c.sent, d, q)
    \/ /\ c.left = 0 /\ m.t = "accepted"
       /\ InLobby(AddPlayers(c.game, [p \in {m.id} |-> m.player]), c.sent, d, q)
    \/ /\ c.left = 0 /\ m.t = "started"
       /\ d = [c EXCEPT !.game = AddPlayers(c.game, m.players)]
    \/ /\ c.left = 0 /\ m.t = "turn"
       /\ InTurn(m.n, SetTurn(c.game, m.turn), c.sent, d, q)
    \/ /\ c.left > 0 /\ Possible(c.game, m)
       /\ InTurn(c.left - 1, Happened(c.game, m), c.sent, d, q)
    \/ /\ c.left = 0 /\ m.t = "ended"
       /\ InLobby(ResetGame(c.game), c.sent, d, q)

\* The states r that S goes through while it reads s and sends the views q.
Run(r, s, q) ==
    /\ r \in [0 .. Len(s) -> State]
    /\ \A i \in 1 .. Len(s) : Reads(r[i - 1], s[i], r[i], q)
    /\ \A i \in 0 .. Len(s) : r[i].sent <= Len(q)
    /\ \A i, j \in 0 .. Len(s) : i <= j => r[i].sent <= r[j].sent

\* The present state of S, which may still have a turn to finish.
Now(c, q) == IF sPc = "events" THEN InTurn(left, game, 0, c, q)
             ELSE c = [left |-> 0, game |-> game, sent |-> 0]

-----------------------------------------------------------------------------
(* What the server has come to.                                            *)

\* Nobody has a bomb whose number is still to be given; the game is everyone's;
\* as long as bombs go off, exactly those in the flames are hit, and later
\* nobody who is to act stands where there were flames.
BoardInv ==
    /\ DOMAIN bombs \subseteq 0 .. nextBomb - 1
    /\ stage # "lobby" => DOMAIN joined = PlayerId /\ DOMAIN deaths = PlayerId
    /\ stage = "bombs" => /\ due \subseteq DOMAIN bombs
                          /\ hit = {p \in PlayerId : positions[p] \in blast}
    /\ stage = "players" =>
           \A p \in PlayerId : p >= actor /\ p \notin hit => positions[p] \notin blast

\* The copy of a client that knows who is in the lobby and no more.
LobbyGame(g) == g = [turn              |-> g.turn,
                     players           |-> joined,
                     players_positions |-> EmptyMap,
                     blocks            |-> {},
                     bombs             |-> EmptyMap,
                     explosions        |-> {},
                     scores            |-> [p \in DOMAIN joined |-> 0],
                     dead_players      |-> {},
                     destroyed_blocks  |-> {}]

\* The copy between two turns: the bombs have been aged for the next one.
TurnGame(g) == g = [turn              |-> turn,
                    players           |-> joined,
                    players_positions |-> positions,
                    blocks            |-> blocks,
                    bombs             |-> Aged(bombs),
                    explosions        |-> {},
                    scores            |-> deaths,
                    dead_players      |-> {},
                    destroyed_blocks  |-> {}]

\* The copy that agrees with the server in the middle of a turn.
MidGame(g) ==
    /\ g.turn = turn + 1
    /\ g.players = joined
    /\ g.players_positions = positions
    /\ g.bombs = bombs
    /\ g.explosions = blast
    /\ g.dead_players = hit
    /\ stage = "bombs" => /\ g.blocks = blocks
                          /\ g.destroyed_blocks = blocks \cap blast
                          /\ g.scores = deaths
    /\ stage = "players" => /\ g.blocks \ g.destroyed_blocks = blocks
                            /\ g.destroyed_blocks \subseteq blast
                            /\ AddScores(g).scores = deaths

\* The games g that the events s make one after the other.
Course(g, s) == /\ g \in [0 .. Len(s) -> GameType]
                /\ \A i \in 1 .. Len(s) : /\ Possible(g[i - 1], s[i])
                                          /\ g[i] = Happened(g[i - 1], s[i])

\* A client in this state that has sent the views q is where the server is.
\* In a turn it will be as soon as it has heard of the events.
Agrees(c, q) ==
    /\ c \in State /\ c.left = 0 /\ c.sent = Len(q)
    /\ stage = "lobby" => LobbyGame(c.game)
    /\ stage = "idle" => TurnGame(c.game)
    /\ stage \in {"bombs", "players"} =>
           \E g : /\ Course(g, events)
                  /\ g[0] = SetTurn(c.game, turn + 1)
                  /\ MidGame(g[Len(events)])
    /\ stage \in {"lobby", "idle"} /\ q # <<>> => q[Len(q)] = ServerView

\* A client that reads s from state c on comes to where the server is.
Follows(r, s, q) == Run(r, s, q) /\ Agrees(r[Len(s)], q)

\* The client that has heard of the start of this game.
Starter == [left |-> 0, game |-> AddPlayers(NewGame, joined), sent |-> 0]

\* The client that is connected.
Synced(s, q) ==
    /\ q \in Seq(View)
    /\ \E r : /\ Now(r[0], q)
              /\ Run(r, s, q)
              /\ link = "up" => Agrees(r[Len(s)], q)
    /\ link = "up" /\ stage \in {"lobby", "idle"} /\ q = <<>> => shown = ServerView

\* The client that may still come: the log takes it to where the server is.
Recorded(s, q) == /\ q \in Seq(View)
                  /\ stage # "lobby" => /\ q # <<>>
                                        /\ \E r : r[0] = Starter /\ Follows(r, s, q)
                  /\ stage = "lobby" => s = <<>> /\ q = <<>>

\* With the views q for the client that is connected, or else for the one to come.
ReplicaInv(q) ==
    /\ BoardInv
    /\ sPc = "code" => left = 0
    /\ proc # "aborted"
    /\ connected /\ proc = "running" => Synced(down, q)
    /\ ~ connected => down = <<>> /\ sPc = "code" /\ Recorded(log, q)

-----------------------------------------------------------------------------
(* Runs, whatever the server does.                                         *)

LEMMA HappenedType ==
    ASSUME NEW g \in GameType, NEW e \in Event
    PROVE  Happened(g, e) \in GameType
<1>. DEFINE E == Message \cup Event
<1>1. e \in Message \cup Event OBVIOUS
<1>2. e.t \in EventKinds BY DEF Event, EventKinds
<1>3. CASE e.t = "bombPlaced"
  BY <1>1, <1>3, MessageFields, PlaceBombType DEF Happened
<1>4. CASE e.t = "bombExploded"
  <2>1. e.robots \in SUBSET PlayerId /\ e.blocks \in SUBSET Cell
    BY <1>1, <1>4, MessageFields
  <2>2. DestroyBlocks(KillPlayers(ExplodeBomb(g, e.id), e.robots), e.blocks) \in GameType
    BY <2>1, ExplodeBombType, KillPlayersType, DestroyBlocksType
  <2>. QED BY <1>4, <2>2 DEF Happened
<1>5. CASE e.t = "playerMoved"
  BY <1>1, <1>5, MessageFields, MovePlayerType DEF Happened
<1>6. CASE e.t = "blockPlaced"
  BY <1>1, <1>6, MessageFields, PlaceBlockType DEF Happened
<1>. QED BY <1>2, <1>3, <1>4, <1>5, <1>6 DEF EventKinds

LEMMA FinishedType ==
    ASSUME NEW g \in GameType
    PROVE  Finished(g) \in GameType /\ ResetTurn(Finished(g)) \in GameType
BY AddScoresType, EraseDestroyedBlocksType, ResetTurnType DEF Finished

LEMMA InTurnType ==
    ASSUME NEW l \in Nat, NEW g \in GameType, NEW k \in Nat, NEW d, NEW q,
           InTurn(l, g, k, d, q)
    PROVE  d \in State /\ d.sent \in {k, k + 1}
<1>1. ResetTurn(Finished(g)) \in GameType BY FinishedType
<1>. QED BY <1>1 DEF InTurn, State

LEMMA InLobbyType ==
    ASSUME NEW g \in GameType, NEW k \in Nat, NEW d, NEW q, InLobby(g, k, d, q)
    PROVE  d \in State /\ d.sent \in {k, k + 1}
BY DEF InLobby, State

\* Reading keeps the type of the state and sends at most one view.
LEMMA ReadsType ==
    ASSUME NEW c \in State, NEW m \in Message \cup Event, NEW d, NEW q, Reads(c, m, d, q)
    PROVE  d \in State /\ d.sent \in {c.sent, c.sent + 1}
<1>. c.left \in Nat /\ c.game \in GameType /\ c.sent \in Nat BY DEF State
<1>1. CASE m.t = "hello" /\ InLobby(NewGame, c.sent, d, q)
  BY <1>1, NewGameType, InLobbyType
<1>2. CASE /\ m.t = "accepted"
           /\ InLobby(AddPlayers(c.game, [p \in {m.id} |-> m.player]), c.sent, d, q)
  <2>1. [p \in {m.id} |-> m.player] \in MapOf(PlayerId, Player)
    BY <1>2, MessageFields, MapOfMember
  <2>. QED BY <1>2, <2>1, AddPlayersType, InLobbyType
<1>3. CASE m.t = "started" /\ d = [c EXCEPT !.game = AddPlayers(c.game, m.players)]
  <2>1. AddPlayers(c.game, m.players) \in GameType
    BY <1>3, MessageFields, AddPlayersType
  <2>. QED BY <1>3, <2>1 DEF State
<1>4. CASE m.t = "turn" /\ InTurn(m.n, SetTurn(c.game, m.turn), c.sent, d, q)
  BY <1>4, MessageFields, SetTurnType, InTurnType
<1>5. CASE /\ c.left > 0 /\ Possible(c.game, m)
           /\ InTurn(c.left - 1, Happened(c.game, m), c.sent, d, q)
  <2>1. Happened(c.game, m) \in GameType BY <1>5, HappenedType DEF Possible
  <2>2. c.left - 1 \in Nat BY <1>5
  <2>. QED BY <1>5, <2>1, <2>2, InTurnType
<1>6. CASE m.t = "ended" /\ InLobby(ResetGame(c.game), c.sent, d, q)
  BY <1>6, ResetGameType, InLobbyType
<1>. QED BY <1>1, <1>2, <1>3, <1>4, <1>5, <1>6 DEF Reads

\* The views may be numbered otherwise as long as the one sent is the same.
LEMMA ReadsOther ==
    ASSUME NEW c \in State, NEW m, NEW d \in State, NEW q, Reads(c, m, d, q),
           NEW k \in Nat, NEW p, d.sent = c.sent + 1 => p[k + 1] = q[c.sent + 1]
    PROVE  Reads([c EXCEPT !.sent = k], m,
                 [d EXCEPT !.sent = k + (d.sent - c.sent)], p)
<1>. DEFINE c2 == [c EXCEPT !.sent = k]
            d2 == [d EXCEPT !.sent = k + (d.sent - c.sent)]
<1>1. /\ c2.left = c.left /\ c2.game = c.game /\ c2.sent = k
      /\ d2.left = d.left /\ d2.game = d.game /\ d2.sent = k + (d.sent - c.sent)
      /\ d2 = [left |-> d2.left, game |-> d2.game, sent |-> d2.sent]
      /\ c.sent \in Nat
  BY DEF State
<1>2. ASSUME NEW g, InLobby(g, c.sent, d, q) PROVE InLobby(g, k, d2, p)
  <2>1. d.left = 0 /\ d.game = g /\ d.sent = c.sent + 1 /\ q[c.sent + 1] = LobbyView(g)
    BY <1>2 DEF InLobby
  <2>2. d2.sent = k + 1 BY <1>1, <2>1
  <2>. QED BY <1>1, <2>1, <2>2 DEF InLobby
<1>3. ASSUME NEW l, NEW g, InTurn(l, g, c.sent, d, q) PROVE InTurn(l, g, k, d2, p)
  <2>1. CASE l > 0 /\ d = [left |-> l, game |-> g, sent |-> c.sent]
    <3>1. d2.sent = k BY <1>1, <2>1
    <3>2. d2.left = l /\ d2.game = g BY <1>1, <2>1
    <3>. QED BY <1>1, <2>1, <3>1, <3>2 DEF InTurn
  <2>2. CASE /\ l = 0
             /\ d = [left |-> 0, game |-> ResetTurn(Finished(g)), sent |-> c.sent + 1]
             /\ q[c.sent + 1] = GameView(Finished(g))
    <3>1. d2.sent = k + 1 /\ d.sent = c.sent + 1 BY <1>1, <2>2
    <3>2. d2.left = 0 /\ d2.game = ResetTurn(Finished(g)) BY <1>1, <2>2
    <3>. QED BY <1>1, <2>2, <3>1, <3>2 DEF InTurn
  <2>. QED BY <1>3, <2>1, <2>2 DEF InTurn
<1>4. ASSUME NEW g, d = [c EXCEPT !.game = g] PROVE d2 = [c2 EXCEPT !.game = g]
  <2>1. d2.sent = k /\ d2.left = c.left /\ d2.game = g BY <1>1, <1>4 DEF State
  <2>2. c2 = [left |-> c.left, game |-> c.game, sent |-> k] BY DEF State
  <2>. QED BY <1>1, <2>1, <2>2
<1>. HIDE DEF c2, d2
<1>5. Reads(c2, m, d2, p)
  BY <1>1, <1>2, <1>3, <1>4 DEF Reads
<1>. QED BY <1>5 DEF c2, d2

LEMMA RunSteps ==
    ASSUME NEW s \in Seq(Message \cup Event), NEW q, NEW r, Run(r, s, q)
    PROVE  \A i \in 1 .. Len(s) : /\ r[i - 1] \in State /\ r[i] \in State
                                  /\ s[i] \in Message \cup Event
                                  /\ Reads(r[i - 1], s[i], r[i], q)
                                  /\ r[i].sent \in {r[i - 1].sent, r[i - 1].sent + 1}
<1>. SUFFICES ASSUME NEW i \in 1 .. Len(s)
              PROVE  /\ r[i - 1] \in State /\ r[i] \in State
                     /\ s[i] \in Message \cup Event
                     /\ Reads(r[i - 1], s[i], r[i], q)
                     /\ r[i].sent \in {r[i - 1].sent, r[i - 1].sent + 1}
  OBVIOUS
<1>1. r[i - 1] \in State /\ r[i] \in State BY DEF Run
<1>2. Reads(r[i - 1], s[i], r[i], q) /\ s[i] \in Message \cup Event BY DEF Run
<1>. QED BY <1>1, <1>2, ReadsType

\* More views are announced.
LEMMA RunMore ==
    ASSUME NEW s \in Seq(Message \cup Event), NEW q \in Seq(View), NEW p \in Seq(View),
           NEW r, Run(r, s, q)
    PROVE  Run(r, s, q \o p)
<1>1. Len(q \o p) >= Len(q) /\ \A i \in 1 .. Len(q) : (q \o p)[i] = q[i]
  BY ConcatProperties
<1>2. ASSUME NEW i \in 1 .. Len(s) PROVE Reads(r[i - 1], s[i], r[i], q \o p)
  <2>. DEFINE c == r[i - 1]
              d == r[i]
  <2>1. c \in State /\ d \in State /\ Reads(c, s[i], d, q) BY RunSteps
  <2>2. d.sent \in Nat /\ c.sent \in Nat /\ d.sent <= Len(q) BY <2>1 DEF State, Run
  <2>. HIDE DEF c, d
  <2>3. d.sent = c.sent + 1 => (q \o p)[c.sent + 1] = q[c.sent + 1] BY <1>1, <2>2
  <2>4. Reads([c EXCEPT !.sent = c.sent], s[i],
              [d EXCEPT !.sent = c.sent + (d.sent - c.sent)], q \o p)
    BY <2>1, <2>2, <2>3, ReadsOther
  <2>5. [c EXCEPT !.sent = c.sent] = c BY <2>1 DEF State
  <2>6. [d EXCEPT !.sent = c.sent + (d.sent - c.sent)] = d
    <3>1. c.sent + (d.sent - c.sent) = d.sent BY <2>2
    <3>. QED BY <2>1, <3>1 DEF State
  <2>. QED BY <2>4, <2>5, <2>6 DEF c, d
<1>3. \A i \in 0 .. Len(s) : r[i].sent <= Len(q \o p)
  <2>. SUFFICES ASSUME NEW i \in 0 .. Len(s) PROVE r[i].sent <= Len(q \o p) OBVIOUS
  <2>1. r[i] \in State /\ r[i].sent <= Len(q) BY DEF Run
  <2>2. r[i].sent \in Nat BY <2>1 DEF State
  <2>. QED BY <1>1, <2>1, <2>2
<1>. QED BY <1>2, <1>3 DEF Run

\* S has read the first element.
LEMMA RunTail ==
    ASSUME NEW s \in Seq(Message \cup Event), s # <<>>, NEW q, NEW r, Run(r, s, q)
    PROVE  Run([i \in 0 .. Len(s) - 1 |-> r[i + 1]], Tail(s), q)
<1>1. /\ Len(s) \in Nat \ {0} /\ Len(Tail(s)) = Len(s) - 1
      /\ \A i \in 1 .. Len(Tail(s)) : Tail(s)[i] = s[i + 1]
  BY HeadTailProperties
<1>. DEFINE t == [i \in 0 .. Len(s) - 1 |-> r[i + 1]]
<1>2. \A i \in 0 .. Len(s) - 1 : t[i] = r[i + 1] OBVIOUS
<1>3. t \in [0 .. Len(Tail(s)) -> State] BY <1>1 DEF Run
<1>. HIDE DEF t
<1>4. \A i \in 1 .. Len(Tail(s)) : Reads(t[i - 1], Tail(s)[i], t[i], q)
  <2>. SUFFICES ASSUME NEW i \in 1 .. Len(Tail(s))
                PROVE  Reads(t[i - 1], Tail(s)[i], t[i], q)
    OBVIOUS
  <2>1. t[i - 1] = r[(i + 1) - 1] /\ t[i] = r[i + 1] BY <1>1, <1>2
  <2>2. Reads(r[(i + 1) - 1], s[i + 1], r[i + 1], q) BY <1>1 DEF Run
  <2>. QED BY <1>1, <2>1, <2>2
<1>5. \A i \in 0 .. Len(Tail(s)) : t[i].sent <= Len(q) BY <1>1, <1>2 DEF Run
<1>6. \A i, j \in 0 .. Len(Tail(s)) : i <= j => t[i].sent <= t[j].sent
  BY <1>1, <1>2 DEF Run
<1>7. Run(t, Tail(s), q) BY <1>3, <1>4, <1>5, <1>6 DEF Run
<1>. QED BY <1>7 DEF t

\* A broken connection leaves a part of the run.
LEMMA RunPrefix ==
    ASSUME NEW s \in Seq(Message \cup Event), NEW q, NEW r, Run(r, s, q),
           NEW k \in 0 .. Len(s)
    PROVE  Run([i \in 0 .. k |-> r[i]], SubSeq(s, 1, k), q)
<1>. DEFINE t == [i \in 0 .. k |-> r[i]]
<1>1. Len(SubSeq(s, 1, k)) = k /\ \A i \in 1 .. k : SubSeq(s, 1, k)[i] = s[i]
  BY SubSeqProperties
<1>2. \A i \in 0 .. k : t[i] = r[i] OBVIOUS
<1>3. t \in [0 .. k -> State] BY DEF Run
<1>. HIDE DEF t
<1>4. k \in Nat /\ k <= Len(s) BY Len(s) \in Nat
<1>5. \A i \in 1 .. k : Reads(t[i - 1], SubSeq(s, 1, k)[i], t[i], q)
  <2>. SUFFICES ASSUME NEW i \in 1 .. k PROVE Reads(t[i - 1], s[i], t[i], q) BY <1>1
  <2>1. i - 1 \in 0 .. k /\ i \in 0 .. k /\ i \in 1 .. Len(s) BY <1>4
  <2>2. Reads(r[i - 1], s[i], r[i], q) BY <2>1 DEF Run
  <2>. QED BY <1>2, <2>1, <2>2
<1>6. \A i \in 0 .. k : i \in 0 .. Len(s) BY <1>4
<1>7. \A i \in 0 .. k : t[i].sent <= Len(q) BY <1>2, <1>6 DEF Run
<1>8. \A i, j \in 0 .. k : i <= j => t[i].sent <= t[j].sent BY <1>2, <1>6 DEF Run
<1>9. Run(t, SubSeq(s, 1, k), q) BY <1>1, <1>3, <1>5, <1>7, <1>8 DEF Run
<1>. QED BY <1>9 DEF t

\* The numbers of the views when k of them were sent before, or k more.
Renumbered(c, k) == [c EXCEPT !.sent = @ + k]

\* The views p are the views q with k more before them, or without the first.
Renumbers(r, s, q, p, k) ==
    /\ s \in Seq(Message \cup Event) /\ q \in Seq(View) /\ p \in Seq(View) /\ k \in Int
    /\ Run(r, s, q) /\ r[0].sent + k >= 0 /\ Len(p) = Len(q) + k
    /\ \A i \in 1 .. Len(q) : i + k >= 1 => p[i + k] = q[i]

LEMMA RunRenumbered ==
    ASSUME NEW r, NEW s, NEW q, NEW p, NEW k, Renumbers(r, s, q, p, k)
    PROVE  \E t : /\ Run(t, s, p)
                  /\ \A i \in 0 .. Len(s) : t[i] = Renumbered(r[i], k)
<1>. DEFINE t == [i \in 0 .. Len(s) |-> Renumbered(r[i], k)]
<1>0. /\ s \in Seq(Message \cup Event) /\ q \in Seq(View) /\ p \in Seq(View) /\ k \in Int
      /\ Run(r, s, q) /\ r[0].sent + k >= 0 /\ Len(p) = Len(q) + k
      /\ \A i \in 1 .. Len(q) : i + k >= 1 => p[i + k] = q[i]
  BY DEF Renumbers
<1>1. ASSUME NEW i \in 0 .. Len(s)
      PROVE  /\ r[i] \in State /\ r[i].sent \in Nat
             /\ t[i].sent = r[i].sent + k /\ t[i].sent \in Nat
             /\ t[i] = [r[i] EXCEPT !.sent = r[i].sent + k]
             /\ t[i].sent <= Len(p) /\ r[i].sent <= Len(q)
  <2>0. Len(s) \in Nat /\ 0 \in 0 .. Len(s) BY <1>0
  <2>1. r[i] \in State /\ r[0] \in State BY <1>0, <2>0 DEF Run
  <2>2. r[i].sent \in Nat /\ r[0].sent \in Nat BY <2>1 DEF State
  <2>3. r[0].sent <= r[i].sent /\ r[i].sent <= Len(q) BY <1>0, <2>0 DEF Run
  <2>4. t[i] = [r[i] EXCEPT !.sent = r[i].sent + k] BY DEF Renumbered
  <2>5. t[i].sent = r[i].sent + k BY <2>1, <2>4 DEF State
  <2>. QED BY <1>0, <2>1, <2>2, <2>3, <2>4, <2>5, SMTT(20)
<1>2. t \in [0 .. Len(s) -> State]
  <2>1. ASSUME NEW i \in 0 .. Len(s) PROVE Renumbered(r[i], k) \in State
    <3>1. r[i] \in State /\ r[i].sent + k \in Nat BY <1>1
    <3>. QED BY <3>1 DEF Renumbered, State
  <2>. QED BY <2>1
<1>. HIDE DEF t
<1>3. ASSUME NEW i \in 1 .. Len(s) PROVE Reads(t[i - 1], s[i], t[i], p)
  <2>1. i - 1 \in 0 .. Len(s) /\ i \in 0 .. Len(s) BY <1>0, Len(s) \in Nat
  <2>. DEFINE c == r[i - 1]
              d == r[i]
  <2>2. /\ c \in State /\ d \in State /\ Reads(c, s[i], d, q)
        /\ d.sent \in {c.sent, c.sent + 1}
    BY <1>0, RunSteps
  <2>3. /\ c.sent \in Nat /\ d.sent \in Nat
        /\ t[i - 1] = [c EXCEPT !.sent = c.sent + k] /\ t[i - 1].sent = c.sent + k
        /\ t[i] = [d EXCEPT !.sent = d.sent + k]
        /\ c.sent + k \in Nat /\ d.sent <= Len(q)
    BY <1>0, <1>1, <2>1
  <2>. HIDE DEF c, d
  <2>4. d.sent = c.sent + 1 => p[(c.sent + k) + 1] = q[c.sent + 1]
    <3>. SUFFICES ASSUME d.sent = c.sent + 1
                  PROVE  p[(c.sent + k) + 1] = q[c.sent + 1]
      OBVIOUS
    <3>1. c.sent + 1 \in 1 .. Len(q) /\ (c.sent + 1) + k >= 1 BY <1>0, <2>3
    <3>2. p[(c.sent + 1) + k] = q[c.sent + 1] BY <1>0, <3>1
    <3>3. (c.sent + 1) + k = (c.sent + k) + 1 BY <1>0, <2>3
    <3>. QED BY <3>2, <3>3
  <2>5. Reads([c EXCEPT !.sent = c.sent + k], s[i],
              [d EXCEPT !.sent = (c.sent + k) + (d.sent - c.sent)], p)
    BY <1>0, <2>2, <2>3, <2>4, ReadsOther
  <2>6. (c.sent + k) + (d.sent - c.sent) = d.sent + k BY <1>0, <2>3
  <2>. QED BY <2>3, <2>5, <2>6
<1>4. \A i \in 0 .. Len(s) : t[i].sent <= Len(p) BY <1>1
<1>5. \A i, j \in 0 .. Len(s) : i <= j => t[i].sent <= t[j].sent
  <2>. SUFFICES ASSUME NEW i \in 0 .. Len(s), NEW j \in 0 .. Len(s), i <= j
                PROVE  t[i].sent <= t[j].sent
    OBVIOUS
  <2>1. r[i].sent <= r[j].sent BY <1>0 DEF Run
  <2>2. PICK a, b : a = r[i].sent /\ b = r[j].sent OBVIOUS
  <2>3. a \in Nat /\ b \in Nat /\ t[i].sent = a + k /\ t[j].sent = b + k
    BY <1>1, <2>2
  <2>4. a <= b BY <2>1, <2>2
  <2>5. a + k <= b + k BY <1>0, <2>3, <2>4
  <2>. QED BY <2>3, <2>5
<1>6. Run(t, s, p) BY <1>2, <1>3, <1>4, <1>5 DEF Run
<1>7. \A i \in 0 .. Len(s) : t[i] = Renumbered(r[i], k) BY DEF t
<1>. QED BY <1>6, <1>7

\* One reading after the other.
LEMMA RunConcat ==
    ASSUME NEW s1 \in Seq(Message \cup Event), NEW s2 \in Seq(Message \cup Event),
           NEW q, NEW r1, NEW r2, Run(r1, s1, q), Run(r2, s2, q), r2[0] = r1[Len(s1)]
    PROVE  \E r : /\ Run(r, s1 \o s2, q)
                  /\ r[0] = r1[0]
                  /\ r[Len(s1 \o s2)] = r2[Len(s2)]
<1>. DEFINE n == Len(s1)
            m == Len(s2)
            s == s1 \o s2
            r == [i \in 0 .. n + m |-> IF i <= n THEN r1[i] ELSE r2[i - n]]
<1>1. n \in Nat /\ m \in Nat OBVIOUS
<1>2. /\ Len(s) = n + m
      /\ \A i \in 1 .. n : s[i] = s1[i]
      /\ \A i \in 1 .. m : s[n + i] = s2[i]
  BY ConcatProperties
<1>. HIDE DEF n, m, s
<1>3. /\ \A i \in 0 .. n : r1[i] \in State /\ r1[i].sent <= Len(q)
      /\ \A i \in 0 .. m : r2[i] \in State /\ r2[i].sent <= Len(q)
      /\ r2[0] = r1[n]
  BY DEF Run, n, m
<1>4. /\ \A i \in 0 .. n : r[i] = r1[i]
      /\ \A i \in 0 .. m : r[n + i] = r2[i]
  <2>1. ASSUME NEW i \in 0 .. n PROVE r[i] = r1[i]
    BY <1>1
  <2>2. ASSUME NEW i \in 0 .. m PROVE r[n + i] = r2[i]
    <3>1. n + i \in 0 .. n + m /\ (n + i) - n = i /\ (n + i <= n <=> i = 0) BY <1>1
    <3>2. r[n + i] = IF n + i <= n THEN r1[n + i] ELSE r2[(n + i) - n] BY <3>1
    <3>3. CASE i = 0 BY <1>1, <1>3, <3>2, <3>3
    <3>4. CASE i # 0 BY <3>1, <3>2, <3>4
    <3>. QED BY <3>3, <3>4
  <2>. QED BY <2>1, <2>2
<1>5. r \in [0 .. n + m -> State]
  <2>. SUFFICES ASSUME NEW i \in 0 .. n + m
                PROVE  (IF i <= n THEN r1[i] ELSE r2[i - n]) \in State
    OBVIOUS
  <2>1. CASE i <= n BY <1>1, <1>3, <2>1
  <2>2. CASE ~ i <= n
    <3>1. i - n \in 0 .. m BY <1>1, <2>2
    <3>. QED BY <1>3, <2>2, <3>1
  <2>. QED BY <2>1, <2>2
<1>. HIDE DEF r
<1>6. \A i \in 0 .. n + m : i \in 0 .. n \/ \E j \in 1 .. m : i = n + j
  <2>. SUFFICES ASSUME NEW i \in 0 .. n + m, i \notin 0 .. n
                PROVE  \E j \in 1 .. m : i = n + j
    OBVIOUS
  <2>1. i - n \in 1 .. m /\ i = n + (i - n) BY <1>1
  <2>. QED BY <2>1
<1>7. ASSUME NEW i \in 1 .. n + m PROVE Reads(r[i - 1], s[i], r[i], q)
  <2>1. CASE i \in 0 .. n
    <3>1. i \in 1 .. n /\ i - 1 \in 0 .. n BY <1>1, <2>1
    <3>2. Reads(r1[i - 1], s1[i], r1[i], q) BY <3>1 DEF Run, n
    <3>. QED BY <1>2, <1>4, <2>1, <3>1, <3>2
  <2>2. ASSUME NEW j \in 1 .. m, i = n + j PROVE Reads(r[i - 1], s[i], r[i], q)
    <3>1. Reads(r2[j - 1], s2[j], r2[j], q) BY DEF Run, m
    <3>2. j - 1 \in 0 .. m /\ j \in 0 .. m /\ i - 1 = n + (j - 1) BY <1>1, <2>2
    <3>3. r[i - 1] = r2[j - 1] /\ r[i] = r2[j] /\ s[i] = s2[j]
      BY <1>2, <1>4, <2>2, <3>2
    <3>. QED BY <3>1, <3>3
  <2>. QED BY <1>1, <1>6, <2>1, <2>2
<1>8. ASSUME NEW i \in 0 .. n + m PROVE r[i].sent <= Len(q)
  <2>1. CASE i \in 0 .. n BY <1>3, <1>4, <2>1
  <2>2. ASSUME NEW j \in 1 .. m, i = n + j PROVE r[i].sent <= Len(q)
    <3>1. j \in 0 .. m BY <1>1
    <3>. QED BY <1>3, <1>4, <2>2, <3>1
  <2>. QED BY <1>6, <2>1, <2>2
<1>9. /\ \A i, j \in 0 .. n : i <= j => r1[i].sent <= r1[j].sent
      /\ \A i, j \in 0 .. m : i <= j => r2[i].sent <= r2[j].sent
  BY DEF Run, n, m
<1>10. ASSUME NEW i \in 0 .. n + m, NEW j \in 0 .. n + m, i <= j
       PROVE  r[i].sent <= r[j].sent
  <2>1. CASE i \in 0 .. n /\ j \in 0 .. n BY <1>4, <1>9, <1>10, <2>1
  <2>2. ASSUME i \in 0 .. n, NEW l \in 1 .. m, j = n + l PROVE r[i].sent <= r[j].sent
    <3>1. n \in 0 .. n /\ 0 \in 0 .. m /\ l \in 0 .. m /\ i <= n /\ 0 <= l BY <1>1, <2>2
    <3>2. r1[i].sent <= r1[n].sent /\ r2[0].sent <= r2[l].sent BY <1>9, <2>2, <3>1
    <3>3. r[i] = r1[i] /\ r[j] = r2[l] BY <1>4, <2>2, <3>1
    <3>4. r1[i].sent \in Nat /\ r1[n].sent \in Nat /\ r2[l].sent \in Nat
      BY <1>3, <2>2, <3>1 DEF State
    <3>5. r1[i].sent <= r2[l].sent BY <1>3, <3>2, <3>4
    <3>. QED BY <3>3, <3>5
  <2>3. ASSUME NEW k \in 1 .. m, i = n + k, NEW l \in 1 .. m, j = n + l
        PROVE  r[i].sent <= r[j].sent
    <3>1. k \in 0 .. m /\ l \in 0 .. m /\ k <= l BY <1>1, <1>10, <2>3
    <3>. QED BY <1>4, <1>9, <2>3, <3>1
  <2>4. ASSUME NEW k \in 1 .. m, i = n + k, j \in 0 .. n PROVE FALSE
    BY <1>1, <1>10, <2>4
  <2>. QED BY <1>6, <2>1, <2>2, <2>3, <2>4
<1>11. Run(r, s, q)
  <2>1. \A i \in 1 .. Len(s) : Reads(r[i - 1], s[i], r[i], q) BY <1>2, <1>7
  <2>2. \A i \in 0 .. Len(s) : r[i].sent <= Len(q) BY <1>2, <1>8
  <2>3. \A i, j \in 0 .. Len(s) : i <= j => r[i].sent <= r[j].sent BY <1>2, <1>10
  <2>. QED BY <1>2, <1>5, <2>1, <2>2, <2>3 DEF Run
<1>12. r[0] = r1[0] /\ r[Len(s)] = r2[m]
  <2>1. 0 \in 0 .. n /\ m \in 0 .. m BY <1>1
  <2>. QED BY <1>2, <1>4, <2>1
<1>. QED BY <1>11, <1>12 DEF s, m

LEMMA RunOne ==
    ASSUME NEW c \in State, NEW m \in Message \cup Event, NEW d, NEW q,
           Reads(c, m, d, q), d.sent <= Len(q), Len(q) \in Nat
    PROVE  \E r : Run(r, <<m>>, q) /\ r[0] = c /\ r[1] = d
<1>. DEFINE r == [i \in 0 .. 1 |-> IF i = 0 THEN c ELSE d]
<1>1. d \in State /\ d.sent \in {c.sent, c.sent + 1} BY ReadsType
<1>2. c.sent \in Nat BY DEF State
<1>3. r[0] = c /\ r[1] = d /\ Len(<<m>>) = 1 /\ <<m>>[1] = m OBVIOUS
<1>4. r \in [0 .. 1 -> State] BY <1>1
<1>. HIDE DEF r
<1>5. \A i \in 0 .. 1 : i = 0 \/ i = 1 OBVIOUS
<1>6. \A i \in 1 .. 1 : Reads(r[i - 1], <<m>>[i], r[i], q)
  <2>1. \A i \in 1 .. 1 : i = 1 /\ i - 1 = 0 OBVIOUS
  <2>. QED BY <1>3, <2>1
<1>7. \A i \in 0 .. 1 : r[i].sent <= Len(q) BY <1>1, <1>2, <1>3, <1>5
<1>8. \A i, j \in 0 .. 1 : i <= j => r[i].sent <= r[j].sent BY <1>1, <1>2, <1>3, <1>5
<1>9. Run(r, <<m>>, q) BY <1>3, <1>4, <1>6, <1>7, <1>8 DEF Run
<1>. QED BY <1>3, <1>9

\* m is turn k with these events, which make the games g, and S has not sent all
\* of the views when it is in state c between two messages; d is its next state.
WholeTurn(c, k, list, g, q, m, d) ==
    /\ c \in State /\ c.left = 0 /\ k \in Nat /\ list \in Seq(Event)
    /\ Course(g, list) /\ g[0] = SetTurn(c.game, k)
    /\ q \in Seq(View) /\ c.sent < Len(q)
    /\ q[c.sent + 1] = GameView(Finished(g[Len(list)]))
    /\ m = <<Turn(k, Len(list))>> \o list
    /\ d = [left |-> 0,
            game |-> ResetTurn(Finished(g[Len(list)])),
            sent |-> c.sent + 1]

\* A turn with its events is read from the header to the end.
LEMMA RunTurn ==
    ASSUME NEW c, NEW k, NEW list, NEW g, NEW q, NEW m, NEW d,
           WholeTurn(c, k, list, g, q, m, d)
    PROVE  \E r : Run(r, m, q) /\ r[0] = c /\ r[Len(m)] = d
<1>. DEFINE n == Len(list)
            s == <<Turn(k, n)>> \o list
            during(i) == [left |-> (n + 1) - i, game |-> g[i - 1], sent |-> c.sent]
            last == [left |-> 0, game |-> ResetTurn(Finished(g[n])), sent |-> c.sent + 1]
            r == [i \in 0 .. n + 1 |-> IF i = 0 THEN c
                                       ELSE IF i <= n THEN during(i) ELSE last]
<1>1. /\ n \in Nat /\ c.sent \in Nat /\ Len(q) \in Nat
      /\ k \in Nat /\ list \in Seq(Event) /\ c \in State /\ c.left = 0
      /\ c.sent < Len(q)
  BY DEF State, WholeTurn
<1>2. /\ Len(s) = n + 1 /\ s[1] = Turn(k, n)
      /\ \A i \in 1 .. n : s[i + 1] = list[i]
  <2>1. <<Turn(k, n)>> \in Seq({Turn(k, n)} \cup Event) /\ list \in Seq({Turn(k, n)} \cup Event)
    BY <1>1
  <2>2. Len(<<Turn(k, n)>>) = 1 /\ <<Turn(k, n)>>[1] = Turn(k, n) OBVIOUS
  <2>. HIDE DEF n
  <2>3. Len(s) = 1 + Len(list) /\ s[1] = Turn(k, n)
        /\ \A i \in 1 .. Len(list) : s[1 + i] = list[i]
    BY <2>1, <2>2, ConcatProperties
  <2>. QED BY <1>1, <2>3 DEF n
<1>3. /\ g \in [0 .. n -> GameType] /\ g[0] = SetTurn(c.game, k)
      /\ \A i \in 1 .. n : Possible(g[i - 1], list[i]) /\ g[i] = Happened(g[i - 1], list[i])
  BY DEF Course, WholeTurn
<1>4. q[c.sent + 1] = GameView(Finished(g[n])) BY DEF WholeTurn
<1>. HIDE DEF n, s
<1>5. g[n] \in GameType /\ last \in State
  <2>1. g[n] \in GameType BY <1>1, <1>3
  <2>. QED BY <1>1, <2>1, FinishedType DEF State
<1>6. /\ r[0] = c
      /\ \A i \in 1 .. n : r[i] = during(i)
      /\ r[n + 1] = last
  <2>1. r[0] = c BY <1>1
  <2>2. ASSUME NEW i \in 1 .. n PROVE r[i] = during(i) BY <1>1
  <2>3. r[n + 1] = last BY <1>1
  <2>. QED BY <2>1, <2>2, <2>3
<1>7. \A i \in 1 .. n : during(i) \in State
  <2>. SUFFICES ASSUME NEW i \in 1 .. n PROVE during(i) \in State OBVIOUS
  <2>1. g[i - 1] \in GameType /\ (n + 1) - i \in Nat BY <1>1, <1>3
  <2>. QED BY <1>1, <2>1 DEF State
<1>8. \A i \in 0 .. n + 1 : i = 0 \/ i \in 1 .. n \/ i = n + 1 BY <1>1
<1>9. r \in [0 .. n + 1 -> State]
  <2>. SUFFICES ASSUME NEW i \in 0 .. n + 1
                PROVE  (IF i = 0 THEN c ELSE IF i <= n THEN during(i) ELSE last) \in State
    BY DEF r
  <2>. HIDE DEF during, last
  <2>. QED BY <1>1, <1>5, <1>7, <1>8
<1>. HIDE DEF r
<1>10. InTurn(0, g[n], c.sent, last, q) BY <1>4 DEF InTurn
<1>11. ASSUME NEW i \in 1 .. n + 1 PROVE Reads(r[i - 1], s[i], r[i], q)
  \* now follows i - 1 events.
  <2>. DEFINE now == r[i]
  <2>1. InTurn((n + 1) - i, g[i - 1], c.sent, now, q)
    <3>1. CASE i = n + 1
      <4>1. now = last /\ (n + 1) - i = 0 /\ i - 1 = n BY <1>1, <1>6, <3>1
      <4>. HIDE DEF now, last
      <4>. QED BY <1>10, <4>1
    <3>2. CASE i \in 1 .. n
      <4>1. now = during(i) /\ (n + 1) - i > 0 BY <1>1, <1>6, <3>2
      <4>. QED BY <4>1 DEF InTurn
    <3>. QED BY <1>1, <3>1, <3>2
  <2>2. CASE i = 1
    <3>1. Turn(k, n).t = "turn" /\ Turn(k, n).n = n /\ Turn(k, n).turn = k BY DEF Turn
    <3>2. r[i - 1] = c /\ s[i] = Turn(k, n) /\ (n + 1) - i = n /\ g[i - 1] = g[0]
      BY <1>1, <1>2, <1>6, <2>2
    <3>. QED BY <1>1, <1>3, <2>1, <3>1, <3>2 DEF Reads
  <2>3. CASE i # 1
    <3>. DEFINE j == i - 1
    <3>1. j \in 1 .. n /\ i = j + 1 /\ (n + 1) - i = ((n + 1) - j) - 1 BY <1>1, <2>3
    <3>2. r[i - 1] = during(j) /\ s[i] = list[j] BY <1>2, <1>6, <3>1
    <3>3. Possible(g[j - 1], list[j]) /\ g[j] = Happened(g[j - 1], list[j]) BY <1>3, <3>1
    <3>4. during(j).left = (n + 1) - j /\ during(j).game = g[j - 1]
          /\ during(j).sent = c.sent /\ (n + 1) - j > 0
      BY <1>1, <3>1
    <3>. HIDE DEF now
    <3>5. InTurn(((n + 1) - j) - 1, Happened(g[j - 1], list[j]), c.sent, now, q)
      BY <2>1, <3>1, <3>3
    <3>. HIDE DEF j, during
    <3>6. Reads(during(j), list[j], now, q) BY <3>3, <3>4, <3>5 DEF Reads
    <3>. QED BY <3>2, <3>6 DEF now
  <2>. QED BY <2>2, <2>3
<1>12. ASSUME NEW i \in 0 .. n + 1
       PROVE  r[i].sent = IF i = n + 1 THEN c.sent + 1 ELSE c.sent
  <2>1. CASE i = 0 BY <1>1, <1>6, <2>1
  <2>2. CASE i \in 1 .. n
    <3>1. r[i] = during(i) /\ i # n + 1 BY <1>1, <1>6, <2>2
    <3>2. during(i).sent = c.sent OBVIOUS
    <3>. QED BY <3>1, <3>2
  <2>3. CASE i = n + 1 BY <1>1, <1>6, <2>3
  <2>. QED BY <1>8, <2>1, <2>2, <2>3
<1>13. \A i \in 0 .. n + 1 : r[i].sent <= Len(q) BY <1>1, <1>12
<1>14. \A i, j \in 0 .. n + 1 : i <= j => r[i].sent <= r[j].sent
  <2>. SUFFICES ASSUME NEW i \in 0 .. n + 1, NEW j \in 0 .. n + 1, i <= j
                PROVE  r[i].sent <= r[j].sent
    OBVIOUS
  <2>1. /\ r[i].sent = IF i = n + 1 THEN c.sent + 1 ELSE c.sent
        /\ r[j].sent = IF j = n + 1 THEN c.sent + 1 ELSE c.sent
    BY <1>12
  <2>. QED BY <1>1, <2>1
<1>15. Run(r, s, q) BY <1>2, <1>9, <1>11, <1>13, <1>14 DEF Run
<1>16. r[0] = c /\ r[Len(s)] = last BY <1>2, <1>6
<1>17. \E x : Run(x, s, q) /\ x[0] = c /\ x[Len(s)] = last
  <2>. HIDE DEF last
  <2>. QED BY <1>15, <1>16
<1>18. m = s /\ d = last BY DEF s, n, WholeTurn
<1>. HIDE DEF last
<1>. QED BY <1>17, <1>18

-----------------------------------------------------------------------------
(* The board of the server.                                                *)

LEMMA BoardKept ==
    ASSUME BoardInv, UNCHANGED <<stage, joined, bombs, nextBomb, deaths, due, hit, blast,
                                 positions, actor>>
    PROVE  BoardInv'
BY DEF BoardInv

LEMMA BoardStartGame == ASSUME IInv, BoardInv, StartGame PROVE BoardInv'
<1>1. DOMAIN joined = PlayerId
  BY LobbyCount DEF IInv, ServerInv, StartGame, LobbyFull, PlayerId
<1>2. stage' = "idle" /\ joined' = joined /\ DOMAIN deaths' = PlayerId /\ DOMAIN bombs' = {}
  BY DEF StartGame, EmptyMap
<1>. QED BY <1>1, <1>2 DEF BoardInv

LEMMA BoardBeginTurn == ASSUME IInv, BoardInv, BeginTurn PROVE BoardInv'
<1>1. DOMAIN bombs' = DOMAIN bombs BY DEF BeginTurn, Aged
<1>2. stage' = "bombs" /\ hit' = {} /\ blast' = {} /\ due' \subseteq DOMAIN bombs
      /\ UNCHANGED <<joined, deaths, nextBomb, positions>> /\ stage = "idle"
  BY DEF BeginTurn
<1>. QED BY <1>1, <1>2 DEF BoardInv

\* One bomb goes off: what it covers, whom it hits and which blocks it destroys.
LEMMA OneBomb ==
    ASSUME IInv, ExplodeNextBomb
    PROVE  \E b \in due, cells \in SUBSET Cell, robots \in SUBSET PlayerId :
               /\ cells = BlastArea(bombs[b].pos, blocks)
               /\ robots = {p \in PlayerId : positions[p] \in cells}
               /\ due' = due \ {b}
               /\ hit' = hit \cup robots
               /\ blast' = blast \cup cells
               /\ bombs' = Erase(bombs, {b})
               /\ events' = Append(events, BombExploded(b, robots, blocks \cap cells))
<1>1. PICK b \in due :
         LET cells  == BlastArea(bombs[b].pos, blocks)
             robots == {p \in DOMAIN positions : positions[p] \in cells}
         IN  /\ due' = due \ {b}
             /\ hit' = hit \cup robots
             /\ blast' = blast \cup cells
             /\ bombs' = Erase(bombs, {b})
             /\ events' = Append(events, BombExploded(b, robots, blocks \cap cells))
  BY DEF ExplodeNextBomb
<1>. DEFINE cells  == BlastArea(bombs[b].pos, blocks)
            robots == {p \in DOMAIN positions : positions[p] \in cells}
<1>2. DOMAIN positions = PlayerId BY DEF ExplodeNextBomb, IInv, ServerInv, Playing
<1>3. cells \in SUBSET Cell BY BlastAreaType
<1>4. robots = {p \in PlayerId : positions[p] \in cells} /\ robots \in SUBSET PlayerId
  BY <1>2
<1>5. /\ due' = due \ {b}
      /\ hit' = hit \cup robots
      /\ blast' = blast \cup cells
      /\ bombs' = Erase(bombs, {b})
      /\ events' = Append(events, BombExploded(b, robots, blocks \cap cells))
  BY <1>1
<1>6. cells = BlastArea(bombs[b].pos, blocks) OBVIOUS
<1>. HIDE DEF cells, robots
<1>. QED BY <1>3, <1>4, <1>5, <1>6

LEMMA BoardExplodeNextBomb == ASSUME IInv, BoardInv, ExplodeNextBomb PROVE BoardInv'
<1>1. PICK b \in due, cells \in SUBSET Cell, robots \in SUBSET PlayerId :
               /\ robots = {p \in PlayerId : positions[p] \in cells}
               /\ due' = due \ {b}
               /\ hit' = hit \cup robots
               /\ blast' = blast \cup cells
               /\ bombs' = Erase(bombs, {b})
  BY OneBomb
<1>2. DOMAIN bombs' = DOMAIN bombs \ {b} BY <1>1 DEF Erase
<1>3. /\ stage = "bombs" /\ stage' = "bombs"
      /\ UNCHANGED <<joined, deaths, nextBomb, positions>>
  BY DEF ExplodeNextBomb
<1>4. hit' = {p \in PlayerId : positions'[p] \in blast'} BY <1>1, <1>3 DEF BoardInv
<1>5. due' \subseteq DOMAIN bombs' BY <1>1, <1>2, <1>3 DEF BoardInv
<1>. QED BY <1>2, <1>3, <1>4, <1>5 DEF BoardInv

LEMMA BoardBombsDone == ASSUME IInv, BoardInv, BombsDone PROVE BoardInv'
<1>1. /\ stage = "bombs" /\ stage' = "players" /\ DOMAIN deaths' = DOMAIN deaths
      /\ UNCHANGED <<joined, bombs, nextBomb, positions, hit, blast, actor>>
  BY DEF BombsDone, turnVars
<1>. QED BY <1>1 DEF BoardInv

LEMMA BoardMyTurn ==
    ASSUME IInv, BoardInv, NEW moved, NEW event, MyTurn(moved, event),
           DOMAIN bombs' \subseteq 0 .. nextBomb' - 1
    PROVE  BoardInv'
<1>1. /\ stage = "players" /\ stage' = "players" /\ actor' = actor + 1
      /\ positions' = [positions EXCEPT ![actor] = moved]
      /\ UNCHANGED <<joined, deaths, hit, blast>>
  BY DEF MyTurn
<1>2. actor \in Int /\ DOMAIN positions = PlayerId /\ \A p \in PlayerId : p \in Int
  BY <1>1, PlayersCountType DEF IInv, ServerInv, ServerOK, Playing, PlayerId
<1>3. ASSUME NEW p \in PlayerId, p >= actor', p \notin hit'
      PROVE  positions'[p] \notin blast'
  <2>1. p >= actor /\ p # actor BY <1>1, <1>2, <1>3
  <2>2. positions'[p] = positions[p] BY <1>1, <1>2, <2>1
  <2>. QED BY <1>1, <1>3, <2>1, <2>2 DEF BoardInv
<1>. QED BY <1>1, <1>3 DEF BoardInv

LEMMA BoardAct == ASSUME IInv, BoardInv, Respawn \/ Act PROVE BoardInv'
<1>1. CASE Respawn
  <2>1. PICK c \in Cell : MyTurn(c, <<PlayerMoved(actor, c)>>) BY <1>1 DEF Respawn
  <2>2. DOMAIN bombs' \subseteq 0 .. nextBomb' - 1 BY <1>1 DEF Respawn, BoardInv
  <2>. QED BY <2>1, <2>2, BoardMyTurn
<1>2. CASE Act
  <2>1. PICK m \in Commands : Rests(m) \/ PlacesBomb(m) \/ PlacesBlock(m) \/ Moves(m)
    BY <1>2 DEF Act
  <2>2. CASE Rests(m) \/ PlacesBlock(m) \/ Moves(m)
    <3>1. UNCHANGED <<bombs, nextBomb>> BY <2>2 DEF Rests, PlacesBlock, Moves
    <3>2. DOMAIN bombs' \subseteq 0 .. nextBomb' - 1 BY <3>1 DEF BoardInv
    <3>. QED BY <2>2, <3>2, BoardMyTurn DEF Rests, PlacesBlock, Moves
  <2>3. CASE PlacesBomb(m)
    <3>1. DOMAIN bombs' = DOMAIN bombs \cup {nextBomb} /\ nextBomb' = nextBomb + 1
      BY <2>3 DEF PlacesBomb, Put
    <3>2. nextBomb \in Nat BY GameAssumption DEF IInv, ServerInv, ServerOK
    <3>3. DOMAIN bombs' \subseteq 0 .. nextBomb' - 1 BY <3>1, <3>2 DEF BoardInv
    <3>. QED BY <2>3, <3>3, BoardMyTurn DEF PlacesBomb
  <2>. QED BY <2>1, <2>2, <2>3
<1>. QED BY <1>1, <1>2

LEMMA BoardServer ==
    ASSUME IInv, BoardInv, ServerStep \/ OtherJoins \/ Connect
    PROVE  BoardInv'
<1>1. CASE AcceptJoin \/ OtherJoins
  <2>1. stage' = "lobby" /\ UNCHANGED <<bombs, nextBomb>>
    BY <1>1 DEF AcceptJoin, OtherJoins, boardVars
  <2>. QED BY <2>1 DEF BoardInv
<1>2. CASE AcceptCommand
  BY <1>2, BoardKept DEF AcceptCommand, boardVars, turnVars
<1>3. CASE IgnoreRequest
  BY <1>3, BoardKept DEF IgnoreRequest, serverVars, boardVars, turnVars
<1>4. CASE Connect
  BY <1>4, BoardKept DEF Connect, boardVars, turnVars
<1>5. CASE EndTurn
  <2>1. stage = "players" /\ stage' = "idle" /\ UNCHANGED <<joined, bombs, nextBomb, deaths>>
    BY <1>5 DEF EndTurn
  <2>. QED BY <2>1 DEF BoardInv
<1>6. CASE EndGame
  <2>1. stage' = "lobby" /\ UNCHANGED <<bombs, nextBomb>> BY <1>6 DEF EndGame, boardVars
  <2>. QED BY <2>1 DEF BoardInv
<1>. QED
  BY <1>1, <1>2, <1>3, <1>4, <1>5, <1>6, BoardStartGame, BoardBeginTurn,
     BoardExplodeNextBomb, BoardBombsDone, BoardAct
  DEF ServerStep

-----------------------------------------------------------------------------
(* A turn, step by step: the copy that has heard of all events so far       *)
(* agrees with the server in the middle of its turn.                        *)

LEMMA CourseAppend ==
    ASSUME NEW s \in Seq(Event), NEW e \in Event, NEW g, Course(g, s),
           Possible(g[Len(s)], e)
    PROVE  \E h : /\ Course(h, Append(s, e))
                  /\ h[0] = g[0]
                  /\ h[Len(Append(s, e))] = Happened(g[Len(s)], e)
<1>. DEFINE n == Len(s)
            t == Append(s, e)
            h == [i \in 0 .. n + 1 |-> IF i <= n THEN g[i] ELSE Happened(g[n], e)]
<1>1. n \in Nat OBVIOUS
<1>2. Len(t) = n + 1 /\ t[n + 1] = e /\ \A i \in 1 .. n : t[i] = s[i]
  BY AppendProperties
<1>3. /\ g \in [0 .. n -> GameType]
      /\ \A i \in 1 .. n : Possible(g[i - 1], s[i]) /\ g[i] = Happened(g[i - 1], s[i])
      /\ Possible(g[n], e)
  BY DEF Course
<1>. HIDE DEF n, t
<1>4. /\ \A i \in 0 .. n : h[i] = g[i]
      /\ h[n + 1] = Happened(g[n], e)
  <2>1. \A i \in 0 .. n : h[i] = g[i] BY <1>1
  <2>2. h[n + 1] = Happened(g[n], e) BY <1>1
  <2>. QED BY <2>1, <2>2
<1>5. h \in [0 .. n + 1 -> GameType]
  <2>1. g[n] \in GameType BY <1>1, <1>3
  <2>2. Happened(g[n], e) \in GameType BY <2>1, HappenedType
  <2>. QED BY <1>1, <1>3, <2>2
<1>. HIDE DEF h
<1>6. ASSUME NEW i \in 1 .. n + 1
      PROVE  Possible(h[i - 1], t[i]) /\ h[i] = Happened(h[i - 1], t[i])
  <2>1. CASE i \in 1 .. n
    <3>1. i - 1 \in 0 .. n /\ i \in 0 .. n BY <1>1, <2>1
    <3>2. h[i - 1] = g[i - 1] /\ h[i] = g[i] /\ t[i] = s[i] BY <1>2, <1>4, <2>1, <3>1
    <3>. QED BY <1>3, <2>1, <3>2
  <2>2. CASE i = n + 1
    <3>1. i - 1 = n /\ n \in 0 .. n BY <1>1, <2>2
    <3>. QED BY <1>2, <1>3, <1>4, <2>2, <3>1
  <2>. QED BY <1>1, <2>1, <2>2
<1>7. Course(h, t) BY <1>2, <1>5, <1>6 DEF Course
<1>8. h[0] = g[0] /\ h[Len(t)] = Happened(g[n], e) BY <1>1, <1>2, <1>4
<1>. QED BY <1>7, <1>8 DEF n, t

InGame == stage \in {"bombs", "players"}

\* Something happens that the copy can follow.
LEMMA AgreesEvent ==
    ASSUME IInv, NEW c, NEW q, Agrees(c, q), InGame, InGame', turn' = turn,
           NEW e \in Event, events' = Append(events, e),
           \A g \in GameType : MidGame(g) => Possible(g, e) /\ MidGame(Happened(g, e))'
    PROVE  Agrees(c, q)'
<1>1. PICK s, k : s = events /\ k = turn OBVIOUS
<1>2. PICK g : /\ Course(g, s)
               /\ g[0] = SetTurn(c.game, k + 1)
               /\ MidGame(g[Len(s)])
  BY <1>1 DEF Agrees, InGame
<1>3. s \in Seq(Event) BY <1>1 DEF IInv, ServerInv, ServerOK
<1>4. g[Len(s)] \in GameType
  <2>1. Len(s) \in 0 .. Len(s) BY <1>3
  <2>. QED BY <1>2, <2>1 DEF Course
<1>5. Possible(g[Len(s)], e) /\ MidGame(Happened(g[Len(s)], e))' BY <1>2, <1>4
<1>6. PICK h : /\ Course(h, Append(s, e))
               /\ h[0] = g[0]
               /\ h[Len(Append(s, e))] = Happened(g[Len(s)], e)
  BY <1>2, <1>3, <1>5, CourseAppend
<1>7. PICK s2 : s2 = Append(s, e) OBVIOUS
<1>8. events' = s2 /\ turn' = k BY <1>1, <1>7
<1>9. Course(h, s2) /\ h[0] = SetTurn(c.game, k + 1) /\ MidGame(h[Len(s2)])'
  BY <1>2, <1>5, <1>6, <1>7
<1>10. (\E x : /\ Course(x, events)
               /\ x[0] = SetTurn(c.game, turn + 1)
               /\ MidGame(x[Len(events)]))'
  BY <1>8, <1>9
<1>11. stage' \notin {"lobby", "idle"} BY DEF InGame
<1>. QED BY <1>10, <1>11 DEF Agrees

\* Nothing happens that the copy would have to hear of.
LEMMA AgreesSame ==
    ASSUME IInv, NEW c, NEW q, Agrees(c, q), InGame, InGame', turn' = turn,
           events' = events, \A g \in GameType : MidGame(g) => MidGame(g)'
    PROVE  Agrees(c, q)'
<1>1. PICK s, k : s = events /\ k = turn OBVIOUS
<1>2. PICK g : /\ Course(g, s)
               /\ g[0] = SetTurn(c.game, k + 1)
               /\ MidGame(g[Len(s)])
  BY <1>1 DEF Agrees, InGame
<1>3. s \in Seq(Event) BY <1>1 DEF IInv, ServerInv, ServerOK
<1>4. g[Len(s)] \in GameType
  <2>1. Len(s) \in 0 .. Len(s) BY <1>3
  <2>. QED BY <1>2, <2>1 DEF Course
<1>5. MidGame(g[Len(s)])' BY <1>2, <1>4
<1>6. events' = s /\ turn' = k BY <1>1
<1>7. (\E x : /\ Course(x, events)
              /\ x[0] = SetTurn(c.game, turn + 1)
              /\ MidGame(x[Len(events)]))'
  BY <1>2, <1>5, <1>6
<1>8. stage' \notin {"lobby", "idle"} BY DEF InGame
<1>. QED BY <1>7, <1>8 DEF Agrees

LEMMA AgreesBeginTurn ==
    ASSUME IInv, NEW c, NEW q, Agrees(c, q), BeginTurn
    PROVE  Agrees(c, q)'
<1>1. PICK k : k = turn OBVIOUS
<1>2. /\ stage = "idle" /\ stage' = "bombs" /\ turn' = k /\ events' = <<>>
      /\ UNCHANGED <<joined, positions, blocks, deaths>>
      /\ bombs' = Aged(bombs) /\ hit' = {} /\ blast' = {}
  BY <1>1 DEF BeginTurn
<1>3. c \in State /\ TurnGame(c.game) /\ k \in Nat
  BY <1>1, <1>2 DEF Agrees, IInv, ServerInv, ServerOK
<1>. DEFINE g == [i \in 0 .. 0 |-> SetTurn(c.game, k + 1)]
<1>4. g[0] = SetTurn(c.game, k + 1) /\ g[Len(<<>>)] = g[0] OBVIOUS
<1>5. SetTurn(c.game, k + 1) \in GameType BY <1>3, SetTurnType DEF State
<1>6. Course(g, <<>>)
  <2>1. g \in [0 .. Len(<<>>) -> GameType] BY <1>5
  <2>2. \A i \in 1 .. Len(<<>>) : FALSE OBVIOUS
  <2>. QED BY <2>1, <2>2 DEF Course
<1>. HIDE DEF g
<1>7. MidGame(SetTurn(c.game, k + 1))'
  BY <1>1, <1>2, <1>3 DEF MidGame, TurnGame, SetTurn, State
<1>8. (\E x : /\ Course(x, events)
              /\ x[0] = SetTurn(c.game, turn + 1)
              /\ MidGame(x[Len(events)]))'
  BY <1>2, <1>4, <1>6, <1>7
<1>. QED BY <1>2, <1>8 DEF Agrees

LEMMA AgreesExplodeNextBomb ==
    ASSUME IInv, BoardInv, NEW c, NEW q, Agrees(c, q), ExplodeNextBomb
    PROVE  Agrees(c, q)'
<1>1. PICK b \in due, cells \in SUBSET Cell, robots \in SUBSET PlayerId :
               /\ cells = BlastArea(bombs[b].pos, blocks)
               /\ hit' = hit \cup robots
               /\ blast' = blast \cup cells
               /\ bombs' = Erase(bombs, {b})
               /\ events' = Append(events, BombExploded(b, robots, blocks \cap cells))
  BY OneBomb
<1>2. /\ InGame /\ InGame' /\ stage = "bombs" /\ stage' = "bombs" /\ turn' = turn
      /\ UNCHANGED <<joined, positions, blocks, deaths>>
  BY DEF ExplodeNextBomb, InGame
<1>3. b \in DOMAIN bombs /\ b \in BombId BY <1>1, <1>2 DEF BoardInv, IInv, ServerInv, ServerOK
<1>4. PICK e : e = BombExploded(b, robots, blocks \cap cells) OBVIOUS
<1>5. /\ e \in Event /\ e.t = "bombExploded" /\ e.id = b
      /\ e.robots = robots /\ e.blocks = blocks \cap cells
  BY <1>1, <1>3, <1>4, EventTypes DEF BombExploded
<1>6. ASSUME NEW g \in GameType, MidGame(g)
      PROVE  Possible(g, e) /\ MidGame(Happened(g, e))'
  <2>1. g.bombs = bombs /\ g.blocks = blocks /\ g.explosions = blast /\ g.dead_players = hit
        /\ g.destroyed_blocks = blocks \cap blast
    BY <1>2, <1>6 DEF MidGame
  <2>2. Possible(g, e) BY <1>3, <1>5, <2>1 DEF Possible
  <2>. DEFINE h == Happened(g, e)
  <2>3. h = [g EXCEPT !.explosions = @ \cup cells, !.bombs = Erase(@, {b}),
                      !.dead_players = @ \cup robots,
                      !.destroyed_blocks = @ \cup (blocks \cap cells)]
    BY <1>1, <1>5, <2>1
    DEF Happened, ExplodeBomb, KillPlayers, DestroyBlocks, GameType
  <2>4. /\ h.turn = g.turn /\ h.players = g.players
        /\ h.players_positions = g.players_positions /\ h.blocks = g.blocks
        /\ h.scores = g.scores
        /\ h.explosions = g.explosions \cup cells /\ h.bombs = Erase(g.bombs, {b})
        /\ h.dead_players = g.dead_players \cup robots
        /\ h.destroyed_blocks = g.destroyed_blocks \cup (blocks \cap cells)
    BY <2>3 DEF GameType
  <2>. HIDE DEF h
  <2>5. h.destroyed_blocks = blocks \cap blast' BY <1>1, <2>1, <2>4
  <2>6. MidGame(h)' BY <1>1, <1>2, <1>6, <2>1, <2>4, <2>5 DEF MidGame
  <2>. QED BY <2>2, <2>6 DEF h
<1>7. events' = Append(events, e) BY <1>1, <1>4
<1>. QED BY <1>2, <1>5, <1>6, <1>7, AgreesEvent

LEMMA AgreesBombsDone ==
    ASSUME IInv, BoardInv, NEW c, NEW q, Agrees(c, q), BombsDone
    PROVE  Agrees(c, q)'
<1>1. /\ stage = "bombs" /\ stage' = "players" /\ turn' = turn /\ events' = events
      /\ InGame /\ InGame'
      /\ UNCHANGED <<joined, positions, bombs, hit, blast>>
      /\ blocks' = blocks \ blast
      /\ deaths' = [p \in DOMAIN deaths |-> deaths[p] + (IF p \in hit THEN 1 ELSE 0)]
  BY DEF BombsDone, turnVars, InGame
<1>2. hit \subseteq DOMAIN deaths
  BY <1>1 DEF BoardInv, IInv, ServerInv, ServerOK
<1>3. ASSUME NEW g \in GameType, MidGame(g) PROVE MidGame(g)'
  <2>1. /\ g.blocks = blocks /\ g.destroyed_blocks = blocks \cap blast
        /\ g.scores = deaths /\ g.dead_players = hit
    BY <1>1, <1>3 DEF MidGame
  <2>2. g.blocks \ g.destroyed_blocks = blocks' /\ g.destroyed_blocks \subseteq blast'
    BY <1>1, <2>1
  <2>3. AddScores(g).scores = deaths'
    <3>1. AddScores(g).scores =
            [p \in DOMAIN deaths \cup hit |-> (IF p \in DOMAIN deaths THEN deaths[p] ELSE 0)
                                              + (IF p \in hit THEN 1 ELSE 0)]
      BY <2>1 DEF AddScores, GameType
    <3>2. DOMAIN deaths \cup hit = DOMAIN deaths BY <1>2
    <3>. QED BY <1>1, <3>1, <3>2
  <2>. QED BY <1>1, <1>3, <2>2, <2>3 DEF MidGame
<1>. QED BY <1>1, <1>3, AgreesSame

LEMMA AddScoresSame ==
    ASSUME NEW g \in GameType, NEW h \in GameType,
           h.scores = g.scores, h.dead_players = g.dead_players
    PROVE  AddScores(h).scores = AddScores(g).scores
<1>. DEFINE score(f) == [p \in DOMAIN f.scores \cup f.dead_players |->
                           (IF p \in DOMAIN f.scores THEN f.scores[p] ELSE 0)
                           + (IF p \in f.dead_players THEN 1 ELSE 0)]
<1>1. AddScores(g).scores = score(g) /\ AddScores(h).scores = score(h)
  BY DEF AddScores, GameType
<1>2. score(g) = score(h) OBVIOUS
<1>. QED BY <1>1, <1>2

\* What all turns of players have in common.
LEMMA MyTurnFacts ==
    ASSUME IInv, NEW moved, NEW event, MyTurn(moved, event)
    PROVE  /\ stage = "players" /\ stage' = "players" /\ InGame /\ InGame'
           /\ actor \in PlayerId
           /\ events' = events \o event
           /\ positions' = [positions EXCEPT ![actor] = moved]
           /\ positions \in [PlayerId -> Cell]
           /\ UNCHANGED <<turn, joined, deaths, hit, blast>>
<1>1. actor \in PlayerId
  BY ActorPosition DEF IInv, ServerInv, MyTurn
<1>2. positions \in [PlayerId -> Cell]
  BY MapOfMember DEF MyTurn, IInv, ServerInv, ServerOK, Playing
<1>. QED BY <1>1, <1>2 DEF MyTurn, InGame

LEMMA OneEvent ==
    ASSUME IInv, NEW e \in Event PROVE events \o <<e>> = Append(events, e)
<1>1. events \in Seq(Event) BY DEF IInv, ServerInv, ServerOK
<1>. QED BY <1>1, AppendProperties, ConcatProperties

\* A robot moves or reappears.
LEMMA AgreesMoved ==
    ASSUME IInv, NEW c, NEW q, Agrees(c, q), NEW at \in Cell,
           MyTurn(at, <<PlayerMoved(actor, at)>>), UNCHANGED <<blocks, bombs>>
    PROVE  Agrees(c, q)'
<1>1. /\ stage = "players" /\ stage' = "players" /\ InGame /\ InGame'
      /\ actor \in PlayerId
      /\ events' = events \o <<PlayerMoved(actor, at)>>
      /\ positions' = [positions EXCEPT ![actor] = at]
      /\ positions \in [PlayerId -> Cell]
      /\ UNCHANGED <<turn, joined, deaths, hit, blast>>
  BY MyTurnFacts
<1>2. PICK e, p : e = PlayerMoved(actor, at) /\ p = actor OBVIOUS
<1>3. e \in Event /\ e.t = "playerMoved" /\ e.id = p /\ e.pos = at
  BY <1>1, <1>2, EventTypes DEF PlayerMoved
<1>4. events' = Append(events, e) BY <1>1, <1>2, <1>3, OneEvent
<1>5. ASSUME NEW g \in GameType, MidGame(g)
      PROVE  Possible(g, e) /\ MidGame(Happened(g, e))'
  <2>. DEFINE h == Happened(g, e)
  <2>1. Possible(g, e) BY <1>3 DEF Possible
  <2>2. h = MovePlayer(g, p, at) BY <1>3 DEF Happened
  <2>3. /\ h.turn = g.turn /\ h.players = g.players /\ h.blocks = g.blocks
        /\ h.bombs = g.bombs /\ h.explosions = g.explosions /\ h.scores = g.scores
        /\ h.dead_players = g.dead_players /\ h.destroyed_blocks = g.destroyed_blocks
        /\ h.players_positions = Put(g.players_positions, p, at)
    BY <2>2 DEF MovePlayer, GameType
  <2>4. h \in GameType BY <1>3, HappenedType
  <2>. HIDE DEF h
  <2>5. g.players_positions = positions BY <1>5 DEF MidGame
  <2>6. Put(positions, p, at) = positions' BY <1>1, <1>2 DEF Put
  <2>7. AddScores(h).scores = AddScores(g).scores BY <2>3, <2>4, AddScoresSame
  <2>8. MidGame(h)' BY <1>1, <1>5, <2>3, <2>5, <2>6, <2>7 DEF MidGame
  <2>. QED BY <2>1, <2>8 DEF h
<1>. QED BY <1>1, <1>3, <1>4, <1>5, AgreesEvent

LEMMA AgreesRests ==
    ASSUME IInv, NEW c, NEW q, Agrees(c, q), MyTurn(positions[actor], <<>>),
           UNCHANGED <<blocks, bombs>>
    PROVE  Agrees(c, q)'
<1>1. /\ stage = "players" /\ stage' = "players" /\ InGame /\ InGame'
      /\ actor \in PlayerId
      /\ events' = events \o <<>>
      /\ positions' = [positions EXCEPT ![actor] = positions[actor]]
      /\ positions \in [PlayerId -> Cell]
      /\ UNCHANGED <<turn, joined, deaths, hit, blast>>
  BY MyTurnFacts
<1>2. positions' = positions BY <1>1
<1>3. events' = events
  <2>1. events \in Seq(Event) BY DEF IInv, ServerInv, ServerOK
  <2>. QED BY <1>1, <2>1, ConcatProperties
<1>4. \A g \in GameType : MidGame(g) => MidGame(g)' BY <1>1, <1>2 DEF MidGame
<1>. QED BY <1>1, <1>3, <1>4, AgreesSame

LEMMA AgreesPlacesBomb ==
    ASSUME IInv, BoardInv, NEW c, NEW q, Agrees(c, q), NEW m, PlacesBomb(m)
    PROVE  Agrees(c, q)'
<1>1. PICK b, at, e : b = nextBomb /\ at = positions[actor] /\ e = BombPlaced(b, at)
  OBVIOUS
<1>2. /\ MyTurn(at, <<e>>) /\ UNCHANGED blocks /\ b < MaxBombs
      /\ bombs' = Put(bombs, b, [pos |-> at, timer |-> BombTimer])
  BY <1>1 DEF PlacesBomb
<1>3. /\ stage = "players" /\ stage' = "players" /\ InGame /\ InGame'
      /\ actor \in PlayerId
      /\ events' = events \o <<e>>
      /\ positions' = [positions EXCEPT ![actor] = at]
      /\ positions \in [PlayerId -> Cell]
      /\ UNCHANGED <<turn, joined, deaths, hit, blast>>
  BY <1>2, MyTurnFacts
<1>4. b \in BombId /\ b \notin DOMAIN bombs
  <2>1. b \in Nat BY <1>1, GameAssumption DEF IInv, ServerInv, ServerOK
  <2>2. b \in BombId BY <1>2, <2>1, GameAssumption DEF BombId
  <2>3. b \notin DOMAIN bombs BY <1>1, <2>1 DEF BoardInv
  <2>. QED BY <2>2, <2>3
<1>5. e \in Event /\ e.t = "bombPlaced" /\ e.id = b /\ e.pos = at
  BY <1>1, <1>3, <1>4, EventTypes DEF BombPlaced
<1>6. events' = Append(events, e) BY <1>3, <1>5, OneEvent
<1>7. positions' = positions BY <1>1, <1>3
<1>8. ASSUME NEW g \in GameType, MidGame(g)
      PROVE  Possible(g, e) /\ MidGame(Happened(g, e))'
  <2>. DEFINE h == Happened(g, e)
  <2>1. Possible(g, e) BY <1>5 DEF Possible
  <2>2. h = PlaceBomb(g, b, at) BY <1>5 DEF Happened
  <2>3. /\ h.turn = g.turn /\ h.players = g.players /\ h.blocks = g.blocks
        /\ h.players_positions = g.players_positions
        /\ h.explosions = g.explosions /\ h.scores = g.scores
        /\ h.dead_players = g.dead_players /\ h.destroyed_blocks = g.destroyed_blocks
        /\ h.bombs = IF b \in DOMAIN g.bombs THEN g.bombs
                     ELSE Put(g.bombs, b, [pos |-> at, timer |-> BombTimer])
    BY <2>2 DEF PlaceBomb, GameType
  <2>4. h \in GameType BY <1>5, HappenedType
  <2>. HIDE DEF h
  <2>5. g.bombs = bombs BY <1>8 DEF MidGame
  <2>6. h.bombs = bombs' BY <1>2, <1>4, <2>3, <2>5
  <2>7. AddScores(h).scores = AddScores(g).scores BY <2>3, <2>4, AddScoresSame
  <2>8. MidGame(h)' BY <1>2, <1>3, <1>7, <1>8, <2>3, <2>6, <2>7 DEF MidGame
  <2>. QED BY <2>1, <2>8 DEF h
<1>. QED BY <1>3, <1>5, <1>6, <1>8, AgreesEvent

\* A block is never placed where one has just been destroyed, so that the copy
\* may erase the destroyed blocks at the end of the turn.
LEMMA AgreesPlacesBlock ==
    ASSUME IInv, BoardInv, NEW c, NEW q, Agrees(c, q), actor \notin hit,
           NEW m, PlacesBlock(m)
    PROVE  Agrees(c, q)'
<1>1. PICK at, e : at = positions[actor] /\ e = BlockPlaced(at) OBVIOUS
<1>2. MyTurn(at, <<e>>) /\ UNCHANGED bombs /\ blocks' = blocks \cup {at}
  BY <1>1 DEF PlacesBlock
<1>3. /\ stage = "players" /\ stage' = "players" /\ InGame /\ InGame'
      /\ actor \in PlayerId
      /\ events' = events \o <<e>>
      /\ positions' = [positions EXCEPT ![actor] = at]
      /\ positions \in [PlayerId -> Cell]
      /\ UNCHANGED <<turn, joined, deaths, hit, blast>>
  BY <1>2, MyTurnFacts
<1>4. at \notin blast
  <2>1. actor >= actor BY <1>3, PlayersCountType DEF PlayerId
  <2>. QED BY <1>1, <1>3, <2>1 DEF BoardInv
<1>5. e \in Event /\ e.t = "blockPlaced" /\ e.pos = at
  BY <1>1, <1>3, EventTypes DEF BlockPlaced
<1>6. events' = Append(events, e) BY <1>3, <1>5, OneEvent
<1>7. positions' = positions BY <1>1, <1>3
<1>8. ASSUME NEW g \in GameType, MidGame(g)
      PROVE  Possible(g, e) /\ MidGame(Happened(g, e))'
  <2>. DEFINE h == Happened(g, e)
  <2>1. Possible(g, e) BY <1>5 DEF Possible
  <2>2. h = PlaceBlock(g, at) BY <1>5 DEF Happened
  <2>3. /\ h.turn = g.turn /\ h.players = g.players /\ h.bombs = g.bombs
        /\ h.players_positions = g.players_positions
        /\ h.explosions = g.explosions /\ h.scores = g.scores
        /\ h.dead_players = g.dead_players /\ h.destroyed_blocks = g.destroyed_blocks
        /\ h.blocks = g.blocks \cup {at}
    BY <2>2 DEF PlaceBlock, GameType
  <2>4. h \in GameType BY <1>5, HappenedType
  <2>. HIDE DEF h
  <2>5. g.blocks \ g.destroyed_blocks = blocks /\ g.destroyed_blocks \subseteq blast
    BY <1>3, <1>8 DEF MidGame
  <2>6. h.blocks \ h.destroyed_blocks = blocks' BY <1>2, <1>4, <2>3, <2>5
  <2>7. AddScores(h).scores = AddScores(g).scores BY <2>3, <2>4, AddScoresSame
  <2>8. MidGame(h)' BY <1>2, <1>3, <1>7, <1>8, <2>3, <2>6, <2>7 DEF MidGame
  <2>. QED BY <2>1, <2>8 DEF h
<1>. QED BY <1>3, <1>5, <1>6, <1>8, AgreesEvent

LEMMA AgreesAct ==
    ASSUME IInv, BoardInv, NEW c, NEW q, Agrees(c, q), Respawn \/ Act
    PROVE  Agrees(c, q)'
<1>1. CASE Respawn BY <1>1, AgreesMoved DEF Respawn
<1>2. CASE Act
  <2>1. PICK m \in Commands : Rests(m) \/ PlacesBomb(m) \/ PlacesBlock(m) \/ Moves(m)
    BY <1>2 DEF Act
  <2>2. CASE Rests(m) BY <2>2, AgreesRests DEF Rests
  <2>3. CASE PlacesBomb(m) BY <2>3, AgreesPlacesBomb
  <2>4. CASE PlacesBlock(m) BY <1>2, <2>4, AgreesPlacesBlock DEF Act
  <2>5. CASE Moves(m)
    <3>1. PICK at : at = Target(positions[actor], m.dir) OBVIOUS
    <3>2. /\ at \in Cell /\ MyTurn(at, <<PlayerMoved(actor, at)>>)
          /\ UNCHANGED <<blocks, bombs>>
      BY <2>5, <3>1 DEF Moves
    <3>. QED BY <3>2, AgreesMoved
  <2>. QED BY <2>1, <2>2, <2>3, <2>4, <2>5
<1>. QED BY <1>1, <1>2

-----------------------------------------------------------------------------
(* The server sends m and announces a view: the client that agrees with it  *)
(* in state c before does so again when it has read m.                      *)

Extends(c, m, q) == \E r : Run(r, m, q) /\ r[0] = c /\ Agrees(r[Len(m)], q)'

WillAgree(c, q) == Agrees(c, q)'

\* The client that has read s in the states r then reads m and sends p as well.
GoesOn(r, s, m, q, p) ==
    /\ s \in Seq(Message \cup Event) /\ m \in Seq(Message \cup Event)
    /\ q \in Seq(View) /\ p \in Seq(View)
    /\ Run(r, s, q)
    /\ Extends(r[Len(s)], m, q \o p)

LEMMA RunExtends ==
    ASSUME NEW r, NEW s, NEW m, NEW q, NEW p, GoesOn(r, s, m, q, p)
    PROVE  \E t : /\ Run(t, s \o m, q \o p)
                  /\ t[0] = r[0]
                  /\ WillAgree(t[Len(s \o m)], q \o p)
<1>0. /\ s \in Seq(Message \cup Event) /\ m \in Seq(Message \cup Event)
      /\ q \in Seq(View) /\ p \in Seq(View) /\ Run(r, s, q)
  BY DEF GoesOn
<1>1. PICK w : w = q \o p OBVIOUS
<1>2. PICK x : Run(x, m, w) /\ x[0] = r[Len(s)] /\ Agrees(x[Len(m)], w)'
  BY <1>1 DEF Extends, GoesOn
<1>3. Run(r, s, w) BY <1>0, <1>1, RunMore
<1>4. Run(x, m, w) /\ x[0] = r[Len(s)] BY <1>2
<1>5. \E t : /\ Run(t, s \o m, w)
            /\ t[0] = r[0]
            /\ t[Len(s \o m)] = x[Len(m)]
  BY <1>0, <1>3, <1>4, RunConcat, SMTT(60)
<1>6. PICK t : Run(t, s \o m, w) /\ t[0] = r[0] /\ t[Len(s \o m)] = x[Len(m)]
  BY <1>5
<1>7. WillAgree(t[Len(s \o m)], w) BY <1>2, <1>6 DEF WillAgree
<1>. QED BY <1>1, <1>6, <1>7

\* A single message.
LEMMA ExtendsOne ==
    ASSUME NEW c \in State, NEW m \in Message, NEW d, NEW q \in Seq(View),
           Reads(c, m, d, q), d.sent <= Len(q), Agrees(d, q)'
    PROVE  Extends(c, <<m>>, q)
<1>1. PICK r : Run(r, <<m>>, q) /\ r[0] = c /\ r[1] = d BY RunOne
<1>2. Len(<<m>>) = 1 OBVIOUS
<1>. QED BY <1>1, <1>2 DEF Extends

LEMMA Announced ==
    ASSUME NEW q \in Seq(View), NEW v \in View
    PROVE  /\ q \o <<v>> \in Seq(View)
           /\ Len(q \o <<v>>) = Len(q) + 1 /\ Len(q) \in Nat
           /\ (q \o <<v>>)[Len(q) + 1] = v
           /\ q \o <<v>> # <<>>
<1>1. <<v>> \in Seq(View) /\ Len(<<v>>) = 1 /\ <<v>>[1] = v OBVIOUS
<1>. QED BY <1>1, ConcatProperties

\* What the server shows is something S can show.
LEMMA ServerViewType ==
    ASSUME IInv, BoardInv, stage \in {"lobby", "idle"} PROVE ServerView \in View
<1>. DEFINE lobby == [t |-> "lobby", players |-> joined]
            on == [t |-> "game", turn |-> turn, players |-> joined,
                   positions |-> positions, blocks |-> blocks, bombs |-> bombs,
                   explosions |-> blast, scores |-> deaths]
<1>1. ServerView = IF stage = "lobby" THEN lobby ELSE on BY DEF ServerView
<1>2. lobby \in View BY DEF IInv, ServerInv, ServerOK, View
<1>3. on \in View
  <2>1. bombs \in MapOf(BombId, Bomb) /\ deaths \in MapOf(PlayerId, Nat)
    BY MapOfMember DEF IInv, ServerInv, ServerOK
  <2>. QED BY <2>1 DEF IInv, ServerInv, ServerOK, View
<1>. QED BY <1>1, <1>2, <1>3

LEMMA ServerViewNextType ==
    ASSUME IInv', BoardInv', stage' \in {"lobby", "idle"} PROVE ServerView' \in View
<1>. DEFINE lobby == [t |-> "lobby", players |-> joined']
            on == [t |-> "game", turn |-> turn', players |-> joined',
                   positions |-> positions', blocks |-> blocks', bombs |-> bombs',
                   explosions |-> blast', scores |-> deaths']
<1>1. ServerView' = IF stage' = "lobby" THEN lobby ELSE on BY DEF ServerView
<1>2. lobby \in View BY DEF IInv, ServerInv, ServerOK, View
<1>3. on \in View
  <2>1. bombs' \in MapOf(BombId, Bomb) /\ deaths' \in MapOf(PlayerId, Nat)
    BY MapOfMember DEF IInv, ServerInv, ServerOK
  <2>. QED BY <2>1 DEF IInv, ServerInv, ServerOK, View
<1>. QED BY <1>1, <1>2, <1>3

-----------------------------------------------------------------------------
(* The lobby.                                                              *)

\* The copy that knows the lobby is the new one with players, without deaths.
LEMMA LobbyGameFields ==
    ASSUME NEW g \in GameType
    PROVE  LobbyGame(g) <=> /\ g.players = joined
                            /\ g.scores = [p \in DOMAIN joined |-> 0]
                            /\ g.players_positions = EmptyMap /\ g.bombs = EmptyMap
                            /\ g.blocks = {} /\ g.explosions = {}
                            /\ g.dead_players = {} /\ g.destroyed_blocks = {}
BY DEF LobbyGame, GameType

LEMMA LobbyGameNextFields ==
    ASSUME NEW g \in GameType
    PROVE  LobbyGame(g)' <=> /\ g.players = joined'
                             /\ g.scores = [p \in DOMAIN joined' |-> 0]
                             /\ g.players_positions = EmptyMap /\ g.bombs = EmptyMap
                             /\ g.blocks = {} /\ g.explosions = {}
                             /\ g.dead_players = {} /\ g.destroyed_blocks = {}
BY DEF LobbyGame, GameType

LEMMA AddPlayersFields ==
    ASSUME NEW g \in GameType, NEW new \in MapOf(PlayerId, Player)
    PROVE  /\ AddPlayers(g, new) \in GameType
           /\ AddPlayers(g, new).players =
                  [p \in DOMAIN g.players \cup DOMAIN new |->
                     IF p \in DOMAIN g.players THEN g.players[p] ELSE new[p]]
           /\ AddPlayers(g, new).scores =
                  [p \in DOMAIN g.scores \cup DOMAIN new |->
                     IF p \in DOMAIN g.scores THEN g.scores[p] ELSE 0]
           /\ AddPlayers(g, new).turn = g.turn
           /\ AddPlayers(g, new).players_positions = g.players_positions
           /\ AddPlayers(g, new).blocks = g.blocks
           /\ AddPlayers(g, new).bombs = g.bombs
           /\ AddPlayers(g, new).explosions = g.explosions
           /\ AddPlayers(g, new).dead_players = g.dead_players
           /\ AddPlayers(g, new).destroyed_blocks = g.destroyed_blocks
<1>1. AddPlayers(g, new) \in GameType BY AddPlayersType
<1>. QED BY <1>1 DEF AddPlayers, GameType

\* One more player is accepted.
LEMMA AgreesAdmit ==
    ASSUME IInv, NEW c, NEW q \in Seq(View), Agrees(c, q),
           stage = "lobby", stage' = "lobby", NEW who \in Player, NEW p \in PlayerId,
           p \notin DOMAIN joined, joined' = Put(joined, p, who),
           NEW v \in View, v = ServerView'
    PROVE  Extends(c, <<AcceptedPlayer(p, who)>>, q \o <<v>>)
<1>. DEFINE m == AcceptedPlayer(p, who)
            new == [x \in {m.id} |-> m.player]
            g == AddPlayers(c.game, new)
            d == [left |-> 0, game |-> g, sent |-> c.sent + 1]
<1>1. m \in Message /\ m.t = "accepted" /\ m.id = p /\ m.player = who
  BY AcceptedPlayerType DEF AcceptedPlayer
<1>2. c \in State /\ c.left = 0 /\ c.sent = Len(q) /\ LobbyGame(c.game)
  BY DEF Agrees
<1>. HIDE DEF m
<1>3. new \in MapOf(PlayerId, Player) BY <1>1, MapOfMember
<1>4. c.game \in GameType /\ c.sent \in Nat BY <1>2 DEF State
<1>5. DOMAIN new = {p} /\ new[p] = who BY <1>1
<1>6. c.game.players = joined /\ c.game.scores = [x \in DOMAIN joined |-> 0]
  BY <1>2, <1>4, LobbyGameFields
<1>. HIDE DEF new
<1>7. g = AddPlayers(c.game, new) OBVIOUS
<1>. HIDE DEF g
<1>8. g \in GameType /\ LobbyGame(g)'
  <2>1. /\ g \in GameType
        /\ g.players = [x \in DOMAIN c.game.players \cup DOMAIN new |->
                          IF x \in DOMAIN c.game.players THEN c.game.players[x]
                          ELSE new[x]]
        /\ g.scores = [x \in DOMAIN c.game.scores \cup DOMAIN new |->
                         IF x \in DOMAIN c.game.scores THEN c.game.scores[x] ELSE 0]
        /\ g.players_positions = c.game.players_positions
        /\ g.blocks = c.game.blocks /\ g.bombs = c.game.bombs
        /\ g.explosions = c.game.explosions
        /\ g.dead_players = c.game.dead_players
        /\ g.destroyed_blocks = c.game.destroyed_blocks
    BY <1>3, <1>4, <1>7, AddPlayersFields
  <2>2. DOMAIN joined' = DOMAIN joined \cup {p} BY DEF Put
  <2>3. g.players = joined' BY <1>5, <1>6, <2>1 DEF Put
  <2>4. g.scores = [x \in DOMAIN joined' |-> 0]
    <3>1. DOMAIN c.game.scores = DOMAIN joined
          /\ \A x \in DOMAIN joined : c.game.scores[x] = 0
      BY <1>6
    <3>2. g.scores = [x \in DOMAIN joined \cup {p} |-> 0] BY <1>5, <2>1, <3>1
    <3>. QED BY <2>2, <3>2
  <2>. QED BY <1>2, <1>4, <2>1, <2>3, <2>4, LobbyGameFields, LobbyGameNextFields
<1>9. v = LobbyView(g)
  <2>1. g.players = joined' BY <1>8, LobbyGameNextFields
  <2>. QED BY <2>1 DEF LobbyView, ServerView
<1>10. q \o <<v>> \in Seq(View) /\ Len(q \o <<v>>) = Len(q) + 1
      /\ (q \o <<v>>)[Len(q) + 1] = v
  BY Announced
<1>11. d \in State /\ d.left = 0 /\ d.game = g /\ d.sent = Len(q) + 1
  BY <1>2, <1>4, <1>8 DEF State
<1>12. InLobby(g, c.sent, d, q \o <<v>>) BY <1>2, <1>9, <1>10 DEF InLobby
<1>. HIDE DEF d
<1>13. Reads(c, m, d, q \o <<v>>)
  BY <1>1, <1>2, <1>12 DEF Reads, g, new
<1>14. Agrees(d, q \o <<v>>)'
  BY <1>8, <1>10, <1>11 DEF Agrees
<1>15. d.sent <= Len(q \o <<v>>) BY <1>10, <1>11
<1>16. Extends(c, <<m>>, q \o <<v>>)
  BY <1>1, <1>2, <1>10, <1>13, <1>14, <1>15, ExtendsOne
<1>. QED BY <1>16 DEF m

-----------------------------------------------------------------------------
(* Turns and games.                                                        *)

LEMMA FinishedFields ==
    ASSUME NEW g \in GameType
    PROVE  /\ Finished(g).turn = g.turn /\ Finished(g).players = g.players
           /\ Finished(g).players_positions = g.players_positions
           /\ Finished(g).blocks = g.blocks \ g.destroyed_blocks
           /\ Finished(g).bombs = g.bombs
           /\ Finished(g).explosions = g.explosions
           /\ Finished(g).scores = AddScores(g).scores
<1>1. AddScores(g) \in GameType BY AddScoresType
<1>2. /\ AddScores(g).turn = g.turn /\ AddScores(g).players = g.players
      /\ AddScores(g).players_positions = g.players_positions
      /\ AddScores(g).blocks = g.blocks
      /\ AddScores(g).destroyed_blocks = g.destroyed_blocks
      /\ AddScores(g).bombs = g.bombs /\ AddScores(g).explosions = g.explosions
  BY DEF AddScores, GameType
<1>. DEFINE h == AddScores(g)
<1>. HIDE DEF h
<1>3. /\ EraseDestroyedBlocks(h).turn = h.turn
      /\ EraseDestroyedBlocks(h).players = h.players
      /\ EraseDestroyedBlocks(h).players_positions = h.players_positions
      /\ EraseDestroyedBlocks(h).blocks = h.blocks \ h.destroyed_blocks
      /\ EraseDestroyedBlocks(h).bombs = h.bombs
      /\ EraseDestroyedBlocks(h).explosions = h.explosions
      /\ EraseDestroyedBlocks(h).scores = h.scores
  <2>1. h \in GameType BY <1>1 DEF h
  <2>. QED BY <2>1 DEF EraseDestroyedBlocks, GameType
<1>. QED BY <1>2, <1>3 DEF Finished, h

LEMMA ResetTurnFields ==
    ASSUME NEW g \in GameType
    PROVE  ResetTurn(g) = [turn              |-> g.turn,
                           players           |-> g.players,
                           players_positions |-> g.players_positions,
                           blocks            |-> g.blocks,
                           bombs             |-> Aged(g.bombs),
                           explosions        |-> {},
                           scores            |-> g.scores,
                           dead_players      |-> {},
                           destroyed_blocks  |-> {}]
<1>1. ResetTurn(g) \in GameType BY ResetTurnType
<1>2. /\ ResetTurn(g).turn = g.turn /\ ResetTurn(g).players = g.players
      /\ ResetTurn(g).players_positions = g.players_positions
      /\ ResetTurn(g).blocks = g.blocks /\ ResetTurn(g).bombs = Aged(g.bombs)
      /\ ResetTurn(g).explosions = {} /\ ResetTurn(g).scores = g.scores
      /\ ResetTurn(g).dead_players = {} /\ ResetTurn(g).destroyed_blocks = {}
  BY DEF ResetTurn, GameType
<1>. DEFINE h == ResetTurn(g)
<1>. HIDE DEF h
<1>3. h = [turn |-> h.turn, players |-> h.players,
           players_positions |-> h.players_positions, blocks |-> h.blocks,
           bombs |-> h.bombs, explosions |-> h.explosions, scores |-> h.scores,
           dead_players |-> h.dead_players, destroyed_blocks |-> h.destroyed_blocks]
  BY <1>1 DEF h, GameType
<1>4. /\ h.turn = g.turn /\ h.players = g.players
      /\ h.players_positions = g.players_positions
      /\ h.blocks = g.blocks /\ h.bombs = Aged(g.bombs)
      /\ h.explosions = {} /\ h.scores = g.scores
      /\ h.dead_players = {} /\ h.destroyed_blocks = {}
  BY <1>2 DEF h
<1>. QED BY <1>3, <1>4 DEF h

\* The copy after a turn and what is shown of it, when all it holds is what
\* the server holds after the turn.
LEMMA TurnShown ==
    ASSUME NEW g \in GameType, stage' = "idle",
           g.turn = turn', g.players = joined', g.players_positions = positions',
           g.blocks \ g.destroyed_blocks = blocks', g.bombs = bombs',
           g.explosions = blast', AddScores(g).scores = deaths'
    PROVE  /\ TurnGame(ResetTurn(Finished(g)))'
           /\ GameView(Finished(g)) = ServerView'
<1>. DEFINE f == Finished(g)
<1>1. f \in GameType BY FinishedType
<1>2. /\ f.turn = turn' /\ f.players = joined' /\ f.players_positions = positions'
      /\ f.blocks = blocks' /\ f.bombs = bombs' /\ f.explosions = blast'
      /\ f.scores = deaths'
  BY FinishedFields
<1>. HIDE DEF f
<1>. DEFINE h == ResetTurn(f)
<1>3. h = [turn              |-> f.turn,
           players           |-> f.players,
           players_positions |-> f.players_positions,
           blocks            |-> f.blocks,
           bombs             |-> Aged(f.bombs),
           explosions        |-> {},
           scores            |-> f.scores,
           dead_players      |-> {},
           destroyed_blocks  |-> {}]
  BY <1>1, ResetTurnFields
<1>. HIDE DEF h
<1>4. TurnGame(h)' BY <1>2, <1>3 DEF TurnGame
<1>5. GameView(f) = ServerView' BY <1>2 DEF GameView, ServerView
<1>. QED BY <1>4, <1>5 DEF f, h

\* A turn is sent.
LEMMA AgreesTurn ==
    ASSUME NEW c \in State, NEW q \in Seq(View), c.left = 0, c.sent = Len(q),
           NEW k \in Nat, NEW list \in Seq(Event), NEW g, Course(g, list),
           g[0] = SetTurn(c.game, k), NEW f \in GameType, f = g[Len(list)],
           stage' = "idle", TurnGame(ResetTurn(Finished(f)))',
           NEW v \in View, v = ServerView', v = GameView(Finished(f))
    PROVE  Extends(c, <<Turn(k, Len(list))>> \o list, q \o <<v>>)
<1>1. PICK p, m : p = q \o <<v>> /\ m = <<Turn(k, Len(list))>> \o list OBVIOUS
<1>2. /\ p \in Seq(View) /\ Len(p) = Len(q) + 1 /\ Len(q) \in Nat
      /\ p[Len(q) + 1] = v /\ p # <<>>
  BY <1>1, Announced
<1>3. PICK d : d = [left |-> 0,
                     game |-> ResetTurn(Finished(g[Len(list)])),
                     sent |-> c.sent + 1]
  OBVIOUS
<1>4. p[c.sent + 1] = GameView(Finished(g[Len(list)])) /\ c.sent < Len(p) BY <1>2
<1>5. \E r : Run(r, m, p) /\ r[0] = c /\ r[Len(m)] = d
  <2>1. WholeTurn(c, k, list, g, p, m, d) BY <1>1, <1>2, <1>3, <1>4 DEF WholeTurn
  <2>. QED BY <2>1, RunTurn
<1>6. d \in State /\ d.left = 0 /\ d.game = ResetTurn(Finished(f)) /\ d.sent = Len(p)
  BY <1>2, <1>3, FinishedType DEF State
<1>7. PICK r : Run(r, m, p) /\ r[0] = c /\ r[Len(m)] = d BY <1>5
<1>8. Agrees(d, p)' BY <1>2, <1>6 DEF Agrees
<1>9. Extends(c, m, p) BY <1>7, <1>8 DEF Extends
<1>. QED BY <1>1, <1>9

LEMMA AgreesEndTurn ==
    ASSUME IInv, IInv', BoardInv, BoardInv', NEW c, NEW q \in Seq(View), Agrees(c, q), EndTurn,
           NEW list, list = events, NEW k, k = turn, NEW v, v = ServerView'
    PROVE  /\ v \in View
           /\ Extends(c, <<Turn(k + 1, Len(list))>> \o list, q \o <<v>>)
<1>1. /\ stage = "players" /\ stage' = "idle" /\ turn' = k + 1
      /\ UNCHANGED <<joined, positions, blocks, bombs, deaths, blast>>
  BY DEF EndTurn, turnVars
<1>2. list \in Seq(Event) /\ k + 1 \in Nat
  <2>1. events \in Seq(Event) /\ turn \in Nat BY DEF IInv, ServerInv, ServerOK
  <2>2. k \in Nat BY <2>1
  <2>. QED BY <2>1, <2>2
<1>3. v \in View BY <1>1, ServerViewNextType
<1>4. c \in State /\ c.left = 0 /\ c.sent = Len(q) BY DEF Agrees
<1>5. PICK g : /\ Course(g, list)
               /\ g[0] = SetTurn(c.game, k + 1)
               /\ MidGame(g[Len(list)])
  BY <1>1 DEF Agrees
<1>6. PICK f \in GameType : f = g[Len(list)]
  <2>1. Len(list) \in 0 .. Len(list) BY <1>2
  <2>. QED BY <1>5, <2>1 DEF Course
<1>7. MidGame(f) BY <1>5, <1>6
<1>8. /\ f.turn = turn' /\ f.players = joined' /\ f.players_positions = positions'
      /\ f.blocks \ f.destroyed_blocks = blocks' /\ f.bombs = bombs'
      /\ f.explosions = blast' /\ AddScores(f).scores = deaths'
  BY <1>1, <1>7 DEF MidGame
<1>9. TurnGame(ResetTurn(Finished(f)))' /\ GameView(Finished(f)) = ServerView'
  BY <1>1, <1>8, TurnShown
<1>. QED BY <1>1, <1>2, <1>3, <1>4, <1>5, <1>6, <1>9, AgreesTurn

LEMMA AgreesEndGame ==
    ASSUME IInv, IInv', BoardInv, BoardInv', NEW c, NEW q \in Seq(View), Agrees(c, q), EndGame,
           NEW v, v = ServerView'
    PROVE  v \in View /\ Extends(c, <<GameEnded>>, q \o <<v>>)
<1>1. stage = "idle" /\ stage' = "lobby" /\ joined' = EmptyMap BY DEF EndGame
<1>2. v \in View BY <1>1, ServerViewNextType
<1>3. /\ c \in State /\ c.left = 0 /\ c.sent = Len(q) /\ TurnGame(c.game)
      /\ c.game \in GameType
  BY <1>1 DEF Agrees, State
<1>. DEFINE g == ResetGame(c.game)
            d == [left |-> 0, game |-> g, sent |-> c.sent + 1]
<1>4. g \in GameType BY <1>3, ResetGameType
<1>5. /\ g.players = EmptyMap /\ g.scores = EmptyMap
      /\ g.players_positions = EmptyMap /\ g.bombs = EmptyMap
      /\ g.blocks = {} /\ g.explosions = {}
      /\ g.dead_players = {} /\ g.destroyed_blocks = {}
  BY <1>3 DEF ResetGame, GameType, TurnGame
<1>6. EmptyMap = [p \in DOMAIN EmptyMap |-> 0] BY DEF EmptyMap
<1>. HIDE DEF g
<1>7. LobbyGame(g)' BY <1>1, <1>4, <1>5, <1>6, LobbyGameNextFields
<1>8. v = LobbyView(g) BY <1>1, <1>5 DEF LobbyView, ServerView
<1>9. q \o <<v>> \in Seq(View) /\ Len(q \o <<v>>) = Len(q) + 1 /\ Len(q) \in Nat
      /\ (q \o <<v>>)[Len(q) + 1] = v
  BY <1>2, Announced
<1>10. d \in State /\ d.left = 0 /\ d.game = g /\ d.sent = Len(q) + 1
  BY <1>3, <1>4, <1>9 DEF State
<1>11. InLobby(g, c.sent, d, q \o <<v>>) BY <1>3, <1>8, <1>9 DEF InLobby
<1>. HIDE DEF d
<1>12. GameEnded \in Message /\ GameEnded.t = "ended" BY DEF GameEnded, Message
<1>13. Reads(c, GameEnded, d, q \o <<v>>) BY <1>3, <1>11, <1>12 DEF Reads, g
<1>14. Agrees(d, q \o <<v>>)' BY <1>1, <1>7, <1>9, <1>10 DEF Agrees
<1>15. d.sent <= Len(q \o <<v>>) BY <1>9, <1>10
<1>. QED BY <1>2, <1>3, <1>9, <1>12, <1>13, <1>14, <1>15, ExtendsOne

-----------------------------------------------------------------------------
(* The start of a game.                                                    *)

\* The copy h with the robots and the blocks placed so far.
Placed(h, at, cells) == [h EXCEPT !.players_positions = at, !.blocks = cells]

LEMMA PlacedFields ==
    ASSUME NEW h \in GameType, NEW at \in MapOf(PlayerId, Cell), NEW cells \in SUBSET Cell
    PROVE  /\ Placed(h, at, cells) \in GameType
           /\ Placed(h, at, cells).players_positions = at
           /\ Placed(h, at, cells).blocks = cells
           /\ Placed(h, at, cells).turn = h.turn
           /\ Placed(h, at, cells).players = h.players
           /\ Placed(h, at, cells).bombs = h.bombs
           /\ Placed(h, at, cells).explosions = h.explosions
           /\ Placed(h, at, cells).scores = h.scores
           /\ Placed(h, at, cells).dead_players = h.dead_players
           /\ Placed(h, at, cells).destroyed_blocks = h.destroyed_blocks
BY DEF Placed, GameType

LEMMA PlacedRobot ==
    ASSUME NEW h \in GameType, NEW at, NEW cells, NEW p, NEW c
    PROVE  MovePlayer(Placed(h, at, cells), p, c) = Placed(h, Put(at, p, c), cells)
BY DEF Placed, MovePlayer, GameType

LEMMA PlacedBlock ==
    ASSUME NEW h \in GameType, NEW at, NEW cells, NEW c
    PROVE  PlaceBlock(Placed(h, at, cells), c) = Placed(h, at, cells \cup {c})
BY DEF Placed, PlaceBlock, GameType

\* The robots and the blocks that are placed after i events of turn 0.
Spawned(at, i) == [p \in {x \in PlayerId : x < i} |-> at[p]]
Strewn(b, i) == {b[k] : k \in {x \in 1 .. InitialBlocks : PlayersCount + x <= i}}

LEMMA SpawnedNext ==
    ASSUME NEW at \in [PlayerId -> Cell], NEW i \in 1 .. PlayersCount
    PROVE  Spawned(at, i) = Put(Spawned(at, i - 1), i - 1, at[i - 1])
<1>1. {x \in PlayerId : x < i} = {x \in PlayerId : x < i - 1} \cup {i - 1}
  BY PlayersCountType DEF PlayerId
<1>2. i - 1 \notin {x \in PlayerId : x < i - 1} BY PlayersCountType DEF PlayerId
<1>. QED BY <1>1, <1>2 DEF Spawned, Put

LEMMA StrewnNext ==
    ASSUME NEW b, NEW k \in 1 .. InitialBlocks
    PROVE  Strewn(b, PlayersCount + k) = Strewn(b, (PlayersCount + k) - 1) \cup {b[k]}
<1>1. {x \in 1 .. InitialBlocks : PlayersCount + x <= PlayersCount + k}
          = {x \in 1 .. InitialBlocks : PlayersCount + x <= (PlayersCount + k) - 1} \cup {k}
  BY PlayersCountType, ServerAssumption
<1>. QED BY <1>1 DEF Strewn

LEMMA PlacementEnds ==
    ASSUME NEW at \in [PlayerId -> Cell], NEW b \in [1 .. InitialBlocks -> Cell]
    PROVE  /\ Spawned(at, 0) = EmptyMap
           /\ Strewn(b, 0) = {}
           /\ \A i \in 0 .. PlayersCount : Strewn(b, i) = {}
           /\ \A k \in 0 .. InitialBlocks : Spawned(at, PlayersCount + k) = at
           /\ Strewn(b, PlayersCount + InitialBlocks) = {b[k] : k \in 1 .. InitialBlocks}
           /\ \A i \in Nat : Spawned(at, i) \in MapOf(PlayerId, Cell)
           /\ \A i \in Nat : Strewn(b, i) \in SUBSET Cell
<1>1. Spawned(at, 0) = EmptyMap
  <2>1. {x \in PlayerId : x < 0} = {} BY DEF PlayerId
  <2>. QED BY <2>1 DEF Spawned, EmptyMap
<1>2. \A i \in 0 .. PlayersCount : Strewn(b, i) = {}
  BY PlayersCountType, ServerAssumption DEF Strewn
<1>3. ASSUME NEW k \in 0 .. InitialBlocks PROVE Spawned(at, PlayersCount + k) = at
  <2>1. {x \in PlayerId : x < PlayersCount + k} = PlayerId
    BY PlayersCountType, ServerAssumption DEF PlayerId
  <2>. QED BY <2>1 DEF Spawned
<1>4. Strewn(b, PlayersCount + InitialBlocks) = {b[k] : k \in 1 .. InitialBlocks}
  <2>1. {x \in 1 .. InitialBlocks : PlayersCount + x <= PlayersCount + InitialBlocks}
            = 1 .. InitialBlocks
    BY PlayersCountType, ServerAssumption
  <2>. QED BY <2>1 DEF Strewn
<1>5. ASSUME NEW i \in Nat PROVE Spawned(at, i) \in MapOf(PlayerId, Cell)
  <2>. DEFINE D == {x \in PlayerId : x < i}
  <2>1. D \subseteq PlayerId /\ \A p \in D : at[p] \in Cell OBVIOUS
  <2>2. [p \in D |-> at[p]] \in [D -> Cell] BY <2>1
  <2>3. [p \in D |-> at[p]] \in MapOf(PlayerId, Cell)
    <3>. HIDE DEF D
    <3>. QED BY <2>1, <2>2, MapOfMember
  <2>. QED BY <2>3 DEF Spawned
<1>6. \A i \in Nat : Strewn(b, i) \in SUBSET Cell BY DEF Strewn
<1>7. 0 \in 0 .. PlayersCount BY PlayersCountType
<1>. QED BY <1>1, <1>2, <1>3, <1>4, <1>5, <1>6, <1>7

\* The events of turn 0, as the server makes them up.
TurnZero(at, b) == [k \in 1 .. PlayersCount |-> PlayerMoved(k - 1, at[k - 1])]
                       \o [k \in 1 .. InitialBlocks |-> BlockPlaced(b[k])]

LEMMA TurnZeroEvents ==
    ASSUME NEW at \in [PlayerId -> Cell], NEW b \in [1 .. InitialBlocks -> Cell]
    PROVE  /\ TurnZero(at, b) \in Seq(Event)
           /\ Len(TurnZero(at, b)) = PlayersCount + InitialBlocks
           /\ \A i \in 1 .. PlayersCount :
                  TurnZero(at, b)[i] = PlayerMoved(i - 1, at[i - 1])
           /\ \A k \in 1 .. InitialBlocks :
                  TurnZero(at, b)[PlayersCount + k] = BlockPlaced(b[k])
<1>. DEFINE spawned == [k \in 1 .. PlayersCount |-> PlayerMoved(k - 1, at[k - 1])]
            placed  == [k \in 1 .. InitialBlocks |-> BlockPlaced(b[k])]
<1>1. spawned \in Seq(Event) /\ Len(spawned) = PlayersCount
  <2>1. ASSUME NEW k \in 1 .. PlayersCount PROVE PlayerMoved(k - 1, at[k - 1]) \in Event
    <3>1. k - 1 \in PlayerId BY PlayersCountType DEF PlayerId
    <3>. QED BY <3>1, EventTypes
  <2>. QED BY <2>1, PlayersCountType
<1>2. placed \in Seq(Event) /\ Len(placed) = InitialBlocks
  <2>1. ASSUME NEW k \in 1 .. InitialBlocks PROVE BlockPlaced(b[k]) \in Event
    BY EventTypes
  <2>. QED BY <2>1, ServerAssumption
<1>3. \A i \in 1 .. PlayersCount : spawned[i] = PlayerMoved(i - 1, at[i - 1]) OBVIOUS
<1>4. \A k \in 1 .. InitialBlocks : placed[k] = BlockPlaced(b[k]) OBVIOUS
<1>. HIDE DEF spawned, placed
<1>5. /\ spawned \o placed \in Seq(Event)
      /\ Len(spawned \o placed) = PlayersCount + InitialBlocks
      /\ \A i \in 1 .. PlayersCount : (spawned \o placed)[i] = spawned[i]
      /\ \A k \in 1 .. InitialBlocks :
             (spawned \o placed)[PlayersCount + k] = placed[k]
  <2>1. /\ spawned \o placed \in Seq(Event)
        /\ Len(spawned \o placed) = Len(spawned) + Len(placed)
        /\ \A i \in 1 .. Len(spawned) : (spawned \o placed)[i] = spawned[i]
        /\ \A k \in 1 .. Len(placed) :
               (spawned \o placed)[Len(spawned) + k] = placed[k]
    <3>1. spawned \in Seq(Event) /\ placed \in Seq(Event) BY <1>1, <1>2
    <3>. QED BY <3>1, ConcatProperties
  <2>. QED BY <1>1, <1>2, <2>1
<1>6. TurnZero(at, b) = spawned \o placed BY DEF TurnZero, spawned, placed
<1>. QED BY <1>3, <1>4, <1>5, <1>6

\* Robots at `at` and blocks at b make the copy f of h by the events of the list.
FirstTurn(h, at, b, list, f) ==
    /\ h \in GameType /\ h.players_positions = EmptyMap /\ h.blocks = {}
    /\ at \in [PlayerId -> Cell] /\ b \in [1 .. InitialBlocks -> Cell]
    /\ list = TurnZero(at, b)
    /\ f = Placed(h, at, {b[k] : k \in 1 .. InitialBlocks})

\* Turn 0 puts everything in its place.
LEMMA CourseZero ==
    ASSUME NEW h, NEW at, NEW b, NEW list, NEW f, FirstTurn(h, at, b, list, f)
    PROVE  \E g : Course(g, list) /\ g[0] = h /\ g[Len(list)] = f
<1>0. /\ h \in GameType /\ h.players_positions = EmptyMap /\ h.blocks = {}
      /\ at \in [PlayerId -> Cell] /\ b \in [1 .. InitialBlocks -> Cell]
      /\ list = TurnZero(at, b)
      /\ f = Placed(h, at, {b[k] : k \in 1 .. InitialBlocks})
  BY DEF FirstTurn
<1>. DEFINE n == Len(list)
            g == [i \in 0 .. n |-> Placed(h, Spawned(at, i), Strewn(b, i))]
<1>1. /\ list \in Seq(Event) /\ n = PlayersCount + InitialBlocks
      /\ \A i \in 1 .. PlayersCount : list[i] = PlayerMoved(i - 1, at[i - 1])
      /\ \A k \in 1 .. InitialBlocks : list[PlayersCount + k] = BlockPlaced(b[k])
  BY <1>0, TurnZeroEvents
<1>. HIDE DEF n
<1>2. PlayersCount \in Nat /\ InitialBlocks \in Nat /\ n \in Nat
  BY <1>1, PlayersCountType, ServerAssumption
<1>3. \A i \in 0 .. n : g[i] = Placed(h, Spawned(at, i), Strewn(b, i)) OBVIOUS
<1>4. g \in [0 .. n -> GameType]
  <2>1. ASSUME NEW i \in 0 .. n PROVE Placed(h, Spawned(at, i), Strewn(b, i)) \in GameType
    <3>1. Spawned(at, i) \in MapOf(PlayerId, Cell) /\ Strewn(b, i) \in SUBSET Cell
      BY <1>0, <1>2, PlacementEnds
    <3>. QED BY <1>0, <3>1, PlacedFields
  <2>. QED BY <2>1
<1>. HIDE DEF g
<1>5. ASSUME NEW i \in 1 .. n
      PROVE  Possible(g[i - 1], list[i]) /\ g[i] = Happened(g[i - 1], list[i])
  <2>1. /\ g[i] = Placed(h, Spawned(at, i), Strewn(b, i))
        /\ g[i - 1] = Placed(h, Spawned(at, i - 1), Strewn(b, i - 1))
    BY <1>2, <1>3
  <2>2. list[i] \in Event BY <1>1, <1>2 DEF n
  <2>3. CASE i \in 1 .. PlayersCount
    <3>1. list[i] = PlayerMoved(i - 1, at[i - 1]) BY <1>1, <2>3
    <3>2. Possible(g[i - 1], list[i]) BY <2>2, <3>1 DEF Possible, PlayerMoved
    <3>3. Happened(g[i - 1], list[i]) = MovePlayer(g[i - 1], i - 1, at[i - 1])
      BY <3>1 DEF Happened, PlayerMoved
    <3>4. Spawned(at, i) = Put(Spawned(at, i - 1), i - 1, at[i - 1])
      BY <1>0, <2>3, SpawnedNext
    <3>5. Strewn(b, i) = {} /\ Strewn(b, i - 1) = {}
      <4>1. i \in 0 .. PlayersCount /\ i - 1 \in 0 .. PlayersCount BY <1>2, <2>3
      <4>. QED BY <1>0, <4>1, PlacementEnds
    <3>6. MovePlayer(Placed(h, Spawned(at, i - 1), {}), i - 1, at[i - 1])
              = Placed(h, Put(Spawned(at, i - 1), i - 1, at[i - 1]), {})
      <4>1. PICK w, p, c, e : /\ w = Spawned(at, i - 1) /\ p = i - 1
                              /\ c = at[i - 1] /\ e = {}
        OBVIOUS
      <4>2. MovePlayer(Placed(h, w, e), p, c) = Placed(h, Put(w, p, c), e)
        BY <1>0, PlacedRobot
      <4>. QED BY <4>1, <4>2
    <3>7. g[i - 1] = Placed(h, Spawned(at, i - 1), {}) BY <2>1, <3>5
    <3>8. g[i] = Placed(h, Put(Spawned(at, i - 1), i - 1, at[i - 1]), {})
      BY <2>1, <3>4, <3>5
    <3>. QED BY <3>2, <3>3, <3>6, <3>7, <3>8
  <2>4. ASSUME NEW k \in 1 .. InitialBlocks, i = PlayersCount + k
        PROVE  Possible(g[i - 1], list[i]) /\ g[i] = Happened(g[i - 1], list[i])
    <3>1. list[i] = BlockPlaced(b[k]) BY <1>1, <2>4
    <3>2. Possible(g[i - 1], list[i]) BY <2>2, <3>1 DEF Possible, BlockPlaced
    <3>3. Happened(g[i - 1], list[i]) = PlaceBlock(g[i - 1], b[k])
      BY <3>1 DEF Happened, BlockPlaced
    <3>4. Strewn(b, i) = Strewn(b, i - 1) \cup {b[k]} BY <2>4, StrewnNext
    <3>5. Spawned(at, i) = at /\ Spawned(at, i - 1) = at
      <4>1. k \in 0 .. InitialBlocks /\ k - 1 \in 0 .. InitialBlocks
            /\ i - 1 = PlayersCount + (k - 1)
        BY <1>2, <2>4
      <4>. QED BY <1>0, <2>4, <4>1, PlacementEnds
    <3>6. PlaceBlock(Placed(h, at, Strewn(b, i - 1)), b[k])
              = Placed(h, at, Strewn(b, i - 1) \cup {b[k]})
      BY <1>0, PlacedBlock
    <3>7. g[i - 1] = Placed(h, at, Strewn(b, i - 1)) BY <2>1, <3>5
    <3>8. g[i] = Placed(h, at, Strewn(b, i - 1) \cup {b[k]}) BY <2>1, <3>4, <3>5
    <3>. QED BY <3>2, <3>3, <3>6, <3>7, <3>8
  <2>5. i \in 1 .. PlayersCount \/ \E k \in 1 .. InitialBlocks : i = PlayersCount + k
    <3>. SUFFICES ASSUME i \notin 1 .. PlayersCount
                  PROVE  \E k \in 1 .. InitialBlocks : i = PlayersCount + k
      OBVIOUS
    <3>1. i - PlayersCount \in 1 .. InitialBlocks /\ i = PlayersCount + (i - PlayersCount)
      BY <1>1, <1>2
    <3>. QED BY <3>1
  <2>. QED BY <2>3, <2>4, <2>5
<1>6. Course(g, list) BY <1>4, <1>5 DEF Course, n
<1>7. g[0] = h
  <2>1. Spawned(at, 0) = EmptyMap /\ Strewn(b, 0) = {} BY <1>0, PlacementEnds
  <2>2. g[0] = Placed(h, Spawned(at, 0), Strewn(b, 0)) BY <1>2, <1>3
  <2>3. g[0] = Placed(h, EmptyMap, {}) BY <2>1, <2>2
  <2>4. Placed(h, EmptyMap, {}) = h BY <1>0 DEF Placed, GameType
  <2>. QED BY <2>3, <2>4
<1>8. g[n] = f
  <2>1. n \in 0 .. n /\ InitialBlocks \in 0 .. InitialBlocks BY <1>2
  <2>. QED BY <1>0, <1>1, <1>3, <2>1, PlacementEnds
<1>. QED BY <1>6, <1>7, <1>8 DEF n

\* Turn 0 is sent to a client that knows the players.
LEMMA AgreesTurnZero ==
    ASSUME IInv', BoardInv', StartGame,
           NEW c \in State, NEW q \in Seq(View), c.left = 0, c.sent = Len(q),
           LobbyGame(c.game),
           NEW at \in [PlayerId -> Cell], NEW b \in [1 .. InitialBlocks -> Cell],
           positions' = at, blocks' = {b[k] : k \in 1 .. InitialBlocks},
           NEW list, list = TurnZero(at, b), NEW v, v = ServerView'
    PROVE  v \in View /\ Extends(c, <<Turn(0, Len(list))>> \o list, q \o <<v>>)
<1>1. /\ stage' = "idle" /\ turn' = 0 /\ joined' = joined /\ bombs' = EmptyMap
      /\ blast' = {} /\ deaths' = [p \in PlayerId |-> 0]
  BY DEF StartGame
<1>2. DOMAIN joined = PlayerId BY <1>1 DEF BoardInv
<1>3. v \in View BY <1>1, ServerViewNextType
<1>. DEFINE h == SetTurn(c.game, 0)
            cells == {b[k] : k \in 1 .. InitialBlocks}
            f == Placed(h, at, cells)
<1>4. c.game \in GameType /\ h \in GameType BY SetTurnType DEF State
<1>5. /\ h.turn = 0 /\ h.players = joined /\ h.scores = [p \in PlayerId |-> 0]
      /\ h.players_positions = EmptyMap /\ h.bombs = EmptyMap
      /\ h.blocks = {} /\ h.explosions = {}
      /\ h.dead_players = {} /\ h.destroyed_blocks = {}
  <2>1. /\ c.game.players = joined /\ c.game.scores = [p \in DOMAIN joined |-> 0]
        /\ c.game.players_positions = EmptyMap /\ c.game.bombs = EmptyMap
        /\ c.game.blocks = {} /\ c.game.explosions = {}
        /\ c.game.dead_players = {} /\ c.game.destroyed_blocks = {}
    BY <1>4, LobbyGameFields
  <2>. QED BY <1>2, <1>4, <2>1 DEF SetTurn, GameType
<1>6. cells \in SUBSET Cell /\ at \in MapOf(PlayerId, Cell) BY MapOfMember
<1>7. blocks' = cells OBVIOUS
<1>8. h = SetTurn(c.game, 0) OBVIOUS
<1>9. PICK g : Course(g, list) /\ g[0] = h /\ g[Len(list)] = f
  <2>1. FirstTurn(h, at, b, list, f) BY <1>4, <1>5 DEF FirstTurn
  <2>. HIDE DEF h, f
  <2>. QED BY <2>1, CourseZero
<1>. HIDE DEF cells, h
<1>10. /\ f \in GameType /\ f.players_positions = at /\ f.blocks = cells
       /\ f.turn = h.turn /\ f.players = h.players /\ f.bombs = h.bombs
       /\ f.explosions = h.explosions /\ f.scores = h.scores
       /\ f.dead_players = h.dead_players /\ f.destroyed_blocks = h.destroyed_blocks
  BY <1>4, <1>6, PlacedFields
<1>. HIDE DEF f
<1>11. AddScores(f).scores = [p \in PlayerId |-> 0]
  <2>1. f.scores = [p \in PlayerId |-> 0] /\ f.dead_players = {} BY <1>5, <1>10
  <2>2. AddScores(f).scores = [p \in DOMAIN f.scores \cup f.dead_players |->
                                  (IF p \in DOMAIN f.scores THEN f.scores[p] ELSE 0)
                                  + (IF p \in f.dead_players THEN 1 ELSE 0)]
    BY <1>10 DEF AddScores, GameType
  <2>3. DOMAIN f.scores \cup f.dead_players = PlayerId BY <2>1
  <2>. QED BY <2>1, <2>2, <2>3
<1>12. TurnGame(ResetTurn(Finished(f)))' /\ GameView(Finished(f)) = ServerView'
  BY <1>1, <1>5, <1>7, <1>10, <1>11, TurnShown
<1>13. list \in Seq(Event) BY TurnZeroEvents
<1>14. 0 \in Nat /\ g[0] = SetTurn(c.game, 0) BY <1>8, <1>9
<1>15. v = GameView(Finished(f)) /\ stage' = "idle" BY <1>1, <1>12
<1>. HIDE DEF cells
<1>16. Extends(c, <<Turn(0, Len(list))>> \o list, q \o <<v>>)
  BY <1>3, <1>9, <1>10, <1>12, <1>13, <1>14, <1>15, AgreesTurn
<1>. QED BY <1>3, <1>16

\* A client that hears of the start of the game knew the players already.
LEMMA LobbyGameStarted ==
    ASSUME IInv, NEW g \in GameType, LobbyGame(g)
    PROVE  AddPlayers(g, joined) = g
<1>1. joined \in MapOf(PlayerId, Player) BY DEF IInv, ServerInv, ServerOK
<1>2. g.players = joined /\ g.scores = [p \in DOMAIN joined |-> 0] BY LobbyGameFields
<1>3. [p \in DOMAIN g.players \cup DOMAIN joined |->
         IF p \in DOMAIN g.players THEN g.players[p] ELSE joined[p]] = joined
  <2>1. joined \in [DOMAIN joined -> Player] BY <1>1, MapOfMember
  <2>2. DOMAIN g.players \cup DOMAIN joined = DOMAIN joined BY <1>2
  <2>. QED BY <1>2, <2>1, <2>2
<1>4. [p \in DOMAIN g.scores \cup DOMAIN joined |->
         IF p \in DOMAIN g.scores THEN g.scores[p] ELSE 0] = g.scores
  <2>1. DOMAIN g.scores = DOMAIN joined BY <1>2
  <2>. QED BY <1>2, <2>1
<1>. DEFINE a == AddPlayers(g, joined)
<1>5. /\ a \in GameType
      /\ a.players = g.players /\ a.scores = g.scores
      /\ a.turn = g.turn /\ a.players_positions = g.players_positions
      /\ a.blocks = g.blocks /\ a.bombs = g.bombs /\ a.explosions = g.explosions
      /\ a.dead_players = g.dead_players /\ a.destroyed_blocks = g.destroyed_blocks
  BY <1>1, <1>2, <1>3, <1>4, AddPlayersFields
<1>. HIDE DEF a
<1>6. a = g BY <1>5 DEF GameType
<1>. QED BY <1>6 DEF a

\* The copy that was not there and hears of all players at once.
LEMMA StarterLobby ==
    ASSUME IInv
    PROVE  /\ Starter \in State /\ Starter.left = 0 /\ Starter.sent = 0
           /\ Starter.game = AddPlayers(NewGame, joined)
           /\ LobbyGame(Starter.game)
<1>1. joined \in MapOf(PlayerId, Player) BY DEF IInv, ServerInv, ServerOK
<1>. DEFINE g == AddPlayers(NewGame, joined)
<1>2. NewGame \in GameType BY NewGameType
<1>3. /\ g \in GameType
      /\ g.players = [p \in DOMAIN NewGame.players \cup DOMAIN joined |->
                        IF p \in DOMAIN NewGame.players THEN NewGame.players[p]
                        ELSE joined[p]]
      /\ g.scores = [p \in DOMAIN NewGame.scores \cup DOMAIN joined |->
                       IF p \in DOMAIN NewGame.scores THEN NewGame.scores[p] ELSE 0]
      /\ g.players_positions = NewGame.players_positions
      /\ g.blocks = NewGame.blocks /\ g.bombs = NewGame.bombs
      /\ g.explosions = NewGame.explosions
      /\ g.dead_players = NewGame.dead_players
      /\ g.destroyed_blocks = NewGame.destroyed_blocks
  BY <1>1, <1>2, AddPlayersFields
<1>4. /\ NewGame.players = EmptyMap /\ NewGame.scores = EmptyMap
      /\ NewGame.players_positions = EmptyMap /\ NewGame.bombs = EmptyMap
      /\ NewGame.blocks = {} /\ NewGame.explosions = {}
      /\ NewGame.dead_players = {} /\ NewGame.destroyed_blocks = {}
  BY DEF NewGame
<1>5. DOMAIN EmptyMap = {} BY DEF EmptyMap
<1>. HIDE DEF g
<1>6. g.players = joined
  <2>1. joined \in [DOMAIN joined -> Player] BY <1>1, MapOfMember
  <2>2. g.players = [p \in DOMAIN joined |-> joined[p]] BY <1>3, <1>4, <1>5
  <2>. QED BY <2>1, <2>2
<1>7. g.scores = [p \in DOMAIN joined |-> 0]
  BY <1>3, <1>4, <1>5
<1>8. LobbyGame(g) BY <1>3, <1>4, <1>6, <1>7, LobbyGameFields
<1>9. Starter = [left |-> 0, game |-> g, sent |-> 0] BY DEF Starter, g
<1>. QED BY <1>3, <1>8, <1>9 DEF State, g

\* One message and then others.
LEMMA ExtendsAfter ==
    ASSUME NEW c \in State, NEW m \in Message \cup Event, NEW d, NEW p \in Seq(View),
           NEW s \in Seq(Message \cup Event),
           Reads(c, m, d, p), d.sent <= Len(p), Extends(d, s, p)
    PROVE  Extends(c, <<m>> \o s, p)
<1>1. PICK x : Run(x, s, p) /\ x[0] = d /\ Agrees(x[Len(s)], p)' BY DEF Extends
<1>2. PICK r : Run(r, <<m>>, p) /\ r[0] = c /\ r[1] = d
  <2>1. Len(p) \in Nat OBVIOUS
  <2>. QED BY <2>1, RunOne
<1>3. <<m>> \in Seq(Message \cup Event) /\ Len(<<m>>) = 1 OBVIOUS
<1>4. PICK t : t = <<m>> OBVIOUS
<1>5. /\ t \in Seq(Message \cup Event) /\ Run(r, t, p)
      /\ Run(x, s, p) /\ x[0] = r[Len(t)]
  BY <1>1, <1>2, <1>3, <1>4
<1>6. \E y : Run(y, t \o s, p) /\ y[0] = r[0] /\ y[Len(t \o s)] = x[Len(s)]
  BY <1>5, RunConcat, SMTT(60)
<1>7. PICK y : Run(y, t \o s, p) /\ y[0] = r[0] /\ y[Len(t \o s)] = x[Len(s)] BY <1>6
<1>8. Agrees(y[Len(t \o s)], p)' BY <1>1, <1>7
<1>9. Extends(c, t \o s, p) BY <1>2, <1>7, <1>8 DEF Extends
<1>. QED BY <1>4, <1>9

\* A connected client is told of the players once more and then of turn 0.
LEMMA AgreesStartGame ==
    ASSUME IInv, IInv', BoardInv', StartGame,
           NEW c, NEW q \in Seq(View), Agrees(c, q), NEW j, j = joined,
           NEW at \in [PlayerId -> Cell], NEW b \in [1 .. InitialBlocks -> Cell],
           positions' = at, blocks' = {b[k] : k \in 1 .. InitialBlocks},
           NEW list, list = TurnZero(at, b), NEW v, v = ServerView'
    PROVE  Extends(c, <<GameStarted(j)>> \o (<<Turn(0, Len(list))>> \o list), q \o <<v>>)
<1>1. stage = "lobby" BY DEF StartGame
<1>2. c \in State /\ c.left = 0 /\ c.sent = Len(q) /\ LobbyGame(c.game)
  BY <1>1 DEF Agrees
<1>3. PICK m, s, p : /\ m = GameStarted(j)
                     /\ s = <<Turn(0, Len(list))>> \o list
                     /\ p = q \o <<v>>
  OBVIOUS
<1>4. v \in View /\ Extends(c, s, p) BY <1>2, <1>3, AgreesTurnZero
<1>5. p \in Seq(View) /\ Len(p) = Len(q) + 1 /\ Len(q) \in Nat
  BY <1>3, <1>4, Announced
<1>6. m \in Message /\ m.t = "started" /\ m.players = j
  BY <1>3 DEF GameStarted, Message, IInv, ServerInv, ServerOK
<1>7. Reads(c, m, c, p)
  <2>1. c.game \in GameType BY <1>2 DEF State
  <2>2. AddPlayers(c.game, j) = c.game BY <1>2, <2>1, LobbyGameStarted
  <2>3. c = [c EXCEPT !.game = AddPlayers(c.game, m.players)]
    BY <1>2, <1>6, <2>2 DEF State
  <2>. QED BY <1>2, <1>6, <2>3 DEF Reads
<1>8. s \in Seq(Message \cup Event)
  <2>1. list \in Seq(Event) BY TurnZeroEvents
  <2>. QED BY <1>3, <2>1, TurnMessageType
<1>9. c.sent <= Len(p) BY <1>2, <1>5
<1>10. Extends(c, <<m>> \o s, p) BY <1>2, <1>4, <1>5, <1>6, <1>7, <1>8, <1>9, ExtendsAfter
<1>. QED BY <1>3, <1>10

-----------------------------------------------------------------------------
(* What a step of the server is to its client: it sends nothing and the     *)
(* client still agrees, or it sends m, announces v and the client will.     *)

Quietly == /\ UNCHANGED <<down, link, connected, log>>
           /\ stage = "lobby" <=> stage' = "lobby"
           /\ UNCHANGED joined
           /\ ~ Announces
           /\ stage' \in {"lobby", "idle"} => UNCHANGED <<stage, ServerView>>
           /\ \A c, q : Agrees(c, q) => Agrees(c, q)'

Loudly(m, v) == /\ m \in Seq(Message \cup Event) /\ v \in View
                /\ Send(m) /\ v = ServerView'
                /\ UNCHANGED <<link, connected>>
                /\ stage' \in {"lobby", "idle"}
                /\ Announces
                /\ \A c : \A q \in Seq(View) : Agrees(c, q) => Extends(c, m, q \o <<v>>)

LEMMA AgreesUnchanged ==
    ASSUME NEW c, NEW q, Agrees(c, q),
           UNCHANGED <<stage, joined, turn, positions, blocks, bombs, deaths, blast,
                       hit, events>>
    PROVE  Agrees(c, q)'
<1>1. LobbyGame(c.game) => LobbyGame(c.game)' BY DEF LobbyGame
<1>2. TurnGame(c.game) => TurnGame(c.game)' BY DEF TurnGame
<1>3. \A g : MidGame(g) => MidGame(g)' BY DEF MidGame
<1>4. ServerView' = ServerView BY DEF ServerView
<1>. QED BY <1>1, <1>2, <1>3, <1>4 DEF Agrees

LEMMA QuietRequest ==
    ASSUME AcceptCommand \/ IgnoreRequest
    PROVE  Quietly /\ UNCHANGED <<stage, joined>> /\ link = "up"
<1>1. /\ UNCHANGED <<down, link, connected, log, stage, joined, turn, positions, blocks,
                     bombs, deaths, blast, hit, events>>
      /\ link = "up"
  BY DEF AcceptCommand, IgnoreRequest, boardVars, turnVars, serverVars
<1>2. \A c, q : Agrees(c, q) => Agrees(c, q)' BY <1>1, AgreesUnchanged
<1>3. ServerView' = ServerView BY <1>1 DEF ServerView
<1>. QED BY <1>1, <1>2, <1>3 DEF Quietly, Announces

LEMMA QuietTurn ==
    ASSUME IInv, BoardInv, BeginTurn \/ ExplodeNextBomb \/ BombsDone \/ Respawn \/ Act
    PROVE  Quietly /\ stage # "lobby" /\ stage' # "lobby" /\ joined' = joined /\ link = "up"
<1>1. ASSUME NEW moved, NEW event, MyTurn(moved, event)
      PROVE  /\ UNCHANGED <<down, link, connected, log, joined>> /\ link = "up"
             /\ stage \notin {"lobby"} /\ stage' \in {"bombs", "players"}
  BY <1>1 DEF MyTurn, wireVars
<1>2. CASE Respawn \/ Act
  <2>1. \E moved, event : MyTurn(moved, event)
    BY <1>2 DEF Respawn, Act, Rests, PlacesBomb, PlacesBlock, Moves
  <2>2. \A c, q : Agrees(c, q) => Agrees(c, q)' BY <1>2, AgreesAct
  <2>. QED BY <1>1, <2>1, <2>2 DEF Quietly, Announces
<1>3. CASE BeginTurn
  <2>1. /\ UNCHANGED <<down, link, connected, log, joined>> /\ link = "up"
        /\ stage = "idle" /\ stage' = "bombs"
    BY <1>3 DEF BeginTurn, CanSend, wireVars
  <2>2. \A c, q : Agrees(c, q) => Agrees(c, q)' BY <1>3, AgreesBeginTurn
  <2>. QED BY <2>1, <2>2 DEF Quietly, Announces
<1>4. CASE ExplodeNextBomb
  <2>1. /\ UNCHANGED <<down, link, connected, log, joined>> /\ link = "up"
        /\ stage = "bombs" /\ stage' = "bombs"
    BY <1>4 DEF ExplodeNextBomb, wireVars
  <2>2. \A c, q : Agrees(c, q) => Agrees(c, q)' BY <1>4, AgreesExplodeNextBomb
  <2>. QED BY <2>1, <2>2 DEF Quietly, Announces
<1>5. CASE BombsDone
  <2>1. /\ UNCHANGED <<down, link, connected, log, joined>> /\ link = "up"
        /\ stage = "bombs" /\ stage' = "players"
    BY <1>5 DEF BombsDone, wireVars
  <2>2. \A c, q : Agrees(c, q) => Agrees(c, q)' BY <1>5, AgreesBombsDone
  <2>. QED BY <2>1, <2>2 DEF Quietly, Announces
<1>. QED BY <1>2, <1>3, <1>4, <1>5

LEMMA LoudAdmit ==
    ASSUME IInv, IInv', BoardInv', NEW who \in Player, ~ LobbyFull, Admit(who), link = "up",
           stage = "lobby", UNCHANGED <<link, connected, stage>>
    PROVE  \E m, v : Loudly(m, v)
<1>1. PICK p, m, v : /\ p = Cardinality(DOMAIN joined)
                     /\ m = <<AcceptedPlayer(p, who)>>
                     /\ v = ServerView'
  OBVIOUS
<1>2. p \in PlayerId /\ p \notin DOMAIN joined
  BY <1>1, LobbyCount, PlayersCountType DEF LobbyFull, IInv, ServerInv, PlayerId
<1>3. joined' = Put(joined, p, who) /\ Send(m) BY <1>1 DEF Admit
<1>4. m \in Seq(Message \cup Event) BY <1>1, <1>2, AcceptedPlayerType
<1>5. v \in View BY <1>1, ServerViewNextType
<1>6. DOMAIN joined' # DOMAIN joined BY <1>2, <1>3 DEF Put
<1>7. Announces BY <1>6 DEF Announces
<1>8. ASSUME NEW c, NEW q \in Seq(View), Agrees(c, q) PROVE Extends(c, m, q \o <<v>>)
  <2>1. Extends(c, <<AcceptedPlayer(p, who)>>, q \o <<v>>)
    BY <1>1, <1>2, <1>3, <1>5, <1>8, AgreesAdmit
  <2>. QED BY <1>1, <2>1
<1>9. Loudly(m, v) BY <1>1, <1>3, <1>4, <1>5, <1>7, <1>8 DEF Loudly
<1>. QED BY <1>9

LEMMA LoudStartGame ==
    ASSUME IInv, IInv', BoardInv', StartGame
    PROVE  \E m, v : Loudly(m, v)
<1>1. PICK at \in [PlayerId -> Cell], b \in [1 .. InitialBlocks -> Cell] :
         LET list == TurnZero(at, b)
             msg  == <<Turn(0, Len(list))>> \o list
         IN  /\ positions' = at
             /\ blocks' = {b[k] : k \in 1 .. InitialBlocks}
             /\ Send(<<GameStarted(joined)>> \o msg)
             /\ log' = (IF connected THEN <<>> ELSE msg)
  BY DEF StartGame, TurnZero
<1>2. PICK j, list, v : j = joined /\ list = TurnZero(at, b) /\ v = ServerView' OBVIOUS
<1>3. PICK m : m = <<GameStarted(j)>> \o (<<Turn(0, Len(list))>> \o list) OBVIOUS
<1>4. /\ positions' = at /\ blocks' = {b[k] : k \in 1 .. InitialBlocks} /\ Send(m)
  BY <1>1, <1>2, <1>3
<1>5. stage = "lobby" /\ stage' = "idle" /\ UNCHANGED <<link, connected>> BY DEF StartGame
<1>6. v \in View BY <1>2, <1>5, ServerViewNextType
<1>7. m \in Seq(Message \cup Event)
  <2>1. list \in Seq(Event) BY <1>2, TurnZeroEvents
  <2>2. <<Turn(0, Len(list))>> \o list \in Seq(Message \cup Event)
    BY <2>1, TurnMessageType
  <2>3. <<GameStarted(j)>> \in Seq(Message \cup Event)
    BY <1>2 DEF GameStarted, Message, IInv, ServerInv, ServerOK
  <2>. QED BY <1>3, <2>2, <2>3, ConcatProperties
<1>8. ASSUME NEW c, NEW q \in Seq(View), Agrees(c, q) PROVE Extends(c, m, q \o <<v>>)
  <2>1. Extends(c, <<GameStarted(j)>> \o (<<Turn(0, Len(list))>> \o list), q \o <<v>>)
    BY <1>2, <1>4, <1>8, AgreesStartGame
  <2>. QED BY <1>3, <2>1
<1>9. Announces BY <1>5 DEF Announces
<1>10. Loudly(m, v) BY <1>2, <1>4, <1>5, <1>6, <1>7, <1>8, <1>9 DEF Loudly
<1>. QED BY <1>10

LEMMA LoudEndTurn ==
    ASSUME IInv, IInv', BoardInv, BoardInv', EndTurn
    PROVE  \E m, v : Loudly(m, v) /\ log' = IF connected THEN log ELSE log \o m
<1>1. PICK list, k, v : list = events /\ k = turn /\ v = ServerView' OBVIOUS
<1>2. PICK m : m = <<Turn(k + 1, Len(list))>> \o list OBVIOUS
<1>3. /\ Send(m) /\ stage = "players" /\ stage' = "idle" /\ UNCHANGED <<link, connected>>
      /\ log' = IF connected THEN log ELSE log \o m
  BY <1>1, <1>2 DEF EndTurn, SendTurn
<1>4. list \in Seq(Event) /\ k + 1 \in Nat BY <1>1 DEF IInv, ServerInv, ServerOK
<1>5. m \in Seq(Message \cup Event) BY <1>2, <1>4, TurnMessageType
<1>6. v \in View BY <1>1, <1>3, ServerViewNextType
<1>7. ASSUME NEW c, NEW q \in Seq(View), Agrees(c, q) PROVE Extends(c, m, q \o <<v>>)
  <2>1. Extends(c, <<Turn(k + 1, Len(list))>> \o list, q \o <<v>>)
    BY <1>1, <1>7, AgreesEndTurn
  <2>. QED BY <1>2, <2>1
<1>8. Announces BY <1>3 DEF Announces
<1>9. Loudly(m, v) BY <1>1, <1>3, <1>5, <1>6, <1>7, <1>8 DEF Loudly
<1>. QED BY <1>3, <1>9

LEMMA LoudEndGame ==
    ASSUME IInv, IInv', BoardInv, BoardInv', EndGame
    PROVE  \E m, v : Loudly(m, v)
<1>1. PICK v, m : v = ServerView' /\ m = <<GameEnded>> OBVIOUS
<1>2. /\ Send(m) /\ stage = "idle" /\ stage' = "lobby" /\ UNCHANGED <<link, connected>>
  BY <1>1 DEF EndGame
<1>3. m \in Seq(Message \cup Event) BY <1>1 DEF Message
<1>4. v \in View BY <1>1, <1>2, ServerViewNextType
<1>5. ASSUME NEW c, NEW q \in Seq(View), Agrees(c, q) PROVE Extends(c, m, q \o <<v>>)
  <2>1. Extends(c, <<GameEnded>>, q \o <<v>>) BY <1>1, <1>5, AgreesEndGame
  <2>. QED BY <1>1, <2>1
<1>6. Announces BY <1>2 DEF Announces
<1>7. Loudly(m, v) BY <1>1, <1>2, <1>3, <1>4, <1>5, <1>6 DEF Loudly
<1>. QED BY <1>7

-----------------------------------------------------------------------------
(* The steps of the server.                                                *)

\* What the client has still to do in a turn does not change.
LEMMA NowMore ==
    ASSUME NEW c, NEW q \in Seq(View), NEW p \in Seq(View), c.sent <= Len(q), Now(c, q),
           UNCHANGED <<sPc, left, game>>
    PROVE  Now(c, q \o p)'
<1>1. CASE sPc # "events" BY <1>1 DEF Now
<1>2. ASSUME sPc = "events", left > 0, c = [left |-> left, game |-> game, sent |-> 0]
      PROVE  Now(c, q \o p)'
  BY <1>2 DEF Now, InTurn
<1>3. ASSUME sPc = "events", left = 0,
             c = [left |-> 0, game |-> ResetTurn(Finished(game)), sent |-> 0 + 1],
             q[0 + 1] = GameView(Finished(game))
      PROVE  Now(c, q \o p)'
  <2>1. Len(q) >= 1 /\ Len(q) \in Nat BY <1>3
  <2>2. (q \o p)[1] = q[1] BY <2>1, ConcatProperties
  <2>. QED BY <1>3, <2>2 DEF Now, InTurn
<1>. QED BY <1>1, <1>2, <1>3 DEF Now, InTurn

LEMMA SyncedSends ==
    ASSUME NEW s \in Seq(Message \cup Event), NEW q \in Seq(View), Synced(s, q),
           NEW m, NEW v, Loudly(m, v), link = "up", UNCHANGED clientVars
    PROVE  Synced(s \o m, q \o <<v>>)'
<1>1. m \in Seq(Message \cup Event) /\ v \in View /\ v = ServerView' BY DEF Loudly
<1>2. PICK p, w : p = <<v>> /\ w = q \o <<v>> OBVIOUS
<1>3. p \in Seq(View) /\ w \in Seq(View) /\ w # <<>> /\ w = q \o p
  BY <1>1, <1>2, Announced
<1>4. PICK r : Now(r[0], q) /\ Run(r, s, q) /\ Agrees(r[Len(s)], q) BY DEF Synced
<1>5. Extends(r[Len(s)], m, q \o p) BY <1>2, <1>4 DEF Loudly
<1>6. PICK t : Run(t, s \o m, q \o p) /\ t[0] = r[0] /\ WillAgree(t[Len(s \o m)], q \o p)
  <2>1. GoesOn(r, s, m, q, p) BY <1>1, <1>3, <1>4, <1>5 DEF GoesOn
  <2>. QED BY <2>1, RunExtends
<1>7. PICK c : c = r[0] OBVIOUS
<1>8. Now(c, q \o p)'
  <2>1. c.sent <= Len(q)
    <3>1. 0 \in 0 .. Len(s) OBVIOUS
    <3>. QED BY <1>4, <1>7, <3>1 DEF Run
  <2>2. UNCHANGED <<sPc, left, game>> BY DEF clientVars, gameVars
  <2>. QED BY <1>3, <1>4, <1>7, <2>1, <2>2, NowMore
<1>9. Now(t[0], w)' BY <1>3, <1>6, <1>7, <1>8
<1>10. Run(t, s \o m, w) /\ Agrees(t[Len(s \o m)], w)'
  BY <1>3, <1>6 DEF WillAgree
<1>11. Synced(s \o m, w)' BY <1>3, <1>9, <1>10 DEF Synced
<1>. QED BY <1>2, <1>11

LEMMA SyncedQuiet ==
    ASSUME NEW s, NEW q, Synced(s, q), Quietly, link = "up", UNCHANGED clientVars
    PROVE  Synced(s, q)'
<1>1. PICK r : Now(r[0], q) /\ Run(r, s, q) /\ Agrees(r[Len(s)], q) BY DEF Synced
<1>2. UNCHANGED <<sPc, left, game, shown, link>> BY DEF clientVars, gameVars, Quietly
<1>3. Now(r[0], q)' BY <1>1, <1>2 DEF Now
<1>4. Agrees(r[Len(s)], q)' BY <1>1 DEF Quietly
<1>5. (link = "up" /\ stage \in {"lobby", "idle"} /\ q = <<>> => shown = ServerView)'
  BY <1>2 DEF Quietly, Synced
<1>6. q \in Seq(View) BY DEF Synced
<1>. QED BY <1>1, <1>3, <1>4, <1>5, <1>6 DEF Synced

LEMMA RecordedQuiet ==
    ASSUME NEW s, NEW q, Recorded(s, q), Quietly
    PROVE  Recorded(s, q)'
<1>1. CASE stage = "lobby"
  <2>1. stage' = "lobby" BY <1>1 DEF Quietly
  <2>. QED BY <1>1, <2>1 DEF Recorded
<1>2. CASE stage # "lobby"
  <2>1. PICK r : r[0] = Starter /\ Run(r, s, q) /\ Agrees(r[Len(s)], q)
    BY <1>2 DEF Recorded, Follows
  <2>2. stage' # "lobby" /\ Starter' = Starter BY <1>2 DEF Quietly, Starter
  <2>3. r[0] = Starter' /\ Agrees(r[Len(s)], q)' BY <2>1, <2>2 DEF Quietly
  <2>4. q \in Seq(View) /\ q # <<>> BY <1>2 DEF Recorded
  <2>. QED BY <2>1, <2>2, <2>3, <2>4 DEF Recorded, Follows
<1>. QED BY <1>1, <1>2

LEMMA RecordedSends ==
    ASSUME NEW s \in Seq(Message \cup Event), NEW q \in Seq(View), Recorded(s, q),
           NEW m, NEW v, Loudly(m, v), stage # "lobby", stage' # "lobby", joined' = joined
    PROVE  Recorded(s \o m, q \o <<v>>)'
<1>1. m \in Seq(Message \cup Event) /\ v \in View BY DEF Loudly
<1>2. PICK p, w : p = <<v>> /\ w = q \o <<v>> OBVIOUS
<1>3. p \in Seq(View) /\ w \in Seq(View) /\ w # <<>> /\ w = q \o p
  BY <1>1, <1>2, Announced
<1>4. PICK r : r[0] = Starter /\ Run(r, s, q) /\ Agrees(r[Len(s)], q)
  BY DEF Recorded, Follows
<1>5. Extends(r[Len(s)], m, q \o p) BY <1>2, <1>4 DEF Loudly
<1>6. PICK t : Run(t, s \o m, q \o p) /\ t[0] = r[0] /\ WillAgree(t[Len(s \o m)], q \o p)
  <2>1. GoesOn(r, s, m, q, p) BY <1>1, <1>3, <1>4, <1>5 DEF GoesOn
  <2>. QED BY <2>1, RunExtends
<1>7. Starter' = Starter BY DEF Starter
<1>8. t[0] = Starter' BY <1>4, <1>6, <1>7
<1>9. Agrees(t[Len(s \o m)], w)' BY <1>3, <1>6 DEF WillAgree
<1>10. Recorded(s \o m, w)' BY <1>3, <1>6, <1>8, <1>9 DEF Recorded, Follows
<1>. QED BY <1>2, <1>10

\* The game starts while the client is not there.
LEMMA RecordedStartGame ==
    ASSUME IInv, IInv', BoardInv', StartGame, ~ connected, NEW v, v = ServerView'
    PROVE  \E s : s = log' /\ Recorded(s, <<v>>)'
<1>1. PICK at \in [PlayerId -> Cell], b \in [1 .. InitialBlocks -> Cell] :
         LET list == TurnZero(at, b)
             msg  == <<Turn(0, Len(list))>> \o list
         IN  /\ positions' = at
             /\ blocks' = {b[k] : k \in 1 .. InitialBlocks}
             /\ log' = (IF connected THEN <<>> ELSE msg)
  BY DEF StartGame, TurnZero
<1>2. PICK list : list = TurnZero(at, b) OBVIOUS
<1>3. PICK s : s = <<Turn(0, Len(list))>> \o list OBVIOUS
<1>4. /\ positions' = at /\ blocks' = {b[k] : k \in 1 .. InitialBlocks} /\ log' = s
  BY <1>1, <1>2, <1>3
<1>5. PICK c, e : c = Starter /\ e = <<>> OBVIOUS
<1>6. /\ c \in State /\ c.left = 0 /\ c.sent = 0 /\ LobbyGame(c.game)
      /\ e \in Seq(View) /\ Len(e) = 0
  BY <1>5, StarterLobby
<1>7. v \in View /\ Extends(c, <<Turn(0, Len(list))>> \o list, e \o <<v>>)
  BY <1>2, <1>4, <1>6, AgreesTurnZero
<1>8. PICK w : w = <<v>> OBVIOUS
<1>9. e \o <<v>> = w /\ w \in Seq(View) /\ w # <<>> BY <1>5, <1>7, <1>8
<1>10. Extends(c, s, w) BY <1>3, <1>7, <1>9
<1>11. PICK r : Run(r, s, w) /\ r[0] = c /\ Agrees(r[Len(s)], w)' BY <1>10 DEF Extends
<1>12. stage' = "idle" /\ Starter' = Starter BY DEF StartGame, Starter
<1>13. r[0] = Starter' BY <1>5, <1>11, <1>12
<1>14. Recorded(s, w)' BY <1>9, <1>11, <1>12, <1>13 DEF Recorded, Follows
<1>. QED BY <1>4, <1>8, <1>14

\* The views for the client after a step of the server.
NextViews(q) ==
    LET new == IF Announces THEN <<ServerView'>> ELSE <<>>
    IN  IF connected \/ stage' # "lobby" THEN q \o new ELSE <<>>

LEMMA ReplicaQuiet ==
    ASSUME NEW q, ReplicaInv(q), Quietly, BoardInv', link = "up", UNCHANGED clientVars,
           NEW q2, q2 = NextViews(q)
    PROVE  ReplicaInv(q2)'
<1>1. UNCHANGED <<sPc, left, proc, connected, down, log>>
  BY DEF clientVars, gameVars, Quietly
<1>2. PICK s, t : s = down /\ t = log OBVIOUS
<1>3. down' = s /\ log' = t BY <1>1, <1>2
<1>4. CASE connected /\ proc = "running"
  <2>1. Synced(s, q) BY <1>2, <1>4 DEF ReplicaInv
  <2>2. q \in Seq(View) BY <2>1 DEF Synced
  <2>3. q2 = q BY <1>4, <2>2 DEF NextViews, Quietly
  <2>4. Synced(s, q2)' BY <2>1, <2>3, SyncedQuiet
  <2>5. Synced(down, q2)' BY <1>3, <2>4 DEF Synced
  <2>. QED BY <1>1, <1>4, <2>5 DEF ReplicaInv
<1>5. CASE ~ connected
  <2>1. Recorded(t, q) /\ down = <<>> /\ sPc = "code" BY <1>2, <1>5 DEF ReplicaInv
  <2>2. q \in Seq(View) BY <2>1 DEF Recorded
  <2>3. q2 = q
    <3>1. CASE stage' = "lobby" BY <1>5, <2>1, <3>1 DEF NextViews, Quietly, Recorded
    <3>2. CASE stage' # "lobby" BY <2>2, <3>2 DEF NextViews, Quietly
    <3>. QED BY <3>1, <3>2
  <2>4. Recorded(t, q2)' BY <2>1, <2>3, RecordedQuiet
  <2>5. Recorded(log, q2)' BY <1>3, <2>4 DEF Recorded
  <2>. QED BY <1>1, <1>5, <2>1, <2>5 DEF ReplicaInv
<1>6. CASE connected /\ proc # "running" BY <1>1, <1>6 DEF ReplicaInv
<1>. QED BY <1>4, <1>5, <1>6

LEMMA ReplicaLoud ==
    ASSUME IInv, NEW q, ReplicaInv(q), NEW m, NEW v, Loudly(m, v), BoardInv', link = "up",
           UNCHANGED clientVars, NEW q2, q2 = NextViews(q),
           ~ connected => Recorded(log, q2)'
    PROVE  ReplicaInv(q2)'
<1>1. UNCHANGED <<sPc, left, proc, connected>> /\ Send(m)
  BY DEF clientVars, gameVars, Loudly
<1>2. PICK s : s = down OBVIOUS
<1>3. s \in Seq(Message \cup Event) BY <1>2 DEF IInv, WireOK
<1>4. CASE connected /\ proc = "running"
  <2>1. Synced(s, q) BY <1>2, <1>4 DEF ReplicaInv
  <2>2. q \in Seq(View) BY <2>1 DEF Synced
  <2>3. Synced(s \o m, q \o <<v>>)' BY <1>3, <2>1, <2>2, SyncedSends
  <2>4. q2 = q \o <<v>> BY <1>4 DEF NextViews, Loudly
  <2>5. down' = s \o m BY <1>1, <1>2, <1>4 DEF Send
  <2>6. PICK x, y : x = s \o m /\ y = q \o <<v>> OBVIOUS
  <2>7. Synced(x, y)' BY <2>3, <2>6
  <2>8. down' = x /\ q2 = y BY <2>4, <2>5, <2>6
  <2>9. Synced(down, q2)' BY <2>7, <2>8 DEF Synced
  <2>. QED BY <1>1, <1>4, <2>9 DEF ReplicaInv
<1>5. CASE ~ connected
  <2>1. down' = down BY <1>1, <1>5 DEF Send
  <2>. QED BY <1>1, <1>5, <2>1 DEF ReplicaInv
<1>6. CASE connected /\ proc # "running" BY <1>1, <1>6 DEF ReplicaInv
<1>. QED BY <1>4, <1>5, <1>6

LEMMA ReplicaServer ==
    ASSUME IInv, IInv', NEW q, ReplicaInv(q), ServerStep \/ OtherJoins,
           UNCHANGED clientVars, NEW q2, q2 = NextViews(q)
    PROVE  ReplicaInv(q2)'
<1>1. BoardInv /\ BoardInv'
  <2>1. BoardInv BY DEF ReplicaInv
  <2>. QED BY <2>1, BoardServer
<1>2. CASE AcceptCommand \/ IgnoreRequest
  <2>1. Quietly /\ link = "up" BY <1>2, QuietRequest
  <2>. QED BY <1>1, <2>1, ReplicaQuiet
<1>3. CASE BeginTurn \/ ExplodeNextBomb \/ BombsDone \/ Respawn \/ Act
  <2>1. Quietly /\ link = "up" BY <1>1, <1>3, QuietTurn
  <2>. QED BY <1>1, <2>1, ReplicaQuiet
<1>4. CASE AcceptJoin \/ OtherJoins
  <2>1. PICK who \in Player : /\ ~ LobbyFull /\ Admit(who) /\ link = "up"
                              /\ stage = "lobby" /\ log' = log
                              /\ UNCHANGED <<link, connected, stage>>
    <3>1. link = "up" /\ stage = "lobby" /\ UNCHANGED <<link, connected, stage, log>>
      BY <1>4 DEF AcceptJoin, OtherJoins
    <3>. QED BY <1>4, <3>1, SomebodyJoins
  <2>2. PICK m, v : Loudly(m, v) BY <1>1, <2>1, LoudAdmit
  <2>3. ASSUME ~ connected PROVE Recorded(log, q2)'
    <3>1. log = <<>> BY <2>1, <2>3 DEF ReplicaInv, Recorded
    <3>2. stage' = "lobby" /\ log' = <<>> /\ q2 = <<>>
      BY <2>1, <2>3, <3>1 DEF NextViews
    <3>. QED BY <3>2 DEF Recorded
  <2>. QED BY <1>1, <2>1, <2>2, <2>3, ReplicaLoud
<1>5. CASE StartGame
  <2>1. PICK m, v : Loudly(m, v) BY <1>1, <1>5, LoudStartGame
  <2>2. link = "up" /\ stage = "lobby" /\ stage' = "idle" BY <1>5 DEF StartGame, CanSend
  <2>3. v \in View /\ v = ServerView' BY <2>1 DEF Loudly
  <2>4. ASSUME ~ connected PROVE Recorded(log, q2)'
    <3>1. q = <<>> BY <2>2, <2>4 DEF ReplicaInv, Recorded
    <3>2. PICK w, e : w = <<v>> /\ e = <<>> OBVIOUS
    <3>3. e \o <<v>> = w BY <3>2
    <3>4. q2 = w BY <2>1, <2>2, <3>1, <3>2, <3>3 DEF NextViews, Loudly
    <3>5. PICK s : s = log' /\ Recorded(s, <<v>>)'
      BY <1>1, <1>5, <2>3, <2>4, RecordedStartGame
    <3>6. Recorded(s, q2)' BY <3>2, <3>4, <3>5
    <3>. QED BY <3>5, <3>6 DEF Recorded
  <2>. QED BY <1>1, <2>1, <2>2, <2>4, ReplicaLoud
<1>6. CASE EndTurn
  <2>1. PICK m, v : Loudly(m, v) /\ log' = IF connected THEN log ELSE log \o m
    BY <1>1, <1>6, LoudEndTurn
  <2>2. link = "up" /\ stage = "players" /\ stage' = "idle" /\ joined' = joined
    BY <1>6 DEF EndTurn
  <2>3. ASSUME ~ connected PROVE Recorded(log, q2)'
    <3>1. PICK s : s = log OBVIOUS
    <3>2. Recorded(s, q) /\ s \in Seq(Message \cup Event)
      BY <2>3, <3>1 DEF ReplicaInv, IInv, ServerInv, ServerOK
    <3>3. q \in Seq(View) BY <3>2 DEF Recorded
    <3>4. Recorded(s \o m, q \o <<v>>)' BY <2>1, <2>2, <3>2, <3>3, RecordedSends
    <3>5. PICK x, y : x = s \o m /\ y = q \o <<v>> OBVIOUS
    <3>6. Recorded(x, y)' BY <3>4, <3>5
    <3>7. log' = x /\ q2 = y
      BY <2>1, <2>2, <2>3, <3>1, <3>5 DEF NextViews, Loudly
    <3>. QED BY <3>6, <3>7 DEF Recorded
  <2>. QED BY <1>1, <2>1, <2>2, <2>3, ReplicaLoud
<1>7. CASE EndGame
  <2>1. PICK m, v : Loudly(m, v) BY <1>1, <1>7, LoudEndGame
  <2>2. link = "up" /\ stage' = "lobby" /\ log' = <<>> BY <1>7 DEF EndGame, CanSend
  <2>3. ASSUME ~ connected PROVE Recorded(log, q2)'
    <3>1. q2 = <<>> BY <2>2, <2>3 DEF NextViews
    <3>. QED BY <2>2, <3>1 DEF Recorded
  <2>. QED BY <1>1, <2>1, <2>2, <2>3, ReplicaLoud
<1>. QED BY <1>2, <1>3, <1>4, <1>5, <1>6, <1>7 DEF ServerStep

-----------------------------------------------------------------------------
(* A client connects and is told of everything.                            *)

\* The copy of a client that was told of the first k players.
LobbyAfter(j, k) == AddPlayers(NewGame, [p \in 0 .. k - 1 |-> j[p]])

LEMMA FirstPlayers ==
    ASSUME NEW j \in MapOf(PlayerId, Player), NEW n \in Nat, DOMAIN j = 0 .. n - 1,
           NEW k \in 0 .. n
    PROVE  [p \in 0 .. k - 1 |-> j[p]] \in MapOf(PlayerId, Player)
<1>. DEFINE f == [p \in 0 .. k - 1 |-> j[p]]
<1>1. j \in [DOMAIN j -> Player] /\ DOMAIN j \subseteq PlayerId BY MapOfMember
<1>2. \A p \in 0 .. k - 1 : p \in DOMAIN j OBVIOUS
<1>3. f \in [0 .. k - 1 -> Player] BY <1>1, <1>2
<1>4. DOMAIN f = 0 .. k - 1 /\ DOMAIN f \subseteq PlayerId BY <1>1, <1>2
<1>. HIDE DEF f
<1>5. f \in MapOf(PlayerId, Player) BY <1>3, <1>4, MapOfMember
<1>. QED BY <1>5 DEF f

\* The first k of n players.
FirstOf(k, n, j) == /\ j \in MapOf(PlayerId, Player) /\ n \in Nat
                    /\ DOMAIN j = 0 .. n - 1 /\ k \in 0 .. n

LobbyFields(g, j, k) ==
    /\ g \in GameType
    /\ g.turn = 0
    /\ g.players = [p \in 0 .. k - 1 |-> j[p]]
    /\ g.scores = [p \in 0 .. k - 1 |-> 0]
    /\ g.players_positions = EmptyMap
    /\ g.bombs = EmptyMap
    /\ g.blocks = {} /\ g.explosions = {}
    /\ g.dead_players = {}
    /\ g.destroyed_blocks = {}

LEMMA LobbyAfterFields ==
    ASSUME NEW j, NEW n, NEW k, FirstOf(k, n, j)
    PROVE  LobbyFields(LobbyAfter(j, k), j, k)
<1>0. /\ j \in MapOf(PlayerId, Player) /\ n \in Nat
      /\ DOMAIN j = 0 .. n - 1 /\ k \in 0 .. n
  BY DEF FirstOf
<1>. DEFINE f == [p \in 0 .. k - 1 |-> j[p]]
            g == AddPlayers(NewGame, f)
<1>1. f \in MapOf(PlayerId, Player) /\ DOMAIN f = 0 .. k - 1 BY <1>0, FirstPlayers
<1>2. NewGame \in GameType BY NewGameType
<1>. HIDE DEF f
<1>3. /\ g \in GameType
      /\ g.players = [p \in DOMAIN NewGame.players \cup DOMAIN f |->
                        IF p \in DOMAIN NewGame.players THEN NewGame.players[p] ELSE f[p]]
      /\ g.scores = [p \in DOMAIN NewGame.scores \cup DOMAIN f |->
                       IF p \in DOMAIN NewGame.scores THEN NewGame.scores[p] ELSE 0]
      /\ g.turn = NewGame.turn
      /\ g.players_positions = NewGame.players_positions
      /\ g.blocks = NewGame.blocks /\ g.bombs = NewGame.bombs
      /\ g.explosions = NewGame.explosions
      /\ g.dead_players = NewGame.dead_players
      /\ g.destroyed_blocks = NewGame.destroyed_blocks
  BY <1>1, <1>2, AddPlayersFields
<1>4. /\ NewGame.players = EmptyMap /\ NewGame.scores = EmptyMap
      /\ NewGame.players_positions = EmptyMap /\ NewGame.bombs = EmptyMap
      /\ NewGame.blocks = {} /\ NewGame.explosions = {} /\ NewGame.turn = 0
      /\ NewGame.dead_players = {} /\ NewGame.destroyed_blocks = {}
  BY DEF NewGame
<1>5. DOMAIN EmptyMap = {} BY DEF EmptyMap
<1>. HIDE DEF g
<1>6. g.players = [p \in 0 .. k - 1 |-> f[p]] BY <1>1, <1>3, <1>4, <1>5
<1>7. g.scores = [p \in 0 .. k - 1 |-> 0] BY <1>1, <1>3, <1>4, <1>5
<1>8. \A p \in 0 .. k - 1 : f[p] = j[p] BY DEF f
<1>9. g.players = [p \in 0 .. k - 1 |-> j[p]] BY <1>6, <1>8
<1>10. LobbyAfter(j, k) = g BY DEF LobbyAfter, g, f
<1>11. LobbyFields(g, j, k) BY <1>3, <1>4, <1>7, <1>9 DEF LobbyFields
<1>. QED BY <1>10, <1>11

SameFields(g, h) ==
    /\ g.turn = h.turn /\ g.players = h.players
    /\ g.players_positions = h.players_positions /\ g.blocks = h.blocks
    /\ g.bombs = h.bombs /\ g.explosions = h.explosions /\ g.scores = h.scores
    /\ g.dead_players = h.dead_players /\ g.destroyed_blocks = h.destroyed_blocks

\* A copy is what its fields are.
LEMMA SameGame ==
    ASSUME NEW g \in GameType, NEW h \in GameType, SameFields(g, h)
    PROVE  g = h
BY DEF GameType, SameFields

LEMMA LobbyAfterNone ==
    ASSUME NEW j \in MapOf(PlayerId, Player), NEW n \in Nat, DOMAIN j = 0 .. n - 1
    PROVE  LobbyAfter(j, 0) = NewGame
<1>. DEFINE z == LobbyAfter(j, 0)
<1>1. /\ z \in GameType /\ z.turn = 0
      /\ z.players = [p \in 0 .. 0 - 1 |-> j[p]]
      /\ z.scores = [p \in 0 .. 0 - 1 |-> 0]
      /\ z.players_positions = EmptyMap /\ z.bombs = EmptyMap
      /\ z.blocks = {} /\ z.explosions = {}
      /\ z.dead_players = {} /\ z.destroyed_blocks = {}
  <2>1. PICK o : o = 0 OBVIOUS
  <2>2. o \in 0 .. n BY <2>1
  <2>3. FirstOf(o, n, j) BY <2>2 DEF FirstOf
  <2>4. LobbyFields(LobbyAfter(j, o), j, o) BY <2>3, LobbyAfterFields
  <2>5. LobbyFields(z, j, 0) BY <2>1, <2>4
  <2>. QED BY <2>5 DEF LobbyFields
<1>. HIDE DEF z
<1>2. 0 .. 0 - 1 = {} OBVIOUS
<1>3. z.players = EmptyMap /\ z.scores = EmptyMap BY <1>1, <1>2 DEF EmptyMap
<1>4. /\ NewGame.players = EmptyMap /\ NewGame.scores = EmptyMap
      /\ NewGame.players_positions = EmptyMap /\ NewGame.bombs = EmptyMap
      /\ NewGame.blocks = {} /\ NewGame.explosions = {} /\ NewGame.turn = 0
      /\ NewGame.dead_players = {} /\ NewGame.destroyed_blocks = {}
  BY DEF NewGame
<1>5. z = NewGame
  <2>1. SameFields(z, NewGame) BY <1>1, <1>3, <1>4 DEF SameFields
  <2>. QED BY <1>1, <2>1, NewGameType, SameGame
<1>. QED BY <1>5 DEF z

LEMMA LobbyAfterNext ==
    ASSUME NEW j \in MapOf(PlayerId, Player), NEW n \in Nat, DOMAIN j = 0 .. n - 1,
           NEW k \in 1 .. n
    PROVE  /\ AddPlayers(LobbyAfter(j, k - 1), [p \in {k - 1} |-> j[k - 1]])
                  = LobbyAfter(j, k)
           /\ k - 1 \in PlayerId /\ j[k - 1] \in Player
<1>. DEFINE g == LobbyAfter(j, k - 1)
            h == LobbyAfter(j, k)
            new == [p \in {k - 1} |-> j[k - 1]]
            a == AddPlayers(g, new)
<1>0. k - 1 \in 0 .. n /\ k \in 0 .. n OBVIOUS
<1>1. j \in [DOMAIN j -> Player] /\ DOMAIN j \subseteq PlayerId BY MapOfMember
<1>2. k - 1 \in DOMAIN j OBVIOUS
<1>3. k - 1 \in PlayerId /\ j[k - 1] \in Player BY <1>1, <1>2
<1>4. DOMAIN new = {k - 1} /\ new[k - 1] = j[k - 1] OBVIOUS
<1>5. new \in MapOf(PlayerId, Player)
  <2>1. new \in [{k - 1} -> Player] /\ {k - 1} \subseteq PlayerId BY <1>3
  <2>. QED BY <2>1, MapOfMember
<1>6. /\ g \in GameType /\ g.turn = 0
      /\ g.players = [p \in 0 .. (k - 1) - 1 |-> j[p]]
      /\ g.scores = [p \in 0 .. (k - 1) - 1 |-> 0]
      /\ g.players_positions = EmptyMap /\ g.bombs = EmptyMap
      /\ g.blocks = {} /\ g.explosions = {}
      /\ g.dead_players = {} /\ g.destroyed_blocks = {}
  <2>1. PICK i : i = k - 1 OBVIOUS
  <2>2. FirstOf(i, n, j) BY <1>0, <2>1 DEF FirstOf
  <2>3. LobbyFields(g, j, i) BY <2>1, <2>2, LobbyAfterFields
  <2>. QED BY <2>1, <2>3 DEF LobbyFields
<1>7. /\ h \in GameType /\ h.turn = 0
      /\ h.players = [p \in 0 .. k - 1 |-> j[p]]
      /\ h.scores = [p \in 0 .. k - 1 |-> 0]
      /\ h.players_positions = EmptyMap /\ h.bombs = EmptyMap
      /\ h.blocks = {} /\ h.explosions = {}
      /\ h.dead_players = {} /\ h.destroyed_blocks = {}
  <2>1. FirstOf(k, n, j) BY <1>0 DEF FirstOf
  <2>2. LobbyFields(h, j, k) BY <2>1, LobbyAfterFields
  <2>. QED BY <2>2 DEF LobbyFields
<1>. HIDE DEF g, h, new
<1>8. /\ a \in GameType
      /\ a.players = [p \in DOMAIN g.players \cup DOMAIN new |->
                        IF p \in DOMAIN g.players THEN g.players[p] ELSE new[p]]
      /\ a.scores = [p \in DOMAIN g.scores \cup DOMAIN new |->
                       IF p \in DOMAIN g.scores THEN g.scores[p] ELSE 0]
      /\ a.turn = g.turn
      /\ a.players_positions = g.players_positions
      /\ a.blocks = g.blocks /\ a.bombs = g.bombs
      /\ a.explosions = g.explosions
      /\ a.dead_players = g.dead_players
      /\ a.destroyed_blocks = g.destroyed_blocks
  <2>1. PICK x, y : x = g /\ y = new OBVIOUS
  <2>2. x \in GameType /\ y \in MapOf(PlayerId, Player) BY <1>5, <1>6, <2>1
  <2>3. /\ AddPlayers(x, y) \in GameType
        /\ AddPlayers(x, y).players =
               [p \in DOMAIN x.players \cup DOMAIN y |->
                  IF p \in DOMAIN x.players THEN x.players[p] ELSE y[p]]
        /\ AddPlayers(x, y).scores =
               [p \in DOMAIN x.scores \cup DOMAIN y |->
                  IF p \in DOMAIN x.scores THEN x.scores[p] ELSE 0]
        /\ AddPlayers(x, y).turn = x.turn
        /\ AddPlayers(x, y).players_positions = x.players_positions
        /\ AddPlayers(x, y).blocks = x.blocks
        /\ AddPlayers(x, y).bombs = x.bombs
        /\ AddPlayers(x, y).explosions = x.explosions
        /\ AddPlayers(x, y).dead_players = x.dead_players
        /\ AddPlayers(x, y).destroyed_blocks = x.destroyed_blocks
    BY <2>2, AddPlayersFields
  <2>. QED BY <2>1, <2>3
<1>. HIDE DEF a
<1>9. (0 .. (k - 1) - 1) \cup {k - 1} = 0 .. k - 1 OBVIOUS
<1>10. a.players = h.players
  <2>1. a.players = [p \in 0 .. k - 1 |-> IF p \in 0 .. (k - 1) - 1 THEN j[p] ELSE new[p]]
    BY <1>4, <1>6, <1>8, <1>9
  <2>2. \A p \in 0 .. k - 1 : p \notin 0 .. (k - 1) - 1 => p = k - 1 OBVIOUS
  <2>3. ASSUME NEW p \in 0 .. k - 1
        PROVE  (IF p \in 0 .. (k - 1) - 1 THEN j[p] ELSE new[p]) = j[p]
    BY <1>4, <2>2
  <2>4. a.players = [p \in 0 .. k - 1 |-> j[p]] BY <2>1, <2>3
  <2>. QED BY <1>7, <2>4
<1>11. a.scores = h.scores
  <2>1. a.scores = [p \in 0 .. k - 1 |-> 0] BY <1>4, <1>6, <1>8, <1>9
  <2>. QED BY <1>7, <2>1
<1>12. a = h
  <2>1. SameFields(a, h) BY <1>6, <1>7, <1>8, <1>10, <1>11 DEF SameFields
  <2>. QED BY <1>7, <1>8, <2>1, SameGame
<1>. QED BY <1>3, <1>12 DEF a, g, h, new

\* The messages about the players j, and the views q that they give.
Roll(j, n) == [k \in 1 .. n |-> AcceptedPlayer(k - 1, j[k - 1])]

CallsRoll(j, n, q) ==
    /\ j \in MapOf(PlayerId, Player) /\ n \in Nat /\ DOMAIN j = 0 .. n - 1
    /\ q \in Seq(View) /\ Len(q) = n + 1
    /\ \A k \in 1 .. n : q[k + 1] = LobbyView(LobbyAfter(j, k))

LEMMA RunRoll ==
    ASSUME NEW j, NEW n, NEW q, CallsRoll(j, n, q)
    PROVE  /\ Roll(j, n) \in Seq(Message \cup Event) /\ Len(Roll(j, n)) = n
           /\ \E r : /\ Run(r, Roll(j, n), q)
                     /\ r[0] = [left |-> 0, game |-> NewGame, sent |-> 1]
                     /\ r[n] = [left |-> 0, game |-> LobbyAfter(j, n), sent |-> n + 1]
<1>. DEFINE c(i) == [left |-> 0, game |-> LobbyAfter(j, i), sent |-> i + 1]
            r == [i \in 0 .. n |-> c(i)]
            s == Roll(j, n)
<1>1. /\ j \in MapOf(PlayerId, Player) /\ n \in Nat /\ DOMAIN j = 0 .. n - 1
      /\ q \in Seq(View) /\ Len(q) = n + 1
      /\ \A k \in 1 .. n : q[k + 1] = LobbyView(LobbyAfter(j, k))
  BY DEF CallsRoll
<1>2. \A k \in 1 .. n : /\ k - 1 \in PlayerId /\ j[k - 1] \in Player
                        /\ AddPlayers(LobbyAfter(j, k - 1), [p \in {k - 1} |-> j[k - 1]])
                               = LobbyAfter(j, k)
  BY <1>1, LobbyAfterNext
<1>3. s \in Seq(Message \cup Event) /\ Len(s) = n
      /\ \A k \in 1 .. n : s[k] = AcceptedPlayer(k - 1, j[k - 1])
  <2>1. ASSUME NEW k \in 1 .. n PROVE AcceptedPlayer(k - 1, j[k - 1]) \in Message \cup Event
    <3>1. k - 1 \in PlayerId /\ j[k - 1] \in Player BY <1>2
    <3>. QED BY <3>1, AcceptedPlayerType
  <2>. QED BY <1>1, <2>1 DEF Roll
<1>. HIDE DEF s
<1>4. ASSUME NEW i \in 0 .. n PROVE LobbyAfter(j, i) \in GameType
  <2>1. FirstOf(i, n, j) BY <1>1 DEF FirstOf
  <2>. QED BY <2>1, LobbyAfterFields DEF LobbyFields
<1>5. ASSUME NEW i \in 0 .. n
      PROVE  /\ c(i) \in State /\ c(i).left = 0 /\ c(i).game = LobbyAfter(j, i)
             /\ c(i).sent = i + 1
  BY <1>1, <1>4 DEF State
<1>6. \A i \in 0 .. n : r[i] = c(i) OBVIOUS
<1>7. r \in [0 .. n -> State] BY <1>5
<1>. HIDE DEF r
<1>8. ASSUME NEW i \in 1 .. n PROVE Reads(r[i - 1], s[i], r[i], q)
  <2>1. i - 1 \in 0 .. n /\ i \in 0 .. n BY <1>1
  <2>2. r[i - 1] = c(i - 1) /\ r[i] = c(i) BY <1>6, <2>1
  <2>3. c(i - 1).left = 0 /\ c(i - 1).game = LobbyAfter(j, i - 1) /\ c(i - 1).sent = i
    BY <1>1, <1>5, <2>1
  <2>4. c(i) = [left |-> 0, game |-> LobbyAfter(j, i), sent |-> i + 1] BY DEF c
  <2>5. InLobby(LobbyAfter(j, i), i, c(i), q) BY <1>1, <2>4 DEF InLobby
  <2>6. /\ s[i].t = "accepted" /\ s[i].id = i - 1 /\ s[i].player = j[i - 1]
    BY <1>3 DEF AcceptedPlayer
  <2>7. AddPlayers(LobbyAfter(j, i - 1), [p \in {i - 1} |-> j[i - 1]]) = LobbyAfter(j, i)
    BY <1>2
  <2>8. AddPlayers(c(i - 1).game, [p \in {s[i].id} |-> s[i].player]) = LobbyAfter(j, i)
    BY <2>3, <2>6, <2>7
  <2>9. Reads(c(i - 1), s[i], c(i), q) BY <2>3, <2>5, <2>6, <2>8 DEF Reads
  <2>. QED BY <2>2, <2>9
<1>. HIDE DEF c
<1>9. \A i \in 0 .. n : r[i].sent = i + 1 BY <1>5, <1>6
<1>10. \A i \in 0 .. n : r[i].sent <= Len(q) BY <1>1, <1>9
<1>15. \A i, k \in 0 .. n : i <= k => r[i].sent <= r[k].sent BY <1>1, <1>9
<1>11. Run(r, s, q) BY <1>3, <1>7, <1>8, <1>10, <1>15 DEF Run
<1>12. LobbyAfter(j, 0) = NewGame BY <1>1, LobbyAfterNone
<1>13. r[0] = [left |-> 0, game |-> NewGame, sent |-> 1]
  <2>1. 0 \in 0 .. n BY <1>1
  <2>2. r[0] = [left |-> 0, game |-> LobbyAfter(j, 0), sent |-> 0 + 1] BY <1>6, <2>1 DEF c
  <2>. QED BY <1>12, <2>2
<1>14. r[n] = [left |-> 0, game |-> LobbyAfter(j, n), sent |-> n + 1] BY <1>1, <1>6 DEF c
<1>. QED BY <1>3, <1>11, <1>13, <1>14 DEF s

\* What the server sends to a client that connects in the lobby.
LEMMA ConnectsLobby ==
    ASSUME IInv, stage' = "lobby", joined' = joined, NEW j, j = joined,
           NEW n, NEW q, CallsRoll(j, n, q),
           q[1] = LobbyView(NewGame),
           NEW c, c = [left |-> 0, game |-> NewGame, sent |-> 1]
    PROVE  Extends(c, Roll(j, n), q)
<1>0. j \in MapOf(PlayerId, Player) /\ n \in Nat /\ DOMAIN j = 0 .. n - 1
  BY DEF CallsRoll
<1>1. /\ j \in MapOf(PlayerId, Player) /\ n \in Nat /\ DOMAIN j = 0 .. n - 1
      /\ q \in Seq(View) /\ Len(q) = n + 1
      /\ \A k \in 1 .. n : q[k + 1] = LobbyView(LobbyAfter(j, k))
  BY DEF CallsRoll
<1>2. PICK r : /\ Run(r, Roll(j, n), q) /\ r[0] = c
               /\ r[n] = [left |-> 0, game |-> LobbyAfter(j, n), sent |-> n + 1]
  BY RunRoll
<1>3. Len(Roll(j, n)) = n BY RunRoll
<1>4. PICK g : g = LobbyAfter(j, n) OBVIOUS
<1>5. /\ g \in GameType /\ g.players = [p \in 0 .. n - 1 |-> j[p]]
      /\ g.scores = [p \in 0 .. n - 1 |-> 0]
      /\ g.players_positions = EmptyMap /\ g.bombs = EmptyMap
      /\ g.blocks = {} /\ g.explosions = {}
      /\ g.dead_players = {} /\ g.destroyed_blocks = {}
  <2>1. PICK k : k = n OBVIOUS
  <2>2. k \in 0 .. n BY <1>1, <2>1
  <2>3. FirstOf(k, n, j) BY <1>0, <2>2 DEF FirstOf
  <2>4. LobbyFields(LobbyAfter(j, k), j, k) BY <2>3, LobbyAfterFields
  <2>5. LobbyFields(g, j, n) BY <1>4, <2>1, <2>4
  <2>. QED BY <2>5 DEF LobbyFields
<1>6. g.players = j /\ g.scores = [p \in DOMAIN j |-> 0]
  <2>1. j \in [DOMAIN j -> Player] BY <1>1, MapOfMember
  <2>. QED BY <1>1, <1>5, <2>1
<1>7. LobbyGame(g)' BY <1>5, <1>6, LobbyGameNextFields
<1>8. q[Len(q)] = LobbyView(g)
  <2>1. CASE n = 0
    <3>1. LobbyAfter(j, 0) = NewGame BY <1>1, LobbyAfterNone
    <3>2. g = NewGame BY <1>4, <2>1, <3>1
    <3>3. Len(q) = 1 BY <1>1, <2>1
    <3>. QED BY <3>2, <3>3
  <2>2. CASE n # 0
    <3>1. n \in 1 .. n BY <1>1, <2>2
    <3>. QED BY <1>1, <1>4, <3>1
  <2>. QED BY <2>1, <2>2
<1>9. q[Len(q)] = ServerView' BY <1>6, <1>8 DEF LobbyView, ServerView
<1>10. PICK d : d = r[n] OBVIOUS
<1>11. d = [left |-> 0, game |-> g, sent |-> n + 1] BY <1>2, <1>4, <1>10
<1>12. d \in State /\ d.left = 0 /\ d.sent = Len(q) /\ d.game = g
  <2>1. n + 1 \in Nat /\ g \in GameType /\ Len(q) = n + 1 BY <1>1, <1>5
  <2>2. d \in State BY <1>11, <2>1 DEF State
  <2>. QED BY <1>11, <2>1, <2>2
<1>13. Agrees(d, q)' BY <1>7, <1>9, <1>12 DEF Agrees
<1>. QED BY <1>2, <1>3, <1>10, <1>13 DEF Extends

\* What it sends to a client that connects while a game is on.
LEMMA ConnectsGame ==
    ASSUME IInv, stage # "lobby", Connect, NEW j, j = joined,
           NEW s \in Seq(Message \cup Event), NEW q, Recorded(s, q), NEW v \in View,
           NEW c, c = [left |-> 0, game |-> NewGame, sent |-> 1]
    PROVE  /\ <<v>> \o q \in Seq(View)
           /\ Extends(c, <<GameStarted(j)>> \o s, <<v>> \o q)
<1>1. PICK r : r[0] = Starter /\ Run(r, s, q) /\ Agrees(r[Len(s)], q)
  BY DEF Recorded, Follows
<1>2. q \in Seq(View) /\ q # <<>> BY DEF Recorded
<1>3. PICK p : p = <<v>> \o q OBVIOUS
<1>4. /\ p \in Seq(View) /\ Len(p) = Len(q) + 1 /\ Len(q) \in Nat /\ Len(q) > 0
      /\ \A i \in 1 .. Len(q) : p[i + 1] = q[i]
  <2>1. <<v>> \in Seq(View) /\ Len(<<v>>) = 1 OBVIOUS
  <2>2. /\ p \in Seq(View) /\ Len(p) = 1 + Len(q)
        /\ \A i \in 1 .. Len(q) : p[1 + i] = q[i]
    BY <1>2, <1>3, <2>1, ConcatProperties
  <2>3. Len(q) \in Nat /\ Len(q) > 0 BY <1>2
  <2>4. \A i \in 1 .. Len(q) : i + 1 = 1 + i OBVIOUS
  <2>. QED BY <2>2, <2>3, <2>4
<1>5. PICK st : st = Starter OBVIOUS
<1>6. /\ st \in State /\ st.left = 0 /\ st.sent = 0
      /\ st.game = AddPlayers(NewGame, j)
  BY <1>5, StarterLobby
<1>7. PICK t : Run(t, s, p) /\ \A i \in 0 .. Len(s) : t[i] = Renumbered(r[i], 1)
  <2>1. r[0].sent + 1 >= 0 BY <1>1, <1>5, <1>6
  <2>2. Renumbers(r, s, q, p, 1) BY <1>1, <1>2, <1>4, <2>1 DEF Renumbers
  <2>. QED BY <2>2, RunRenumbered
<1>8. Len(s) \in 0 .. Len(s) /\ 0 \in 0 .. Len(s) OBVIOUS
<1>9. t[0] = [c EXCEPT !.game = AddPlayers(NewGame, j)]
  <2>1. t[0] = Renumbered(st, 1) BY <1>1, <1>5, <1>7, <1>8
  <2>. QED BY <1>6, <2>1 DEF Renumbered, State
<1>10. PICK e, d : e = r[Len(s)] /\ d = t[Len(s)] OBVIOUS
<1>11. Agrees(e, q)'
  <2>1. Agrees(e, q) BY <1>1, <1>10
  <2>. QED BY <2>1, AgreesUnchanged DEF Connect, boardVars, turnVars
<1>12. /\ d \in State /\ d.left = 0 /\ d.game = e.game /\ d.sent = Len(p)
  <2>1. d = Renumbered(e, 1) BY <1>7, <1>8, <1>10
  <2>2. e \in State /\ e.left = 0 /\ e.sent = Len(q) BY <1>11 DEF Agrees
  <2>. QED BY <1>4, <2>1, <2>2 DEF Renumbered, State
<1>13. p[Len(p)] = q[Len(q)] BY <1>4
<1>14. Agrees(d, p)' BY <1>2, <1>11, <1>12, <1>13 DEF Agrees
<1>15. Extends(t[0], s, p) BY <1>7, <1>10, <1>14 DEF Extends
<1>16. PICK m : m = GameStarted(j) OBVIOUS
<1>17. m \in Message /\ m.t = "started" /\ m.players = j
  BY <1>16 DEF GameStarted, Message, IInv, ServerInv, ServerOK
<1>18. c \in State /\ c.left = 0 /\ c.game = NewGame /\ c.sent = 1
  BY NewGameType DEF State
<1>19. Reads(c, m, t[0], p) BY <1>9, <1>17, <1>18 DEF Reads
<1>20. t[0].sent <= Len(p) BY <1>7, <1>8 DEF Run
<1>21. Extends(c, <<m>> \o s, p) BY <1>4, <1>15, <1>17, <1>18, <1>19, <1>20, ExtendsAfter
<1>. QED BY <1>3, <1>4, <1>16, <1>21

\* The views for a client that connects now.
LateViews(q) == <<LobbyOf(0)>> \o (IF stage = "lobby"
                                   THEN [k \in 1 .. Cardinality(DOMAIN joined) |-> LobbyOf(k)]
                                   ELSE q)

LEMMA LobbyOfView ==
    ASSUME NEW j \in MapOf(PlayerId, Player), NEW n \in Nat, DOMAIN j = 0 .. n - 1,
           NEW k \in 0 .. n, j = joined
    PROVE  LobbyOf(k) \in View /\ LobbyOf(k) = LobbyView(LobbyAfter(j, k))
<1>1. [p \in 0 .. k - 1 |-> j[p]] \in MapOf(PlayerId, Player) BY FirstPlayers
<1>2. LobbyOf(k) = [t |-> "lobby", players |-> [p \in 0 .. k - 1 |-> j[p]]]
  BY DEF LobbyOf
<1>3. LobbyAfter(j, k).players = [p \in 0 .. k - 1 |-> j[p]]
  <2>1. FirstOf(k, n, j) BY DEF FirstOf
  <2>2. LobbyFields(LobbyAfter(j, k), j, k) BY <2>1, LobbyAfterFields
  <2>. QED BY <2>2 DEF LobbyFields
<1>4. LobbyOf(k) \in View BY <1>1, <1>2 DEF View
<1>5. LobbyOf(k) = LobbyView(LobbyAfter(j, k)) BY <1>2, <1>3 DEF LobbyView
<1>. QED BY <1>4, <1>5

\* In the lobby these are the views of the players that have come, one by one.
LEMMA LateRoll ==
    ASSUME IInv, stage = "lobby", NEW q, NEW j, j = joined, NEW n, n = Cardinality(DOMAIN j),
           NEW p, p = LateViews(q)
    PROVE  CallsRoll(j, n, p) /\ p[1] = LobbyView(NewGame) /\ Roster = Roll(j, n)
<1>1. j \in MapOf(PlayerId, Player) BY DEF IInv, ServerInv, ServerOK
<1>2. n \in Nat /\ DOMAIN j = 0 .. n - 1
  BY LobbyCount, PlayersCountType DEF IInv, ServerInv
<1>3. Roster = Roll(j, n) BY DEF Roster, Roll
<1>. DEFINE w == [k \in 1 .. n |-> LobbyOf(k)]
<1>4. p = <<LobbyOf(0)>> \o w BY DEF LateViews
<1>5. \A k \in 0 .. n : LobbyOf(k) \in View /\ LobbyOf(k) = LobbyView(LobbyAfter(j, k))
  BY <1>1, <1>2, LobbyOfView
<1>6. w \in Seq(View) /\ Len(w) = n /\ \A k \in 1 .. n : w[k] = LobbyOf(k)
  BY <1>2, <1>5
<1>. HIDE DEF w
<1>7. PICK o : o = LobbyOf(0) OBVIOUS
<1>8. o \in View /\ o = LobbyView(LobbyAfter(j, 0)) BY <1>2, <1>5, <1>7
<1>9. o = LobbyView(NewGame) BY <1>1, <1>2, <1>8, LobbyAfterNone
<1>10. <<o>> \in Seq(View) /\ Len(<<o>>) = 1 /\ <<o>>[1] = o BY <1>8
<1>11. /\ <<o>> \o w \in Seq(View) /\ Len(<<o>> \o w) = 1 + n
       /\ (<<o>> \o w)[1] = o
       /\ \A k \in 1 .. n : (<<o>> \o w)[1 + k] = w[k]
  BY <1>2, <1>6, <1>10, ConcatProperties
<1>12. p = <<o>> \o w BY <1>4, <1>7
<1>. HIDE <1>4
<1>13. \A k \in 1 .. n : k + 1 = 1 + k OBVIOUS
<1>14. p \in Seq(View) /\ Len(p) = n + 1 /\ p[1] = o /\ \A k \in 1 .. n : p[k + 1] = w[k]
  BY <1>2, <1>11, <1>12, <1>13
<1>15. \A k \in 1 .. n : p[k + 1] = LobbyView(LobbyAfter(j, k)) BY <1>2, <1>5, <1>6, <1>14
<1>16. CallsRoll(j, n, p) BY <1>1, <1>2, <1>14, <1>15 DEF CallsRoll
<1>. QED BY <1>3, <1>9, <1>14, <1>16

\* What comes after Hello.
LEMMA AfterHello ==
    ASSUME IInv, NEW q, Recorded(log, q), Connect, NEW p, p = LateViews(q),
           NEW c, c = [left |-> 0, game |-> NewGame, sent |-> 1]
    PROVE  /\ p \in Seq(View) /\ p # <<>> /\ p[1] = LobbyView(NewGame)
           /\ \E s \in Seq(Message \cup Event) : /\ down' = <<Hello>> \o s
                                                 /\ Extends(c, s, p)
<1>1. /\ stage' = stage /\ joined' = joined
      /\ down' = <<Hello>> \o (IF stage = "lobby" THEN Roster
                               ELSE <<GameStarted(joined)>> \o log)
  BY DEF Connect
<1>2. PICK j, n : j = joined /\ n = Cardinality(DOMAIN j) OBVIOUS
<1>3. CASE stage = "lobby"
  <2>1. CallsRoll(j, n, p) /\ p[1] = LobbyView(NewGame) /\ Roster = Roll(j, n)
    BY <1>2, <1>3, LateRoll
  <2>2. p \in Seq(View) /\ Len(p) = n + 1 /\ n \in Nat BY <2>1 DEF CallsRoll
  <2>3. p # <<>> BY <2>2
  <2>4. Roster \in Seq(Message \cup Event) BY RosterType DEF IInv, ServerInv
  <2>5. stage' = "lobby" BY <1>1, <1>3
  <2>6. Extends(c, Roll(j, n), p) BY <1>1, <1>2, <2>1, <2>5, ConnectsLobby
  <2>. QED BY <1>1, <1>3, <2>1, <2>2, <2>3, <2>4, <2>6
<1>4. CASE stage # "lobby"
  <2>1. PICK v, s : v = LobbyOf(0) /\ s = log OBVIOUS
  <2>2. p = <<v>> \o q BY <1>4, <2>1 DEF LateViews
  <2>3. s \in Seq(Message \cup Event) BY <2>1 DEF IInv, ServerInv, ServerOK
  <2>4. PICK z : z = 0 OBVIOUS
  <2>5. v \in View /\ v = LobbyView(NewGame)
    <3>1. j \in MapOf(PlayerId, Player) BY <1>2 DEF IInv, ServerInv, ServerOK
    <3>2. n \in Nat /\ DOMAIN j = 0 .. n - 1
      BY <1>2, LobbyCount, PlayersCountType DEF IInv, ServerInv
    <3>3. z \in 0 .. n BY <2>4, <3>2
    <3>4. LobbyOf(z) \in View /\ LobbyOf(z) = LobbyView(LobbyAfter(j, z))
      BY <1>2, <3>1, <3>2, <3>3, LobbyOfView
    <3>5. LobbyAfter(j, 0) = NewGame BY <3>1, <3>2, LobbyAfterNone
    <3>. QED BY <2>1, <2>4, <3>4, <3>5
  <2>6. Recorded(s, q) BY <2>1
  <2>7. /\ <<v>> \o q \in Seq(View)
        /\ Extends(c, <<GameStarted(j)>> \o s, <<v>> \o q)
    BY <1>2, <1>4, <2>3, <2>5, <2>6, ConnectsGame
  <2>8. q \in Seq(View) BY DEF Recorded
  <2>9. p # <<>> /\ p[1] = v BY <2>2, <2>5, <2>8
  <2>10. <<GameStarted(j)>> \o s \in Seq(Message \cup Event)
    <3>1. GameStarted(j) \in Message
      BY <1>2 DEF GameStarted, Message, IInv, ServerInv, ServerOK
    <3>2. <<GameStarted(j)>> \in Seq(Message \cup Event) BY <3>1
    <3>. QED BY <2>3, <3>2, ConcatProperties
  <2>11. down' = <<Hello>> \o (<<GameStarted(j)>> \o s) BY <1>1, <1>2, <1>4, <2>1
  <2>. QED BY <2>2, <2>5, <2>7, <2>9, <2>10, <2>11
<1>. QED BY <1>3, <1>4

\* A client that connects is told everything that it has to know.
LEMMA ReplicaConnect ==
    ASSUME IInv, NEW q, ReplicaInv(q), Connect, BoardInv', UNCHANGED clientVars,
           NEW p, p = LateViews(q)
    PROVE  ReplicaInv(p)'
<1>1. /\ ~ connected /\ connected' /\ link = "up" /\ link' = "up" /\ stage' = stage
      /\ UNCHANGED <<sPc, left, game, proc, shown>>
  BY DEF Connect, clientVars, gameVars
<1>2. sPc = "code" /\ left = 0 /\ proc # "aborted" /\ Recorded(log, q)
  BY <1>1 DEF ReplicaInv
<1>3. PICK g : g = game OBVIOUS
<1>4. PICK c, d : /\ c = [left |-> 0, game |-> g, sent |-> 0]
                  /\ d = [left |-> 0, game |-> NewGame, sent |-> 1]
  OBVIOUS
<1>5. g \in GameType BY <1>3, GameTypeOK DEF IInv, ClientOK
<1>6. c \in State /\ c.left = 0 /\ c.sent = 0 BY <1>4, <1>5 DEF State
<1>7. PICK s \in Seq(Message \cup Event) : /\ down' = <<Hello>> \o s
                                           /\ Extends(d, s, p)
  BY <1>2, <1>4, AfterHello
<1>8. p \in Seq(View) /\ p # <<>> /\ p[1] = LobbyView(NewGame)
  BY <1>2, <1>4, AfterHello
<1>9. PICK m : m = Hello OBVIOUS
<1>10. m \in Message \cup Event /\ m.t = "hello" BY <1>9 DEF Hello, Message
<1>11. Reads(c, m, d, p) BY <1>4, <1>6, <1>8, <1>10 DEF Reads, InLobby
<1>12. d.sent <= Len(p) BY <1>4, <1>8
<1>13. Extends(c, <<m>> \o s, p) BY <1>6, <1>7, <1>8, <1>10, <1>11, <1>12, ExtendsAfter
<1>14. PICK x : x = <<m>> \o s OBVIOUS
<1>15. PICK r : Run(r, x, p) /\ r[0] = c /\ Agrees(r[Len(x)], p)'
  BY <1>13, <1>14 DEF Extends
<1>16. Now(c, p)' BY <1>1, <1>2, <1>3, <1>4 DEF Now
<1>17. Synced(x, p)' BY <1>1, <1>8, <1>15, <1>16 DEF Synced
<1>18. down' = x BY <1>7, <1>9, <1>14
<1>19. Synced(down, p)' BY <1>17, <1>18 DEF Synced
<1>. QED BY <1>1, <1>2, <1>19 DEF ReplicaInv

-----------------------------------------------------------------------------
(* The connection ends.                                                    *)

LEMMA NowSame ==
    ASSUME NEW c, NEW q, Now(c, q), UNCHANGED <<sPc, left, game>> PROVE Now(c, q)'
BY DEF Now

\* Of what the client would have read it reads the first part.
LEMMA ReplicaEnds ==
    ASSUME IInv, NEW q, ReplicaInv(q), NEW how, StreamEnds(how), how # "up",
           UNCHANGED clientVars
    PROVE  ReplicaInv(q)'
<1>1. UNCHANGED <<sPc, left, game, proc, shown>> BY DEF clientVars, gameVars
<1>2. PICK k \in 0 .. Len(down) : down' = SubSeq(down, 1, k) BY DEF StreamEnds
<1>3. /\ connected /\ connected' /\ link = "up" /\ link' # "up"
      /\ UNCHANGED <<stage, joined, bombs, nextBomb, deaths, due, hit, blast, positions,
                     actor>>
  BY DEF StreamEnds, serverVars, boardVars, turnVars
<1>4. BoardInv' BY <1>3, BoardKept DEF ReplicaInv
<1>5. PICK s : s = down OBVIOUS
<1>6. PICK x : x = SubSeq(s, 1, k) OBVIOUS
<1>7. ASSUME proc = "running" PROVE Synced(x, q)'
  <2>1. Synced(s, q) BY <1>3, <1>5, <1>7 DEF ReplicaInv
  <2>2. PICK r : Now(r[0], q) /\ Run(r, s, q) BY <2>1 DEF Synced
  <2>3. s \in Seq(Message \cup Event) BY <1>5 DEF IInv, WireOK
  <2>4. k \in 0 .. Len(s) BY <1>5
  <2>5. PICK t : t = [i \in 0 .. k |-> r[i]] OBVIOUS
  <2>6. Run(t, x, q) BY <1>6, <2>2, <2>3, <2>4, <2>5, RunPrefix
  <2>7. PICK c : c = r[0] OBVIOUS
  <2>8. t[0] = c BY <2>4, <2>5, <2>7
  <2>9. Now(c, q)' BY <1>1, <2>2, <2>7, NowSame
  <2>10. q \in Seq(View) BY <2>1 DEF Synced
  <2>11. Now(t[0], q)' BY <2>8, <2>9
  <2>. QED BY <1>3, <2>6, <2>10, <2>11 DEF Synced
<1>8. down' = x BY <1>2, <1>5, <1>6
<1>9. proc = "running" => Synced(down, q)' BY <1>7, <1>8 DEF Synced
<1>. QED BY <1>1, <1>3, <1>4, <1>9 DEF ReplicaInv

\* Thread G and the GUI touch nothing of this.
LEMMA ReplicaOther ==
    ASSUME NEW q, ReplicaInv(q), connected, UNCHANGED serverVars,
           UNCHANGED <<down, gameVars, shown>>,
           proc' = proc \/ proc' \in {"exit1", "killed"},
           link' = link \/ (link = "fin" /\ link' = "pipe")
    PROVE  ReplicaInv(q)'
<1>1. UNCHANGED <<sPc, left, game>> BY DEF gameVars
<1>2. UNCHANGED <<stage, connected, joined, bombs, nextBomb, deaths, due, hit, blast,
                  positions, actor, turn, blocks, events>>
  BY DEF serverVars, boardVars, turnVars
<1>3. BoardInv' BY <1>2, BoardKept DEF ReplicaInv
<1>4. PICK s : s = down OBVIOUS
<1>5. ASSUME proc = "running" PROVE Synced(s, q)'
  <2>1. Synced(s, q) BY <1>4, <1>5 DEF ReplicaInv
  <2>2. PICK r : /\ Now(r[0], q) /\ Run(r, s, q)
                 /\ link = "up" => Agrees(r[Len(s)], q)
    BY <2>1 DEF Synced
  <2>3. PICK c, d : c = r[0] /\ d = r[Len(s)] OBVIOUS
  <2>4. Now(c, q)' BY <1>1, <2>2, <2>3, NowSame
  <2>5. link = "up" => Agrees(d, q)' BY <1>2, <2>2, <2>3, AgreesUnchanged
  <2>6. /\ q \in Seq(View)
        /\ link = "up" /\ stage \in {"lobby", "idle"} /\ q = <<>> => shown = ServerView
    BY <2>1 DEF Synced
  <2>7. ServerView' = ServerView BY <1>2 DEF ServerView
  <2>8. Now(r[0], q)' BY <2>3, <2>4
  <2>9. link = "up" => Agrees(r[Len(s)], q)' BY <2>3, <2>5
  <2>10. link' = "up" => link = "up" OBVIOUS
  <2>. QED BY <1>2, <2>2, <2>6, <2>7, <2>8, <2>9, <2>10 DEF Synced
<1>6. down' = s BY <1>4
<1>7. proc = "running" => Synced(down, q)' BY <1>5, <1>6 DEF Synced
<1>8. proc' # "aborted" /\ (sPc' = "code" => left' = 0)
  BY <1>1 DEF ReplicaInv
<1>9. proc' = "running" => proc = "running" OBVIOUS
<1>. QED BY <1>2, <1>3, <1>7, <1>8, <1>9 DEF ReplicaInv

-----------------------------------------------------------------------------
(* S reads.                                                                *)

\* The states r lie ahead of S while it reads s and sends the views q.
Ahead(r, s, q) == /\ s \in Seq(Message \cup Event) /\ q \in Seq(View)
                  /\ Run(r, s, q)
                  /\ link = "up" => Agrees(r[Len(s)], q)

LEMMA AheadTail ==
    ASSUME NEW r, NEW s, NEW q, Ahead(r, s, q), s # <<>>
    PROVE  \E t : Ahead(t, Tail(s), q) /\ t[0] = r[1]
<1>1. s \in Seq(Message \cup Event) /\ q \in Seq(View) /\ Run(r, s, q) BY DEF Ahead
<1>2. PICK t : t = [i \in 0 .. Len(s) - 1 |-> r[i + 1]] OBVIOUS
<1>3. Run(t, Tail(s), q) BY <1>1, <1>2, RunTail
<1>4. Tail(s) \in Seq(Message \cup Event) /\ Len(Tail(s)) = Len(s) - 1
      /\ Len(s) \in Nat \ {0}
  BY <1>1, HeadTailProperties
<1>5. t[0] = r[1] /\ t[Len(Tail(s))] = r[Len(s)] BY <1>2, <1>4
<1>6. link = "up" => Agrees(r[Len(s)], q) BY DEF Ahead
<1>7. Ahead(t, Tail(s), q) BY <1>1, <1>3, <1>4, <1>5, <1>6 DEF Ahead
<1>. QED BY <1>5, <1>7

LEMMA AgreesShown ==
    ASSUME NEW c, NEW q \in Seq(View), Agrees(c, q), q # <<>>
    PROVE  Agrees(Renumbered(c, -1), Tail(q))
<1>1. /\ Tail(q) \in Seq(View) /\ Len(Tail(q)) = Len(q) - 1 /\ Len(q) \in Nat \ {0}
      /\ \A i \in 1 .. Len(Tail(q)) : Tail(q)[i] = q[i + 1]
  BY HeadTailProperties
<1>2. c \in State /\ c.left = 0 /\ c.sent = Len(q) BY DEF Agrees
<1>3. PICK d : d = Renumbered(c, -1) OBVIOUS
<1>4. d \in State /\ d.left = 0 /\ d.sent = Len(Tail(q)) /\ d.game = c.game
  <2>1. c.sent + -1 \in Nat /\ c.sent + -1 = Len(Tail(q)) BY <1>1, <1>2
  <2>. QED BY <1>2, <1>3, <2>1 DEF Renumbered, State
<1>5. Tail(q) # <<>> => Tail(q)[Len(Tail(q))] = q[Len(q)]
  <2>. SUFFICES ASSUME Tail(q) # <<>> PROVE Tail(q)[Len(Tail(q))] = q[Len(q)] OBVIOUS
  <2>1. Len(Tail(q)) \in 1 .. Len(Tail(q)) BY <1>1
  <2>. QED BY <1>1, <2>1
<1>6. Agrees(d, Tail(q)) BY <1>4, <1>5 DEF Agrees
<1>. QED BY <1>3, <1>6

\* S has sent the first view.
LEMMA AheadShown ==
    ASSUME NEW r, NEW s, NEW q, Ahead(r, s, q), r[0].sent = 1
    PROVE  \E t : Ahead(t, s, Tail(q)) /\ t[0] = Renumbered(r[0], -1)
<1>1. s \in Seq(Message \cup Event) /\ q \in Seq(View) /\ Run(r, s, q) BY DEF Ahead
<1>2. Len(s) \in 0 .. Len(s) /\ 0 \in 0 .. Len(s) BY <1>1
<1>3. r[0].sent <= Len(q) BY <1>1, <1>2 DEF Run
<1>4. q # <<>> BY <1>1, <1>3
<1>5. PICK p : p = Tail(q) OBVIOUS
<1>6. /\ p \in Seq(View) /\ Len(p) = Len(q) - 1 /\ Len(q) \in Nat \ {0}
      /\ \A i \in 1 .. Len(p) : p[i] = q[i + 1]
  BY <1>1, <1>4, <1>5, HeadTailProperties
<1>7. PICK k : k = -1 OBVIOUS
<1>8. Renumbers(r, s, q, p, k)
  <2>1. \A i \in 1 .. Len(q) : i + k >= 1 => p[i + k] = q[i]
    <3>. SUFFICES ASSUME NEW i \in 1 .. Len(q), i + k >= 1 PROVE p[i + k] = q[i] OBVIOUS
    <3>1. i + k \in 1 .. Len(p) /\ (i + k) + 1 = i BY <1>6, <1>7
    <3>. QED BY <1>6, <3>1
  <2>. QED BY <1>1, <1>6, <1>7, <2>1 DEF Renumbers
<1>9. PICK t : Run(t, s, p) /\ \A i \in 0 .. Len(s) : t[i] = Renumbered(r[i], k)
  BY <1>8, RunRenumbered
<1>10. PICK c, d : c = r[Len(s)] /\ d = t[Len(s)] OBVIOUS
<1>11. d = Renumbered(c, k) /\ t[0] = Renumbered(r[0], k) BY <1>2, <1>9, <1>10
<1>12. link = "up" => Agrees(d, p)
  <2>. SUFFICES ASSUME link = "up" PROVE Agrees(d, p) OBVIOUS
  <2>1. Agrees(c, q) BY <1>10 DEF Ahead
  <2>2. Agrees(Renumbered(c, -1), Tail(q)) BY <1>1, <1>4, <2>1, AgreesShown
  <2>. QED BY <1>5, <1>7, <1>11, <2>2
<1>13. Ahead(t, s, p) BY <1>1, <1>6, <1>9, <1>10, <1>12 DEF Ahead
<1>. QED BY <1>5, <1>7, <1>11, <1>13

LEMMA AheadSame ==
    ASSUME NEW r, NEW s, NEW q, Ahead(r, s, q), UNCHANGED <<serverVars, link>>
    PROVE  Ahead(r, s, q)'
<1>1. UNCHANGED <<stage, joined, turn, positions, blocks, bombs, deaths, blast, hit, events>>
      /\ link' = link
  BY DEF serverVars, boardVars, turnVars
<1>2. PICK d : d = r[Len(s)] OBVIOUS
<1>3. link = "up" => Agrees(d, q) BY <1>2 DEF Ahead
<1>4. link = "up" => Agrees(d, q)' BY <1>1, <1>3, AgreesUnchanged
<1>5. link = "up" => Agrees(r[Len(s)], q)' BY <1>2, <1>4
<1>. QED BY <1>1, <1>5 DEF Ahead

LEMMA ServerViewSame == ASSUME UNCHANGED serverVars PROVE ServerView' = ServerView
BY DEF ServerView, serverVars, boardVars, turnVars

\* A step that sends nothing to the GUI.
LEMMA SyncedSilent ==
    ASSUME NEW r, NEW s, NEW q, Ahead(r, s, q), UNCHANGED <<serverVars, link, shown>>,
           Now(r[0], q)',
           link = "up" /\ stage \in {"lobby", "idle"} /\ q = <<>> => shown = ServerView
    PROVE  Synced(s, q)'
<1>1. Ahead(r, s, q)' BY AheadSame
<1>2. /\ q \in Seq(View) /\ Run(r, s, q)
      /\ link' = "up" => Agrees(r[Len(s)], q)'
  BY <1>1 DEF Ahead
<1>3. stage' = stage /\ link' = link /\ shown' = shown BY DEF serverVars
<1>4. link' = "up" /\ stage' \in {"lobby", "idle"} /\ q = <<>> => shown' = ServerView'
  BY <1>3, ServerViewSame
<1>. QED BY <1>2, <1>4 DEF Synced

LEMMA LastView ==
    ASSUME NEW q \in Seq(View), q # <<>>, Tail(q) = <<>>
    PROVE  Len(q) = 1 /\ q[1] = Head(q)
<1>1. PICK p : p = Tail(q) OBVIOUS
<1>2. Len(p) = Len(q) - 1 /\ Len(q) \in Nat /\ Head(q) = q[1]
  BY <1>1, HeadTailProperties
<1>3. Len(p) = 0
  <2>1. p = <<>> BY <1>1
  <2>. QED BY <2>1
<1>. QED BY <1>2, <1>3

\* A step that sends the first view.
LEMMA SyncedShows ==
    ASSUME NEW r, NEW s, NEW q, Ahead(r, s, q), UNCHANGED <<serverVars, link>>,
           q # <<>>, r[0].sent = 1, shown' = Head(q),
           NEW c, c = Renumbered(r[0], -1), Now(c, Tail(q))'
    PROVE  Synced(s, Tail(q))'
<1>1. PICK t : Ahead(t, s, Tail(q)) /\ t[0] = c BY AheadShown
<1>2. PICK p : p = Tail(q) OBVIOUS
<1>3. Ahead(t, s, p)' BY <1>1, <1>2, AheadSame
<1>4. /\ p \in Seq(View) /\ Run(t, s, p)
      /\ link' = "up" => Agrees(t[Len(s)], p)'
  BY <1>3 DEF Ahead
<1>5. q \in Seq(View) BY DEF Ahead
<1>6. Now(t[0], p)' BY <1>1, <1>2
<1>7. ASSUME link' = "up", stage' \in {"lobby", "idle"}, p = <<>> PROVE shown' = ServerView'
  <2>1. link = "up" /\ stage \in {"lobby", "idle"} BY <1>7 DEF serverVars
  <2>2. Len(q) = 1 /\ q[1] = Head(q)
    <3>1. p = <<>> BY <1>7
    <3>. QED BY <1>2, <1>5, <3>1, LastView
  <2>3. q[Len(q)] = ServerView BY <2>1 DEF Ahead, Agrees
  <2>. QED BY <2>2, <2>3, ServerViewSame
<1>8. Synced(s, p)' BY <1>4, <1>6, <1>7 DEF Synced
<1>. QED BY <1>2, <1>8

\* What is known when S is about to read in the middle of a game or a turn.
LEMMA Underway ==
    ASSUME IInv, NEW q, ReplicaInv(q), connected, proc = "running", NEW s, s = down
    PROVE  /\ s \in Seq(Message \cup Event) /\ q \in Seq(View)
           /\ link = "up" /\ stage \in {"lobby", "idle"} /\ q = <<>> => shown = ServerView
           /\ \E r : Ahead(r, s, q) /\ Now(r[0], q)
<1>1. Synced(s, q) BY DEF ReplicaInv
<1>2. s \in Seq(Message \cup Event) BY DEF IInv, WireOK
<1>. QED BY <1>1, <1>2 DEF Synced, Ahead

\* S reads the message m: what it has to do and what comes then.
LEMMA NextMessage ==
    ASSUME IInv, NEW q, ReplicaInv(q), connected, proc = "running", sPc = "code",
           NEW s, s = down, s # <<>>, NEW m, m = Head(s), NEW g, g = game
    PROVE  \E r : /\ Ahead(r, Tail(s), q)
                  /\ Reads([left |-> 0, game |-> g, sent |-> 0], m, r[0], q)
                  /\ r[0] \in State /\ r[0].sent <= Len(q)
<1>1. /\ s \in Seq(Message \cup Event) /\ q \in Seq(View) BY Underway
<1>2. PICK r : Ahead(r, s, q) /\ Now(r[0], q) BY Underway
<1>3. r[0] = [left |-> 0, game |-> g, sent |-> 0] BY <1>2 DEF Now
<1>4. Len(s) \in Nat \ {0} /\ m = s[1] BY <1>1, HeadTailProperties
<1>5. 1 \in 1 .. Len(s) /\ 1 \in 0 .. Len(s) BY <1>4
<1>6. Reads(r[1 - 1], s[1], r[1], q) /\ r[1] \in State /\ r[1].sent <= Len(q)
  BY <1>2, <1>5 DEF Ahead, Run
<1>7. Reads(r[0], m, r[1], q) BY <1>4, <1>6
<1>8. PICK t : Ahead(t, Tail(s), q) /\ t[0] = r[1] BY <1>2, AheadTail
<1>. QED BY <1>3, <1>6, <1>7, <1>8

LEMMA NextEvent ==
    ASSUME IInv, NEW q, ReplicaInv(q), connected, proc = "running", sPc = "events",
           NEW s, s = down, s # <<>>, NEW m, m = Head(s), NEW g, g = game,
           NEW l, l = left, l > 0
    PROVE  \E r : /\ Ahead(r, Tail(s), q)
                  /\ Reads([left |-> l, game |-> g, sent |-> 0], m, r[0], q)
<1>1. /\ s \in Seq(Message \cup Event) /\ q \in Seq(View) BY Underway
<1>2. PICK r : Ahead(r, s, q) /\ Now(r[0], q) BY Underway
<1>3. l \in Nat BY DEF IInv, ClientOK
<1>4. r[0] = [left |-> l, game |-> g, sent |-> 0] BY <1>2, <1>3 DEF Now, InTurn
<1>5. Len(s) \in Nat \ {0} /\ m = s[1] BY <1>1, HeadTailProperties
<1>6. 1 \in 1 .. Len(s) BY <1>5
<1>7. Reads(r[1 - 1], s[1], r[1], q) BY <1>2, <1>6 DEF Ahead, Run
<1>8. Reads(r[0], m, r[1], q) BY <1>5, <1>7
<1>9. PICK t : Ahead(t, Tail(s), q) /\ t[0] = r[1] BY <1>2, AheadTail
<1>. QED BY <1>4, <1>8, <1>9

\* In the lobby the view is sent.
ShowsView(q, v) == /\ q # <<>> /\ Head(q) = v /\ Synced(down, Tail(q))'

LEMMA ShowsLobby ==
    ASSUME NEW r, NEW s, NEW q, Ahead(r, s, q), NEW g \in GameType,
           r[0].sent <= Len(q), InLobby(g, 0, r[0], q),
           UNCHANGED <<serverVars, link, sPc>>, sPc = "code", game' = g, left' = 0,
           shown' = LobbyView(g), down' = s
    PROVE  ShowsView(q, shown')
<1>1. /\ r[0] = [left |-> 0, game |-> g, sent |-> 1] /\ q[1] = LobbyView(g)
  BY DEF InLobby
<1>2. q \in Seq(View) BY DEF Ahead
<1>3. r[0].sent = 1 BY <1>1
<1>4. q # <<>> /\ Head(q) = q[1] BY <1>2, <1>3
<1>5. PICK c : c = Renumbered(r[0], -1) OBVIOUS
<1>6. c = [left |-> 0, game |-> g, sent |-> 0] BY <1>1, <1>5 DEF Renumbered
<1>7. PICK p : p = Tail(q) OBVIOUS
<1>8. Now(c, p)' BY <1>6 DEF Now
<1>9. shown' = Head(q) BY <1>1, <1>4
<1>10. Synced(s, p)' BY <1>3, <1>4, <1>5, <1>7, <1>8, <1>9, SyncedShows
<1>11. Synced(down, p)' BY <1>10 DEF Synced
<1>. QED BY <1>4, <1>7, <1>9, <1>11 DEF ShowsView

\* A message for which the GUI shows the lobby.
LEMMA ReadsLobby ==
    ASSUME IInv, IInv', NEW q, ReplicaInv(q), connected, proc = "running", sPc = "code",
           down # <<>>, down' = Tail(down), UNCHANGED <<serverVars, link, sPc, left>>,
           NEW g, g = game', shown' = LobbyView(g), NEW m, m = Head(down),
           \A d : Reads([left |-> 0, game |-> game, sent |-> 0], m, d, q)
                      => InLobby(g, 0, d, q)
    PROVE  ShowsView(q, shown')
<1>1. PICK s, h : s = down /\ h = game OBVIOUS
<1>2. s # <<>> /\ m = Head(s) BY <1>1
<1>3. PICK r : /\ Ahead(r, Tail(s), q)
               /\ Reads([left |-> 0, game |-> h, sent |-> 0], m, r[0], q)
               /\ r[0].sent <= Len(q)
  BY <1>1, <1>2, NextMessage
<1>4. InLobby(g, 0, r[0], q) BY <1>1, <1>3
<1>5. g \in GameType BY GameTypeOK DEF IInv, ClientOK
<1>6. PICK x : x = Tail(s) OBVIOUS
<1>7. left' = 0 BY DEF ReplicaInv
<1>8. down' = x BY <1>1, <1>6
<1>9. Ahead(r, x, q) BY <1>3, <1>6
<1>. HIDE <1>1, <1>2, <1>6
<1>. QED BY <1>3, <1>4, <1>5, <1>7, <1>8, <1>9, ShowsLobby

LEMMA ReadsHello ==
    ASSUME IInv, IInv', NEW q, ReplicaInv(q), connected, HandleHello, proc' = "running",
           UNCHANGED serverVars
    PROVE  ShowsView(q, shown')
<1>1. /\ proc = "running" /\ sPc = "code" /\ down # <<>> /\ down' = Tail(down)
      /\ Head(down).t = "hello" /\ game' = NewGame /\ UNCHANGED <<link, sPc, left>>
  BY DEF HandleHello, Read
<1>2. shown' = LobbyView(game') BY DEF HandleHello, SendToGui, Die
<1>3. PICK m, g : m = Head(down) /\ g = game' OBVIOUS
<1>4. ASSUME NEW d, Reads([left |-> 0, game |-> game, sent |-> 0], m, d, q)
      PROVE  InLobby(g, 0, d, q)
  BY <1>1, <1>3, <1>4 DEF Reads
<1>. QED BY <1>1, <1>2, <1>3, <1>4, ReadsLobby

LEMMA ReadsAccepted ==
    ASSUME IInv, IInv', NEW q, ReplicaInv(q), connected, HandleAcceptedPlayer,
           proc' = "running", UNCHANGED serverVars
    PROVE  ShowsView(q, shown')
<1>1. /\ proc = "running" /\ sPc = "code" /\ down # <<>> /\ down' = Tail(down)
      /\ Head(down).t = "accepted"
      /\ game' = AddPlayers(game, [p \in {Head(down).id} |-> Head(down).player])
      /\ UNCHANGED <<link, sPc, left>>
  BY DEF HandleAcceptedPlayer, Read
<1>2. shown' = LobbyView(game') BY DEF HandleAcceptedPlayer, SendToGui, Die
<1>3. PICK m, g : m = Head(down) /\ g = game' OBVIOUS
<1>4. ASSUME NEW d, Reads([left |-> 0, game |-> game, sent |-> 0], m, d, q)
      PROVE  InLobby(g, 0, d, q)
  BY <1>1, <1>3, <1>4 DEF Reads
<1>. QED BY <1>1, <1>2, <1>3, <1>4, ReadsLobby

LEMMA ReadsEnded ==
    ASSUME IInv, IInv', NEW q, ReplicaInv(q), connected, HandleGameEnded,
           proc' = "running", UNCHANGED serverVars
    PROVE  ShowsView(q, shown')
<1>1. /\ proc = "running" /\ sPc = "code" /\ down # <<>> /\ down' = Tail(down)
      /\ Head(down).t = "ended" /\ game' = ResetGame(game) /\ UNCHANGED <<link, sPc, left>>
  BY DEF HandleGameEnded, Read
<1>2. shown' = LobbyView(game') BY DEF HandleGameEnded, SendToGui, Die
<1>3. PICK m, g : m = Head(down) /\ g = game' OBVIOUS
<1>4. ASSUME NEW d, Reads([left |-> 0, game |-> game, sent |-> 0], m, d, q)
      PROVE  InLobby(g, 0, d, q)
  BY <1>1, <1>3, <1>4 DEF Reads
<1>. QED BY <1>1, <1>2, <1>3, <1>4, ReadsLobby

\* A step that sends nothing.
ShowsNothing(q) == shown' = shown /\ Synced(down, q)'

LEMMA ReadsSilent ==
    ASSUME IInv, NEW q, ReplicaInv(q), connected, proc = "running",
           UNCHANGED <<serverVars, link, shown>>,
           NEW r, NEW s, Ahead(r, s, q), Now(r[0], q)', down' = s
    PROVE  ShowsNothing(q)
<1>1. link = "up" /\ stage \in {"lobby", "idle"} /\ q = <<>> => shown = ServerView
  BY Underway
<1>2. Synced(s, q)' BY <1>1, SyncedSilent
<1>3. Synced(down, q)' BY <1>2 DEF Synced
<1>. QED BY <1>3 DEF ShowsNothing

LEMMA ReadsStarted ==
    ASSUME IInv, NEW q, ReplicaInv(q), connected, HandleGameStarted, UNCHANGED serverVars
    PROVE  ShowsNothing(q)
<1>1. /\ proc = "running" /\ sPc = "code" /\ down # <<>> /\ down' = Tail(down)
      /\ Head(down).t = "started" /\ game' = AddPlayers(game, Head(down).players)
      /\ UNCHANGED <<link, sPc, left, shown>>
  BY DEF HandleGameStarted, Read
<1>2. PICK s, g, m : s = down /\ g = game /\ m = Head(s) OBVIOUS
<1>3. s # <<>> BY <1>1, <1>2
<1>4. PICK r : /\ Ahead(r, Tail(s), q)
               /\ Reads([left |-> 0, game |-> g, sent |-> 0], m, r[0], q)
  BY <1>1, <1>2, <1>3, NextMessage
<1>5. m.t = "started" /\ game' = AddPlayers(g, m.players) BY <1>1, <1>2
<1>6. r[0] = [left |-> 0, game |-> AddPlayers(g, m.players), sent |-> 0]
  BY <1>4, <1>5 DEF Reads
<1>7. Now(r[0], q)' BY <1>1, <1>5, <1>6 DEF Now
<1>8. PICK x : x = Tail(s) OBVIOUS
<1>9. down' = x /\ Ahead(r, x, q) BY <1>1, <1>2, <1>4, <1>8
<1>. HIDE <1>2, <1>8
<1>. QED BY <1>1, <1>7, <1>9, ReadsSilent

LEMMA ReadsTurn ==
    ASSUME IInv, NEW q, ReplicaInv(q), connected, BeginTurnMsg, UNCHANGED serverVars
    PROVE  ShowsNothing(q)
<1>1. /\ proc = "running" /\ sPc = "code" /\ down # <<>> /\ down' = Tail(down)
      /\ Head(down).t = "turn" /\ game' = SetTurn(game, Head(down).turn)
      /\ sPc' = "events" /\ left' = Head(down).n
      /\ UNCHANGED <<link, shown>>
  BY DEF BeginTurnMsg, Read
<1>2. PICK s, g, m : s = down /\ g = game /\ m = Head(s) OBVIOUS
<1>3. s # <<>> BY <1>1, <1>2
<1>4. PICK r : /\ Ahead(r, Tail(s), q)
               /\ Reads([left |-> 0, game |-> g, sent |-> 0], m, r[0], q)
  BY <1>1, <1>2, <1>3, NextMessage
<1>5. m.t = "turn" /\ game' = SetTurn(g, m.turn) /\ left' = m.n BY <1>1, <1>2
<1>6. InTurn(m.n, SetTurn(g, m.turn), 0, r[0], q) BY <1>4, <1>5 DEF Reads
<1>7. InTurn(left', game', 0, r[0], q) BY <1>5, <1>6
<1>8. Now(r[0], q)' BY <1>1, <1>7 DEF Now, InTurn
<1>9. PICK x : x = Tail(s) OBVIOUS
<1>10. down' = x /\ Ahead(r, x, q) BY <1>1, <1>2, <1>4, <1>9
<1>. HIDE <1>2, <1>9
<1>. QED BY <1>1, <1>8, <1>10, ReadsSilent

\* The event is one that can be applied, and S is one state further.
LEMMA ReadsEvent ==
    ASSUME IInv, NEW q, ReplicaInv(q), connected, proc = "running", sPc = "events",
           left > 0, down # <<>>, down' = Tail(down), left' = left - 1,
           UNCHANGED <<serverVars, link, shown, sPc>>, NEW m, m = Head(down),
           m \in Event /\ Possible(game, m) => game' = Happened(game, m)
    PROVE  Possible(game, m) /\ ShowsNothing(q)
<1>1. PICK s, g, l : s = down /\ g = game /\ l = left OBVIOUS
<1>2. s # <<>> /\ m = Head(s) /\ l > 0 BY <1>1
<1>3. PICK r : /\ Ahead(r, Tail(s), q)
               /\ Reads([left |-> l, game |-> g, sent |-> 0], m, r[0], q)
  BY <1>1, <1>2, NextEvent
<1>4. l \in Nat BY <1>1 DEF IInv, ClientOK
<1>5. Possible(g, m) /\ InTurn(l - 1, Happened(g, m), 0, r[0], q)
  BY <1>2, <1>3, <1>4 DEF Reads
<1>6. m \in Event BY <1>5 DEF Possible
<1>7. game' = Happened(g, m) /\ left' = l - 1 BY <1>1, <1>5, <1>6
<1>8. InTurn(left', game', 0, r[0], q) BY <1>5, <1>7
<1>9. Now(r[0], q)' BY <1>8 DEF Now, InTurn
<1>10. PICK x : x = Tail(s) OBVIOUS
<1>11. down' = x /\ Ahead(r, x, q) BY <1>1, <1>3, <1>10
<1>12. Possible(game, m) BY <1>1, <1>5
<1>. HIDE <1>1, <1>2, <1>10
<1>13. ShowsNothing(q) BY <1>9, <1>11, ReadsSilent
<1>. QED BY <1>12, <1>13

LEMMA ReadsEvents ==
    ASSUME IInv, NEW q, ReplicaInv(q), connected, UNCHANGED serverVars,
           \/ HandleBombPlaced \/ HandleBombExploded
           \/ HandlePlayerMoved \/ HandleBlockPlaced
    PROVE  proc' = "running" /\ ShowsNothing(q)
<1>1. PICK m : m = Head(down) OBVIOUS
<1>2. \E kind : ReadEvent(kind)
  BY DEF HandleBombPlaced, HandleBombExploded, HandlePlayerMoved, HandleBlockPlaced
<1>3. /\ proc = "running" /\ sPc = "events" /\ left > 0 /\ down # <<>>
      /\ down' = Tail(down) /\ left' = left - 1 /\ UNCHANGED <<link, shown, sPc>>
  BY <1>2 DEF ReadEvent
<1>4. CASE HandleBombPlaced
  <2>1. m.t = "bombPlaced" BY <1>1, <1>4 DEF HandleBombPlaced, ReadEvent
  <2>2. game' = Happened(game, m) BY <1>1, <1>4, <2>1 DEF HandleBombPlaced, Happened
  <2>3. ShowsNothing(q) BY <1>1, <1>3, <2>2, ReadsEvent
  <2>. QED BY <1>3, <1>4, <2>3 DEF HandleBombPlaced
<1>5. CASE HandlePlayerMoved
  <2>1. m.t = "playerMoved" BY <1>1, <1>5 DEF HandlePlayerMoved, ReadEvent
  <2>2. game' = Happened(game, m) BY <1>1, <1>5, <2>1 DEF HandlePlayerMoved, Happened
  <2>3. ShowsNothing(q) BY <1>1, <1>3, <2>2, ReadsEvent
  <2>. QED BY <1>3, <1>5, <2>3 DEF HandlePlayerMoved
<1>6. CASE HandleBlockPlaced
  <2>1. m.t = "blockPlaced" BY <1>1, <1>6 DEF HandleBlockPlaced, ReadEvent
  <2>2. game' = Happened(game, m) BY <1>1, <1>6, <2>1 DEF HandleBlockPlaced, Happened
  <2>3. ShowsNothing(q) BY <1>1, <1>3, <2>2, ReadsEvent
  <2>. QED BY <1>3, <1>6, <2>3 DEF HandleBlockPlaced
<1>7. CASE HandleBombExploded
  <2>1. m.t = "bombExploded" BY <1>1, <1>7 DEF HandleBombExploded, ReadEvent
  <2>2. /\ proc' = IF m.id \in DOMAIN game.bombs THEN proc ELSE "aborted"
        /\ game' = IF m.id \in DOMAIN game.bombs
                   THEN DestroyBlocks(KillPlayers(ExplodeBomb(game, m.id), m.robots),
                                      m.blocks)
                   ELSE game
    BY <1>1, <1>7 DEF HandleBombExploded
  <2>3. ASSUME Possible(game, m) PROVE game' = Happened(game, m)
    BY <2>1, <2>2, <2>3 DEF Possible, Happened
  <2>4. Possible(game, m) /\ ShowsNothing(q) BY <1>1, <1>3, <2>3, ReadsEvent
  <2>. QED BY <1>3, <2>1, <2>2, <2>4 DEF Possible
<1>. QED BY <1>4, <1>5, <1>6, <1>7

\* All events have been read: the turn is shown.
LEMMA ShowsTurn ==
    ASSUME IInv, NEW q, ReplicaInv(q), connected, FinishTurnMsg, proc' = "running",
           UNCHANGED serverVars
    PROVE  ShowsView(q, shown')
<1>1. PICK f : f = Finished(game) OBVIOUS
<1>2. /\ proc = "running" /\ sPc = "events" /\ left = 0 /\ sPc' = "code" /\ left' = 0
      /\ down' = down /\ link' = link
      /\ shown' = GameView(f) /\ game' = ResetTurn(f)
  BY <1>1 DEF FinishTurnMsg, SendToGui, Die, Finished, wireVars
<1>3. PICK s : s = down OBVIOUS
<1>4. PICK r : Ahead(r, s, q) /\ Now(r[0], q) BY <1>2, <1>3, Underway
<1>5. s \in Seq(Message \cup Event) /\ q \in Seq(View) BY <1>4 DEF Ahead
<1>6. r[0] = [left |-> 0, game |-> ResetTurn(f), sent |-> 1] /\ q[1] = GameView(f)
  BY <1>1, <1>2, <1>4 DEF Now, InTurn
<1>7. r[0].sent <= Len(q)
  <2>1. 0 \in 0 .. Len(s) BY <1>5
  <2>. QED BY <1>4, <2>1 DEF Ahead, Run
<1>8. q # <<>> /\ Head(q) = q[1] BY <1>5, <1>6, <1>7
<1>9. PICK c : c = Renumbered(r[0], -1) OBVIOUS
<1>10. c = [left |-> 0, game |-> ResetTurn(f), sent |-> 0] BY <1>6, <1>9 DEF Renumbered
<1>11. PICK p : p = Tail(q) OBVIOUS
<1>12. Now(c, p)' BY <1>2, <1>10 DEF Now
<1>13. shown' = Head(q) /\ r[0].sent = 1 BY <1>2, <1>6, <1>8
<1>14. Synced(s, p)' BY <1>2, <1>4, <1>8, <1>9, <1>11, <1>12, <1>13, SyncedShows
<1>15. down' = s BY <1>2, <1>3
<1>16. Synced(down, p)' BY <1>14, <1>15 DEF Synced
<1>. QED BY <1>8, <1>11, <1>13, <1>16 DEF ShowsView

LEMMA TailShorter ==
    ASSUME IInv, down # <<>> PROVE Tail(down) # down
<1>1. PICK s : s = down OBVIOUS
<1>2. s \in Seq(Message \cup Event) /\ s # <<>> BY <1>1 DEF IInv, WireOK
<1>3. Len(Tail(s)) = Len(s) - 1 /\ Len(s) \in Nat BY <1>2, HeadTailProperties
<1>4. Tail(s) # s BY <1>3
<1>. QED BY <1>1, <1>4

\* What a step of S sends, when the process goes on.
Faithful(q) == IF Sends THEN ShowsView(q, shown')
               ELSE shown' = shown /\ (proc' = "running" => ShowsNothing(q))

LEMMA FaithfulS ==
    ASSUME IInv, IInv', NEW q, ReplicaInv(q), connected, ThreadS, UNCHANGED serverVars
    PROVE  Faithful(q) /\ (sPc' = "code" => left' = 0) /\ proc' # "aborted"
<1>0. (sPc = "code" => left = 0) /\ proc # "aborted" BY DEF ReplicaInv
<1>1. CASE ReadEmptyString \/ ServerGone
  <2>1. UNCHANGED <<sPc, left, shown>> /\ proc' \in {"exit0", "exit1"}
    BY <1>1 DEF ReadEmptyString, ServerGone, Die, gameVars
  <2>. QED BY <1>0, <2>1 DEF Faithful, Sends
<1>2. CASE HandleHello \/ HandleAcceptedPlayer \/ HandleGameEnded
  <2>1. /\ proc = "running" /\ sPc = "code" /\ down # <<>> /\ down' = Tail(down)
        /\ Head(down).t \in {"hello", "accepted", "ended"} /\ UNCHANGED <<sPc, left>>
        /\ proc' = "running" \/ (proc' = "exit1" /\ shown' = shown)
    BY <1>2 DEF HandleHello, HandleAcceptedPlayer, HandleGameEnded, Read, SendToGui, Die
  <2>2. down' # down BY <2>1, TailShorter
  <2>3. CASE proc' = "running"
    <3>1. Sends BY <2>1, <2>2, <2>3 DEF Sends
    <3>2. ShowsView(q, shown') BY <1>2, <2>3, ReadsHello, ReadsAccepted, ReadsEnded
    <3>. QED BY <1>0, <2>1, <2>3, <3>1, <3>2 DEF Faithful
  <2>4. CASE proc' = "exit1"
    <3>1. ~ Sends /\ shown' = shown BY <2>1, <2>4 DEF Sends
    <3>. QED BY <1>0, <2>1, <2>4, <3>1 DEF Faithful
  <2>. QED BY <2>1, <2>3, <2>4
<1>3. CASE HandleGameStarted \/ BeginTurnMsg
  <2>1. /\ proc' # "aborted" /\ (sPc' = "code" => left' = 0)
        /\ sPc = "code" /\ Head(down).t \in {"started", "turn"} /\ shown' = shown
    BY <1>0, <1>3 DEF HandleGameStarted, BeginTurnMsg, Read
  <2>2. ShowsNothing(q) BY <1>3, ReadsStarted, ReadsTurn
  <2>3. ~ Sends BY <2>1 DEF Sends
  <2>. QED BY <2>1, <2>2, <2>3 DEF Faithful
<1>4. CASE \/ HandleBombPlaced \/ HandleBombExploded
           \/ HandlePlayerMoved \/ HandleBlockPlaced
  <2>1. proc' = "running" /\ ShowsNothing(q) BY <1>4, ReadsEvents
  <2>2. \E kind : ReadEvent(kind)
    BY <1>4 DEF HandleBombPlaced, HandleBombExploded, HandlePlayerMoved, HandleBlockPlaced
  <2>3. sPc = "events" /\ sPc' = "events" /\ shown' = shown BY <2>2 DEF ReadEvent
  <2>4. ~ Sends BY <2>3 DEF Sends
  <2>. QED BY <2>1, <2>3, <2>4 DEF Faithful
<1>5. CASE FinishTurnMsg
  <2>1. /\ proc = "running" /\ sPc = "events" /\ sPc' = "code" /\ left' = 0
        /\ proc' = "running" \/ (proc' = "exit1" /\ shown' = shown)
    BY <1>5 DEF FinishTurnMsg, SendToGui, Die
  <2>2. CASE proc' = "running"
    <3>1. Sends BY <2>1, <2>2 DEF Sends
    <3>2. ShowsView(q, shown') BY <1>5, <2>2, ShowsTurn
    <3>. QED BY <2>1, <2>2, <3>1, <3>2 DEF Faithful
  <2>3. CASE proc' = "exit1"
    <3>1. ~ Sends /\ shown' = shown BY <2>1, <2>3 DEF Sends
    <3>. QED BY <2>1, <2>3, <3>1 DEF Faithful
  <2>. QED BY <2>1, <2>2, <2>3
<1>. QED BY <1>1, <1>2, <1>3, <1>4, <1>5 DEF ThreadS

\* Every step of S: the client shows the first view that it is to show, or
\* nothing, and the rest is as it was.
LEMMA ReplicaThreadS ==
    ASSUME IInv, IInv', NEW q, ReplicaInv(q), connected, ThreadS, UNCHANGED serverVars,
           NEW p, p = IF Sends THEN Tail(q) ELSE q
    PROVE  /\ ReplicaInv(p)'
           /\ IF Sends THEN q # <<>> /\ shown' = Head(q) ELSE shown' = shown
<1>1. Faithful(q) /\ (sPc' = "code" => left' = 0) /\ proc' # "aborted" BY FaithfulS
<1>2. /\ connected'
      /\ UNCHANGED <<stage, joined, bombs, nextBomb, deaths, due, hit, blast, positions,
                     actor>>
  BY DEF serverVars, boardVars, turnVars
<1>3. BoardInv' BY <1>2, BoardKept DEF ReplicaInv
<1>4. proc' = "running" => Synced(down, p)'
  <2>1. CASE Sends
    <3>1. PICK x : x = Tail(q) OBVIOUS
    <3>2. Synced(down, x)' BY <1>1, <2>1, <3>1 DEF Faithful, ShowsView
    <3>. QED BY <2>1, <3>1, <3>2
  <2>2. CASE ~ Sends
    <3>1. proc' = "running" => Synced(down, q)' BY <1>1, <2>2 DEF Faithful, ShowsNothing
    <3>. QED BY <2>2, <3>1
  <2>. QED BY <2>1, <2>2
<1>5. IF Sends THEN q # <<>> /\ shown' = Head(q) ELSE shown' = shown
  BY <1>1 DEF Faithful, ShowsView
<1>. QED BY <1>1, <1>2, <1>3, <1>4, <1>5 DEF ReplicaInv

-----------------------------------------------------------------------------
(* The invariant and what follows from it.                                 *)

\* Nothing happens to the client that may still come.
LEMMA ReplicaApart ==
    ASSUME NEW q, ReplicaInv(q), ~ connected, UNCHANGED <<serverVars, down, sPc, left, proc>>
    PROVE  ReplicaInv(q)'
<1>1. UNCHANGED <<stage, connected, joined, bombs, nextBomb, deaths, due, hit, blast,
                  positions, actor, turn, blocks, events, log>>
  BY DEF serverVars, boardVars, turnVars
<1>2. BoardInv' BY <1>1, BoardKept DEF ReplicaInv
<1>3. PICK s : s = log OBVIOUS
<1>4. Recorded(s, q) BY <1>3 DEF ReplicaInv
<1>5. Recorded(s, q)'
  <2>1. CASE stage = "lobby"
    BY <1>1, <1>4, <2>1 DEF Recorded
  <2>2. CASE stage # "lobby"
    <3>1. PICK r : r[0] = Starter /\ Run(r, s, q) /\ Agrees(r[Len(s)], q)
      BY <1>4, <2>2 DEF Recorded, Follows
    <3>2. Starter' = Starter BY <1>1 DEF Starter
    <3>3. PICK d : d = r[Len(s)] OBVIOUS
    <3>4. Agrees(d, q)' BY <1>1, <3>1, <3>3, AgreesUnchanged
    <3>5. Agrees(r[Len(s)], q)' /\ r[0] = Starter' BY <3>1, <3>2, <3>3, <3>4
    <3>. QED BY <1>1, <1>4, <2>2, <3>1, <3>5 DEF Recorded, Follows
  <2>. QED BY <2>1, <2>2
<1>6. Recorded(log, q)'
  <2>1. log' = s BY <1>1, <1>3
  <2>. QED BY <1>5, <2>1 DEF Recorded, Follows
<1>. QED BY <1>1, <1>2, <1>6 DEF ReplicaInv

\* Steps that neither the server nor S takes.
LEMMA ReplicaOthers ==
    ASSUME IInv, NEW q, ReplicaInv(q), Input \/ G \/ Failure \/ UNCHANGED vars
    PROVE  ReplicaInv(q)'
<1>1. CASE Input
  BY <1>1, ReplicaOther DEF Input, ReceiveInput, wireVars
<1>2. CASE G
  <2>1. /\ connected /\ UNCHANGED <<serverVars, down, gameVars, shown>>
        /\ proc' = proc \/ proc' \in {"exit1", "killed"}
        /\ link' = link \/ (link = "fin" /\ link' = "pipe")
    BY <1>2 DEF G, ParseInput, SendRequest, wireVars
  <2>. QED BY <2>1, ReplicaOther
<1>3. CASE Failure
  <2>1. CASE GuiCloses /\ UNCHANGED serverVars
    <3>1. UNCHANGED <<serverVars, down, link, gameVars, shown, proc>>
      BY <2>1 DEF GuiCloses, wireVars
    <3>2. UNCHANGED <<sPc, left>> BY <3>1 DEF gameVars
    <3>. QED BY <3>1, <3>2, ReplicaOther, ReplicaApart
  <2>. QED BY <1>3, <2>1, ReplicaEnds DEF Failure, CloseConnection, BreakConnection
<1>4. CASE UNCHANGED vars
  <2>1. UNCHANGED <<serverVars, down, link, gameVars, shown, proc>>
    BY <1>4 DEF vars, wireVars, clientVars
  <2>2. UNCHANGED <<sPc, left>> BY <2>1 DEF gameVars
  <2>. QED BY <2>1, <2>2, ReplicaOther, ReplicaApart
<1>. QED BY <1>1, <1>2, <1>3, <1>4

Tracked == \E q : ReplicaInv(q)

LEMMA ReplicaInit == Init => ReplicaInv(<<>>)
<1>. SUFFICES ASSUME Init PROVE ReplicaInv(<<>>) OBVIOUS
<1>1. /\ stage = "lobby" /\ bombs = EmptyMap /\ ~ connected /\ down = <<>> /\ log = <<>>
      /\ sPc = "code" /\ left = 0 /\ proc = "running"
  BY DEF Init, ServerInit, ClientInit
<1>2. BoardInv BY <1>1 DEF BoardInv, EmptyMap
<1>3. PICK q : q = <<>> OBVIOUS
<1>4. q \in Seq(View) BY <1>3
<1>5. Recorded(log, q) BY <1>1, <1>3, <1>4 DEF Recorded
<1>6. ReplicaInv(q) BY <1>1, <1>2, <1>5 DEF ReplicaInv
<1>. QED BY <1>3, <1>6

LEMMA TrackedNext == IInv /\ Tracked /\ [Next]_vars => Tracked'
<1>. SUFFICES ASSUME IInv, Tracked, [Next]_vars PROVE Tracked' OBVIOUS
<1>1. IInv' BY TypeNext
<1>2. PICK q : ReplicaInv(q) BY DEF Tracked
<1>3. CASE S
  <2>1. PICK p : p = IF Sends THEN Tail(q) ELSE q OBVIOUS
  <2>2. ReplicaInv(p)' BY <1>1, <1>2, <1>3, <2>1, ReplicaThreadS DEF S
  <2>. QED BY <2>2 DEF Tracked
<1>4. CASE ServerRuns \/ (OtherJoins /\ UNCHANGED clientVars)
  <2>1. PICK p : p = NextViews(q) OBVIOUS
  <2>2. ReplicaInv(p)' BY <1>1, <1>2, <1>4, <2>1, ReplicaServer DEF ServerRuns
  <2>. QED BY <2>2 DEF Tracked
<1>5. CASE Connect /\ UNCHANGED clientVars
  <2>1. PICK p : p = LateViews(q) OBVIOUS
  <2>2. BoardInv' BY <1>2, <1>5, BoardServer DEF ReplicaInv
  <2>3. ReplicaInv(p)' BY <1>2, <1>5, <2>1, <2>2, ReplicaConnect
  <2>. QED BY <2>3 DEF Tracked
<1>6. CASE Input \/ G \/ Failure \/ UNCHANGED vars
  <2>1. ReplicaInv(q)' BY <1>2, <1>6, ReplicaOthers
  <2>. QED BY <2>1 DEF Tracked
<1>. QED BY <1>3, <1>4, <1>5, <1>6 DEF Next, Environment

LEMMA TrackedAlways == Spec => [](IInv /\ Tracked)
<1>1. Init => Tracked BY ReplicaInit DEF Tracked
<1>. QED BY TypeInit, TypeNext, TrackedNext, <1>1, PTL DEF Spec

\* S never loses its place in the stream and never meets an unknown bomb: the
\* next thing it reads is what the run reads (client.cpp:214-217, 280).
THEOREM StreamCorrect == Spec => []StreamInSync
<1>1. IInv /\ Tracked => StreamInSync
  <2>. SUFFICES ASSUME IInv, Tracked PROVE StreamInSync OBVIOUS
  <2>1. PICK q : ReplicaInv(q) BY DEF Tracked
  <2>2. PICK s, m, g, l : s = down /\ m = Head(s) /\ g = game /\ l = left OBVIOUS
  <2>3. ASSUME proc = "running", down # <<>> PROVE connected /\ s # <<>>
    BY <2>1, <2>2, <2>3 DEF ReplicaInv
  <2>4. ASSUME proc = "running", down # <<>>, sPc = "code"
        PROVE  Head(down).t \in MessageKinds
    <3>1. PICK r : Reads([left |-> 0, game |-> g, sent |-> 0], m, r[0], q)
      BY <2>1, <2>2, <2>3, <2>4, NextMessage
    <3>2. m.t \in {"hello", "accepted", "started", "turn", "ended"} BY <3>1 DEF Reads
    <3>. QED BY <2>2, <3>2 DEF MessageKinds
  <2>5. ASSUME proc = "running", down # <<>>, sPc = "events", left > 0
        PROVE  Head(down).t \in EventKinds
    <3>1. PICK r : Reads([left |-> l, game |-> g, sent |-> 0], m, r[0], q)
      BY <2>1, <2>2, <2>3, <2>5, NextEvent
    <3>2. l \in Nat /\ l > 0 BY <2>2, <2>5 DEF IInv, ClientOK
    <3>3. m \in Event BY <3>1, <3>2 DEF Reads, Possible
    <3>. QED BY <2>2, <3>3 DEF Event, EventKinds
  <2>6. sPc \in {"code", "events"} BY DEF IInv, ClientOK
  <2>7. proc # "aborted" BY <2>1 DEF ReplicaInv
  <2>. QED BY <2>4, <2>5, <2>6, <2>7 DEF StreamInSync
<1>. QED BY TrackedAlways, <1>1, PTL

\* When S has caught up, what it has sent last to the GUI is the state of the
\* server: it has the run left that reads nothing.
THEOREM ScreenCorrect == Spec => []ScreenAgrees
<1>1. ~ CaughtUp => ScreenAgrees BY DEF ScreenAgrees
<1>2. IInv /\ Tracked => ScreenAgrees
  <2>. SUFFICES ASSUME IInv, Tracked, CaughtUp PROVE ScreenAgrees BY <1>1
  <2>1. PICK q : ReplicaInv(q) BY DEF Tracked
  <2>2. /\ connected /\ proc = "running" /\ link = "up" /\ down = <<>> /\ sPc = "code"
    BY DEF CaughtUp
  <2>3. PICK s : s = down OBVIOUS
  <2>4. PICK r : Ahead(r, s, q) /\ Now(r[0], q) BY <2>1, <2>2, <2>3, Underway
  <2>5. Len(s) = 0 BY <2>2, <2>3
  <2>6. q \in Seq(View) /\ Agrees(r[0], q) BY <2>2, <2>4, <2>5 DEF Ahead
  <2>7. r[0].sent = 0 BY <2>2, <2>4 DEF Now
  <2>8. q = <<>>
    <3>1. Len(q) = 0 BY <2>6, <2>7 DEF Agrees
    <3>. QED BY <2>6, <3>1, EmptySeq
  <2>9. stage \in {"lobby", "idle"} => shown = ServerView
    BY <2>1, <2>2, <2>3, <2>8, Underway
  <2>. QED BY <2>9 DEF ScreenAgrees, ServerView
<1>. QED BY TrackedAlways, <1>2, PTL

-----------------------------------------------------------------------------
(***************************************************************************)
(* What a spectator sees, for every value of the constants: Broadcast      *)
(* implements Feed.                                                        *)
(*                                                                         *)
(* The history `coming` names the views of which ReplicaInv only says that *)
(* there are some: those that the run of the client sends on the way.      *)
(*                                                                         *)
(* What the pictures have to do with one another is a property of what is  *)
(* announced.  SpectatorInv says it of the view shown and of all that are  *)
(* still to come (Chain), and how far the server has got since the last of *)
(* them (Since), which is what makes the next one follow it.               *)
(***************************************************************************)

\* The views for the client that is connected, or else for the one to come.
Views == IF connected THEN coming ELSE backlog

BInv == /\ IInv
        /\ \E q : q = Views /\ ReplicaInv(q)
        /\ Views \in Seq(View)
        /\ ~ connected => coming = <<>>

LEMMA BroadcastNextIsNext ==
    ASSUME [BroadcastNext]_allVars
    PROVE  [Next]_vars
BY DEF BroadcastNext, allVars, ServerSide, ComesLate, ClientSide, Others, Next, Environment

LEMMA ConnectedKept ==
    ASSUME ServerStep \/ OtherJoins PROVE connected' = connected
BY DEF ServerStep, OtherJoins, StartGame, BeginTurn, ExplodeNextBomb, BombsDone, Respawn, Act,
       EndTurn, EndGame, AcceptJoin, AcceptCommand, IgnoreRequest, Rests, PlacesBomb,
       PlacesBlock, Moves, MyTurn, serverVars

\* The server announces its new state or nothing.
LEMMA ServerSideViews ==
    ASSUME BInv, ServerSide
    PROVE  /\ connected' = connected /\ Views' = NextViews(Views)
           /\ ~ connected => coming' = <<>>
<1>1. connected' = connected BY ConnectedKept DEF ServerSide, ServerRuns
<1>2. PICK new : new = IF Announces THEN <<ServerView'>> ELSE <<>> OBVIOUS
<1>3. IF connected THEN coming' = coming \o new /\ UNCHANGED backlog
      ELSE /\ coming' = coming
           /\ backlog' = IF stage' = "lobby" THEN <<>>
                         ELSE (IF stage = "lobby" THEN <<>> ELSE backlog) \o new
  BY <1>2 DEF ServerSide
<1>4. NextViews(Views) = IF connected \/ stage' # "lobby" THEN Views \o new ELSE <<>>
  BY <1>2 DEF NextViews
<1>5. CASE connected
  BY <1>1, <1>3, <1>4, <1>5 DEF Views
<1>6. CASE ~ connected
  <2>1. stage = "lobby" => backlog = <<>> BY <1>6 DEF BInv, Views, ReplicaInv, Recorded
  <2>2. coming' = <<>> BY <1>3, <1>6 DEF BInv
  <2>3. (IF stage = "lobby" THEN <<>> ELSE backlog) = backlog BY <2>1
  <2>4. backlog' = IF stage' = "lobby" THEN <<>> ELSE backlog \o new
    BY <1>3, <1>6, <2>3
  <2>5. Views = backlog /\ Views' = backlog' BY <1>1, <1>6 DEF Views
  <2>6. Views' = NextViews(Views) BY <1>4, <1>6, <2>4, <2>5
  <2>. QED BY <1>1, <2>2, <2>6
<1>. QED BY <1>5, <1>6

LEMMA LateViewsComing ==
    ASSUME BInv, ComesLate
    PROVE  /\ ~ connected /\ connected' /\ coming = <<>>
           /\ coming' = LateViews(Views) /\ Views' = LateViews(Views)
BY DEF BInv, ComesLate, Connect, LateViews, Views

\* S shows the first view, or nothing.
LEMMA ClientSideViews ==
    ASSUME BInv, ClientSide
    PROVE  /\ connected /\ connected' /\ Views' = coming' /\ coming = Views
           /\ IF Sends THEN coming # <<>> /\ coming' = Tail(coming) /\ shown' = Head(coming)
              ELSE coming' = coming /\ shown' = shown
           /\ Views' = IF Sends THEN Tail(Views) ELSE Views
           /\ \E p : p = Views' /\ ReplicaInv(p)'
<1>1. /\ connected /\ connected' /\ ThreadS /\ UNCHANGED serverVars
      /\ coming' = IF Sends /\ coming # <<>> THEN Tail(coming) ELSE coming
  BY DEF ClientSide, S, serverVars
<1>2. PICK q : q = coming /\ ReplicaInv(q) BY <1>1 DEF BInv, Views
<1>3. IInv /\ IInv'
  <2>1. [Next]_vars BY DEF ClientSide, Next
  <2>. QED BY <2>1, TypeNext DEF BInv
<1>4. PICK p : p = IF Sends THEN Tail(q) ELSE q OBVIOUS
<1>5. /\ ReplicaInv(p)'
      /\ IF Sends THEN q # <<>> /\ shown' = Head(q) ELSE shown' = shown
  BY <1>1, <1>2, <1>3, <1>4, ReplicaThreadS
<1>6. coming' = p BY <1>1, <1>2, <1>4, <1>5
<1>7. Views' = coming' /\ coming = Views BY <1>1 DEF Views
<1>. QED BY <1>1, <1>2, <1>4, <1>5, <1>6, <1>7

LEMMA OthersViews ==
    ASSUME Others \/ UNCHANGED allVars
    PROVE  UNCHANGED <<Views, coming, backlog, connected, stage, shown>>
BY DEF Others, allVars, Input, G, Failure, ReceiveInput, ParseInput, SendRequest, GuiCloses,
       CloseConnection, BreakConnection, StreamEnds, Views, vars, serverVars, clientVars

LEMMA BInvInit == BroadcastInit => BInv
<1>. SUFFICES ASSUME BroadcastInit PROVE BInv OBVIOUS
<1>1. IInv /\ ReplicaInv(<<>>) BY TypeInit, ReplicaInit DEF BroadcastInit
<1>2. PICK q : q = <<>> OBVIOUS
<1>3. Views = q /\ coming = <<>> BY <1>2 DEF BroadcastInit, Views
<1>4. ReplicaInv(q) BY <1>1, <1>2
<1>5. Views \in Seq(View) BY <1>2, <1>3
<1>. QED BY <1>1, <1>3, <1>4, <1>5 DEF BInv

\* What the server announces is something S can show.
LEMMA NextViewsType ==
    ASSUME IInv', BoardInv', NEW q \in Seq(View), NEW p, p = NextViews(q)
    PROVE  p \in Seq(View) /\ (Announces => ServerView' \in View)
<1>1. ASSUME Announces PROVE ServerView' \in View
  BY <1>1, ServerViewNextType DEF Announces
<1>2. PICK new : new = IF Announces THEN <<ServerView'>> ELSE <<>> OBVIOUS
<1>3. new \in Seq(View)
  <2>1. CASE Announces
    <3>1. PICK v : v = ServerView' OBVIOUS
    <3>2. v \in View /\ new = <<v>> BY <1>1, <1>2, <2>1, <3>1
    <3>. QED BY <3>2
  <2>2. CASE ~ Announces
    BY <1>2, <2>2
  <2>. QED BY <2>1, <2>2
<1>4. p = q \o new \/ p = <<>> BY <1>2 DEF NextViews
<1>5. q \o new \in Seq(View) /\ <<>> \in Seq(View) BY <1>3
<1>6. p \in Seq(View) BY <1>4, <1>5
<1>. QED BY <1>1, <1>6

LEMMA BInvNext == BInv /\ [BroadcastNext]_allVars => BInv'
<1>. SUFFICES ASSUME BInv, [BroadcastNext]_allVars PROVE BInv' OBVIOUS
<1>1. IInv /\ IInv' BY BroadcastNextIsNext, TypeNext DEF BInv
<1>2. PICK q : q = Views /\ ReplicaInv(q) BY DEF BInv
<1>3. CASE ServerSide
  <2>1. connected' = connected /\ Views' = NextViews(Views) /\ (~ connected => coming' = <<>>)
    BY <1>3, ServerSideViews
  <2>2. PICK p : p = NextViews(q) OBVIOUS
  <2>3. ReplicaInv(p)' BY <1>1, <1>2, <1>3, <2>2, ReplicaServer DEF ServerSide, ServerRuns
  <2>4. p = Views' BY <1>2, <2>1, <2>2 DEF NextViews
  <2>5. q \in Seq(View) BY <1>2 DEF BInv
  <2>6. BoardInv' BY <2>3 DEF ReplicaInv
  <2>7. Views' \in Seq(View) BY <1>1, <2>2, <2>4, <2>5, <2>6, NextViewsType
  <2>. QED BY <1>1, <2>1, <2>3, <2>4, <2>7 DEF BInv
<1>4. CASE ComesLate
  <2>1. connected' /\ Views' = LateViews(Views) BY <1>4, LateViewsComing
  <2>2. PICK p : p = LateViews(q) OBVIOUS
  <2>3. Connect /\ UNCHANGED clientVars BY <1>4 DEF ComesLate
  <2>4. BoardInv' BY <1>1, <1>2, <2>3, BoardServer DEF ReplicaInv
  <2>5. ReplicaInv(p)' BY <1>1, <1>2, <2>2, <2>3, <2>4, ReplicaConnect
  <2>6. p = Views' BY <1>2, <2>1, <2>2 DEF LateViews
  <2>7. Recorded(log, q) BY <1>2, <2>3 DEF Connect, ReplicaInv
  <2>8. p \in Seq(View) BY <1>1, <2>2, <2>3, <2>7, AfterHello
  <2>. QED BY <1>1, <2>1, <2>5, <2>6, <2>8 DEF BInv
<1>5. CASE ClientSide
  <2>1. PICK p : p = Views' /\ ReplicaInv(p)' BY <1>5, ClientSideViews
  <2>2. /\ connected' /\ coming = Views
        /\ Views' = IF Sends THEN Tail(Views) ELSE Views
        /\ Sends => coming # <<>>
    BY <1>5, ClientSideViews
  <2>3. q \in Seq(View) BY <1>2 DEF BInv
  <2>4. Views' = IF Sends THEN Tail(q) ELSE q BY <1>2, <2>2
  <2>5. Sends => q # <<>> BY <1>2, <2>2
  <2>6. Views' \in Seq(View)
    <3>1. q # <<>> => Tail(q) \in Seq(View) BY <2>3, HeadTailProperties
    <3>. QED BY <2>3, <2>4, <2>5, <3>1
  <2>. QED BY <1>1, <2>1, <2>2, <2>6 DEF BInv
<1>6. CASE Others \/ UNCHANGED allVars
  <2>1. ReplicaInv(q)' BY <1>1, <1>2, <1>6, ReplicaOthers DEF Others, allVars
  <2>2. UNCHANGED <<Views, coming, connected>> BY <1>6, OthersViews
  <2>3. q = Views' BY <1>2, <2>2
  <2>4. Views' \in Seq(View) BY <2>2 DEF BInv
  <2>. QED BY <1>1, <2>1, <2>2, <2>3, <2>4 DEF BInv
<1>. QED BY <1>3, <1>4, <1>5, <1>6 DEF BroadcastNext

LEMMA BInvAlways == BroadcastSpec => []BInv
BY BInvInit, BInvNext, PTL DEF BroadcastSpec

-----------------------------------------------------------------------------
(* Broadcast implements Feed.                                              *)

LEMMA AnnouncesOne ==
    ASSUME NEW q \in Seq(View), NEW v \in View
    PROVE  LET p == q \o <<v>> IN Len(p) > Len(q) /\ SubSeq(p, 1, Len(q)) = q
<1>1. PICK p : p = q \o <<v>> OBVIOUS
<1>2. p \in Seq(View) /\ Len(p) = Len(q) + 1 /\ Len(q) \in Nat BY <1>1
<1>3. \A i \in 1 .. Len(q) : p[i] = q[i] BY <1>1
<1>4. SubSeq(p, 1, Len(q)) = q BY <1>2, <1>3
<1>. QED BY <1>1, <1>2, <1>4

\* A server step appends the new state, or changes nothing that the client or
\* the spectator has.
LEMMA ServerSideAnnounces ==
    ASSUME BInv, BInv', ServerSide, connected
    PROVE  /\ shown' = shown
           /\ coming' # coming => Len(coming') > Len(coming)
                                  /\ SubSeq(coming', 1, Len(coming)) = coming
<1>1. connected' /\ Views' = NextViews(Views) BY ServerSideViews
<1>2. coming = Views /\ coming' = Views' BY <1>1 DEF Views
<1>3. PICK q : q = coming OBVIOUS
<1>4. q \in Seq(View) BY <1>2, <1>3 DEF BInv
<1>5. shown' = shown BY DEF ServerSide, ServerRuns, clientVars
<1>6. CASE Announces
  <2>1. PICK v : v = ServerView' OBVIOUS
  <2>2. IInv' /\ BoardInv' BY DEF BInv, ReplicaInv
  <2>3. v \in View BY <1>6, <2>1, <2>2, ServerViewNextType DEF Announces
  <2>4. coming' = q \o <<v>> BY <1>1, <1>2, <1>3, <1>6, <2>1 DEF NextViews
  <2>5. Len(q \o <<v>>) > Len(q) /\ SubSeq(q \o <<v>>, 1, Len(q)) = q
    BY <1>4, <2>3, AnnouncesOne
  <2>. QED BY <1>3, <1>5, <2>4, <2>5
<1>7. CASE ~ Announces
  <2>1. coming' = q \o <<>> BY <1>1, <1>2, <1>3, <1>7 DEF NextViews
  <2>2. coming' = coming BY <1>3, <1>4, <2>1
  <2>. QED BY <1>5, <2>2
<1>. QED BY <1>6, <1>7

\* The client sends every state that the server announces to it to the
\* interface, unchanged, in order and nothing else (client.cpp:208-236).
THEOREM BroadcastCorrect == BroadcastSpec => ShowsWhatServerAnnounced
<1>1. BroadcastInit => Promise!Init BY DEF BroadcastInit, Promise!Init
<1>2. BInv /\ BInv' /\ [BroadcastNext]_allVars => [Promise!Next]_<<coming, shown>>
  <2>. SUFFICES ASSUME BInv, BInv', [BroadcastNext]_allVars
                PROVE  [Promise!Next]_<<coming, shown>>
    OBVIOUS
  <2>1. CASE ServerSide
    <3>1. CASE connected
      <4>1. /\ shown' = shown
            /\ coming' # coming => Len(coming') > Len(coming)
                                   /\ SubSeq(coming', 1, Len(coming)) = coming
        BY <2>1, <3>1, ServerSideAnnounces
      <4>. QED BY <4>1 DEF Promise!Next, Promise!Announce
    <3>2. CASE ~ connected
      <4>1. coming' = <<>> /\ coming = <<>> BY <2>1, <3>2, ServerSideViews DEF BInv
      <4>2. shown' = shown BY <2>1 DEF ServerSide, ServerRuns, clientVars
      <4>. QED BY <4>1, <4>2
    <3>. QED BY <3>1, <3>2
  <2>2. CASE ComesLate
    <3>1. /\ ~ connected /\ connected' /\ coming = <<>> /\ Views' = LateViews(Views)
          /\ Views' = coming'
      BY <2>2, LateViewsComing
    <3>2. shown' = shown BY <2>2 DEF ComesLate, clientVars
    <3>3. PICK q : q = Views /\ ReplicaInv(q) BY DEF BInv
    <3>4. PICK p : p = LateViews(q) OBVIOUS
    <3>5. Connect /\ IInv BY <2>2 DEF ComesLate, BInv
    <3>6. Recorded(log, q) BY <3>1, <3>3 DEF ReplicaInv
    <3>7. p \in Seq(View) /\ p # <<>> BY <3>4, <3>5, <3>6, AfterHello
    <3>8. coming' = p BY <3>1, <3>3, <3>4 DEF LateViews
    <3>9. Len(p) > 0 /\ SubSeq(p, 1, 0) = <<>> BY <3>7
    <3>10. Len(coming') > Len(coming) /\ SubSeq(coming', 1, Len(coming)) = coming
      BY <3>1, <3>8, <3>9
    <3>. QED BY <3>2, <3>10 DEF Promise!Next, Promise!Announce
  <2>3. CASE ClientSide
    <3>1. IF Sends THEN coming # <<>> /\ coming' = Tail(coming) /\ shown' = Head(coming)
          ELSE coming' = coming /\ shown' = shown
      BY <2>3, ClientSideViews
    <3>. QED BY <3>1 DEF Promise!Next, Promise!Show
  <2>4. CASE Others \/ UNCHANGED allVars
    BY <2>4, OthersViews
  <2>. QED BY <2>1, <2>2, <2>3, <2>4 DEF BroadcastNext
<1>3. BroadcastSpec => Promise!Spec
  BY BInvAlways, <1>1, <1>2, PTL DEF BroadcastSpec, Promise!Spec
<1>. QED BY <1>3 DEF ShowsWhatServerAnnounced

-----------------------------------------------------------------------------
(* What a spectator can rely on from one picture to the next.              *)

\* Everybody has a place and a score.
Whole(v) == v.t = "game" => /\ v \in View
                            /\ DOMAIN v.players = PlayerId
                            /\ DOMAIN v.positions = PlayerId
                            /\ DOMAIN v.scores = PlayerId

\* In the next turn robots die where there are explosions, bombs count down.
Follow(v, w) ==
    v.t = "game" /\ w.t = "game" /\ w.turn = v.turn + 1 =>
        /\ \A p \in PlayerId :
               w.scores[p] = v.scores[p] + (IF v.positions[p] \in w.explosions THEN 1 ELSE 0)
        /\ \A b \in DOMAIN v.bombs :
               IF v.bombs[b].timer # 1
               THEN b \in DOMAIN w.bombs /\ w.bombs[b].timer = Tick(v.bombs[b].timer)
               ELSE v.bombs[b].pos \in w.explosions

\* The interface shows x and will be shown q.
Chain(x, q) == /\ q \in Seq(View) /\ Whole(x)
               /\ \A i \in 1 .. Len(q) : Whole(q[i])
               /\ \A i \in 1 .. Len(q) - 1 : Follow(q[i], q[i + 1])
               /\ q # <<>> => Follow(x, q[1])

Latest(x, q) == IF q = <<>> THEN x ELSE q[Len(q)]

\* What has become of the bombs that were on the board at the end of turn v.
BombsSince(v) ==
    \A b \in DOMAIN v.bombs :
        IF v.bombs[b].timer # 1
        THEN b \in DOMAIN bombs /\ b \notin due /\ bombs[b].timer = Tick(v.bombs[b].timer)
        ELSE IF b \in due THEN b \in DOMAIN bombs /\ bombs[b].pos = v.bombs[b].pos
        ELSE v.bombs[b].pos \in blast

\* How far the server is since it announced v.
Since(v) ==
    /\ stage \in {"lobby", "idle"} => v = ServerView
    /\ stage \in {"bombs", "players"} => /\ v.t = "game" /\ v \in View /\ v.turn = turn
                                         /\ BombsSince(v)
    /\ stage = "bombs" => v.positions = positions /\ v.scores = deaths
    /\ stage = "players" =>
           \A p \in PlayerId :
               deaths[p] = v.scores[p] + (IF v.positions[p] \in blast THEN 1 ELSE 0)

\* The bombs that are due have all gone off before the players act.
Clock == stage # "bombs" => due = {}

SpectatorInv == /\ Chain(shown, Views)
                /\ ~ connected => shown.t # "game"
                /\ connected \/ Views # <<>> => Since(Latest(shown, Views))
                /\ Clock

LEMMA ChainAppend ==
    ASSUME NEW x, NEW q, Chain(x, q), NEW v \in View, Whole(v), Follow(Latest(x, q), v)
    PROVE  Chain(x, q \o <<v>>) /\ q \o <<v>> # <<>> /\ Latest(x, q \o <<v>>) = v
<1>1. PICK p : p = q \o <<v>> OBVIOUS
<1>2. q \in Seq(View) BY DEF Chain
<1>3. /\ p \in Seq(View) /\ Len(p) = Len(q) + 1 /\ Len(q) \in Nat /\ p # <<>>
      /\ p[Len(q) + 1] = v
  BY <1>1, <1>2, Announced
<1>4. \A i \in 1 .. Len(q) : p[i] = q[i] BY <1>1, <1>2
<1>5. \A i \in 1 .. Len(p) : Whole(p[i])
  <2>. SUFFICES ASSUME NEW i \in 1 .. Len(p) PROVE Whole(p[i]) OBVIOUS
  <2>1. i \in 1 .. Len(q) \/ i = Len(q) + 1 BY <1>3
  <2>. QED BY <1>3, <1>4, <2>1 DEF Chain
<1>6. \A i \in 1 .. Len(p) - 1 : Follow(p[i], p[i + 1])
  <2>. SUFFICES ASSUME NEW i \in 1 .. Len(p) - 1 PROVE Follow(p[i], p[i + 1]) OBVIOUS
  <2>1. CASE i < Len(q)
    <3>1. i \in 1 .. Len(q) - 1 /\ i \in 1 .. Len(q) /\ i + 1 \in 1 .. Len(q)
      BY <1>3, <2>1
    <3>2. Follow(q[i], q[i + 1]) BY <3>1 DEF Chain
    <3>. QED BY <1>4, <3>1, <3>2
  <2>2. CASE i >= Len(q)
    <3>1. i = Len(q) /\ i \in 1 .. Len(q) BY <1>3, <2>2
    <3>2. q # <<>> BY <3>1
    <3>3. Latest(x, q) = q[i] BY <3>1, <3>2 DEF Latest
    <3>. QED BY <1>3, <1>4, <3>1, <3>3
  <2>. QED BY <1>3, <2>1, <2>2
<1>7. Follow(x, p[1])
  <2>1. CASE q = <<>>
    <3>1. Len(q) = 0 BY <2>1
    <3>. QED BY <1>3, <2>1, <3>1 DEF Latest
  <2>2. CASE q # <<>>
    <3>1. 1 \in 1 .. Len(q) BY <1>2, <2>2
    <3>. QED BY <1>4, <2>2, <3>1 DEF Chain
  <2>. QED BY <2>1, <2>2
<1>8. Chain(x, p) BY <1>3, <1>5, <1>6, <1>7 DEF Chain
<1>9. Latest(x, p) = v BY <1>3 DEF Latest
<1>. QED BY <1>1, <1>3, <1>8, <1>9

LEMMA ChainTail ==
    ASSUME NEW x, NEW q, Chain(x, q), q # <<>>
    PROVE  /\ Chain(Head(q), Tail(q)) /\ Follow(x, Head(q)) /\ Whole(Head(q))
           /\ Latest(Head(q), Tail(q)) = Latest(x, q)
<1>1. q \in Seq(View) BY DEF Chain
<1>2. PICK p, h : p = Tail(q) /\ h = Head(q) OBVIOUS
<1>3. /\ p \in Seq(View) /\ Len(p) = Len(q) - 1 /\ Len(q) \in Nat \ {0} /\ h = q[1]
      /\ \A i \in 1 .. Len(p) : p[i] = q[i + 1]
  BY <1>1, <1>2, HeadTailProperties
<1>4. Whole(h) /\ Follow(x, h)
  <2>1. 1 \in 1 .. Len(q) BY <1>3
  <2>. QED BY <1>3, <2>1 DEF Chain
<1>5. \A i \in 1 .. Len(p) : Whole(p[i])
  <2>. SUFFICES ASSUME NEW i \in 1 .. Len(p) PROVE Whole(p[i]) OBVIOUS
  <2>1. i + 1 \in 1 .. Len(q) BY <1>3
  <2>. QED BY <1>3, <2>1 DEF Chain
<1>6. \A i \in 1 .. Len(p) - 1 : Follow(p[i], p[i + 1])
  <2>. SUFFICES ASSUME NEW i \in 1 .. Len(p) - 1 PROVE Follow(p[i], p[i + 1]) OBVIOUS
  <2>1. /\ i + 1 \in 1 .. Len(q) - 1 /\ i \in 1 .. Len(p) /\ i + 1 \in 1 .. Len(p)
    BY <1>3
  <2>2. Follow(q[i + 1], q[(i + 1) + 1]) BY <2>1 DEF Chain
  <2>. QED BY <1>3, <2>1, <2>2
<1>7. p # <<>> => Follow(h, p[1])
  <2>. SUFFICES ASSUME p # <<>> PROVE Follow(h, p[1]) OBVIOUS
  <2>1. Len(p) > 0 BY <1>3
  <2>2. 1 \in 1 .. Len(p) /\ 1 \in 1 .. Len(q) - 1 BY <1>3, <2>1
  <2>3. Follow(q[1], q[1 + 1]) BY <2>2 DEF Chain
  <2>. QED BY <1>3, <2>2, <2>3
<1>8. Chain(h, p) BY <1>3, <1>4, <1>5, <1>6, <1>7 DEF Chain
<1>9. Latest(h, p) = Latest(x, q)
  <2>1. CASE p = <<>>
    <3>1. Len(q) = 1 BY <1>1, <1>2, <2>1, LastView
    <3>. QED BY <1>3, <2>1, <3>1 DEF Latest
  <2>2. CASE p # <<>>
    <3>1. Len(p) \in 1 .. Len(p) BY <1>3, <2>2
    <3>2. p[Len(p)] = q[Len(q)] BY <1>3, <3>1
    <3>. QED BY <2>2, <3>2 DEF Latest
  <2>. QED BY <2>1, <2>2
<1>. QED BY <1>2, <1>4, <1>8, <1>9

\* A late client is first shown an empty lobby.
LEMMA ChainPrepend ==
    ASSUME NEW x, NEW q, Chain(x, q), q # <<>>, NEW v \in View, v.t = "lobby",
           x.t # "game"
    PROVE  Chain(x, <<v>> \o q) /\ Latest(x, <<v>> \o q) = Latest(x, q)
<1>1. q \in Seq(View) BY DEF Chain
<1>2. PICK p : p = <<v>> \o q OBVIOUS
<1>3. <<v>> \in Seq(View) /\ Len(<<v>>) = 1 /\ <<v>>[1] = v OBVIOUS
<1>4. /\ p \in Seq(View) /\ Len(p) = 1 + Len(q) /\ p[1] = v /\ Len(q) \in Nat \ {0}
      /\ \A i \in 1 .. Len(q) : p[1 + i] = q[i]
  BY <1>1, <1>2, <1>3, ConcatProperties
<1>5. \A i \in 1 .. Len(p) : Whole(p[i])
  <2>. SUFFICES ASSUME NEW i \in 1 .. Len(p) PROVE Whole(p[i]) OBVIOUS
  <2>1. CASE i = 1
    BY <1>4, <2>1 DEF Whole
  <2>2. CASE i # 1
    <3>1. i - 1 \in 1 .. Len(q) /\ 1 + (i - 1) = i BY <1>4, <2>2
    <3>2. p[i] = q[i - 1] BY <1>4, <3>1
    <3>. QED BY <3>1, <3>2 DEF Chain
  <2>. QED BY <2>1, <2>2
<1>6. \A i \in 1 .. Len(p) - 1 : Follow(p[i], p[i + 1])
  <2>. SUFFICES ASSUME NEW i \in 1 .. Len(p) - 1 PROVE Follow(p[i], p[i + 1]) OBVIOUS
  <2>1. CASE i = 1
    BY <1>4, <2>1 DEF Follow
  <2>2. CASE i # 1
    <3>1. /\ i - 1 \in 1 .. Len(q) - 1 /\ i - 1 \in 1 .. Len(q) /\ i \in 1 .. Len(q)
          /\ 1 + (i - 1) = i /\ (i - 1) + 1 = i /\ 1 + i = i + 1
      BY <1>4, <2>2
    <3>2. p[i] = q[i - 1] /\ p[i + 1] = q[i]
      <4>1. p[1 + (i - 1)] = q[i - 1] /\ p[1 + i] = q[i] BY <1>4, <3>1
      <4>. QED BY <3>1, <4>1
    <3>3. Follow(q[i - 1], q[(i - 1) + 1]) BY <3>1 DEF Chain
    <3>. QED BY <3>1, <3>2, <3>3
  <2>. QED BY <2>1, <2>2
<1>7. Follow(x, p[1]) /\ Whole(x) BY DEF Follow, Whole
<1>8. Chain(x, p) BY <1>4, <1>5, <1>6, <1>7 DEF Chain
<1>9. Latest(x, p) = Latest(x, q)
  <2>1. Len(q) \in 1 .. Len(q) BY <1>4
  <2>2. p[1 + Len(q)] = q[Len(q)] BY <1>4, <2>1
  <2>3. p # <<>> BY <1>4
  <2>. QED BY <1>4, <2>2, <2>3 DEF Latest
<1>. QED BY <1>2, <1>8, <1>9

\* Views of the lobby say nothing about turns.
LEMMA ChainLobby ==
    ASSUME NEW x, x.t # "game", NEW q \in Seq(View), \A i \in 1 .. Len(q) : q[i].t = "lobby"
    PROVE  Chain(x, q)
BY DEF Chain, Whole, Follow

-----------------------------------------------------------------------------
(* How a step of the server takes Since further.                           *)

\* An explosion covers the cell of its bomb, whatever the blocks.
LEMMA OwnCell ==
    ASSUME NEW p \in Cell, NEW B \in SUBSET Cell PROVE p \in BlastArea(p, B)
<1>1. p[1] \in Int /\ p[2] \in Int /\ Radius \in Nat BY BoardAssumption DEF Cell
<1>2. InRange(p, p) BY <1>1 DEF InRange
<1>3. ASSUME NEW b \in B, Shields(b, p, p) PROVE FALSE
  <2>1. b \in Cell OBVIOUS
  <2>2. b[1] \in Int /\ b[2] \in Int BY <2>1, BoardAssumption DEF Cell
  <2>3. b[1] = p[1] /\ b[2] = p[2] BY <1>1, <1>3, <2>2 DEF Shields, Between
  <2>4. b = p BY <2>1, <2>3 DEF Cell
  <2>. QED BY <1>3, <2>4 DEF Shields
<1>. QED BY <1>2, <1>3 DEF BlastArea

LEMMA SinceKept ==
    ASSUME NEW v, UNCHANGED <<stage, joined, turn, positions, blocks, bombs, deaths, due, blast>>
    PROVE  (Since(v) => Since(v)') /\ (Clock => Clock')
<1>1. ServerView' = ServerView BY DEF ServerView
<1>2. BombsSince(v) => BombsSince(v)' BY DEF BombsSince
<1>. QED BY <1>1, <1>2 DEF Since, Clock

LEMMA GameOnView ==
    ASSUME NEW v, stage = "idle", v = ServerView
    PROVE  /\ v.t = "game" /\ v.turn = turn /\ v.positions = positions
           /\ v.bombs = bombs /\ v.scores = deaths
BY DEF ServerView

\* Those that are due are the ones that were at 1: a timer may well be at 0, but
\* the next number after that is the largest.
LEMMA SinceBeginTurn ==
    ASSUME IInv, BoardInv, Clock, BeginTurn, NEW v, Since(v)
    PROVE  Since(v)' /\ Clock'
<1>1. /\ stage = "idle" /\ stage' = "bombs" /\ blast' = {}
      /\ UNCHANGED <<turn, positions, deaths>>
      /\ bombs' = Aged(bombs)
      /\ due' = {b \in DOMAIN bombs : bombs'[b].timer = 0}
  BY DEF BeginTurn
<1>2. v = ServerView BY <1>1 DEF Since
<1>3. v \in View BY <1>1, <1>2, ServerViewType
<1>4. /\ v.t = "game" /\ v.turn = turn /\ v.positions = positions
      /\ v.bombs = bombs /\ v.scores = deaths
  BY <1>1, <1>2, GameOnView
<1>5. \A b \in DOMAIN bombs : /\ b \in DOMAIN bombs'
                              /\ bombs'[b].timer = Tick(bombs[b].timer)
                              /\ bombs'[b].timer = 0 <=> bombs[b].timer = 1
                              /\ bombs'[b].pos = bombs[b].pos
  <2>. SUFFICES ASSUME NEW b \in DOMAIN bombs
                PROVE  /\ b \in DOMAIN bombs'
                       /\ bombs'[b].timer = Tick(bombs[b].timer)
                       /\ bombs'[b].timer = 0 <=> bombs[b].timer = 1
                       /\ bombs'[b].pos = bombs[b].pos
    OBVIOUS
  <2>1. bombs[b] \in Bomb BY DEF IInv, ServerInv, ServerOK
  <2>2. bombs[b].timer \in Nat BY <2>1, GameAssumption DEF Bomb, Timer
  <2>3. b \in DOMAIN bombs' /\ bombs'[b] = [bombs[b] EXCEPT !.timer = Tick(@)]
    BY <1>1 DEF Aged
  <2>4. bombs'[b].timer = Tick(bombs[b].timer) /\ bombs'[b].pos = bombs[b].pos
    BY <2>1, <2>3 DEF Bomb
  <2>5. Tick(bombs[b].timer) = 0 <=> bombs[b].timer = 1
    BY <2>2, GameAssumption DEF Tick
  <2>. QED BY <2>3, <2>4, <2>5
<1>6. BombsSince(v)'
  <2>. SUFFICES ASSUME NEW b \in DOMAIN v.bombs
                PROVE  IF v.bombs[b].timer # 1
                       THEN /\ b \in DOMAIN bombs' /\ b \notin due'
                            /\ bombs'[b].timer = Tick(v.bombs[b].timer)
                       ELSE b \in due' /\ b \in DOMAIN bombs' /\ bombs'[b].pos = v.bombs[b].pos
    BY DEF BombsSince
  <2>1. b \in DOMAIN bombs /\ v.bombs[b] = bombs[b] BY <1>4
  <2>. QED BY <1>1, <1>5, <2>1
<1>7. Since(v)' BY <1>1, <1>3, <1>4, <1>6 DEF Since
<1>8. Clock' BY <1>1 DEF Clock
<1>. QED BY <1>7, <1>8

LEMMA SinceExplodeNextBomb ==
    ASSUME IInv, BoardInv, Clock, ExplodeNextBomb, NEW v, Since(v)
    PROVE  Since(v)' /\ Clock'
<1>1. /\ stage = "bombs" /\ stage' = "bombs" /\ UNCHANGED <<turn, positions, deaths, blocks>>
  BY DEF ExplodeNextBomb
<1>2. PICK b \in due, cells \in SUBSET Cell :
               /\ cells = BlastArea(bombs[b].pos, blocks)
               /\ due' = due \ {b}
               /\ blast' = blast \cup cells
               /\ bombs' = Erase(bombs, {b})
  BY OneBomb
<1>3. bombs[b].pos \in cells
  <2>1. b \in DOMAIN bombs BY <1>1 DEF BoardInv
  <2>2. bombs[b].pos \in Cell /\ blocks \in SUBSET Cell
    BY <2>1 DEF IInv, ServerInv, ServerOK, Bomb
  <2>. QED BY <1>2, <2>2, OwnCell
<1>4. DOMAIN bombs' = DOMAIN bombs \ {b} /\ \A c \in DOMAIN bombs' : bombs'[c] = bombs[c]
  BY <1>2 DEF Erase
<1>5. BombsSince(v)'
  <2>. SUFFICES ASSUME NEW c \in DOMAIN v.bombs
                PROVE  IF v.bombs[c].timer # 1
                       THEN /\ c \in DOMAIN bombs' /\ c \notin due'
                            /\ bombs'[c].timer = Tick(v.bombs[c].timer)
                       ELSE IF c \in due'
                       THEN c \in DOMAIN bombs' /\ bombs'[c].pos = v.bombs[c].pos
                       ELSE v.bombs[c].pos \in blast'
    BY DEF BombsSince
  <2>1. IF v.bombs[c].timer # 1
        THEN /\ c \in DOMAIN bombs /\ c \notin due
             /\ bombs[c].timer = Tick(v.bombs[c].timer)
        ELSE IF c \in due THEN c \in DOMAIN bombs /\ bombs[c].pos = v.bombs[c].pos
        ELSE v.bombs[c].pos \in blast
    BY <1>1 DEF Since, BombsSince
  <2>2. CASE c = b BY <1>2, <1>3, <2>1, <2>2
  <2>3. CASE c # b BY <1>2, <1>4, <2>1, <2>3
  <2>. QED BY <2>2, <2>3
<1>6. Since(v)' BY <1>1, <1>5 DEF Since
<1>7. Clock' BY <1>1 DEF Clock
<1>. QED BY <1>6, <1>7

LEMMA SinceBombsDone ==
    ASSUME IInv, BoardInv, Clock, BombsDone, NEW v, Since(v)
    PROVE  Since(v)' /\ Clock'
<1>1. /\ stage = "bombs" /\ stage' = "players" /\ due = {}
      /\ UNCHANGED <<turn, positions, bombs, due, blast>>
      /\ deaths' = [p \in DOMAIN deaths |-> deaths[p] + (IF p \in hit THEN 1 ELSE 0)]
  BY DEF BombsDone, turnVars
<1>2. DOMAIN deaths = PlayerId /\ hit = {p \in PlayerId : positions[p] \in blast}
  BY <1>1 DEF BoardInv
<1>3. v.positions = positions /\ v.scores = deaths BY <1>1 DEF Since
<1>4. \A p \in PlayerId :
         deaths'[p] = v.scores[p] + (IF v.positions[p] \in blast' THEN 1 ELSE 0)
  BY <1>1, <1>2, <1>3
<1>5. BombsSince(v)' BY <1>1 DEF Since, BombsSince
<1>6. Since(v)' BY <1>1, <1>4, <1>5 DEF Since
<1>7. Clock' BY <1>1 DEF Clock
<1>. QED BY <1>6, <1>7

\* A player who acts changes no bomb that is there.
LEMMA SinceAct ==
    ASSUME IInv, BoardInv, Clock, Respawn \/ Act, NEW v, Since(v)
    PROVE  Since(v)' /\ Clock'
<1>1. \E moved, event : MyTurn(moved, event)
  BY DEF Respawn, Act, Rests, PlacesBomb, PlacesBlock, Moves
<1>2. stage = "players" /\ stage' = "players" /\ UNCHANGED <<turn, deaths, due, blast>>
  BY <1>1 DEF MyTurn
<1>3. due = {} BY <1>2 DEF Clock
<1>4. /\ DOMAIN bombs \subseteq DOMAIN bombs'
      /\ \A b \in DOMAIN bombs : bombs'[b] = bombs[b]
  <2>1. CASE bombs' = bombs BY <2>1
  <2>2. CASE \E m \in Commands : PlacesBomb(m)
    <3>1. bombs' = Put(bombs, nextBomb, [pos |-> positions[actor], timer |-> BombTimer])
      BY <2>2 DEF PlacesBomb
    <3>2. nextBomb \notin DOMAIN bombs
      <4>1. nextBomb \in Int BY GameAssumption DEF IInv, ServerInv, ServerOK
      <4>. QED BY <4>1 DEF BoardInv
    <3>. QED BY <3>1, <3>2 DEF Put
  <2>. QED BY <2>1, <2>2 DEF Respawn, Act, Rests, PlacesBlock, Moves
<1>5. BombsSince(v)' BY <1>2, <1>3, <1>4 DEF Since, BombsSince
<1>6. Since(v)' BY <1>2, <1>5 DEF Since
<1>7. Clock' BY <1>2, <1>3 DEF Clock
<1>. QED BY <1>6, <1>7

\* The steps that announce nothing.
LEMMA SinceQuiet ==
    ASSUME IInv, BoardInv, Clock, NEW v, Since(v),
           \/ AcceptCommand \/ IgnoreRequest
           \/ BeginTurn \/ ExplodeNextBomb \/ BombsDone \/ Respawn \/ Act
    PROVE  Since(v)' /\ Clock'
<1>1. CASE AcceptCommand \/ IgnoreRequest
  <2>1. UNCHANGED <<stage, joined, turn, positions, blocks, bombs, deaths, due, blast>>
    BY <1>1 DEF AcceptCommand, IgnoreRequest, serverVars, boardVars, turnVars
  <2>. QED BY <2>1, SinceKept
<1>. QED BY <1>1, SinceBeginTurn, SinceExplodeNextBomb, SinceBombsDone, SinceAct

\* The server has announced something to go by as soon as a game is on.
LEMMA OnTheWay ==
    ASSUME BInv, stage # "lobby" PROVE connected \/ Views # <<>>
BY DEF BInv, ReplicaInv, Recorded

LEMMA WholeNext ==
    ASSUME IInv', BoardInv', stage' \in {"lobby", "idle"}, NEW v, v = ServerView'
    PROVE  v \in View /\ Whole(v) /\ Since(v)'
<1>1. v \in View BY ServerViewNextType
<1>2. Since(v)' BY DEF Since
<1>3. CASE stage' = "lobby"
  <2>1. v.t = "lobby" BY <1>3 DEF ServerView
  <2>. QED BY <1>1, <1>2, <2>1 DEF Whole
<1>4. CASE stage' = "idle"
  <2>1. v.players = joined' /\ v.positions = positions' /\ v.scores = deaths'
    BY <1>4 DEF ServerView
  <2>2. /\ DOMAIN joined' = PlayerId /\ DOMAIN deaths' = PlayerId
        /\ DOMAIN positions' = PlayerId
    BY <1>4 DEF BoardInv, IInv, ServerInv, Playing
  <2>. QED BY <1>1, <1>2, <2>1, <2>2 DEF Whole
<1>. QED BY <1>3, <1>4

\* At the end of the turn all bombs have gone off that should have.
LEMMA FollowEndTurn ==
    ASSUME Clock, EndTurn, NEW v, Since(v), NEW w, w = ServerView'
    PROVE  Follow(v, w)
<1>1. /\ stage = "players" /\ stage' = "idle"
      /\ UNCHANGED <<positions, bombs, deaths, blast>>
  BY DEF EndTurn, turnVars
<1>2. due = {} BY <1>1 DEF Clock
<1>3. w.bombs = bombs /\ w.explosions = blast /\ w.scores = deaths
  BY <1>1 DEF ServerView
<1>4. BombsSince(v) BY <1>1 DEF Since
<1>5. \A p \in PlayerId :
         w.scores[p] = v.scores[p] + (IF v.positions[p] \in w.explosions THEN 1 ELSE 0)
  BY <1>1, <1>3 DEF Since
<1>6. \A b \in DOMAIN v.bombs :
         IF v.bombs[b].timer # 1
         THEN b \in DOMAIN w.bombs /\ w.bombs[b].timer = Tick(v.bombs[b].timer)
         ELSE v.bombs[b].pos \in w.explosions
  BY <1>2, <1>3, <1>4 DEF BombsSince
<1>. QED BY <1>5, <1>6 DEF Follow

\* The steps that announce the new state.
Announcing == OtherJoins \/ AcceptJoin \/ StartGame \/ EndTurn \/ EndGame

LEMMA AnnouncingAnnounces ==
    ASSUME BInv, IInv', BoardInv', Announcing
    PROVE  Announces /\ stage' \in {"lobby", "idle"}
<1>1. IInv /\ BoardInv BY DEF BInv, ReplicaInv
<1>2. CASE AcceptJoin \/ OtherJoins
  <2>1. PICK who \in Player : /\ ~ LobbyFull /\ Admit(who) /\ link = "up"
                              /\ stage = "lobby" /\ UNCHANGED <<link, connected, stage>>
    <3>1. link = "up" /\ stage = "lobby" /\ UNCHANGED <<link, connected, stage>>
      BY <1>2 DEF AcceptJoin, OtherJoins
    <3>. QED BY <1>2, <3>1, SomebodyJoins
  <2>2. \E m, v : Loudly(m, v) BY <1>1, <2>1, LoudAdmit
  <2>. QED BY <2>2 DEF Loudly
<1>3. CASE StartGame
  BY <1>3 DEF StartGame, Announces
<1>4. CASE EndTurn
  BY <1>4 DEF EndTurn, Announces
<1>5. CASE EndGame
  BY <1>5 DEF EndGame, Announces
<1>. QED BY <1>2, <1>3, <1>4, <1>5 DEF Announcing

\* Only the end of a turn takes the game on from one view to the next.
LEMMA FollowNext ==
    ASSUME BInv, SpectatorInv, IInv', BoardInv', Announcing, NEW w, w = ServerView',
           NEW x, x = Latest(shown, Views)
    PROVE  Follow(x, w) /\ Clock'
<1>1. Clock BY DEF SpectatorInv
<1>2. CASE stage = "lobby"
  <2>1. x.t # "game"
    <3>1. CASE connected \/ Views # <<>>
      <4>1. x = ServerView BY <1>2, <3>1 DEF SpectatorInv, Since
      <4>. QED BY <1>2, <4>1 DEF ServerView
    <3>2. CASE ~ connected /\ Views = <<>>
      BY <3>2 DEF SpectatorInv, Latest
    <3>. QED BY <3>1, <3>2
  <2>2. Follow(x, w) BY <2>1 DEF Follow
  <2>3. CASE StartGame
    <3>1. stage' = "idle" /\ DOMAIN bombs' = {} /\ due' = {} BY <2>3 DEF StartGame, EmptyMap
    <3>. QED BY <2>2, <3>1 DEF Clock
  <2>4. CASE OtherJoins \/ AcceptJoin
    <3>1. UNCHANGED <<stage, bombs, due>>
      BY <2>4 DEF OtherJoins, AcceptJoin, boardVars, turnVars
    <3>. QED BY <1>1, <2>2, <3>1 DEF Clock
  <2>5. ~ EndTurn /\ ~ EndGame BY <1>2 DEF EndTurn, EndGame
  <2>. QED BY <2>3, <2>4, <2>5 DEF Announcing
<1>3. CASE stage # "lobby"
  <2>1. Since(x) BY <1>3, OnTheWay DEF SpectatorInv
  <2>2. CASE EndTurn
    <3>1. Follow(x, w) BY <1>1, <2>1, <2>2, FollowEndTurn
    <3>2. stage = "players" /\ stage' = "idle" /\ UNCHANGED <<bombs, due>>
      BY <2>2 DEF EndTurn, turnVars
    <3>. QED BY <1>1, <3>1, <3>2 DEF Clock
  <2>3. CASE EndGame
    <3>1. stage = "idle" /\ stage' = "lobby" /\ UNCHANGED <<bombs, due>>
      BY <2>3 DEF EndGame, boardVars, turnVars
    <3>2. w.t = "lobby" BY <3>1 DEF ServerView
    <3>. QED BY <1>1, <3>1, <3>2 DEF Clock, Follow
  <2>4. ~ OtherJoins /\ ~ AcceptJoin /\ ~ StartGame
    BY <1>3 DEF OtherJoins, AcceptJoin, StartGame
  <2>. QED BY <2>2, <2>3, <2>4 DEF Announcing
<1>. QED BY <1>2, <1>3

-----------------------------------------------------------------------------
(* What the spectator is shown stays in step.                              *)

LEMMA SpectatorAnnounced ==
    ASSUME BInv, SpectatorInv, IInv', BoardInv', Announcing, shown' = shown,
           connected' = connected, Views' = NextViews(Views)
    PROVE  SpectatorInv'
<1>1. PICK x, q, v : x = shown /\ q = Views /\ v = ServerView' OBVIOUS
<1>2. Announces /\ stage' \in {"lobby", "idle"} BY AnnouncingAnnounces
<1>3. v \in View /\ Whole(v) /\ Since(v)' BY <1>1, <1>2, WholeNext
<1>4. Chain(x, q) BY <1>1 DEF SpectatorInv
<1>5. Follow(Latest(x, q), v) /\ Clock' BY <1>1, FollowNext
<1>6. ~ connected' => shown'.t # "game" BY DEF SpectatorInv
<1>7. CASE connected \/ stage' # "lobby"
  <2>1. PICK p : p = q \o <<v>> OBVIOUS
  <2>2. Views' = p BY <1>1, <1>2, <1>7, <2>1 DEF NextViews
  <2>3. Chain(x, p) /\ Latest(x, p) = v BY <1>3, <1>4, <1>5, <2>1, ChainAppend
  <2>4. Since(Latest(x, p))' BY <1>3, <2>3 DEF Latest
  <2>5. x = shown' BY <1>1
  <2>6. Chain(shown, Views)' BY <2>2, <2>3, <2>5
  <2>7. Since(Latest(shown, Views))' BY <2>2, <2>4, <2>5 DEF Latest
  <2>. QED BY <1>5, <1>6, <2>6, <2>7 DEF SpectatorInv
<1>8. CASE ~ connected /\ stage' = "lobby"
  <2>1. Views' = <<>> /\ ~ connected' BY <1>8 DEF NextViews
  <2>2. Chain(shown, Views)' BY <1>1, <1>4, <2>1 DEF Chain
  <2>. QED BY <1>5, <1>6, <2>1, <2>2 DEF SpectatorInv
<1>. QED BY <1>7, <1>8

LEMMA SpectatorQuiet ==
    ASSUME BInv, SpectatorInv, shown' = shown, connected' = connected, Views' = Views,
           \/ AcceptCommand \/ IgnoreRequest
           \/ BeginTurn \/ ExplodeNextBomb \/ BombsDone \/ Respawn \/ Act
    PROVE  SpectatorInv'
<1>1. PICK x, q : x = shown /\ q = Views OBVIOUS
<1>2. x = shown' /\ q = Views' BY <1>1
<1>3. PICK v : v = Latest(x, q) OBVIOUS
<1>4. connected \/ q # <<>> => Since(v) BY <1>1, <1>3 DEF SpectatorInv
<1>5. IInv /\ BoardInv /\ Clock BY DEF BInv, ReplicaInv, SpectatorInv
<1>6. (connected \/ q # <<>> => Since(v)') /\ Clock'
  <2>1. CASE connected \/ q # <<>> BY <1>4, <1>5, <2>1, SinceQuiet
  <2>2. CASE ~ (connected \/ q # <<>>)
    <3>1. stage = "lobby" BY <1>1, <2>2, OnTheWay
    <3>2. IgnoreRequest
      <4>1. CASE Respawn \/ Act
        <5>1. \E moved, event : MyTurn(moved, event)
          BY <4>1 DEF Respawn, Act, Rests, PlacesBomb, PlacesBlock, Moves
        <5>. QED BY <3>1, <5>1 DEF MyTurn
      <4>. QED BY <3>1, <4>1 DEF AcceptCommand, BeginTurn, ExplodeNextBomb, BombsDone
    <3>3. UNCHANGED <<stage, joined, turn, positions, blocks, bombs, deaths, due, blast>>
      BY <3>2 DEF IgnoreRequest, serverVars, boardVars, turnVars
    <3>4. Clock' BY <1>5, <3>3, SinceKept
    <3>. QED BY <2>2, <3>4
  <2>. QED BY <2>1, <2>2
<1>7. (connected \/ Views # <<>> => Since(Latest(shown, Views)))'
  BY <1>2, <1>3, <1>6 DEF Latest
<1>8. Chain(shown, Views)' BY <1>1, <1>2 DEF SpectatorInv
<1>9. ~ connected' => shown'.t # "game" BY DEF SpectatorInv
<1>. QED BY <1>6, <1>7, <1>8, <1>9 DEF SpectatorInv

\* The last view that a client is told of in the lobby is the present one.
LEMMA LateLobby ==
    ASSUME BInv, ComesLate, IInv', BoardInv', stage = "lobby", NEW p, p = LateViews(Views)
    PROVE  /\ p \in Seq(View) /\ p # <<>> /\ \A i \in 1 .. Len(p) : p[i].t = "lobby"
           /\ p[Len(p)] = ServerView'
<1>1. Connect /\ ~ connected /\ stage' = "lobby" BY DEF ComesLate, Connect
<1>2. PICK q : q = Views /\ ReplicaInv(q) BY DEF BInv
<1>3. Recorded(log, q) /\ IInv BY <1>1, <1>2 DEF ReplicaInv, BInv
<1>4. PICK c : c = [left |-> 0, game |-> NewGame, sent |-> 1] OBVIOUS
<1>5. p = LateViews(q) BY <1>2 DEF LateViews
<1>6. p \in Seq(View) /\ p # <<>> /\ p[1] = LobbyView(NewGame)
  BY <1>1, <1>3, <1>4, <1>5, AfterHello
<1>7. PICK s : Extends(c, s, p) BY <1>1, <1>3, <1>4, <1>5, AfterHello
<1>8. PICK r : Agrees(r[Len(s)], p)' BY <1>7 DEF Extends
<1>9. p[Len(p)] = ServerView' BY <1>1, <1>6, <1>8 DEF Agrees
<1>10. PICK j, n : j = joined /\ n = Cardinality(DOMAIN j) OBVIOUS
<1>11. CallsRoll(j, n, p) BY <1>3, <1>5, <1>10, LateRoll
<1>12. n \in Nat /\ Len(p) = n + 1 /\ \A k \in 1 .. n : p[k + 1] = LobbyView(LobbyAfter(j, k))
  BY <1>11 DEF CallsRoll
<1>13. \A g : LobbyView(g).t = "lobby" BY DEF LobbyView
<1>14. ASSUME NEW i \in 1 .. Len(p) PROVE p[i].t = "lobby"
  <2>1. CASE i = 1 BY <1>6, <1>13, <2>1
  <2>2. CASE i # 1
    <3>1. i - 1 \in 1 .. n /\ (i - 1) + 1 = i BY <1>12, <2>2
    <3>2. p[(i - 1) + 1] = LobbyView(LobbyAfter(j, i - 1)) BY <1>12, <3>1
    <3>. QED BY <1>13, <3>1, <3>2
  <2>. QED BY <2>1, <2>2
<1>. QED BY <1>6, <1>9, <1>14

\* A client that comes late sees the lobby and then all turns from the first.
LEMMA SpectatorLate ==
    ASSUME BInv, SpectatorInv, ComesLate, IInv', BoardInv' PROVE SpectatorInv'
<1>1. PICK x, q : x = shown /\ q = Views OBVIOUS
<1>2. /\ ~ connected /\ connected' /\ Views' = LateViews(Views)
      /\ x = shown'
  <2>1. shown' = shown BY DEF ComesLate, clientVars
  <2>. QED BY <1>1, <2>1, LateViewsComing
<1>3. PICK p : p = LateViews(q) OBVIOUS
<1>4. Views' = p /\ p = LateViews(Views) BY <1>1, <1>2, <1>3 DEF LateViews
<1>5. x.t # "game" /\ Chain(x, q) BY <1>1, <1>2 DEF SpectatorInv
<1>6. UNCHANGED <<stage, joined, turn, positions, blocks, bombs, deaths, due, blast>>
  BY DEF ComesLate, Connect, boardVars, turnVars
<1>7. Clock' BY <1>6, SinceKept DEF SpectatorInv
<1>8. Chain(x, p) /\ Since(Latest(x, p))'
  <2>1. CASE stage = "lobby"
    <3>1. /\ p \in Seq(View) /\ p # <<>> /\ \A i \in 1 .. Len(p) : p[i].t = "lobby"
          /\ p[Len(p)] = ServerView'
      BY <1>4, <2>1, LateLobby
    <3>2. Chain(x, p) BY <1>5, <3>1, ChainLobby
    <3>3. PICK v : v = p[Len(p)] OBVIOUS
    <3>4. Since(v)' BY <1>6, <2>1, <3>1, <3>3 DEF Since
    <3>5. v = Latest(x, p) BY <3>1, <3>3 DEF Latest
    <3>. QED BY <3>2, <3>4, <3>5
  <2>2. CASE stage # "lobby"
    <3>1. q # <<>> BY <1>1, <1>2, <2>2, OnTheWay
    <3>2. PICK o, z : z = 0 /\ o = LobbyOf(z) OBVIOUS
    <3>3. p = <<o>> \o q BY <1>3, <2>2, <3>2 DEF LateViews
    <3>4. o \in View /\ o.t = "lobby"
      <4>1. PICK j, n : j = joined /\ n = Cardinality(DOMAIN j) OBVIOUS
      <4>2. j \in MapOf(PlayerId, Player) BY <4>1 DEF BInv, IInv, ServerInv, ServerOK
      <4>3. n \in Nat /\ DOMAIN j = 0 .. n - 1
        BY <4>1, LobbyCount, PlayersCountType DEF BInv, IInv, ServerInv
      <4>4. z \in 0 .. n BY <3>2, <4>3
      <4>5. LobbyOf(z) \in View BY <4>1, <4>2, <4>3, <4>4, LobbyOfView
      <4>6. LobbyOf(z).t = "lobby" BY DEF LobbyOf
      <4>. QED BY <3>2, <4>5, <4>6
    <3>5. Chain(x, <<o>> \o q) /\ Latest(x, <<o>> \o q) = Latest(x, q)
      BY <1>5, <3>1, <3>4, ChainPrepend
    <3>6. PICK v : v = Latest(x, q) OBVIOUS
    <3>7. Since(v) BY <1>1, <3>1, <3>6 DEF SpectatorInv
    <3>8. Since(v)' BY <1>6, <3>7, SinceKept
    <3>9. v = Latest(x, p) BY <3>3, <3>5, <3>6
    <3>. QED BY <3>3, <3>5, <3>8, <3>9
  <2>. QED BY <2>1, <2>2
<1>9. Chain(shown, Views)' BY <1>2, <1>4, <1>8
<1>10. Since(Latest(shown, Views))' BY <1>2, <1>4, <1>8 DEF Latest
<1>. QED BY <1>2, <1>7, <1>9, <1>10 DEF SpectatorInv

LEMMA SpectatorSame ==
    ASSUME SpectatorInv, UNCHANGED serverVars, Views' = Views, shown' = shown
    PROVE  SpectatorInv'
<1>1. /\ UNCHANGED <<stage, joined, turn, positions, blocks, bombs, deaths, due, blast>>
      /\ connected' = connected
  BY DEF serverVars, boardVars, turnVars
<1>2. PICK x, q : x = shown /\ q = Views OBVIOUS
<1>3. x = shown' /\ q = Views' BY <1>2
<1>4. PICK v : v = Latest(x, q) OBVIOUS
<1>5. connected \/ q # <<>> => Since(v) BY <1>2, <1>4 DEF SpectatorInv
<1>6. Clock' /\ (Since(v) => Since(v)') BY <1>1, SinceKept DEF SpectatorInv
<1>7. (connected \/ Views # <<>> => Since(Latest(shown, Views)))'
  BY <1>1, <1>3, <1>4, <1>5, <1>6 DEF Latest
<1>8. Chain(shown, Views)' BY <1>2, <1>3 DEF SpectatorInv
<1>9. ~ connected' => shown'.t # "game" BY <1>1 DEF SpectatorInv
<1>. QED BY <1>6, <1>7, <1>8, <1>9 DEF SpectatorInv

\* The next view is shown, which follows the one before.
LEMMA SpectatorShows ==
    ASSUME BInv, SpectatorInv, ClientSide
    PROVE  SpectatorInv' /\ (shown' = shown \/ Follow(shown, shown'))
<1>1. /\ connected /\ connected' /\ Views' = IF Sends THEN Tail(Views) ELSE Views
      /\ coming = Views /\ UNCHANGED serverVars
      /\ IF Sends THEN coming # <<>> /\ shown' = Head(coming) ELSE shown' = shown
  BY ClientSideViews DEF ClientSide, S
<1>2. CASE ~ Sends
  BY <1>1, <1>2, SpectatorSame
<1>3. CASE Sends
  <2>1. PICK x, q : x = shown /\ q = Views OBVIOUS
  <2>2. q # <<>> /\ shown' = Head(q) /\ Views' = Tail(q) BY <1>1, <1>3, <2>1
  <2>3. Chain(x, q) BY <2>1 DEF SpectatorInv
  <2>4. PICK h, p : h = Head(q) /\ p = Tail(q) OBVIOUS
  <2>5. Chain(h, p) /\ Follow(x, h) /\ Latest(h, p) = Latest(x, q)
    BY <2>2, <2>3, <2>4, ChainTail
  <2>6. shown' = h /\ Views' = p BY <2>2, <2>4
  <2>7. PICK v : v = Latest(x, q) OBVIOUS
  <2>8. Since(v) BY <1>1, <2>1, <2>7 DEF SpectatorInv
  <2>9. UNCHANGED <<stage, joined, turn, positions, blocks, bombs, deaths, due, blast>>
    BY <1>1 DEF serverVars, boardVars, turnVars
  <2>10. Since(v)' /\ Clock' BY <2>8, <2>9, SinceKept DEF SpectatorInv
  <2>11. v = Latest(h, p) BY <2>5, <2>7
  <2>12. Since(Latest(shown, Views))' BY <2>6, <2>10, <2>11 DEF Latest
  <2>13. Chain(shown, Views)' BY <2>5, <2>6
  <2>14. Follow(shown, shown') BY <2>1, <2>5, <2>6
  <2>. QED BY <1>1, <2>10, <2>12, <2>13, <2>14 DEF SpectatorInv
<1>. QED BY <1>2, <1>3

LEMMA SpectatorInit == BroadcastInit => SpectatorInv
<1>. SUFFICES ASSUME BroadcastInit PROVE SpectatorInv OBVIOUS
<1>1. /\ ~ connected /\ stage = "lobby" /\ DOMAIN bombs = {} /\ due = {}
      /\ shown = NoView
  BY DEF BroadcastInit, Init, ServerInit, ClientInit, EmptyMap
<1>2. Views = <<>> BY DEF BroadcastInit, Views
<1>3. shown.t # "game" BY <1>1 DEF NoView
<1>4. PICK x, q : x = shown /\ q = <<>> OBVIOUS
<1>5. q \in Seq(View) /\ \A i \in 1 .. Len(q) : q[i].t = "lobby" BY <1>4
<1>6. Chain(x, q) BY <1>3, <1>4, <1>5, ChainLobby
<1>7. Chain(shown, Views) BY <1>2, <1>4, <1>6
<1>8. Clock BY <1>1 DEF Clock
<1>. QED BY <1>1, <1>2, <1>3, <1>7, <1>8 DEF SpectatorInv

LEMMA SpectatorNext ==
    ASSUME BInv, BInv', SpectatorInv, [BroadcastNext]_allVars
    PROVE  SpectatorInv' /\ (shown' = shown \/ Follow(shown, shown'))
<1>1. IInv' /\ BoardInv' BY DEF BInv, ReplicaInv
<1>2. CASE ServerSide
  <2>1. connected' = connected /\ Views' = NextViews(Views) BY <1>2, ServerSideViews
  <2>2. shown' = shown BY <1>2 DEF ServerSide, ServerRuns, clientVars
  <2>3. CASE Announcing
    BY <1>1, <2>1, <2>2, <2>3, SpectatorAnnounced
  <2>4. CASE \/ AcceptCommand \/ IgnoreRequest
             \/ BeginTurn \/ ExplodeNextBomb \/ BombsDone \/ Respawn \/ Act
    <3>1. IInv /\ BoardInv BY DEF BInv, ReplicaInv
    <3>2. ~ Announces /\ (stage = "lobby" <=> stage' = "lobby")
      BY <2>4, <3>1, QuietRequest, QuietTurn DEF Quietly
    <3>3. PICK q : q = Views /\ ReplicaInv(q) BY DEF BInv
    <3>4. q \in Seq(View) BY <3>3 DEF BInv
    <3>5. ~ connected /\ stage = "lobby" => q = <<>> BY <3>3 DEF ReplicaInv, Recorded
    <3>6. NextViews(Views) = Views BY <3>2, <3>3, <3>4, <3>5 DEF NextViews
    <3>. QED BY <2>1, <2>2, <2>4, <3>6, SpectatorQuiet
  <2>. QED BY <1>2, <2>3, <2>4 DEF ServerSide, ServerRuns, ServerStep, Announcing
<1>3. CASE ComesLate
  <2>1. shown' = shown BY <1>3 DEF ComesLate, clientVars
  <2>. QED BY <1>1, <1>3, <2>1, SpectatorLate
<1>4. CASE ClientSide
  BY <1>4, SpectatorShows
<1>5. CASE Others \/ UNCHANGED allVars
  <2>1. Views' = Views /\ shown' = shown BY <1>5, OthersViews
  <2>2. UNCHANGED serverVars
    BY <1>5 DEF Others, Input, G, Failure, CloseConnection, BreakConnection, StreamEnds,
                     allVars, vars
  <2>. QED BY <2>1, <2>2, SpectatorSame
<1>. QED BY <1>2, <1>3, <1>4, <1>5 DEF BroadcastNext

LEMMA SpectatorAlways == BroadcastSpec => [](BInv /\ SpectatorInv)
<1>1. BroadcastInit => BInv /\ SpectatorInv BY BInvInit, SpectatorInit
<1>2. BInv /\ SpectatorInv /\ [BroadcastNext]_allVars => BInv' /\ SpectatorInv'
  BY BInvNext, SpectatorNext
<1>. QED BY <1>1, <1>2, PTL DEF BroadcastSpec

-----------------------------------------------------------------------------
(* What can be said of the pictures.                                       *)

LEMMA GameFields ==
    ASSUME NEW v \in View, v.t = "game"
    PROVE  /\ v.players \in [DOMAIN v.players -> Player]
           /\ v.positions \in [DOMAIN v.positions -> Cell]
           /\ v.bombs \in [DOMAIN v.bombs -> Bomb]
           /\ v.scores \in [DOMAIN v.scores -> Nat]
           /\ v.blocks \in SUBSET Cell /\ v.explosions \in SUBSET Cell
<1>1. /\ v.players \in MapOf(PlayerId, Player) /\ v.positions \in MapOf(PlayerId, Cell)
      /\ v.bombs \in MapOf(BombId, Bomb) /\ v.scores \in MapOf(PlayerId, Nat)
      /\ v.blocks \in SUBSET Cell /\ v.explosions \in SUBSET Cell
  BY DEF View
<1>. QED BY <1>1, MapOfMember

\* The shapes of a picture are of five kinds and lie on the board.
LEMMA PictureShapes ==
    ASSUME NEW v, Whole(v), v.t = "game", NEW s \in Picture(v).shapes
    PROVE  /\ s.cell \in Cell
           /\ s.what \in {"Grid", "Block", "Bomb", "Player"}
              \/ s \in Shapes("Explosion", v.explosions)
<1>1. /\ v.positions \in [PlayerId -> Cell] /\ v.bombs \in [DOMAIN v.bombs -> Bomb]
      /\ v.blocks \in SUBSET Cell /\ v.explosions \in SUBSET Cell
      /\ DOMAIN v.players = PlayerId
  BY GameFields DEF Whole
<1>2. \/ s \in Shapes("Grid", Cell)
      \/ s \in Shapes("Block", v.blocks)
      \/ s \in Shapes("Explosion", v.explosions)
      \/ s \in Shapes("Bomb", {v.bombs[b].pos : b \in DOMAIN v.bombs})
      \/ s \in Robots(v)
  BY DEF Picture
<1>3. CASE s \in Shapes("Grid", Cell) BY <1>3 DEF Shapes, Shape
<1>4. CASE s \in Shapes("Block", v.blocks) BY <1>1, <1>4 DEF Shapes, Shape
<1>5. CASE s \in Shapes("Explosion", v.explosions) BY <1>1, <1>5 DEF Shapes, Shape
<1>6. CASE s \in Shapes("Bomb", {v.bombs[b].pos : b \in DOMAIN v.bombs})
  BY <1>1, <1>6 DEF Shapes, Shape, Bomb
<1>7. CASE s \in Robots(v) BY <1>1, <1>7 DEF Robots, Shape, Drawn
<1>. QED BY <1>2, <1>3, <1>4, <1>5, <1>6, <1>7

LEMMA EverybodyDrawn ==
    ASSUME NEW v, Whole(v), v.t = "game"
    PROVE  Drawn(v) = PlayerId /\ DOMAIN v.players = PlayerId
BY DEF Whole, Drawn

\* No robot is left out of a picture, and no shape lies off the board
\* (gui.rs:335).
THEOREM PictureCorrect == BroadcastSpec => []PictureComplete
<1>1. SpectatorInv => PictureComplete
  <2>. SUFFICES ASSUME SpectatorInv, shown.t = "game"
                PROVE  /\ Drawn(shown) = DOMAIN shown.players
                       /\ \A s \in Picture(shown).shapes : s.cell \in Cell
    BY DEF PictureComplete
  <2>1. Whole(shown) BY DEF SpectatorInv, Chain
  <2>. QED BY <2>1, EverybodyDrawn, PictureShapes
<1>. QED BY <1>1, SpectatorAlways, PTL

\* The scores on the screen rise by one for the robots that explosions cover,
\* and for no others (game.cpp:135-194).
THEOREM DeathsCorrect == BroadcastSpec => DeathsMatchExplosions
<1>. DEFINE Counted == NextTurnShown =>
                \A p \in DOMAIN shown.players :
                    ScoreTable(shown')[p].deaths - ScoreTable(shown)[p].deaths =
                        IF shown.positions[p] \in shown'.explosions THEN 1 ELSE 0
<1>1. (BInv /\ SpectatorInv) /\ (BInv /\ SpectatorInv)' /\ [BroadcastNext]_allVars
      => [Counted]_shown
  <2>. SUFFICES ASSUME BInv, BInv', SpectatorInv, SpectatorInv', [BroadcastNext]_allVars,
                       shown' # shown, NextTurnShown,
                       NEW p \in DOMAIN shown.players
                PROVE  ScoreTable(shown')[p].deaths - ScoreTable(shown)[p].deaths =
                           IF shown.positions[p] \in shown'.explosions THEN 1 ELSE 0
    OBVIOUS
  <2>1. PICK v, w : v = shown /\ w = shown' OBVIOUS
  <2>2. Follow(v, w) BY <2>1, SpectatorNext
  <2>3. Whole(v) /\ Whole(w) BY <2>1 DEF SpectatorInv, Chain
  <2>4. v.t = "game" /\ w.t = "game" /\ w.turn = v.turn + 1 BY <2>1 DEF NextTurnShown
  <2>5. p \in PlayerId /\ p \in Drawn(v) /\ p \in Drawn(w)
    BY <2>1, <2>3, <2>4, EverybodyDrawn
  <2>6. w.scores[p] = v.scores[p] + (IF v.positions[p] \in w.explosions THEN 1 ELSE 0)
    BY <2>2, <2>4, <2>5 DEF Follow
  <2>7. v.scores[p] \in Nat BY <2>3, <2>4, <2>5, GameFields DEF Whole
  <2>8. ScoreTable(v)[p].deaths = v.scores[p] /\ ScoreTable(w)[p].deaths = w.scores[p]
    BY <2>5 DEF ScoreTable
  <2>. QED BY <2>1, <2>6, <2>7, <2>8
<1>. QED BY <1>1, SpectatorAlways, PTL DEF BroadcastSpec, DeathsMatchExplosions

\* Nothing hides an explosion, and it hides everything else.
LEMMA ExplosionOnTop ==
    ASSUME NEW v, Whole(v), v.t = "game", NEW c \in v.explosions
    PROVE  OnTop(v, c) = Shapes("Explosion", {c})
<1>. DEFINE here == {s \in Picture(v).shapes : s.cell = c}
            top  == Shape("Explosion", c, "Explosion")
<1>1. top \in here BY DEF Shapes, Shape, Picture
<1>2. top.what = "Explosion" BY DEF Shape
<1>3. \A s \in here : s = top \/ s.what \in {"Grid", "Block", "Bomb", "Player"}
  <2>. SUFFICES ASSUME NEW s \in here
                PROVE  s = top \/ s.what \in {"Grid", "Block", "Bomb", "Player"}
    OBVIOUS
  <2>1. CASE s \in Shapes("Explosion", v.explosions) BY <2>1 DEF Shapes, Shape
  <2>. QED BY <2>1, PictureShapes
<1>4. \A k \in {"Grid", "Block", "Bomb", "Player"} : Height[k] < Height["Explosion"]
  BY DEF Height
<1>5. \A k \in {"Grid", "Block", "Bomb", "Player", "Explosion"} : Height[k] \in Nat
  BY DEF Height
<1>6. OnTop(v, c) = {s \in here : \A other \in here : Height[other.what] <= Height[s.what]}
  BY DEF OnTop
<1>7. Shapes("Explosion", {c}) = {top} BY DEF Shapes
<1>. HIDE DEF here, top
<1>8. \A other \in here : Height[other.what] <= Height[top.what]
  BY <1>2, <1>3, <1>4, <1>5
<1>9. \A s \in here : s # top => ~ (Height[top.what] <= Height[s.what])
  BY <1>2, <1>3, <1>4, <1>5
<1>. QED BY <1>1, <1>6, <1>7, <1>8, <1>9

\* The decrement of an unsigned number is a subtraction modulo the first number
\* that is too large.
LEMMA TickWraps == ASSUME NEW t \in Timer PROVE Tick(t) = (t + MaxU16) % (MaxU16 + 1)
<1>. MaxU16 \in Nat /\ t \in 0 .. MaxU16 BY GameAssumption DEF Timer
<1>1. CASE t = 0 BY <1>1 DEF Tick
<1>2. CASE t > 0
  <2>1. (t - 1) + (MaxU16 + 1) = t + MaxU16 OBVIOUS
  <2>2. t - 1 \in 0 .. MaxU16 BY <1>2
  <2>. QED BY <1>2, <2>1, <2>2 DEF Tick
<1>. QED BY <1>1, <1>2

\* A bomb on the screen counts down, from 0 to the largest number too, and after 1
\* there is an explosion on its cell
\* (game.cpp:135-137, 200-202; gui.rs:224-230).
THEOREM BombsCorrect == BroadcastSpec => BombsRunDown
<1>. DEFINE RunDown == NextTurnShown =>
                \A b \in DOMAIN shown.bombs :
                    IF shown.bombs[b].timer # 1
                    THEN /\ b \in DOMAIN shown'.bombs
                         /\ shown'.bombs[b].timer
                                = (shown.bombs[b].timer + MaxU16) % (MaxU16 + 1)
                    ELSE OnTop(shown', shown.bombs[b].pos)
                             = Shapes("Explosion", {shown.bombs[b].pos})
<1>1. (BInv /\ SpectatorInv) /\ (BInv /\ SpectatorInv)' /\ [BroadcastNext]_allVars
      => [RunDown]_shown
  <2>. SUFFICES ASSUME BInv, BInv', SpectatorInv, SpectatorInv', [BroadcastNext]_allVars,
                       shown' # shown, NextTurnShown,
                       NEW b \in DOMAIN shown.bombs
                PROVE  IF shown.bombs[b].timer # 1
                       THEN /\ b \in DOMAIN shown'.bombs
                            /\ shown'.bombs[b].timer
                                   = (shown.bombs[b].timer + MaxU16) % (MaxU16 + 1)
                       ELSE OnTop(shown', shown.bombs[b].pos)
                                = Shapes("Explosion", {shown.bombs[b].pos})
    OBVIOUS
  <2>1. PICK v, w : v = shown /\ w = shown' OBVIOUS
  <2>2. Follow(v, w) BY <2>1, SpectatorNext
  <2>3. Whole(v) /\ Whole(w) BY <2>1 DEF SpectatorInv, Chain
  <2>4. v.t = "game" /\ w.t = "game" /\ w.turn = v.turn + 1 BY <2>1 DEF NextTurnShown
  <2>5. IF v.bombs[b].timer # 1
        THEN b \in DOMAIN w.bombs /\ w.bombs[b].timer = Tick(v.bombs[b].timer)
        ELSE v.bombs[b].pos \in w.explosions
    BY <2>1, <2>2, <2>4 DEF Follow
  <2>6. \A c \in w.explosions : OnTop(w, c) = Shapes("Explosion", {c})
    BY <2>3, <2>4, ExplosionOnTop
  <2>7. Tick(v.bombs[b].timer) = (v.bombs[b].timer + MaxU16) % (MaxU16 + 1)
    <3>1. v.bombs[b] \in Bomb BY <2>1, <2>3, <2>4, GameFields DEF Whole
    <3>. QED BY <3>1, TickWraps DEF Bomb
  <2>. QED BY <2>1, <2>5, <2>6, <2>7
<1>. QED BY <1>1, SpectatorAlways, PTL DEF BroadcastSpec, BombsRunDown

-----------------------------------------------------------------------------
(* Why the process ends: the history `ends` says where the messages of the *)
(* states end that S has still to send.  Counting does it without the      *)
(* states themselves: c is how many events S expects after each element of *)
(* the stream s, and how many states it has sent by then.                  *)

Progress == [left : Int, sent : Int]

\* S reads m and has it complete, or not yet.
Counted(a, m) ==
    LET l == IF m.t = "turn" THEN m.n
             ELSE IF m.t \in EventKinds THEN a.left - 1 ELSE a.left
        complete == \/ m.t \in {"hello", "accepted", "ended"}
                    \/ m.t \in EventKinds \cup {"turn"} /\ l = 0
    IN  [left |-> l, sent |-> a.sent + (IF complete THEN 1 ELSE 0)]

CountsAlong(c, s) == /\ c \in [0 .. Len(s) -> Progress]
                     /\ \A i \in 1 .. Len(s) : c[i] = Counted(c[i - 1], s[i])

\* In s the message of the k-th state ends at e[k].
Marks(c, s, e) == /\ CountsAlong(c, s)
                  /\ e \in Seq(Int)
                  /\ \A i \in 0 .. Len(s) : /\ c[i].sent >= 0 /\ c[i].sent <= Len(e)
                                            /\ \A k \in 1 .. Len(e) :
                                                   e[k] <= i <=> k <= c[i].sent

\* The last state is complete with the last element.
AllMarked(c, s, e) == Marks(c, s, e) /\ c[Len(s)].sent = Len(e)

\* S itself may have read the last event and not sent the state yet.
Present == [left |-> left,
            sent |-> IF sPc = "events" /\ left = 0 THEN 1 ELSE 0]

Beginning == [left |-> 0, sent |-> 0]

EndsInv ==
    /\ connected /\ proc = "running" =>
           \E c : /\ c[0] = Present
                  /\ Marks(c, down, ends)
                  /\ link = "up" => AllMarked(c, down, ends)
    /\ ~ connected => \E c : c[0] = Beginning /\ AllMarked(c, log, ends)
    /\ ~ connected /\ stage = "lobby" => ends = <<>>

\* The elements m complete one state, with the last of them, from a on.
OneMore(f, a, m) == /\ m \in Seq(Message \cup Event) /\ m # <<>>
                    /\ f[0] = a /\ a \in Progress
                    /\ CountsAlong(f, m)
                    /\ \A i \in 0 .. Len(m) - 1 : f[i].sent = a.sent
                    /\ f[Len(m)].sent = a.sent + 1

Completes(m) == \A a \in Progress : \E f : OneMore(f, a, m)

LEMMA CountedType ==
    ASSUME NEW a \in Progress, NEW m \in Message \cup Event PROVE Counted(a, m) \in Progress
<1>1. m.t = "turn" => m.n \in Nat BY MessageFields
<1>. QED BY <1>1 DEF Counted, Progress

LEMMA OneBefore ==
    ASSUME NEW T, NEW x \in T, NEW w \in Seq(T), NEW n \in Nat, n = Len(w),
           NEW s, s = <<x>> \o w
    PROVE  /\ s \in Seq(T) /\ Len(s) = n + 1 /\ s[1] = x
           /\ \A i \in 1 .. n : s[i + 1] = w[i]
<1>1. <<x>> \in Seq(T) /\ Len(<<x>>) = 1 /\ <<x>>[1] = x OBVIOUS
<1>. QED BY <1>1, ConcatProperties

LEMMA MarkBefore ==
    ASSUME NEW x \in Int, NEW w \in Seq(Int), NEW n \in Nat, Len(w) = n,
           NEW s, s = <<x>> \o w
    PROVE  /\ s \in Seq(Int) /\ Len(s) = n + 1 /\ s[1] = x
           /\ \A i \in 1 .. n : s[i + 1] = w[i]
BY OneBefore

\* A message alone.
LEMMA CompletesOne ==
    ASSUME NEW m \in Message, m.t \in {"hello", "accepted", "ended"} PROVE Completes(<<m>>)
<1>. SUFFICES ASSUME NEW a \in Progress PROVE \E f : OneMore(f, a, <<m>>) BY DEF Completes
<1>1. PICK s : s = <<m>> OBVIOUS
<1>2. s \in Seq(Message \cup Event) /\ Len(s) = 1 /\ s[1] = m /\ s # <<>> BY <1>1
<1>3. PICK f : f = [i \in 0 .. 1 |-> IF i = 0 THEN a ELSE Counted(a, m)] OBVIOUS
<1>4. f[0] = a /\ f[1] = Counted(a, m) BY <1>3
<1>5. Counted(a, m) \in Progress BY CountedType
<1>6. Counted(a, m).sent = a.sent + 1 BY DEF Counted
<1>7. f \in [0 .. 1 -> Progress] BY <1>3, <1>5
<1>8. CountsAlong(f, s)
  <2>1. \A i \in 1 .. 1 : i = 1 /\ i - 1 = 0 OBVIOUS
  <2>. QED BY <1>2, <1>4, <1>7, <2>1 DEF CountsAlong
<1>9. \A i \in 0 .. Len(s) - 1 : f[i].sent = a.sent
  <2>1. \A i \in 0 .. Len(s) - 1 : i = 0 BY <1>2
  <2>. QED BY <1>4, <2>1
<1>10. OneMore(f, a, s) BY <1>2, <1>4, <1>6, <1>8, <1>9 DEF OneMore
<1>. QED BY <1>1, <1>10

\* A turn and its events.
LEMMA CompletesTurn ==
    ASSUME NEW k \in Nat, NEW list \in Seq(Event)
    PROVE  Completes(<<Turn(k, Len(list))>> \o list)
<1>. SUFFICES ASSUME NEW a \in Progress
              PROVE  \E f : OneMore(f, a, <<Turn(k, Len(list))>> \o list)
  BY DEF Completes
<1>1. PICK n \in Nat : n = Len(list) OBVIOUS
<1>2. PICK m : m = Turn(k, n) OBVIOUS
<1>3. PICK s : s = <<m>> \o list OBVIOUS
<1>4. m \in Message /\ m.t = "turn" /\ m.n = n BY <1>2 DEF Turn, Message
<1>5. /\ s \in Seq(Message \cup Event) /\ Len(s) = n + 1 /\ s # <<>>
      /\ s[1] = m /\ \A i \in 1 .. n : s[i + 1] = list[i]
  <2>1. <<m>> \in Seq(Message \cup Event) /\ list \in Seq(Message \cup Event)
        /\ Len(<<m>>) = 1 /\ <<m>>[1] = m
    BY <1>4
  <2>. QED BY <1>1, <1>3, <2>1, ConcatProperties
<1>6. \A i \in 1 .. n : s[i + 1].t \in EventKinds /\ s[i + 1].t # "turn"
  BY <1>1, <1>5 DEF Event, EventKinds
<1>7. PICK x \in Int : x = a.sent
  <2>1. a.sent \in Int BY DEF Progress
  <2>. QED BY <2>1
<1>8. PICK u, w : /\ u = [i \in 1 .. n + 1 |-> n - (i - 1)]
                  /\ w = [i \in 1 .. n + 1 |-> IF i = n + 1 THEN x + 1 ELSE x]
  OBVIOUS
<1>9. \A i \in 1 .. n + 1 : /\ u[i] \in Int /\ u[i] = n - (i - 1)
                            /\ w[i] \in Int /\ w[i] = IF i = n + 1 THEN x + 1 ELSE x
  BY <1>8
<1>10. PICK f : f = [i \in 0 .. n + 1 |->
                       IF i = 0 THEN a ELSE [left |-> u[i], sent |-> w[i]]]
  OBVIOUS
<1>11. f[0] = a /\ \A i \in 1 .. n + 1 : /\ f[i] = [left |-> u[i], sent |-> w[i]]
                                         /\ f[i].left = u[i] /\ f[i].sent = w[i]
  <2>. SUFFICES ASSUME NEW i \in 1 .. n + 1
                PROVE  /\ f[i] = [left |-> u[i], sent |-> w[i]]
                       /\ f[i].left = u[i] /\ f[i].sent = w[i]
    BY <1>10
  <2>1. ~ (i = 0) /\ i \in 0 .. n + 1 OBVIOUS
  <2>2. f[i] = [left |-> u[i], sent |-> w[i]] BY <1>10, <2>1
  <2>. QED BY <2>2
<1>12. f \in [0 .. n + 1 -> Progress]
  <2>1. \A i \in 0 .. n + 1 : i = 0 \/ i \in 1 .. n + 1 OBVIOUS
  <2>2. ASSUME NEW i \in 1 .. n + 1 PROVE f[i] \in Progress
    <3>1. f[i] = [left |-> u[i], sent |-> w[i]] /\ u[i] \in Int /\ w[i] \in Int
      BY <1>9, <1>11
    <3>. QED BY <3>1 DEF Progress
  <2>. QED BY <1>10, <1>11, <2>1, <2>2
<1>13. f[1] = Counted(f[0], s[1])
  <2>1. Counted(a, m) = [left |-> n, sent |-> x + (IF n = 0 THEN 1 ELSE 0)]
    BY <1>4, <1>7 DEF Counted
  <2>2. 1 \in 1 .. n + 1 /\ n - (1 - 1) = n /\ (1 = n + 1 <=> n = 0) OBVIOUS
  <2>3. u[1] = n /\ w[1] = x + (IF n = 0 THEN 1 ELSE 0) BY <1>9, <2>2
  <2>4. f[1] = Counted(a, m) BY <1>11, <2>1, <2>2, <2>3
  <2>. QED BY <1>5, <1>11, <2>4
<1>14. \A i \in 1 .. n : f[i + 1] = Counted(f[i], s[i + 1])
  <2>. SUFFICES ASSUME NEW i \in 1 .. n PROVE f[i + 1] = Counted(f[i], s[i + 1]) OBVIOUS
  <2>1. i \in 1 .. n + 1 /\ i + 1 \in 1 .. n + 1 /\ ~ (i = n + 1) OBVIOUS
  <2>2. /\ u[i] - 1 = u[i + 1] /\ w[i] = x
        /\ w[i + 1] = x + (IF u[i + 1] = 0 THEN 1 ELSE 0)
    BY <1>9, <2>1
  <2>3. s[i + 1].t \notin {"hello", "accepted", "ended"} BY <1>6 DEF EventKinds
  <2>4. f[i].left = u[i] /\ f[i].sent = w[i] BY <1>11, <2>1
  <2>5. Counted(f[i], s[i + 1]) = [left |-> u[i] - 1,
                                   sent |-> w[i] + (IF u[i] - 1 = 0 THEN 1 ELSE 0)]
    BY <1>6, <2>3, <2>4 DEF Counted
  <2>6. f[i + 1] = [left |-> u[i + 1], sent |-> w[i + 1]] BY <1>11, <2>1
  <2>. QED BY <2>2, <2>5, <2>6
<1>15. CountsAlong(f, s)
  <2>1. \A i \in 1 .. n + 1 : f[i] = Counted(f[i - 1], s[i])
    <3>. SUFFICES ASSUME NEW i \in 1 .. n + 1 PROVE f[i] = Counted(f[i - 1], s[i]) OBVIOUS
    <3>1. CASE i = 1 BY <1>13, <3>1
    <3>2. CASE i > 1
      <4>1. i - 1 \in 1 .. n /\ (i - 1) + 1 = i BY <3>2
      <4>. QED BY <1>14, <4>1
    <3>. QED BY <3>1, <3>2
  <2>. QED BY <1>5, <1>12, <2>1 DEF CountsAlong
<1>16. \A i \in 0 .. Len(s) - 1 : f[i].sent = a.sent
  <2>. SUFFICES ASSUME NEW i \in 0 .. n PROVE f[i].sent = a.sent BY <1>5
  <2>1. CASE i = 0 BY <1>11, <2>1
  <2>2. CASE i > 0
    <3>1. i \in 1 .. n + 1 /\ ~ (i = n + 1) BY <2>2
    <3>. QED BY <1>7, <1>9, <1>11, <3>1
  <2>. QED BY <2>1, <2>2
<1>17. f[Len(s)].sent = a.sent + 1
  <2>1. n + 1 \in 1 .. n + 1 OBVIOUS
  <2>. QED BY <1>5, <1>7, <1>9, <1>11, <2>1
<1>18. OneMore(f, a, s) BY <1>5, <1>11, <1>15, <1>16, <1>17 DEF OneMore
<1>. QED BY <1>1, <1>2, <1>3, <1>18

\* A stream that goes on with something for which S sends nothing.
LEMMA CompletesAfter ==
    ASSUME NEW x \in Message, x.t = "started", NEW m, Completes(m)
    PROVE  Completes(<<x>> \o m)
<1>. SUFFICES ASSUME NEW a \in Progress PROVE \E f : OneMore(f, a, <<x>> \o m)
  BY DEF Completes
<1>1. PICK g : OneMore(g, a, m) BY DEF Completes
<1>2. PICK n \in Nat : n = Len(m) BY <1>1 DEF OneMore
<1>3. /\ m \in Seq(Message \cup Event) /\ g \in [0 .. n -> Progress] /\ g[0] = a /\ n >= 1
      /\ \A i \in 1 .. n : g[i] = Counted(g[i - 1], m[i])
      /\ \A i \in 0 .. n - 1 : g[i].sent = a.sent
      /\ g[n].sent = a.sent + 1
  BY <1>1, <1>2 DEF OneMore, CountsAlong
<1>4. PICK s : s = <<x>> \o m OBVIOUS
<1>5. /\ s \in Seq(Message \cup Event) /\ Len(s) = n + 1 /\ s # <<>>
      /\ s[1] = x /\ \A i \in 1 .. n : s[i + 1] = m[i]
  <2>1. <<x>> \in Seq(Message \cup Event) /\ Len(<<x>>) = 1 /\ <<x>>[1] = x OBVIOUS
  <2>. QED BY <1>2, <1>3, <1>4, <2>1, ConcatProperties
<1>6. PICK f : f = [i \in 0 .. n + 1 |-> IF i = 0 THEN a ELSE g[i - 1]] OBVIOUS
<1>7. f[0] = a /\ \A i \in 1 .. n + 1 : f[i] = g[i - 1] BY <1>6
<1>8. f \in [0 .. n + 1 -> Progress]
  <2>1. \A i \in 1 .. n + 1 : i - 1 \in 0 .. n OBVIOUS
  <2>. QED BY <1>3, <1>6, <2>1
<1>9. Counted(a, x) = a
  <2>1. a = [left |-> a.left, sent |-> a.sent] /\ a.sent + 0 = a.sent BY DEF Progress
  <2>. QED BY <2>1 DEF Counted, EventKinds
<1>10. \A i \in 1 .. n + 1 : f[i] = Counted(f[i - 1], s[i])
  <2>. SUFFICES ASSUME NEW i \in 1 .. n + 1 PROVE f[i] = Counted(f[i - 1], s[i]) OBVIOUS
  <2>1. CASE i = 1 BY <1>3, <1>5, <1>7, <1>9, <2>1
  <2>2. CASE i > 1
    <3>1. i - 1 \in 1 .. n /\ i - 1 \in 1 .. n + 1 /\ (i - 1) + 1 = i BY <2>2
    <3>2. f[i] = g[i - 1] /\ f[i - 1] = g[(i - 1) - 1] /\ s[i] = m[i - 1]
      BY <1>5, <1>7, <3>1
    <3>. QED BY <1>3, <3>1, <3>2
  <2>. QED BY <2>1, <2>2
<1>11. CountsAlong(f, s) BY <1>5, <1>8, <1>10 DEF CountsAlong
<1>12. \A i \in 0 .. Len(s) - 1 : f[i].sent = a.sent
  <2>. SUFFICES ASSUME NEW i \in 0 .. n PROVE f[i].sent = a.sent BY <1>5
  <2>1. CASE i = 0 BY <1>7, <2>1
  <2>2. CASE i > 0
    <3>1. i \in 1 .. n + 1 /\ i - 1 \in 0 .. n - 1 BY <2>2
    <3>. QED BY <1>3, <1>7, <3>1
  <2>. QED BY <2>1, <2>2
<1>13. f[Len(s)].sent = a.sent + 1
  <2>1. n + 1 \in 1 .. n + 1 /\ (n + 1) - 1 = n OBVIOUS
  <2>. QED BY <1>3, <1>5, <1>7, <2>1
<1>14. OneMore(f, a, s) BY <1>5, <1>7, <1>11, <1>12, <1>13 DEF OneMore
<1>. QED BY <1>4, <1>14

\* What completes one state adds one mark.
LEMMA MarksMore ==
    ASSUME NEW s \in Seq(Message \cup Event), NEW e, NEW c, AllMarked(c, s, e),
           NEW m, Completes(m)
    PROVE  \E d : d[0] = c[0] /\ AllMarked(d, s \o m, Append(e, Len(s \o m)))
<1>1. PICK l \in Nat : l = Len(s) OBVIOUS
<1>2. /\ c \in [0 .. l -> Progress] /\ e \in Seq(Int)
      /\ \A i \in 1 .. l : c[i] = Counted(c[i - 1], s[i])
      /\ \A i \in 0 .. l : /\ c[i].sent >= 0 /\ c[i].sent <= Len(e)
                           /\ \A k \in 1 .. Len(e) : e[k] <= i <=> k <= c[i].sent
      /\ c[l].sent = Len(e)
  BY <1>1 DEF AllMarked, Marks, CountsAlong
<1>3. PICK a \in Progress : a = c[l] BY <1>2
<1>4. PICK f : OneMore(f, a, m) BY DEF Completes
<1>5. PICK n \in Nat : n = Len(m) BY <1>4 DEF OneMore
<1>6. /\ m \in Seq(Message \cup Event) /\ f \in [0 .. n -> Progress] /\ f[0] = a /\ n >= 1
      /\ \A i \in 1 .. n : f[i] = Counted(f[i - 1], m[i])
      /\ \A i \in 0 .. n - 1 : f[i].sent = a.sent
      /\ f[n].sent = a.sent + 1
  BY <1>4, <1>5 DEF OneMore, CountsAlong
<1>7. PICK x : x = s \o m OBVIOUS
<1>8. /\ x \in Seq(Message \cup Event) /\ Len(x) = l + n
      /\ \A i \in 1 .. l : x[i] = s[i]
      /\ \A i \in 1 .. n : x[l + i] = m[i]
  BY <1>1, <1>5, <1>6, <1>7, ConcatProperties
<1>9. PICK d : d = [i \in 0 .. l + n |-> IF i <= l THEN c[i] ELSE f[i - l]] OBVIOUS
<1>10. /\ \A i \in 0 .. l : d[i] = c[i]
       /\ \A i \in 1 .. n : d[l + i] = f[i]
  BY <1>9
<1>11. \A i \in 0 .. n : d[l + i] = f[i]
  <2>1. d[l + 0] = f[0] BY <1>3, <1>6, <1>10
  <2>. QED BY <1>10, <2>1
<1>12. d \in [0 .. l + n -> Progress]
  <2>1. \A i \in 0 .. l + n : i <= l \/ i - l \in 0 .. n OBVIOUS
  <2>. QED BY <1>2, <1>6, <1>9, <2>1
<1>13. \A i \in 1 .. l + n : d[i] = Counted(d[i - 1], x[i])
  <2>. SUFFICES ASSUME NEW i \in 1 .. l + n PROVE d[i] = Counted(d[i - 1], x[i]) OBVIOUS
  <2>1. CASE i <= l
    <3>1. i \in 1 .. l /\ i \in 0 .. l /\ i - 1 \in 0 .. l BY <2>1
    <3>. QED BY <1>2, <1>8, <1>10, <3>1
  <2>2. CASE i > l
    <3>1. PICK j \in 1 .. n : i = l + j
      <4>1. i - l \in 1 .. n /\ i = l + (i - l) BY <2>2
      <4>. QED BY <4>1
    <3>2. j - 1 \in 0 .. n /\ i - 1 = l + (j - 1) /\ j \in 0 .. n BY <3>1
    <3>3. d[i] = f[j] /\ d[i - 1] = f[j - 1] /\ x[i] = m[j] BY <1>8, <1>11, <3>1, <3>2
    <3>. QED BY <1>6, <3>3
  <2>. QED BY <2>1, <2>2
<1>14. CountsAlong(d, x) BY <1>8, <1>12, <1>13 DEF CountsAlong
<1>15. PICK h : h = Append(e, l + n) OBVIOUS
<1>16. PICK z \in Nat : z = Len(e) BY <1>2
<1>17. /\ h \in Seq(Int) /\ Len(h) = z + 1 /\ h[z + 1] = l + n
       /\ \A k \in 1 .. z : h[k] = e[k]
  <2>1. l + n \in Int OBVIOUS
  <2>. QED BY <1>2, <1>15, <1>16, <2>1, AppendProperties
<1>18. \A i \in 0 .. l + n : d[i].sent = IF i <= l THEN c[i].sent
                                         ELSE IF i < l + n THEN z ELSE z + 1
  <2>. SUFFICES ASSUME NEW i \in 0 .. l + n
                PROVE  d[i].sent = IF i <= l THEN c[i].sent
                                   ELSE IF i < l + n THEN z ELSE z + 1
    OBVIOUS
  <2>1. CASE i <= l BY <1>10, <2>1
  <2>2. CASE i > l
    <3>1. PICK j \in 1 .. n : i = l + j
      <4>1. i - l \in 1 .. n /\ i = l + (i - l) BY <2>2
      <4>. QED BY <4>1
    <3>2. d[i].sent = f[j].sent BY <1>10, <3>1
    <3>3. a.sent = z BY <1>2, <1>3, <1>16
    <3>4. j < n => j \in 0 .. n - 1 OBVIOUS
    <3>. QED BY <1>6, <2>2, <3>1, <3>2, <3>3, <3>4
  <2>. QED BY <2>1, <2>2
<1>19. \A i \in 0 .. l : c[i].sent \in Int /\ c[i].sent >= 0 /\ c[i].sent <= z
  BY <1>2, <1>16 DEF Progress
<1>20. \A i \in 0 .. l + n : /\ d[i].sent >= 0 /\ d[i].sent <= z + 1
                             /\ \A k \in 1 .. z + 1 : h[k] <= i <=> k <= d[i].sent
  <2>. SUFFICES ASSUME NEW i \in 0 .. l + n
                PROVE  /\ d[i].sent >= 0 /\ d[i].sent <= z + 1
                       /\ \A k \in 1 .. z + 1 : h[k] <= i <=> k <= d[i].sent
    OBVIOUS
  <2>1. \A k \in 1 .. z : e[k] \in Int BY <1>2, <1>16
  <2>2. CASE i <= l
    <3>1. i \in 0 .. l /\ d[i].sent = c[i].sent BY <1>18, <2>2
    <3>2. \A k \in 1 .. z : h[k] <= i <=> k <= d[i].sent BY <1>2, <1>16, <1>17, <3>1
    <3>3. ~ (h[z + 1] <= i) /\ ~ (z + 1 <= d[i].sent)
      BY <1>6, <1>17, <1>19, <2>2, <3>1
    <3>4. \A k \in 1 .. z + 1 : k \in 1 .. z \/ k = z + 1 OBVIOUS
    <3>. QED BY <1>19, <3>1, <3>2, <3>3, <3>4
  <2>3. CASE i > l
    <3>1. d[i].sent = IF i < l + n THEN z ELSE z + 1 BY <1>18, <2>3
    <3>2. \A k \in 1 .. z : e[k] <= l
      <4>1. l \in 0 .. l /\ c[l].sent = z BY <1>2, <1>16
      <4>. QED BY <1>2, <1>16, <4>1
    <3>3. \A k \in 1 .. z : h[k] <= i /\ k <= d[i].sent
      <4>. SUFFICES ASSUME NEW k \in 1 .. z
                    PROVE  h[k] <= i /\ k <= d[i].sent
        OBVIOUS
      <4>1. h[k] = e[k] BY <1>17
      <4>2. e[k] \in Int /\ e[k] <= l BY <2>1, <3>2
      <4>3. h[k] <= i
        <5>1. PICK q \in Int : q = e[k] /\ q <= l BY <4>2
        <5>. QED BY <2>3, <4>1, <5>1
      <4>4. d[i].sent \in {z, z + 1} BY <3>1
      <4>5. k <= d[i].sent BY <4>4
      <4>. QED BY <4>3, <4>5, Zenon
    <3>4. h[z + 1] <= i <=> z + 1 <= d[i].sent BY <1>17, <2>3, <3>1
    <3>5. \A k \in 1 .. z + 1 : k \in 1 .. z \/ k = z + 1 OBVIOUS
    <3>. QED BY <3>1, <3>3, <3>4, <3>5
  <2>. QED BY <2>2, <2>3
<1>21. d[l + n].sent = z + 1
  <2>1. ~ (l + n <= l) /\ ~ (l + n < l + n) /\ l + n \in 0 .. l + n BY <1>6
  <2>. QED BY <1>18, <2>1
<1>22. AllMarked(d, x, h) BY <1>8, <1>14, <1>17, <1>20, <1>21 DEF AllMarked, Marks
<1>23. d[0] = c[0] BY <1>10
<1>. QED BY <1>7, <1>8, <1>15, <1>22, <1>23

\* The stream ends before its end.
LEMMA MarksPrefix ==
    ASSUME NEW s \in Seq(Message \cup Event), NEW e, NEW c, Marks(c, s, e),
           NEW n \in 0 .. Len(s)
    PROVE  \E d : d[0] = c[0] /\ Marks(d, SubSeq(s, 1, n), e)
<1>1. PICK x : x = SubSeq(s, 1, n) OBVIOUS
<1>2. n \in Nat /\ Len(x) = n /\ \A i \in 1 .. n : x[i] = s[i] BY <1>1, SubSeqProperties
<1>3. PICK d : d = [i \in 0 .. n |-> c[i]] OBVIOUS
<1>4. \A i \in 0 .. n : d[i] = c[i] /\ i \in 0 .. Len(s) BY <1>3
<1>5. d \in [0 .. n -> Progress] BY <1>3, <1>4 DEF Marks, CountsAlong
<1>6. \A i \in 1 .. n : d[i] = Counted(d[i - 1], x[i])
  <2>. SUFFICES ASSUME NEW i \in 1 .. n PROVE d[i] = Counted(d[i - 1], x[i]) OBVIOUS
  <2>1. i - 1 \in 0 .. n /\ i \in 0 .. n /\ i \in 1 .. Len(s) BY <1>2
  <2>2. c[i] = Counted(c[i - 1], s[i]) BY <2>1 DEF Marks, CountsAlong
  <2>. QED BY <1>2, <1>4, <2>1, <2>2
<1>7. CountsAlong(d, x) BY <1>2, <1>5, <1>6 DEF CountsAlong
<1>8. Marks(d, x, e) BY <1>2, <1>4, <1>7 DEF Marks
<1>9. d[0] = c[0] BY <1>2, <1>4
<1>. QED BY <1>1, <1>8, <1>9

\* The states are numbered from another one on.
Less(a, n) == [a EXCEPT !.sent = @ - n]

LEMMA LessFields ==
    ASSUME NEW a \in Progress, NEW n \in Int
    PROVE  /\ Less(a, n) \in Progress
           /\ Less(a, n) = [left |-> a.left, sent |-> a.sent - n]
           /\ Less(a, n).left = a.left /\ Less(a, n).sent = a.sent - n
BY DEF Less, Progress

LEMMA CountedLess ==
    ASSUME NEW a \in Progress, NEW b \in Progress, NEW m \in Message \cup Event,
           b = Counted(a, m), NEW n \in Int
    PROVE  Less(b, n) = Counted(Less(a, n), m)
<1>1. PICK x, y \in Int : x = a.sent /\ y = a.sent - n
  <2>1. a.sent \in Int BY DEF Progress
  <2>. QED BY <2>1
<1>2. PICK z : z = Less(a, n) OBVIOUS
<1>3. z.left = a.left /\ z.sent = y BY <1>1, <1>2, LessFields
<1>4. PICK l : l = Counted(a, m).left OBVIOUS
<1>5. l = Counted(z, m).left BY <1>3, <1>4 DEF Counted
<1>6. PICK k \in {0, 1} : b.sent = x + k /\ Counted(z, m).sent = y + k
  <2>1. PICK k : k = (IF \/ m.t \in {"hello", "accepted", "ended"}
                         \/ m.t \in EventKinds \cup {"turn"} /\ l = 0 THEN 1 ELSE 0)
    OBVIOUS
  <2>2. b.sent = x + k /\ Counted(z, m).sent = y + k
    BY <1>1, <1>3, <1>4, <1>5, <2>1 DEF Counted
  <2>3. k \in {0, 1} BY <2>1
  <2>. QED BY <2>2, <2>3
<1>7. b.sent - n = Counted(z, m).sent BY <1>1, <1>6
<1>8. Less(b, n) = [left |-> l, sent |-> b.sent - n] BY <1>4, LessFields
<1>9. Counted(z, m) = [left |-> l, sent |-> Counted(z, m).sent] BY <1>5 DEF Counted
<1>. QED BY <1>2, <1>7, <1>8, <1>9

\* S has read d elements of s and sent n states, and x and h are left.
Leaves(s, e, d, n, x, h) ==
    /\ d \in {0, 1} /\ n \in {0, 1}
    /\ d = 1 => s # <<>>
    /\ x = IF d = 1 THEN Tail(s) ELSE s
    /\ LET rest == IF n = 1 /\ e # <<>> THEN Tail(e) ELSE e
       IN  h = [k \in DOMAIN rest |-> rest[k] - d]

\* The marks go with it.
MarksOnward(c, s, e, d, n, x, h) ==
    \E f : /\ f[0] = Less(c[d], n)
           /\ Marks(f, x, h)
           /\ AllMarked(c, s, e) => AllMarked(f, x, h)

LEMMA MarksLeft ==
    ASSUME NEW s \in Seq(Message \cup Event), NEW e, NEW c, Marks(c, s, e),
           NEW d, NEW n, NEW x, NEW h, Leaves(s, e, d, n, x, h), c[d].sent >= n
    PROVE  MarksOnward(c, s, e, d, n, x, h)
<1>. SUFFICES \E f : /\ f[0] = Less(c[d], n)
                     /\ Marks(f, x, h)
                     /\ AllMarked(c, s, e) => AllMarked(f, x, h)
  BY DEF MarksOnward
<1>1. d \in {0, 1} /\ n \in {0, 1} /\ (d = 1 => s # <<>>) BY DEF Leaves
<1>2. PICK l \in Nat : l = Len(s) OBVIOUS
<1>3. /\ c \in [0 .. l -> Progress] /\ e \in Seq(Int)
      /\ \A i \in 1 .. l : c[i] = Counted(c[i - 1], s[i])
      /\ \A i \in 0 .. l : /\ c[i].sent >= 0 /\ c[i].sent <= Len(e)
                           /\ \A k \in 1 .. Len(e) : e[k] <= i <=> k <= c[i].sent
  BY <1>2 DEF Marks, CountsAlong
<1>4. d \in 0 .. l
  <2>1. s # <<>> => l # 0 BY <1>2
  <2>. QED BY <1>1, <2>1
<1>5. /\ x \in Seq(Message \cup Event) /\ Len(x) = l - d
      /\ \A i \in 1 .. l - d : x[i] = s[i + d]
  <2>1. CASE d = 1
    <3>1. x = Tail(s) /\ s # <<>> BY <1>1, <2>1 DEF Leaves
    <3>. QED BY <1>2, <2>1, <3>1, HeadTailProperties
  <2>2. CASE d = 0
    <3>1. x = s BY <2>2 DEF Leaves
    <3>. QED BY <1>2, <2>2, <3>1
  <2>. QED BY <1>1, <2>1, <2>2
<1>6. PICK z \in Nat : z = Len(e) BY <1>3
<1>7. \A i \in 0 .. l : c[i] \in Progress /\ c[i].sent \in Int BY <1>3 DEF Progress
<1>8. n = 1 => e # <<>> /\ z >= 1
  <2>. SUFFICES ASSUME n = 1 PROVE e # <<>> /\ z >= 1 OBVIOUS
  <2>1. z >= 1 BY <1>3, <1>4, <1>6, <1>7
  <2>. QED BY <1>6, <2>1
<1>9. PICK rest : rest = IF n = 1 THEN Tail(e) ELSE e OBVIOUS
<1>10. /\ rest \in Seq(Int) /\ Len(rest) = z - n
       /\ \A k \in 1 .. z - n : rest[k] = e[k + n]
  <2>1. CASE n = 1 BY <1>3, <1>6, <1>8, <1>9, <2>1, HeadTailProperties
  <2>2. CASE n = 0 BY <1>3, <1>6, <1>9, <2>2
  <2>. QED BY <1>1, <2>1, <2>2
<1>11. z - n \in Nat BY <1>1, <1>8
<1>12. h = [k \in 1 .. z - n |-> rest[k] - d]
  <2>1. h = [k \in DOMAIN rest |-> rest[k] - d] BY <1>8, <1>9 DEF Leaves
  <2>. QED BY <1>10, <2>1
<1>13. /\ h \in Seq(Int) /\ Len(h) = z - n
       /\ \A k \in 1 .. z - n : h[k] = e[k + n] - d
  <2>1. \A k \in 1 .. z - n : rest[k] - d \in Int BY <1>1, <1>10
  <2>2. h \in [1 .. z - n -> Int] BY <1>12, <2>1
  <2>3. h \in Seq(Int) /\ Len(h) = z - n BY <1>11, <2>2
  <2>. QED BY <1>10, <1>12, <2>3
<1>14. PICK f : f = [i \in 0 .. l - d |-> Less(c[i + d], n)] OBVIOUS
<1>15. \A i \in 0 .. l - d : /\ i + d \in 0 .. l
                             /\ f[i] = Less(c[i + d], n)
                             /\ f[i].sent = c[i + d].sent - n
                             /\ f[i] \in Progress
  <2>. SUFFICES ASSUME NEW i \in 0 .. l - d
                PROVE  /\ i + d \in 0 .. l
                       /\ f[i] = Less(c[i + d], n)
                       /\ f[i].sent = c[i + d].sent - n
                       /\ f[i] \in Progress
    OBVIOUS
  <2>1. i + d \in 0 .. l BY <1>4
  <2>2. f[i] = Less(c[i + d], n) BY <1>14
  <2>3. c[i + d] \in Progress /\ n \in Int BY <1>1, <1>7, <2>1
  <2>4. /\ Less(c[i + d], n).sent = c[i + d].sent - n
        /\ Less(c[i + d], n) \in Progress
    BY <2>3, LessFields
  <2>. QED BY <2>1, <2>2, <2>4
<1>16. f \in [0 .. l - d -> Progress] BY <1>14, <1>15
<1>17. \A i \in 1 .. l - d : f[i] = Counted(f[i - 1], x[i])
  <2>. SUFFICES ASSUME NEW i \in 1 .. l - d PROVE f[i] = Counted(f[i - 1], x[i]) OBVIOUS
  <2>1. /\ i \in 0 .. l - d /\ i - 1 \in 0 .. l - d
        /\ i + d \in 1 .. l /\ (i - 1) + d = (i + d) - 1
    BY <1>1, <1>4
  <2>2. PICK j \in 1 .. l : j = i + d BY <2>1
  <2>3. c[j] = Counted(c[j - 1], s[j]) BY <1>3
  <2>4. c[j] \in Progress /\ c[j - 1] \in Progress BY <1>7, <2>2
  <2>5. s[j] \in Message \cup Event BY <1>2
  <2>6. Less(c[j], n) = Counted(Less(c[j - 1], n), s[j])
    BY <1>1, <2>3, <2>4, <2>5, CountedLess
  <2>7. f[i] = Less(c[j], n) BY <1>15, <2>1, <2>2
  <2>8. f[i - 1] = Less(c[j - 1], n) BY <1>15, <2>1, <2>2
  <2>9. x[i] = s[j] BY <1>5, <2>2
  <2>. QED BY <2>6, <2>7, <2>8, <2>9
<1>18. CountsAlong(f, x) BY <1>5, <1>16, <1>17 DEF CountsAlong
<1>19. \A i \in 0 .. l - d : /\ f[i].sent >= 0 /\ f[i].sent <= z - n
                             /\ \A k \in 1 .. z - n : h[k] <= i <=> k <= f[i].sent
  <2>. SUFFICES ASSUME NEW i \in 0 .. l - d
                PROVE  /\ f[i].sent >= 0 /\ f[i].sent <= z - n
                       /\ \A k \in 1 .. z - n : h[k] <= i <=> k <= f[i].sent
    OBVIOUS
  <2>1. PICK j \in 0 .. l : j = i + d BY <1>15
  <2>2. f[i].sent = c[j].sent - n /\ c[j].sent \in Int BY <1>7, <1>15, <2>1
  <2>3. /\ c[j].sent >= 0 /\ c[j].sent <= z
        /\ \A k \in 1 .. z : e[k] <= j <=> k <= c[j].sent
    BY <1>3, <1>6
  <2>6. n = 1 => c[j].sent >= 1
    <3>. SUFFICES ASSUME n = 1 PROVE c[j].sent >= 1 OBVIOUS
    <3>1. 1 \in 1 .. z /\ e[1] \in Int BY <1>3, <1>6, <1>8
    <3>2. e[1] <= d BY <1>3, <1>4, <1>6, <3>1
    <3>3. e[1] <= j BY <1>1, <2>1, <3>1, <3>2
    <3>. QED BY <2>2, <2>3, <3>1, <3>3
  <2>7. f[i].sent >= 0 BY <1>1, <2>2, <2>3, <2>6
  <2>4. ASSUME NEW k \in 1 .. z - n PROVE h[k] <= i <=> k <= f[i].sent
    <3>1. PICK t \in 1 .. z : t = k + n BY <1>1
    <3>2. h[k] = e[t] - d /\ e[t] \in Int BY <1>3, <1>6, <1>13, <3>1
    <3>3. e[t] <= j <=> t <= c[j].sent BY <2>3
    <3>4. h[k] <= i <=> e[t] <= j BY <1>1, <2>1, <3>2
    <3>5. k <= f[i].sent <=> t <= c[j].sent BY <1>1, <2>2, <3>1
    <3>. QED BY <3>3, <3>4, <3>5
  <2>5. f[i].sent <= z - n BY <1>1, <2>2, <2>3
  <2>. QED BY <2>4, <2>5, <2>7
<1>20. Marks(f, x, h) BY <1>5, <1>13, <1>18, <1>19 DEF Marks
<1>21. f[0] = Less(c[d], n)
  <2>1. 0 \in 0 .. l - d /\ 0 + d = d BY <1>1, <1>4
  <2>. QED BY <1>15, <2>1
<1>22. AllMarked(c, s, e) => AllMarked(f, x, h)
  <2>. SUFFICES ASSUME c[l].sent = z PROVE f[l - d].sent = z - n
    BY <1>2, <1>5, <1>6, <1>13, <1>20 DEF AllMarked
  <2>1. l - d \in 0 .. l - d /\ (l - d) + d = l BY <1>1, <1>4
  <2>. QED BY <1>15, <2>1
<1>. QED BY <1>20, <1>21, <1>22

-----------------------------------------------------------------------------
(* The marks are kept.                                                     *)

\* What the steps of the server that announce a state send, or put on record.
LEMMA AnnouncingSends ==
    ASSUME BInv, IInv', Announcing
    PROVE  /\ link = "up"
           /\ connected => \E m : Completes(m) /\ down' = down \o m
           /\ ~ connected /\ stage' # "lobby" => \E m : Completes(m) /\ log' = log \o m
           /\ ~ connected /\ stage' = "lobby" => log' = <<>>
<1>. DEFINE P == /\ link = "up"
                 /\ connected => \E m : Completes(m) /\ down' = down \o m
                 /\ ~ connected /\ stage' # "lobby" =>
                        \E m : Completes(m) /\ log' = log \o m
                 /\ ~ connected /\ stage' = "lobby" => log' = <<>>
<1>1. ~ connected /\ stage = "lobby" => log = <<>>
  <2>1. PICK q : q = Views /\ ReplicaInv(q) BY DEF BInv
  <2>. QED BY <2>1 DEF ReplicaInv, Recorded
<1>2. CASE AcceptJoin \/ OtherJoins
  <2>1. PICK who \in Player : ~ LobbyFull /\ Admit(who)
    BY <1>2, SomebodyJoins
  <2>2. link = "up" /\ stage' = "lobby" /\ stage = "lobby" /\ log' = log
    BY <1>2 DEF AcceptJoin, OtherJoins
  <2>3. PICK m : m = AcceptedPlayer(Cardinality(DOMAIN joined), who) OBVIOUS
  <2>4. connected => down' = down \o <<m>> BY <2>1, <2>3 DEF Admit, Send
  <2>5. m \in Message /\ m.t = "accepted"
    <3>1. Cardinality(DOMAIN joined) \in PlayerId
      BY <2>1, LobbyCount, PlayersCountType DEF BInv, IInv, ServerInv, LobbyFull, PlayerId
    <3>. QED BY <2>3, <3>1 DEF AcceptedPlayer, Message
  <2>6. Completes(<<m>>) BY <2>5, CompletesOne
  <2>. QED BY <1>1, <2>2, <2>4, <2>6
<1>3. CASE StartGame
  <2>1. PICK at \in [PlayerId -> Cell], b \in [1 .. InitialBlocks -> Cell] :
           LET list == TurnZero(at, b)
               msg  == <<Turn(0, Len(list))>> \o list
           IN  /\ Send(<<GameStarted(joined)>> \o msg)
               /\ log' = (IF connected THEN <<>> ELSE msg)
    BY <1>3 DEF StartGame, TurnZero
  <2>2. PICK list : list = TurnZero(at, b) OBVIOUS
  <2>3. PICK s : s = <<Turn(0, Len(list))>> \o list OBVIOUS
  <2>4. Completes(s) BY <2>2, <2>3, TurnZeroEvents, CompletesTurn
  <2>5. GameStarted(joined) \in Message /\ GameStarted(joined).t = "started"
    BY DEF GameStarted, Message, BInv, IInv, ServerInv, ServerOK
  <2>6. Completes(<<GameStarted(joined)>> \o s) BY <2>4, <2>5, CompletesAfter
  <2>7. connected => down' = down \o (<<GameStarted(joined)>> \o s)
    BY <2>1, <2>2, <2>3 DEF Send
  <2>8. ~ connected => log' = log \o s
    <3>. SUFFICES ASSUME ~ connected PROVE log' = log \o s OBVIOUS
    <3>1. log = <<>> /\ log' = s BY <1>1, <1>3, <2>1, <2>2, <2>3 DEF StartGame
    <3>2. s \in Seq(Message \cup Event)
      <4>1. Beginning \in Progress BY DEF Beginning, Progress
      <4>. QED BY <2>4, <4>1 DEF Completes, OneMore
    <3>. QED BY <3>1, <3>2
  <2>9. link = "up" /\ stage' = "idle" BY <1>3 DEF StartGame, CanSend
  <2>. QED BY <2>4, <2>6, <2>7, <2>8, <2>9
<1>4. CASE EndTurn
  <2>1. PICK s : s = <<Turn(turn + 1, Len(events))>> \o events OBVIOUS
  <2>2. /\ link = "up" /\ stage' = "idle"
        /\ connected => down' = down \o s
        /\ ~ connected => log' = log \o s
    BY <1>4, <2>1 DEF EndTurn, SendTurn, Send
  <2>3. turn + 1 \in Nat /\ events \in Seq(Event) BY DEF BInv, IInv, ServerInv, ServerOK
  <2>4. Completes(s) BY <2>1, <2>3, CompletesTurn
  <2>. QED BY <2>2, <2>4
<1>5. CASE EndGame
  <2>1. link = "up" /\ stage' = "lobby" /\ log' = <<>> BY <1>5 DEF EndGame
  <2>2. connected => down' = down \o <<GameEnded>> BY <1>5 DEF EndGame, Send
  <2>3. GameEnded \in Message /\ GameEnded.t = "ended" BY DEF GameEnded, Message
  <2>4. Completes(<<GameEnded>>) BY <2>3, CompletesOne
  <2>. QED BY <2>1, <2>2, <2>4
<1>6. P BY <1>2, <1>3, <1>4, <1>5 DEF Announcing
<1>. QED BY <1>6

\* Nothing has been sent and nothing is on record.
LEMMA MarksNone == \E c : c[0] = Beginning /\ AllMarked(c, <<>>, <<>>)
<1>1. PICK c : c = [i \in 0 .. 0 |-> Beginning] OBVIOUS
<1>2. PICK s, e : s = <<>> /\ e = <<>> OBVIOUS
<1>3. Len(s) = 0 /\ Len(e) = 0 /\ e \in Seq(Int) BY <1>2
<1>4. c[0] = Beginning /\ Beginning \in Progress /\ Beginning.sent = 0
  BY <1>1 DEF Beginning, Progress
<1>5. CountsAlong(c, s) BY <1>1, <1>3, <1>4 DEF CountsAlong
<1>6. \A i \in 0 .. Len(s) : i = 0 BY <1>3
<1>7. AllMarked(c, s, e) BY <1>3, <1>4, <1>5, <1>6 DEF AllMarked, Marks
<1>. QED BY <1>2, <1>4, <1>7

LEMMA EndsServer ==
    ASSUME BInv, BInv', EndsInv, ServerSide PROVE EndsInv'
<1>1. /\ connected' = connected
      /\ ends' = IF ~ connected /\ stage' = "lobby" THEN <<>>
                 ELSE IF Announces THEN Append(ends, Len(IF connected THEN down' ELSE log'))
                 ELSE ends
  BY ConnectedKept DEF ServerSide, ServerRuns
<1>2. UNCHANGED <<sPc, left, proc>> BY DEF ServerSide, ServerRuns, clientVars, gameVars
<1>3. Present' = Present BY <1>2 DEF Present
<1>4. CASE Announcing
  <2>1. IInv' /\ BoardInv' BY DEF BInv, ReplicaInv
  <2>2. Announces BY <1>4, <2>1, AnnouncingAnnounces
  <2>3. /\ link = "up"
        /\ connected => \E m : Completes(m) /\ down' = down \o m
        /\ ~ connected /\ stage' # "lobby" => \E m : Completes(m) /\ log' = log \o m
        /\ ~ connected /\ stage' = "lobby" => log' = <<>>
    BY <1>4, <2>1, AnnouncingSends
  <2>4. down \in Seq(Message \cup Event) /\ log \in Seq(Message \cup Event)
    BY DEF BInv, IInv, WireOK, ServerInv, ServerOK
  <2>5. ASSUME connected, proc = "running"
        PROVE  \E d : d[0] = Present /\ AllMarked(d, down', ends')
    <3>1. PICK c : c[0] = Present /\ AllMarked(c, down, ends) BY <2>3, <2>5 DEF EndsInv
    <3>2. PICK m : Completes(m) /\ down' = down \o m BY <2>3, <2>5
    <3>3. \E d : d[0] = c[0] /\ AllMarked(d, down \o m, Append(ends, Len(down \o m)))
      BY <2>4, <3>1, <3>2, MarksMore
    <3>4. ends' = Append(ends, Len(down \o m)) BY <1>1, <2>2, <2>5, <3>2
    <3>. QED BY <3>1, <3>2, <3>3, <3>4
  <2>6. ASSUME ~ connected, stage' # "lobby"
        PROVE  \E d : d[0] = Beginning /\ AllMarked(d, log', ends')
    <3>1. PICK c : c[0] = Beginning /\ AllMarked(c, log, ends) BY <2>6 DEF EndsInv
    <3>2. PICK m : Completes(m) /\ log' = log \o m BY <2>3, <2>6
    <3>3. \E d : d[0] = c[0] /\ AllMarked(d, log \o m, Append(ends, Len(log \o m)))
      BY <2>4, <3>1, <3>2, MarksMore
    <3>4. ends' = Append(ends, Len(log \o m)) BY <1>1, <2>2, <2>6, <3>2
    <3>. QED BY <3>1, <3>2, <3>3, <3>4
  <2>7. ASSUME ~ connected, stage' = "lobby"
        PROVE  /\ \E d : d[0] = Beginning /\ AllMarked(d, log', ends')
               /\ ends' = <<>>
    <3>1. log' = <<>> /\ ends' = <<>> BY <1>1, <2>3, <2>7
    <3>. QED BY <3>1, MarksNone
  <2>8. ASSUME connected', proc' = "running"
        PROVE  \E d : /\ d[0] = Present' /\ Marks(d, down', ends')
                      /\ link' = "up" => AllMarked(d, down', ends')
    BY <1>1, <1>2, <1>3, <2>5, <2>8 DEF AllMarked
  <2>9. ASSUME ~ connected' PROVE \E d : d[0] = Beginning /\ AllMarked(d, log', ends')
    BY <1>1, <2>6, <2>7, <2>9
  <2>10. ~ connected' /\ stage' = "lobby" => ends' = <<>> BY <1>1
  <2>. QED BY <2>8, <2>9, <2>10 DEF EndsInv, Beginning, AllMarked, Marks, CountsAlong
<1>5. CASE \/ AcceptCommand \/ IgnoreRequest
           \/ BeginTurn \/ ExplodeNextBomb \/ BombsDone \/ Respawn \/ Act
  <2>1. UNCHANGED <<down, link, log>> /\ ~ Announces /\ (stage' = "lobby" => stage = "lobby")
    <3>1. CASE AcceptCommand \/ IgnoreRequest
      BY <3>1 DEF AcceptCommand, IgnoreRequest, serverVars, Announces
    <3>2. CASE BeginTurn \/ ExplodeNextBomb \/ BombsDone
      BY <3>2 DEF BeginTurn, ExplodeNextBomb, BombsDone, wireVars, Announces
    <3>3. CASE Respawn \/ Act
      <4>1. \E moved, event : MyTurn(moved, event)
        BY <3>3 DEF Respawn, Act, Rests, PlacesBomb, PlacesBlock, Moves
      <4>. QED BY <4>1 DEF MyTurn, wireVars, Announces
    <3>. QED BY <1>5, <3>1, <3>2, <3>3
  <2>2. ends' = ends BY <1>1, <2>1 DEF EndsInv
  <2>. QED BY <1>1, <1>2, <1>3, <2>1, <2>2 DEF EndsInv, AllMarked, Marks, CountsAlong, Beginning
<1>. QED BY <1>4, <1>5 DEF ServerSide, ServerRuns, ServerStep, Announcing

\* A client that comes late to the lobby: a message for each state.
LEMMA EndsLobby ==
    ASSUME NEW n \in Nat, NEW s \in Seq(Message \cup Event), Len(s) = n,
           \A i \in 1 .. n : s[i].t \in {"hello", "accepted"},
           NEW e, e = [k \in 1 .. n |-> k]
    PROVE  \E c : c[0] = Beginning /\ AllMarked(c, s, e)
<1>1. PICK c : c = [i \in 0 .. n |-> [left |-> 0, sent |-> i]] OBVIOUS
<1>2. \A i \in 0 .. n : /\ c[i] = [left |-> 0, sent |-> i]
                        /\ c[i].left = 0 /\ c[i].sent = i /\ c[i] \in Progress
  BY <1>1 DEF Progress
<1>3. c \in [0 .. n -> Progress] BY <1>1, <1>2
<1>4. \A i \in 1 .. n : c[i] = Counted(c[i - 1], s[i])
  <2>. SUFFICES ASSUME NEW i \in 1 .. n PROVE c[i] = Counted(c[i - 1], s[i]) OBVIOUS
  <2>1. i - 1 \in 0 .. n /\ i \in 0 .. n /\ (i - 1) + 1 = i OBVIOUS
  <2>2. s[i].t \in {"hello", "accepted"} OBVIOUS
  <2>3. s[i].t # "turn" /\ s[i].t \notin EventKinds BY <2>2 DEF EventKinds
  <2>4. Counted(c[i - 1], s[i]) = [left |-> c[i - 1].left, sent |-> c[i - 1].sent + 1]
    BY <2>2, <2>3 DEF Counted
  <2>5. c[i - 1].left = 0 /\ c[i - 1].sent + 1 = i BY <1>2, <2>1
  <2>6. c[i] = [left |-> 0, sent |-> i] BY <1>2, <2>1
  <2>. QED BY <2>4, <2>5, <2>6
<1>5. CountsAlong(c, s) BY <1>3, <1>4 DEF CountsAlong
<1>6. e \in Seq(Int) /\ Len(e) = n /\ \A k \in 1 .. n : e[k] = k
  <2>1. PICK g : g = [k \in 1 .. n |-> k] OBVIOUS
  <2>2. g \in [1 .. n -> Int] BY <2>1
  <2>3. g \in Seq(Int) /\ Len(g) = n /\ \A k \in 1 .. n : g[k] = k BY <2>1, <2>2
  <2>4. e = g BY <2>1
  <2>. QED BY <2>3, <2>4
<1>7. Marks(c, s, e)
  <2>1. \A i \in 0 .. n : /\ c[i].sent >= 0 /\ c[i].sent <= n
                          /\ \A k \in 1 .. n : e[k] <= i <=> k <= c[i].sent
    <3>. SUFFICES ASSUME NEW i \in 0 .. n
                  PROVE  /\ c[i].sent >= 0 /\ c[i].sent <= n
                         /\ \A k \in 1 .. n : e[k] <= i <=> k <= c[i].sent
      OBVIOUS
    <3>1. c[i].sent = i BY <1>2
    <3>2. \A k \in 1 .. n : e[k] = k BY <1>6
    <3>3. \A k \in 1 .. n : e[k] <= i <=> k <= c[i].sent BY <3>1, <3>2
    <3>. QED BY <3>1, <3>3
  <2>. QED BY <1>5, <1>6, <2>1 DEF Marks
<1>8. AllMarked(c, s, e) /\ c[0] = Beginning
  <2>1. n \in 0 .. n /\ 0 \in 0 .. n OBVIOUS
  <2>2. c[n].sent = n /\ c[0] = [left |-> 0, sent |-> 0] BY <1>2, <2>1
  <2>. QED BY <1>6, <1>7, <2>2 DEF AllMarked, Beginning
<1>. QED BY <1>8

\* A client that comes late to a game: Hello, GameStarted, and the log.
LEMMA EndsGame ==
    ASSUME NEW s \in Seq(Message \cup Event), NEW e, NEW c,
           c[0] = Beginning, AllMarked(c, s, e),
           NEW x \in Message, x.t = "hello", NEW y \in Message, y.t = "started",
           NEW h, h = << 1 >> \o [k \in DOMAIN e |-> e[k] + 2]
    PROVE  \E d : d[0] = Beginning /\ AllMarked(d, <<x, y>> \o s, h)
<1>1. PICK l \in Nat : l = Len(s) OBVIOUS
<1>2. /\ c \in [0 .. l -> Progress] /\ e \in Seq(Int)
      /\ \A i \in 1 .. l : c[i] = Counted(c[i - 1], s[i])
      /\ \A i \in 0 .. l : /\ c[i].sent >= 0 /\ c[i].sent <= Len(e)
                           /\ \A k \in 1 .. Len(e) : e[k] <= i <=> k <= c[i].sent
      /\ c[l].sent = Len(e)
  BY <1>1 DEF AllMarked, Marks, CountsAlong
<1>3. PICK z \in Nat : z = Len(e) BY <1>2
<1>4. \A k \in 1 .. z : e[k] \in Int /\ e[k] > 0
  <2>. SUFFICES ASSUME NEW k \in 1 .. z PROVE e[k] \in Int /\ e[k] > 0 OBVIOUS
  <2>1. e[k] \in Int BY <1>2, <1>3
  <2>2. 0 \in 0 .. l /\ c[0].sent = 0 BY DEF Beginning
  <2>3. e[k] <= 0 <=> k <= 0 BY <1>2, <1>3, <2>2
  <2>. QED BY <2>1, <2>3
<1>5. PICK w : w = <<x, y>> \o s OBVIOUS
<1>6. /\ w \in Seq(Message \cup Event) /\ Len(w) = l + 2
      /\ w[1] = x /\ w[2] = y /\ \A i \in 1 .. l : w[i + 2] = s[i]
  <2>1. /\ <<x, y>> \in Seq(Message \cup Event) /\ Len(<<x, y>>) = 2
        /\ <<x, y>>[1] = x /\ <<x, y>>[2] = y
    OBVIOUS
  <2>. QED BY <1>1, <1>5, <2>1, ConcatProperties
<1>7. /\ h \in Seq(Int) /\ Len(h) = z + 1 /\ h[1] = 1
      /\ \A k \in 1 .. z : h[k + 1] = e[k] + 2
  <2>1. PICK g : g = [k \in 1 .. z |-> e[k] + 2] OBVIOUS
  <2>2. g \in [1 .. z -> Int] BY <1>4, <2>1
  <2>3. g \in Seq(Int) /\ Len(g) = z BY <2>2
  <2>4. h = <<1>> \o g
    <3>1. DOMAIN e = 1 .. z BY <1>2, <1>3
    <3>. QED BY <2>1, <3>1
  <2>5. \A q : q = <<1>> \o g => /\ q \in Seq(Int) /\ Len(q) = z + 1 /\ q[1] = 1
                                 /\ \A k \in 1 .. z : q[k + 1] = g[k]
    BY <2>3, MarkBefore
  <2>6. h \in Seq(Int) /\ Len(h) = z + 1 /\ h[1] = 1 /\ \A k \in 1 .. z : h[k + 1] = g[k]
    BY <2>4, <2>5, Zenon
  <2>7. \A k \in 1 .. z : h[k + 1] = e[k] + 2
    <3>. SUFFICES ASSUME NEW k \in 1 .. z PROVE h[k + 1] = e[k] + 2 OBVIOUS
    <3>1. g[k] = e[k] + 2 BY <2>1
    <3>2. h[k + 1] = g[k] BY <2>6
    <3>. QED BY <3>1, <3>2
  <2>. QED BY <2>6, <2>7
<1>8. PICK b : b = [left |-> 0, sent |-> 1] OBVIOUS
<1>9. PICK d : d = [i \in 0 .. l + 2 |-> IF i = 0 THEN Beginning
                                        ELSE IF i = 1 THEN b ELSE Less(c[i - 2], -1)]
  OBVIOUS
<1>10. d[0] = Beginning /\ d[1] = b /\ \A i \in 0 .. l : d[i + 2] = Less(c[i], -1)
  BY <1>9
<1>11. \A i \in 0 .. l : /\ c[i] \in Progress /\ c[i].sent \in Int
                         /\ Less(c[i], -1) \in Progress
                         /\ Less(c[i], -1).sent = c[i].sent + 1
  <2>. SUFFICES ASSUME NEW i \in 0 .. l
                PROVE  /\ c[i] \in Progress /\ c[i].sent \in Int
                       /\ Less(c[i], -1) \in Progress
                       /\ Less(c[i], -1).sent = c[i].sent + 1
    OBVIOUS
  <2>1. c[i] \in Progress /\ c[i].sent \in Int BY <1>2 DEF Progress
  <2>2. PICK n \in Int : n = -1 OBVIOUS
  <2>3. Less(c[i], n) \in Progress /\ Less(c[i], n).sent = c[i].sent - n
    BY <2>1, LessFields
  <2>4. c[i].sent - n = c[i].sent + 1 BY <2>1, <2>2
  <2>. QED BY <2>1, <2>2, <2>3, <2>4
<1>12. d[2] = b
  <2>1. 0 \in 0 .. l /\ 0 + 2 = 2 /\ 0 - (-1) = 1 OBVIOUS
  <2>2. c[0] = Beginning /\ c[0].left = 0 /\ c[0].sent = 0 BY DEF Beginning
  <2>3. c[0] \in Progress BY <1>11, <2>1
  <2>4. PICK n \in Int : n = -1 OBVIOUS
  <2>7. Less(c[0], n) = [left |-> 0, sent |-> 0 - n] BY <2>2, <2>3, LessFields
  <2>5. Less(c[0], -1) = [left |-> 0, sent |-> 1]
    <3>1. 0 - n = 1 BY <2>4
    <3>. QED BY <2>4, <2>7, <3>1
  <2>6. d[0 + 2] = Less(c[0], -1) BY <1>10, <2>1
  <2>. QED BY <1>8, <2>1, <2>5, <2>6
<1>13. d \in [0 .. l + 2 -> Progress]
  <2>1. Beginning \in Progress /\ b \in Progress BY <1>8 DEF Beginning, Progress
  <2>2. \A i \in 0 .. l + 2 : i = 0 \/ i = 1 \/ i - 2 \in 0 .. l OBVIOUS
  <2>. QED BY <1>9, <1>11, <2>1, <2>2
<1>14. \A i \in 1 .. l + 2 : d[i] = Counted(d[i - 1], w[i])
  <2>. SUFFICES ASSUME NEW i \in 1 .. l + 2 PROVE d[i] = Counted(d[i - 1], w[i]) OBVIOUS
  <2>1. CASE i = 1
    <3>1. i - 1 = 0 BY <2>1
    <3>2. Counted(Beginning, x) = b BY <1>8 DEF Counted, Beginning, EventKinds
    <3>. QED BY <1>6, <1>10, <2>1, <3>1, <3>2
  <2>2. CASE i = 2
    <3>1. i - 1 = 1 BY <2>2
    <3>2. Counted(b, y) = b BY <1>8 DEF Counted, EventKinds
    <3>. QED BY <1>6, <1>10, <1>12, <2>2, <3>1, <3>2
  <2>3. CASE i > 2
    <3>1. PICK j \in 1 .. l : j = i - 2 BY <2>3
    <3>2. /\ j \in 0 .. l /\ j - 1 \in 0 .. l /\ i = j + 2 /\ i - 1 = (j - 1) + 2
          /\ -1 \in Int
      BY <3>1
    <3>3. c[j] \in Progress /\ c[j - 1] \in Progress /\ c[j] = Counted(c[j - 1], s[j])
      BY <1>2, <1>11, <3>2
    <3>4. s[j] \in Message \cup Event BY <1>1
    <3>5. Less(c[j], -1) = Counted(Less(c[j - 1], -1), s[j])
      BY <3>2, <3>3, <3>4, CountedLess
    <3>6. d[i] = Less(c[j], -1) /\ d[i - 1] = Less(c[j - 1], -1) /\ w[i] = s[j]
      BY <1>6, <1>10, <3>2
    <3>. QED BY <3>5, <3>6
  <2>. QED BY <2>1, <2>2, <2>3
<1>15. CountsAlong(d, w) BY <1>6, <1>13, <1>14 DEF CountsAlong
<1>16. \A i \in 0 .. l + 2 :
          d[i].sent = IF i = 0 THEN 0 ELSE IF i = 1 THEN 1 ELSE c[i - 2].sent + 1
  <2>. SUFFICES ASSUME NEW i \in 0 .. l + 2
                PROVE  d[i].sent = IF i = 0 THEN 0 ELSE IF i = 1 THEN 1
                                   ELSE c[i - 2].sent + 1
    OBVIOUS
  <2>1. CASE i = 0 BY <1>10, <2>1 DEF Beginning
  <2>2. CASE i = 1 BY <1>8, <1>10, <2>2
  <2>3. CASE i > 1
    <3>1. PICK j \in 0 .. l : j = i - 2 BY <2>3
    <3>2. i = j + 2 BY <3>1
    <3>3. d[i].sent = c[j].sent + 1 BY <1>10, <1>11, <3>2
    <3>. QED BY <2>3, <3>1, <3>3
  <2>. QED BY <2>1, <2>2, <2>3
<1>17. \A i \in 0 .. l + 2 : /\ d[i].sent >= 0 /\ d[i].sent <= z + 1
                             /\ \A k \in 1 .. z + 1 : h[k] <= i <=> k <= d[i].sent
  <2>. SUFFICES ASSUME NEW i \in 0 .. l + 2
                PROVE  /\ d[i].sent >= 0 /\ d[i].sent <= z + 1
                       /\ \A k \in 1 .. z + 1 : h[k] <= i <=> k <= d[i].sent
    OBVIOUS
  <2>1. \A k \in 1 .. z + 1 : k = 1 \/ k - 1 \in 1 .. z OBVIOUS
  <2>2. \A k \in 1 .. z + 1 : k # 1 => h[k] = e[k - 1] + 2
    <3>1. \A k \in 1 .. z + 1 : k # 1 => k - 1 \in 1 .. z /\ (k - 1) + 1 = k OBVIOUS
    <3>. QED BY <1>7, <3>1
  <2>3. \A k \in 1 .. z + 1 : k # 1 => e[k - 1] \in Int /\ e[k - 1] > 0
    BY <1>4, <2>1
  <2>4. CASE i = 0
    <3>1. d[i].sent = 0 BY <1>16, <2>4
    <3>. QED BY <1>7, <2>2, <2>3, <2>4, <3>1
  <2>5. CASE i = 1
    <3>1. d[i].sent = 1 BY <1>16, <2>5
    <3>. QED BY <1>7, <2>2, <2>3, <2>5, <3>1
  <2>6. CASE i > 1
    <3>1. PICK j \in 0 .. l : j = i - 2 BY <2>6
    <3>2. d[i].sent = c[j].sent + 1 /\ c[j].sent \in Int BY <1>11, <1>16, <2>6, <3>1
    <3>3. /\ c[j].sent >= 0 /\ c[j].sent <= z
          /\ \A k \in 1 .. z : e[k] <= j <=> k <= c[j].sent
      BY <1>2, <1>3
    <3>5. ASSUME NEW k \in 1 .. z + 1, k # 1 PROVE h[k] <= i <=> k <= d[i].sent
      <4>1. PICK t \in 1 .. z : t = k - 1 BY <2>1, <3>5
      <4>2. h[k] = e[t] + 2 /\ e[t] \in Int BY <2>2, <2>3, <3>5, <4>1
      <4>3. e[t] <= j <=> t <= c[j].sent BY <3>3
      <4>4. h[k] <= i <=> e[t] <= j
        <5>1. PICK u \in Int : u = e[t] BY <4>2
        <5>2. h[k] = u + 2 BY <4>2, <5>1
        <5>4. i = j + 2 BY <3>1
        <5>3. u + 2 <= j + 2 <=> u <= j OBVIOUS
        <5>. QED BY <5>1, <5>2, <5>3, <5>4
      <4>5. k <= d[i].sent <=> t <= c[j].sent BY <3>2, <4>1
      <4>. QED BY <4>3, <4>4, <4>5
    <3>6. h[1] <= i /\ 1 <= d[i].sent BY <1>7, <2>6, <3>2, <3>3
    <3>7. d[i].sent >= 0 /\ d[i].sent <= z + 1 BY <3>2, <3>3
    <3>8. \A k \in 1 .. z + 1 : h[k] <= i <=> k <= d[i].sent BY <3>5, <3>6
    <3>. QED BY <3>7, <3>8
  <2>7. i = 0 \/ i = 1 \/ i > 1 OBVIOUS
  <2>. QED BY <2>4, <2>5, <2>6, <2>7
<1>18. d[l + 2].sent = z + 1
  <2>1. l + 2 \in 0 .. l + 2 /\ ~ (l + 2 = 0) /\ ~ (l + 2 = 1) /\ (l + 2) - 2 = l OBVIOUS
  <2>. QED BY <1>2, <1>3, <1>16, <2>1
<1>19. Marks(d, w, h) BY <1>6, <1>7, <1>15, <1>17 DEF Marks
<1>20. AllMarked(d, w, h) BY <1>6, <1>7, <1>18, <1>19 DEF AllMarked
<1>. QED BY <1>5, <1>10, <1>20

LEMMA EndsConnect ==
    ASSUME BInv, EndsInv, ComesLate PROVE EndsInv'
<1>1. /\ link' = "up" /\ connected' /\ ~ connected
      /\ down' = <<Hello>> \o (IF stage = "lobby" THEN Roster
                               ELSE <<GameStarted(joined)>> \o log)
      /\ UNCHANGED <<sPc, left, proc>>
      /\ ends' = IF stage = "lobby" THEN [k \in 1 .. Cardinality(DOMAIN joined) + 1 |-> k]
                 ELSE <<1>> \o [k \in DOMAIN ends |-> ends[k] + 2]
  BY DEF ComesLate, Connect, clientVars, gameVars
<1>2. Present' = Beginning
  <2>1. sPc = "code" /\ left = 0
    <3>1. PICK q : q = Views /\ ReplicaInv(q) BY DEF BInv
    <3>. QED BY <1>1, <3>1 DEF ReplicaInv, Recorded
  <2>. QED BY <1>1, <2>1 DEF Present, Beginning
<1>3. Hello \in Message /\ Hello.t = "hello" BY DEF Hello, Message
<1>4. \E d : d[0] = Beginning /\ AllMarked(d, down', ends')
  <2>1. CASE stage = "lobby"
    <3>1. PICK n \in Nat : n = Cardinality(DOMAIN joined)
      BY LobbyCount, PlayersCountType DEF BInv, IInv, ServerInv
    <3>2. PICK w : w = Roster OBVIOUS
    <3>3. w \in Seq(Message \cup Event)
      BY <3>2, RosterType DEF BInv, IInv, ServerInv
    <3>4. Len(w) = n /\ \A i \in 1 .. n : w[i].t = "accepted"
      BY <3>1, <3>2 DEF Roster, AcceptedPlayer
    <3>5. PICK o \in Message \cup Event : o = Hello BY <1>3
    <3>6. o.t = "hello" BY <1>3, <3>5
    <3>7. PICK s : s = <<o>> \o w OBVIOUS
    <3>8. /\ s \in Seq(Message \cup Event) /\ Len(s) = n + 1 /\ s[1] = o
          /\ \A i \in 1 .. n : s[i + 1] = w[i]
      BY <3>3, <3>4, <3>7, OneBefore
    <3>9. PICK z \in Nat : z = n + 1 OBVIOUS
    <3>10. \A i \in 1 .. z : s[i].t \in {"hello", "accepted"}
      <4>. SUFFICES ASSUME NEW i \in 1 .. z PROVE s[i].t \in {"hello", "accepted"} OBVIOUS
      <4>1. CASE i = 1 BY <3>6, <3>8, <4>1
      <4>2. CASE i > 1
        <5>1. PICK j \in 1 .. n : i = j + 1
          <6>1. i - 1 \in 1 .. n /\ i = (i - 1) + 1 BY <3>9, <4>2
          <6>. QED BY <6>1
        <5>. QED BY <3>4, <3>8, <5>1
      <4>. QED BY <4>1, <4>2
    <3>11. PICK e : e = [k \in 1 .. z |-> k] OBVIOUS
    <3>12. Len(s) = z BY <3>8, <3>9
    <3>13. \E d : d[0] = Beginning /\ AllMarked(d, s, e)
      BY <3>8, <3>10, <3>11, <3>12, EndsLobby
    <3>14. s = down' /\ e = ends' BY <1>1, <2>1, <3>1, <3>2, <3>5, <3>7, <3>9, <3>11
    <3>. QED BY <3>13, <3>14
  <2>2. CASE stage # "lobby"
    <3>1. PICK c : c[0] = Beginning /\ AllMarked(c, log, ends) BY <1>1 DEF EndsInv
    <3>2. PICK m : m = GameStarted(joined) OBVIOUS
    <3>3. m \in Message /\ m.t = "started"
      BY <3>2 DEF GameStarted, Message, BInv, IInv, ServerInv, ServerOK
    <3>4. log \in Seq(Message \cup Event) BY DEF BInv, IInv, ServerInv, ServerOK
    <3>5. PICK h : h = <<1>> \o [k \in DOMAIN ends |-> ends[k] + 2] OBVIOUS
    <3>6. \E d : d[0] = Beginning /\ AllMarked(d, <<Hello, m>> \o log, h)
      BY <1>3, <3>1, <3>3, <3>4, <3>5, EndsGame
    <3>7. <<Hello, m>> \o log = <<Hello>> \o (<<m>> \o log)
      BY <1>3, <3>3, <3>4
    <3>8. down' = <<Hello, m>> \o log BY <1>1, <2>2, <3>2, <3>7
    <3>9. h = ends' BY <1>1, <2>2, <3>5
    <3>. QED BY <3>6, <3>8, <3>9
  <2>. QED BY <2>1, <2>2
<1>. QED BY <1>1, <1>2, <1>4 DEF EndsInv, AllMarked, Marks, CountsAlong

\* Nothing that the marks are about changes, or the stream ends.
LEMMA EndsOthers ==
    ASSUME IInv, EndsInv, Others PROVE EndsInv'
<1>1. UNCHANGED <<connected, stage, log, ends>> BY DEF Others, Input, G, Failure, GuiCloses,
    ReceiveInput, ParseInput, SendRequest, CloseConnection, BreakConnection, StreamEnds,
    serverVars
<1>2. Present' = Present /\ (proc' = "running" => proc = "running")
  BY DEF Others, Input, G, Failure, GuiCloses, ReceiveInput, ParseInput, SendRequest,
         CloseConnection, BreakConnection, clientVars, gameVars, Present
<1>3. CASE down' = down /\ (link' = "up" => link = "up")
  BY <1>1, <1>2, <1>3 DEF EndsInv, AllMarked, Marks, CountsAlong, Beginning
<1>4. CASE \E how \in {"fin", "rst"} : StreamEnds(how)
  <2>1. link' # "up" /\ \E k \in 0 .. Len(down) : down' = SubSeq(down, 1, k)
    BY <1>4 DEF StreamEnds
  <2>2. PICK k \in 0 .. Len(down) : down' = SubSeq(down, 1, k) BY <2>1
  <2>3. down \in Seq(Message \cup Event) BY DEF IInv, WireOK
  <2>4. ASSUME connected, proc = "running"
        PROVE  \E d : d[0] = Present /\ Marks(d, down', ends)
    <3>1. PICK c : c[0] = Present /\ Marks(c, down, ends) BY <2>4 DEF EndsInv
    <3>2. \E d : d[0] = c[0] /\ Marks(d, SubSeq(down, 1, k), ends)
      BY <2>3, <3>1, MarksPrefix
    <3>. QED BY <2>2, <3>1, <3>2
  <2>. QED BY <1>1, <1>2, <2>1, <2>4 DEF EndsInv, AllMarked, Marks, CountsAlong, Beginning
<1>5. \/ down' = down /\ (link' = "up" => link = "up")
      \/ \E how \in {"fin", "rst"} : StreamEnds(how)
  BY DEF Others, Input, G, Failure, GuiCloses, ReceiveInput, ParseInput, SendRequest,
         CloseConnection, BreakConnection, wireVars
<1>. QED BY <1>3, <1>4, <1>5

\* Thread S reads an element or finishes a turn, and sends a state or not.
LEMMA EndsClient ==
    ASSUME BInv, EndsInv, ClientSide PROVE EndsInv'
<1>1. /\ connected /\ connected' /\ ThreadS /\ link' = link
  BY DEF ClientSide, S, serverVars, ThreadS, ReadEmptyString, HandleHello,
         HandleAcceptedPlayer, HandleGameStarted, BeginTurnMsg, HandleBombPlaced,
         HandleBombExploded, HandlePlayerMoved, HandleBlockPlaced, FinishTurnMsg,
         HandleGameEnded, ServerGone, Read, ReadEvent, wireVars
<1>. SUFFICES ASSUME proc' = "running"
              PROVE  \E f : /\ f[0] = Present' /\ Marks(f, down', ends')
                            /\ link' = "up" => AllMarked(f, down', ends')
  BY <1>1 DEF EndsInv, AllMarked, Marks, CountsAlong
<1>2. ~ ReadEmptyString /\ ~ ServerGone BY DEF ReadEmptyString, ServerGone, Die
<1>3. proc = "running"
  BY <1>1, <1>2 DEF ThreadS, HandleHello, HandleAcceptedPlayer, HandleGameStarted,
     BeginTurnMsg, HandleBombPlaced, HandleBombExploded, HandlePlayerMoved,
     HandleBlockPlaced, FinishTurnMsg, HandleGameEnded, Read, ReadEvent
<1>4. PICK c : /\ c[0] = Present /\ Marks(c, down, ends)
               /\ link = "up" => AllMarked(c, down, ends)
  BY <1>1, <1>3 DEF EndsInv
<1>5. down \in Seq(Message \cup Event) /\ left \in Nat /\ sPc \in {"code", "events"}
  BY DEF BInv, IInv, WireOK, ClientOK
<1>6. PICK s, m : s = down /\ m = Head(down) OBVIOUS
<1>7. PICK z : z = Present' OBVIOUS
<1>8. ASSUME NEW d \in {0, 1}, NEW n \in {0, 1}, NEW h,
             Leaves(s, ends, d, n, down', h), ends' = h,
             c[d].sent >= n, z = Less(c[d], n)
      PROVE  \E f : /\ f[0] = Present' /\ Marks(f, down', ends')
                    /\ link' = "up" => AllMarked(f, down', ends')
  <2>1. \E f : /\ f[0] = Less(c[d], n) /\ Marks(f, down', h)
               /\ AllMarked(c, s, ends) => AllMarked(f, down', h)
    <3>1. PICK e, x : e = ends /\ x = down' OBVIOUS
    <3>2. s \in Seq(Message \cup Event) /\ Marks(c, s, e) /\ Leaves(s, e, d, n, x, h)
      BY <1>4, <1>5, <1>6, <1>8, <3>1
    <3>3. c[d].sent >= n BY <1>8
    <3>4. MarksOnward(c, s, e, d, n, x, h) BY <3>2, <3>3, MarksLeft
    <3>5. PICK f : /\ f[0] = Less(c[d], n) /\ Marks(f, x, h)
                   /\ AllMarked(c, s, e) => AllMarked(f, x, h)
      BY <3>4 DEF MarksOnward
    <3>6. Marks(f, down', h) BY <3>1, <3>5
    <3>7. AllMarked(c, s, ends) => AllMarked(f, down', h) BY <3>1, <3>5
    <3>. QED BY <3>5, <3>6, <3>7
  <2>2. PICK f : /\ f[0] = Less(c[d], n) /\ Marks(f, down', h)
                 /\ AllMarked(c, s, ends) => AllMarked(f, down', h)
    BY <2>1
  <2>3. f[0] = Present' /\ Marks(f, down', ends') BY <1>7, <1>8, <2>2
  <2>4. link' = "up" => AllMarked(f, down', ends') BY <1>1, <1>4, <1>6, <1>8, <2>2
  <2>. QED BY <2>3, <2>4
<1>9. ends' = [k \in DOMAIN (IF Sends /\ ends # <<>> THEN Tail(ends) ELSE ends) |->
                 (IF Sends /\ ends # <<>> THEN Tail(ends) ELSE ends)[k]
                     - (Len(down) - Len(down'))]
  BY DEF ClientSide
<1>10. ASSUME NEW d \in {0, 1}, NEW n \in {0, 1}, d = 1 => down # <<>>,
              down' = IF d = 1 THEN Tail(down) ELSE down,
              n = 1 <=> Sends
       PROVE  Leaves(s, ends, d, n, down', ends')
  <2>1. Len(down) - Len(down') = d
    <3>1. CASE d = 1 BY <1>5, <1>10, <3>1, HeadTailProperties
    <3>2. CASE d = 0 BY <1>5, <1>10, <3>2
    <3>. QED BY <3>1, <3>2
  <2>2. PICK rest : rest = IF n = 1 /\ ends # <<>> THEN Tail(ends) ELSE ends OBVIOUS
  <2>3. ends' = [k \in DOMAIN rest |-> rest[k] - d] BY <1>9, <1>10, <2>1, <2>2
  <2>. QED BY <1>6, <1>10, <2>2, <2>3 DEF Leaves
<1>11. down # <<>> => /\ m \in Message \cup Event /\ c[1] = Counted(c[0], m)
                      /\ c[0] \in Progress /\ c[1] \in Progress
  <2>. SUFFICES ASSUME down # <<>>
                PROVE  /\ m \in Message \cup Event /\ c[1] = Counted(c[0], m)
                       /\ c[0] \in Progress /\ c[1] \in Progress
    OBVIOUS
  <2>1. 1 \in 1 .. Len(down) /\ m = down[1] /\ 0 \in 0 .. Len(down) /\ 1 \in 0 .. Len(down)
    BY <1>5, <1>6
  <2>2. m \in Message \cup Event BY <1>5, <2>1
  <2>3. 1 - 1 = 0 OBVIOUS
  <2>. QED BY <1>4, <2>1, <2>2, <2>3 DEF Marks, CountsAlong
<1>12. CASE HandleHello \/ HandleAcceptedPlayer \/ HandleGameEnded
  <2>1. /\ down # <<>> /\ m.t \in {"hello", "accepted", "ended"} /\ down' = Tail(down)
        /\ sPc = "code" /\ sPc' = "code" /\ left' = left
    BY <1>6, <1>12 DEF HandleHello, HandleAcceptedPlayer, HandleGameEnded, Read
  <2>2. PICK l \in Nat : l = left BY <1>5
  <2>3. c[0] = [left |-> l, sent |-> 0] BY <1>4, <2>1, <2>2 DEF Present
  <2>4. m.t \notin EventKinds /\ m.t # "turn" BY <2>1 DEF EventKinds
  <2>5. c[1] = [left |-> l, sent |-> 1]
    BY <1>11, <2>1, <2>3, <2>4 DEF Counted
  <2>6. z = [left |-> l, sent |-> 0] BY <1>7, <2>1, <2>2 DEF Present
  <2>7. z = Less(c[1], 1) BY <1>11, <2>1, <2>5, <2>6, LessFields
  <2>8. down' # down BY <1>5, <2>1, HeadTailProperties
  <2>9. Sends BY <1>6, <2>1, <2>8 DEF Sends
  <2>10. Leaves(s, ends, 1, 1, down', ends') BY <1>10, <2>1, <2>9
  <2>11. c[1].sent >= 1 BY <2>5
  <2>. QED BY <1>8, <2>7, <2>10, <2>11
<1>13. CASE HandleGameStarted
  <2>1. /\ down # <<>> /\ m.t = "started" /\ down' = Tail(down)
        /\ sPc = "code" /\ sPc' = "code" /\ left' = left
    BY <1>6, <1>13 DEF HandleGameStarted, Read
  <2>2. PICK l \in Nat : l = left BY <1>5
  <2>3. c[0] = [left |-> l, sent |-> 0] BY <1>4, <2>1, <2>2 DEF Present
  <2>4. m.t \notin EventKinds \cup {"turn"} BY <2>1 DEF EventKinds
  <2>5. c[1] = [left |-> l, sent |-> 0]
    BY <1>11, <2>1, <2>3, <2>4 DEF Counted
  <2>6. z = [left |-> l, sent |-> 0] BY <1>7, <2>1, <2>2 DEF Present
  <2>7. z = Less(c[1], 0) BY <1>11, <2>1, <2>5, <2>6, LessFields
  <2>9. ~ Sends BY <1>6, <2>1 DEF Sends
  <2>10. Leaves(s, ends, 1, 0, down', ends') BY <1>10, <2>1, <2>9
  <2>11. c[1].sent >= 0 BY <2>5
  <2>. QED BY <1>8, <2>7, <2>10, <2>11
<1>14. CASE BeginTurnMsg
  <2>1. /\ down # <<>> /\ m.t = "turn" /\ down' = Tail(down)
        /\ sPc = "code" /\ sPc' = "events" /\ left' = m.n
    BY <1>6, <1>14 DEF BeginTurnMsg, Read
  <2>2. PICK k \in Nat : k = m.n BY <1>11, <2>1, MessageFields
  <2>3. c[0].sent = 0 BY <1>4, <2>1 DEF Present
  <2>4. PICK y \in {0, 1} : y = IF k = 0 THEN 1 ELSE 0 OBVIOUS
  <2>5. c[1] = [left |-> k, sent |-> y]
    BY <1>11, <2>1, <2>2, <2>3, <2>4 DEF Counted
  <2>6. z = [left |-> k, sent |-> y] BY <1>7, <2>1, <2>2, <2>4 DEF Present
  <2>7. z = Less(c[1], 0)
    <3>1. c[1].left = k /\ c[1].sent = y /\ y \in Int /\ y - 0 = y BY <2>4, <2>5
    <3>2. PICK a \in Progress : a = c[1] BY <1>11, <2>1
    <3>3. Less(a, 0) = [left |-> a.left, sent |-> a.sent - 0] BY LessFields
    <3>. QED BY <2>6, <3>1, <3>2, <3>3
  <2>9. ~ Sends BY <1>6, <2>1 DEF Sends
  <2>10. Leaves(s, ends, 1, 0, down', ends') BY <1>10, <2>1, <2>9
  <2>11. c[1].sent >= 0 BY <2>4, <2>5
  <2>. QED BY <1>8, <2>7, <2>10, <2>11
<1>15. CASE \/ HandleBombPlaced \/ HandleBombExploded
            \/ HandlePlayerMoved \/ HandleBlockPlaced
  <2>1. /\ down # <<>> /\ m.t \in EventKinds /\ down' = Tail(down)
        /\ sPc = "events" /\ sPc' = "events" /\ left > 0 /\ left' = left - 1
    BY <1>6, <1>15 DEF HandleBombPlaced, HandleBombExploded, HandlePlayerMoved,
       HandleBlockPlaced, ReadEvent, EventKinds
  <2>2. PICK l, k \in Nat : l = left /\ k = left - 1
    <3>1. left \in Nat /\ left - 1 \in Nat BY <1>5, <2>1
    <3>. QED BY <3>1
  <2>3. c[0] = [left |-> l, sent |-> 0]
    <3>1. ~ (left = 0) BY <1>5, <2>1
    <3>. QED BY <1>4, <2>1, <2>2, <3>1 DEF Present
  <2>4. PICK y \in {0, 1} : y = IF k = 0 THEN 1 ELSE 0 OBVIOUS
  <2>5. c[1] = [left |-> k, sent |-> y]
    <3>1. m.t # "turn" /\ m.t \notin {"hello", "accepted", "ended"}
      BY <2>1 DEF EventKinds
    <3>2. l - 1 = k BY <2>2
    <3>3. c[0].left = l /\ c[0].sent = 0 BY <2>3
    <3>. QED BY <1>11, <2>1, <2>4, <3>1, <3>2, <3>3 DEF Counted
  <2>6. z = [left |-> k, sent |-> y] BY <1>7, <2>1, <2>2, <2>4 DEF Present
  <2>7. z = Less(c[1], 0) BY <1>11, <2>1, <2>4, <2>5, <2>6, LessFields
  <2>9. ~ Sends BY <2>1 DEF Sends
  <2>10. Leaves(s, ends, 1, 0, down', ends') BY <1>10, <2>1, <2>9
  <2>11. c[1].sent >= 0 BY <2>4, <2>5
  <2>. QED BY <1>8, <2>7, <2>10, <2>11
<1>16. CASE FinishTurnMsg
  <2>1. /\ down' = down /\ left = 0 /\ left' = left /\ sPc = "events" /\ sPc' = "code"
    BY <1>16 DEF FinishTurnMsg, wireVars
  <2>2. c[0] = [left |-> 0, sent |-> 1] BY <1>4, <2>1 DEF Present
  <2>3. c[0] \in Progress BY <2>2 DEF Progress
  <2>4. z = [left |-> 0, sent |-> 0] BY <1>7, <2>1 DEF Present
  <2>5. z = Less(c[0], 1) BY <2>2, <2>3, <2>4, LessFields
  <2>6. Sends BY <2>1 DEF Sends
  <2>7. Leaves(s, ends, 0, 1, down', ends') BY <1>10, <2>1, <2>6
  <2>8. c[0].sent >= 1 BY <2>2
  <2>. QED BY <1>8, <2>5, <2>7, <2>8
<1>. QED BY <1>1, <1>2, <1>12, <1>13, <1>14, <1>15, <1>16 DEF ThreadS

LEMMA EndsAlways == BroadcastSpec => [](BInv /\ EndsInv)
<1>1. BroadcastInit => EndsInv
  <2>. SUFFICES ASSUME BroadcastInit PROVE EndsInv OBVIOUS
  <2>1. down = <<>> /\ log = <<>> /\ ends = <<>> /\ Present = Beginning
    BY DEF BroadcastInit, Init, ServerInit, ClientInit, Present, Beginning
  <2>. QED BY <2>1, MarksNone DEF EndsInv, AllMarked
<1>2. BInv /\ EndsInv /\ BInv' /\ [BroadcastNext]_allVars => EndsInv'
  <2>. SUFFICES ASSUME BInv, EndsInv, BInv', [BroadcastNext]_allVars PROVE EndsInv' OBVIOUS
  <2>1. CASE UNCHANGED allVars
    BY <2>1 DEF allVars, vars, wireVars, clientVars, gameVars, serverVars, EndsInv, Present,
                AllMarked, Marks, CountsAlong, Beginning
  <2>2. CASE ServerSide BY <2>2, EndsServer
  <2>3. CASE ComesLate BY <2>3, EndsConnect
  <2>4. CASE ClientSide BY <2>4, EndsClient
  <2>5. CASE Others BY <2>5, EndsOthers DEF BInv
  <2>. QED BY <2>1, <2>2, <2>3, <2>4, <2>5 DEF BroadcastNext
<1>. QED BY BInvAlways, <1>1, <1>2, PTL DEF BroadcastSpec

\* ExitsHaveCause, for every value of the constants: S ends in success only when
\* the server has gone and every state whose message arrived whole was sent.
THEOREM ExitsCorrect == BroadcastSpec => ExitsHaveCause
<1>. DEFINE A == /\ proc' = "exit0" =>
                        \/ link \in {"fin", "pipe"} /\ \A k \in DOMAIN ends : ends[k] > Len(down)
                        \/ MeetsEmptyName
                 /\ proc' = "exit1" => link = "rst" \/ gui = "refused"
                 /\ proc' = "killed" => link = "pipe"
<1>1. BInv /\ EndsInv /\ [BroadcastNext]_allVars => [A]_proc
  <2>. SUFFICES ASSUME BInv, EndsInv, [BroadcastNext]_allVars, proc' # proc PROVE A OBVIOUS
  <2>. USE DEF A
  <2>1. CASE ClientSide /\ ReadEmptyString
    <3>1. proc' = "exit0" /\ MeetsEmptyName
      BY <2>1 DEF ReadEmptyString, Read, Die, MeetsEmptyName
    <3>. QED BY <3>1
  <2>2. CASE ClientSide /\ ServerGone
    <3>1. \/ link \in {"fin", "pipe"} /\ proc' = "exit0"
          \/ link = "rst" /\ proc' = "exit1"
      BY <2>2 DEF ServerGone, Die
    <3>2. proc = "running" /\ down = <<>> /\ (sPc = "code" \/ left > 0) /\ connected
      BY <2>2 DEF ServerGone, ClientSide, S
    <3>3. PICK c : c[0] = Present /\ Marks(c, down, ends) BY <3>2 DEF EndsInv
    <3>4. c[0].sent = 0
      <4>1. ~ (sPc = "events" /\ left = 0)
        <5>1. left \in Nat BY DEF BInv, IInv, ClientOK
        <5>. QED BY <3>2, <5>1
      <4>. QED BY <3>3, <4>1 DEF Present
    <3>5. \A k \in DOMAIN ends : ends[k] > Len(down)
      <4>1. ends \in Seq(Int) /\ Len(down) = 0 /\ 0 \in 0 .. Len(down)
        BY <3>2, <3>3 DEF Marks
      <4>2. \A k \in 1 .. Len(ends) : ends[k] <= 0 <=> k <= 0
        BY <3>3, <3>4, <4>1 DEF Marks
      <4>. SUFFICES ASSUME NEW k \in 1 .. Len(ends) PROVE ends[k] > 0 BY <4>1
      <4>3. ends[k] \in Int BY <4>1
      <4>4. ~ (ends[k] <= 0) BY <4>1, <4>2
      <4>. QED BY <4>3, <4>4
    <3>. QED BY <3>1, <3>5
  <2>3. CASE /\ ClientSide
             /\ HandleHello \/ HandleAcceptedPlayer \/ HandleGameEnded \/ FinishTurnMsg
    <3>1. proc' = "exit1" /\ gui = "refused"
      BY <2>3 DEF HandleHello, HandleAcceptedPlayer, HandleGameEnded, FinishTurnMsg,
                  SendToGui, Die
    <3>. QED BY <3>1
  <2>4. CASE ClientSide /\ (HandleGameStarted \/ BeginTurnMsg)
    BY <2>4 DEF HandleGameStarted, BeginTurnMsg
  <2>5. CASE /\ ClientSide
             /\ \/ HandleBombPlaced \/ HandleBombExploded
                \/ HandlePlayerMoved \/ HandleBlockPlaced
    <3>1. proc' \in {proc, "aborted"}
      BY <2>5 DEF HandleBombPlaced, HandleBombExploded, HandlePlayerMoved, HandleBlockPlaced
    <3>. QED BY <3>1
  <2>6. CASE Others
    <3>1. \/ link = "pipe" /\ proc' = "killed"
          \/ link = "rst" /\ proc' = "exit1"
      BY <2>6 DEF Others, Input, G, ReceiveInput, ParseInput, SendRequest, Failure, GuiCloses,
                  CloseConnection, BreakConnection, clientVars
    <3>. QED BY <3>1
  <2>7. CASE ServerSide \/ ComesLate \/ UNCHANGED allVars
    BY <2>7 DEF ServerSide, ComesLate, ServerRuns, clientVars, allVars, vars
  <2>8. ClientSide => ThreadS BY DEF ClientSide, S
  <2>. QED BY <2>1, <2>2, <2>3, <2>4, <2>5, <2>6, <2>7, <2>8 DEF BroadcastNext, ThreadS
<1>. HIDE DEF A
<1>2. BroadcastSpec => [][A]_proc BY EndsAlways, <1>1, PTL DEF BroadcastSpec
<1>. QED BY <1>2 DEF A, ExitsHaveCause

=============================================================================
