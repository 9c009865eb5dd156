----------------------------- MODULE Broadcast -----------------------------
(***************************************************************************)
(* From the server to the picture: Bomberman with the history of the       *)
(* states that the server announces, and what a spectator sees of them.    *)
(*                                                                         *)
(* `coming` runs beside the stream `down`: each message the client has to  *)
(* show something for announces one state.  Nothing else is added.         *)
(***************************************************************************)
EXTENDS Bomberman, Picture

VARIABLES coming,   \* history: announced to the client and not shown yet
          backlog,  \* history: the turns so far, for a client that comes late
          ends      \* history: where in `down` the message of each state in
                    \* `coming` ends, or in `log` that of each in `backlog`

allVars == <<vars, coming, backlog, ends>>

\* What an interface should show of the present state of the server.
ServerView ==
    IF stage = "lobby"
    THEN [t |-> "lobby", players |-> joined]
    ELSE [t          |-> "game",
          turn       |-> turn,
          players    |-> joined,
          positions  |-> positions,
          blocks     |-> blocks,
          bombs      |-> bombs,
          explosions |-> blast,
          scores     |-> deaths]

\* Somebody is accepted, or a turn or a game ends or begins.
Announces == stage' \in {"lobby", "idle"} /\ <<stage, joined>>' # <<stage, joined>>

ServerSide ==
    /\ ServerRuns \/ (OtherJoins /\ UNCHANGED clientVars)
    /\ LET new == IF Announces THEN <<ServerView'>> ELSE <<>>
       IN  IF connected THEN coming' = coming \o new /\ UNCHANGED backlog
           ELSE /\ coming' = coming
                /\ backlog' = IF stage' = "lobby" THEN <<>>
                              ELSE (IF stage = "lobby" THEN <<>> ELSE backlog) \o new
    /\ ends' = IF ~ connected /\ stage' = "lobby" THEN <<>>
               ELSE IF Announces THEN Append(ends, Len(IF connected THEN down' ELSE log'))
               ELSE ends

\* The lobby as it was when k players were in it.
LobbyOf(k) == [t |-> "lobby", players |-> [p \in 0 .. k - 1 |-> joined[p]]]

\* A client is told of everything again, after Hello and perhaps GameStarted.
ComesLate ==
    /\ Connect /\ UNCHANGED clientVars
    /\ coming' = <<LobbyOf(0)>> \o
                 (IF stage = "lobby"
                  THEN [k \in 1 .. Cardinality(DOMAIN joined) |-> LobbyOf(k)]
                  ELSE backlog)
    /\ backlog' = <<>>
    /\ ends' = IF stage = "lobby" THEN [k \in 1 .. Cardinality(DOMAIN joined) + 1 |-> k]
               ELSE <<1>> \o [k \in DOMAIN ends |-> ends[k] + 2]

\* S sends something to the interface after these messages.
Sends == /\ proc' = "running"
         /\ \/ /\ sPc = "code" /\ down' # down
               /\ Head(down).t \in {"hello", "accepted", "ended"}
            \/ sPc = "events" /\ sPc' = "code"

ClientSide == /\ S
              /\ coming' = IF Sends /\ coming # <<>> THEN Tail(coming) ELSE coming
              /\ LET rest == IF Sends /\ ends # <<>> THEN Tail(ends) ELSE ends
                 IN  ends' = [k \in DOMAIN rest |-> rest[k] - (Len(down) - Len(down'))]
              /\ UNCHANGED backlog

Others == (Input \/ G \/ Failure) /\ UNCHANGED <<coming, backlog, ends>>

BroadcastInit == Init /\ coming = <<>> /\ backlog = <<>> /\ ends = <<>>

BroadcastNext == ServerSide \/ ComesLate \/ ClientSide \/ Others

BroadcastSpec == BroadcastInit /\ [][BroadcastNext]_allVars

FairSpec == BroadcastSpec /\ Fairness

-----------------------------------------------------------------------------

\* The client shows the states of the server: each one, in order, nothing else,
\* whatever its lag, also while it replays the turns it was not there for
\* (client.cpp:208-236; game.cpp:181-203).
Promise == INSTANCE Feed WITH queue <- coming

ShowsWhatServerAnnounced == Promise!Spec

\* The process ends for a reason, and it ends in success only when the server
\* has gone and the GUI has been sent every state of which the whole message
\* arrived: the states it was not sent end beyond what is there.  The exception
\* is an empty name (utils.h:97-101, 112; client.cpp:105, 158).
ExitsHaveCause ==
    [][/\ proc' = "exit0" =>
              \/ link \in {"fin", "pipe"} /\ \A k \in DOMAIN ends : ends[k] > Len(down)
              \/ MeetsEmptyName
       /\ proc' = "exit1" => link = "rst" \/ gui = "refused"
       /\ proc' = "killed" => link = "pipe"]_proc

\* The picture is complete: no robot is left out for want of a score or a
\* position (gui.rs:335, "handle missing data"), and no shape lies off the board.
PictureComplete ==
    shown.t = "game" => /\ Drawn(shown) = DOMAIN shown.players
                        /\ \A s \in Picture(shown).shapes : s.cell \in Cell

\* Two pictures in a row are of consecutive turns of one game.
NextTurnShown == /\ shown.t = "game" /\ shown'.t = "game"
                 /\ shown'.turn = shown.turn + 1

\* A spectator can count along: the score of a robot rises, by one, when an
\* explosion covers the place where it was last seen, and only then; add_scores
\* gets this from lists of victims, the explosions are computed (game.cpp:135-194).
DeathsMatchExplosions ==
    [][NextTurnShown =>
         \A p \in DOMAIN shown.players :
             ScoreTable(shown')[p].deaths - ScoreTable(shown)[p].deaths =
                 IF shown.positions[p] \in shown'.explosions THEN 1 ELSE 0]_shown

\* A bomb on the screen counts down turn by turn, in 16 bits from 0 to the
\* largest number, and after 1 there is an explosion on top of its cell instead
\* (game.cpp:135-137, 200-202; gui.rs:224-230).
BombsRunDown ==
    [][NextTurnShown =>
         \A b \in DOMAIN shown.bombs :
             IF shown.bombs[b].timer # 1
             THEN /\ b \in DOMAIN shown'.bombs
                  /\ shown'.bombs[b].timer = (shown.bombs[b].timer + MaxU16) % (MaxU16 + 1)
             ELSE OnTop(shown', shown.bombs[b].pos)
                      = Shapes("Explosion", {shown.bombs[b].pos})]_shown

=============================================================================
