----------------------------- MODULE Bomberman -----------------------------
(***************************************************************************)
(* The client under test and the server, connected by one TCP connection.  *)
(***************************************************************************)
EXTENDS Client, Server

CONSTANT Failures   \* which of "gui", "close" and "break" may happen

vars == <<wireVars, clientVars, serverVars>>

TypeOK == WireOK /\ ClientOK /\ ServerOK

Init == /\ down = <<>> /\ up = <<>> /\ link = "up"
        /\ ClientInit
        /\ ServerInit

S == connected /\ ThreadS /\ UNCHANGED serverVars

\* Keys are pressed when the user likes; the rest of G's round is up to G.
Input == connected /\ ReceiveInput /\ UNCHANGED serverVars
G     == connected /\ (ParseInput \/ SendRequest) /\ UNCHANGED serverVars

ServerRuns == ServerStep /\ UNCHANGED clientVars

Failure == \/ "gui" \in Failures /\ GuiCloses /\ UNCHANGED serverVars
           \/ "close" \in Failures /\ CloseConnection /\ UNCHANGED clientVars
           \/ "break" \in Failures /\ BreakConnection /\ UNCHANGED clientVars

Environment == ((OtherJoins \/ Connect) /\ UNCHANGED clientVars) \/ Failure

Next == S \/ Input \/ G \/ ServerRuns \/ Environment

Spec == Init /\ [][Next]_vars

\* The system runs both threads, and the server neither stops in the middle of
\* a turn nor ignores its timer.  Nobody has to press a key, join or connect.
Fairness == WF_vars(S) /\ WF_vars(G) /\ WF_vars(ServerRuns)

-----------------------------------------------------------------------------

\* S has handled everything the server sent and has sent it to the GUI.
CaughtUp == connected /\ proc = "running" /\ link = "up" /\ down = <<>>
            /\ sPc = "code"

ScreenAgrees ==
    CaughtUp =>
      /\ stage = "lobby" => shown = [t |-> "lobby", players |-> joined]
      /\ stage = "idle" => shown = [t          |-> "game",
                                    turn       |-> turn,
                                    players    |-> joined,
                                    positions  |-> positions,
                                    blocks     |-> blocks,
                                    bombs      |-> bombs,
                                    explosions |-> blast,
                                    scores     |-> deaths]

\* Both sides agree whether a game is on (client.cpp:205, 232): a stale flag
\* would turn keys into requests the server ignores.
FlagAgrees == CaughtUp => (is_game_started <=> stage # "lobby")

\* S never loses its place in the stream, within a turn or between messages
\* (client.cpp:214-217, 280; events.cpp:87), and never meets a bomb that it
\* does not know (game.cpp:137): neither Err::fatal nor an exception ends the
\* process, however late the client connected.  (Elements arrive whole here; an
\* id cut in the middle is Abort of ClientBytes.)
StreamInSync ==
    /\ proc = "running" /\ down # <<>> /\ (sPc = "code" \/ left > 0) =>
           (Head(down).t \in IF sPc = "code" THEN MessageKinds ELSE EventKinds)
    /\ proc # "aborted"

\* The next message holds an empty name (utils.h:112).
MeetsEmptyName == /\ down # <<>>
                  /\ Head(down).t \in {"hello", "accepted", "started"}
                  /\ NamesIn(Head(down)) \cap EmptyNames # {}

\* A key pressed in one game never moves the robot in another, although the
\* flag is read long before the request is served (client.cpp:116, 158): what
\* has been sent in a game is out of the way before the next Join.  The
\* exception are surplus Joins, which may be accepted games later.
NoStaleCommand == ~ strayJoin => (command.code # 0 => command.lobby = told)

\* Every turn is drawn by the time it matters: it reaches the GUI unless the
\* process or the connection ends first.
TurnsDelivered ==
    \A k \in 0 .. GameLength :
        (connected /\ stage = "idle" /\ turn = k)
            ~> \/ shown.t = "game" /\ shown.turn = k
               \/ proc # "running" \/ link # "up"

\* A key pressed in the lobby brings the player into the game, unless others
\* fill the lobby first, provided that the client has read the end of every game
\* it was told of (client.cpp:116-150, 232).  Until then the client may believe
\* that the last game goes on, and the key is a command the server ignores.
LobbyKeyJoins ==
    (gPc = "parse" /\ IsKeyPress(input) /\ stage = "lobby" /\ lobbies = told
         /\ proc = "running" /\ games < MaxGames)
        ~> (Plays("me") \/ stage # "lobby" \/ proc # "running" \/ link # "up")

\* The client does not outlive the connection (utils.h:97-101).
EndsWithConnection == (connected /\ link # "up") ~> (proc # "running")

\* "Connection closed by server" is what the program says when it exits with
\* success (utils.h:100-101).
ExitZeroMeansClosed == proc = "exit0" => link # "up"

\* src/README.md, section 4: exit code 1 when the connection to the server or
\* to the GUI fails.
LostConnectionExitsOne == link # "up" /\ proc # "running" => proc = "exit1"

=============================================================================
