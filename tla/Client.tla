------------------------------- MODULE Client -------------------------------
(***************************************************************************)
(* The client program (src/src/client): two threads around one atomic.     *)
(*                                                                         *)
(* Thread S, server_to_gui_handler, reads the stream of the server,        *)
(* maintains `game` and sends what the GUI shall draw.  Thread G,          *)
(* gui_to_server_handler, turns key presses into requests to the server.   *)
(* Both run for ever; `exit` in one of them ends the process.              *)
(*                                                                         *)
(* `game` belongs to S alone.  The threads share only is_game_started,     *)
(* written by S once in a handler and read by G once in parse_msg_from_gui, *)
(* so a handler of S is one step, except that each event of a Turn is a    *)
(* step of its own, and one round of G is three: recv, parse, send.        *)
(***************************************************************************)
EXTENDS Wire

CONSTANTS Inputs,      \* datagrams [len, code, dir] that reach the GUI port
          MaxInputs,   \* bound: datagrams in one behaviour
          EmptyNames   \* which of the server and the players are named ""

ASSUME ClientAssumption ==
    /\ Inputs \subseteq [len : Nat, code : 0 .. 255, dir : 0 .. 255]
    /\ MaxInputs \in Nat
    /\ EmptyNames \subseteq {"server"} \cup Player

VARIABLES game,              \* Client::game
          is_game_started,   \* the atomic flag
          sPc,               \* S reads a message "code" or the "events" of a turn
          left,              \* events of the turn still to be read
          gPc,               \* G is in "recv", "parse" or "send"
          input,             \* buf_gui_to_server after recv
          request,           \* buf_gui_to_server after parse
          shown,             \* the last message sent to the GUI
          gui,               \* "up", "gone", or "refused": gone and ICMP said so
          proc,              \* "running" or how the process ended
          inputs,            \* history: datagrams received
          lobbies            \* history: GameEnded messages handled

gameVars == <<game, is_game_started, sPc, left, lobbies>>
inputVars == <<gPc, input, request, inputs>>
clientVars == <<gameVars, inputVars, shown, gui, proc>>

\* "exit0" and "exit1" are calls of exit, "aborted" an exception that leaves
\* a thread, "killed" the signal SIGPIPE.
Proc == {"running", "exit0", "exit1", "aborted", "killed"}

NoView == [t |-> "none"]

NoInput == [len |-> 0, code |-> 0, dir |-> 0]

ClientOK == /\ GameOK(game)
            /\ is_game_started \in BOOLEAN
            /\ sPc \in {"code", "events"}
            /\ left \in Nat
            /\ gPc \in {"recv", "parse", "send"}
            /\ input \in Inputs \cup {NoInput}
            /\ request \in Requests
            /\ shown = NoView \/ ViewOK(shown)
            /\ gui \in {"up", "gone", "refused"}
            /\ proc \in Proc
            /\ inputs \in 0 .. MaxInputs
            /\ lobbies \in Nat

ClientInit == /\ game = NewGame
              /\ is_game_started = FALSE
              /\ sPc = "code"
              /\ left = 0
              /\ gPc = "recv"
              /\ input = NoInput
              /\ request = Request(0, 0, 0)
              /\ shown = NoView
              /\ gui = "up"
              /\ proc = "running"
              /\ inputs = 0
              /\ lobbies = 0

-----------------------------------------------------------------------------
(* Thread S.                                                               *)

\* The next thing on the stream is a message of this kind and S reads it.
Read(kind) == /\ proc = "running"
              /\ sPc = "code"
              /\ down # <<>>
              /\ Head(down).t = kind
              /\ down' = Tail(down)
              /\ UNCHANGED <<up, link>>

\* The same for an event of the current turn.
ReadEvent(kind) == /\ proc = "running"
                   /\ sPc = "events"
                   /\ left > 0
                   /\ down # <<>>
                   /\ Head(down).t = kind
                   /\ down' = Tail(down)
                   /\ left' = left - 1
                   /\ UNCHANGED <<up, link>>
                   /\ UNCHANGED <<inputVars, is_game_started, sPc, lobbies>>
                   /\ UNCHANGED <<shown, gui>>

Die(how) == proc' = how /\ UNCHANGED <<shown, gui>>

\* send_msg_to_gui: a datagram to a closed port is answered by ICMP, which
\* makes the next send on the connected socket fail.
SendToGui(view) ==
    \/ /\ gui # "refused"
       /\ shown' = view
       /\ gui' = IF gui = "gone" THEN "refused" ELSE gui
       /\ proc' = proc
    \/ /\ gui = "refused"
       /\ Die("exit1")

\* read_str asks recv for zero bytes, gets zero and takes it for the end of
\* the connection.
NamesIn(m) == CASE m.t = "hello"    -> {"server"}
                [] m.t = "accepted" -> {m.player}
                [] m.t = "started"  -> {m.players[p] : p \in DOMAIN m.players}

ReadEmptyString == /\ \E kind \in {"hello", "accepted", "started"} : Read(kind)
                   /\ NamesIn(Head(down)) \cap EmptyNames # {}
                   /\ Die("exit0")
                   /\ UNCHANGED <<gameVars, inputVars>>

HandleHello == /\ Read("hello")
               /\ NamesIn(Head(down)) \cap EmptyNames = {}
               /\ game' = NewGame
               /\ SendToGui(LobbyView(game'))
               /\ UNCHANGED <<is_game_started, sPc, left, lobbies, inputVars>>

HandleAcceptedPlayer ==
    /\ Read("accepted")
    /\ NamesIn(Head(down)) \cap EmptyNames = {}
    /\ game' = AddPlayers(game, [p \in {Head(down).id} |-> Head(down).player])
    /\ SendToGui(LobbyView(game'))
    /\ UNCHANGED <<is_game_started, sPc, left, lobbies, inputVars>>

\* Nothing is sent to the GUI: the first Turn follows.
HandleGameStarted == /\ Read("started")
                     /\ NamesIn(Head(down)) \cap EmptyNames = {}
                     /\ game' = AddPlayers(game, Head(down).players)
                     /\ is_game_started' = TRUE
                     /\ UNCHANGED <<sPc, left, lobbies, inputVars>>
                     /\ UNCHANGED <<shown, gui, proc>>

\* MUTANT: `<=` for `<` in the loop condition.
BeginTurnMsgLong == /\ Read("turn")
                    /\ game' = SetTurn(game, Head(down).turn)
                    /\ sPc' = "events"
                    /\ left' = Head(down).n + 1
                    /\ UNCHANGED <<is_game_started, lobbies, inputVars>>
                    /\ UNCHANGED <<shown, gui, proc>>

\* handle_turn_msg up to the loop over the events.
BeginTurnMsg == /\ Read("turn")
                /\ game' = SetTurn(game, Head(down).turn)
                /\ sPc' = "events"
                /\ left' = Head(down).n
                /\ UNCHANGED <<is_game_started, lobbies, inputVars>>
                /\ UNCHANGED <<shown, gui, proc>>

HandleBombPlaced == /\ ReadEvent("bombPlaced")
                    /\ game' = PlaceBomb(game, Head(down).id, Head(down).pos)
                    /\ proc' = proc

\* bombs.at throws for an unknown bomb; nobody catches the exception.
HandleBombExploded ==
    /\ ReadEvent("bombExploded")
    /\ LET e == Head(down)
           known == e.id \in DOMAIN game.bombs
       IN  /\ proc' = IF known THEN proc ELSE "aborted"
           /\ game' = IF known
                      THEN DestroyBlocks(KillPlayers(ExplodeBomb(game, e.id),
                                                     e.robots), e.blocks)
                      ELSE game

HandlePlayerMoved == /\ ReadEvent("playerMoved")
                     /\ game' = MovePlayer(game, Head(down).id, Head(down).pos)
                     /\ proc' = proc

HandleBlockPlaced == /\ ReadEvent("blockPlaced")
                     /\ game' = PlaceBlock(game, Head(down).pos)
                     /\ proc' = proc

\* MUTANT: send_msg_to_gui is forgotten after a turn.
FinishTurnMsgSilent == /\ proc = "running"
                       /\ sPc = "events"
                       /\ left = 0
                       /\ game' = ResetTurn(EraseDestroyedBlocks(AddScores(game)))
                       /\ sPc' = "code"
                       /\ UNCHANGED <<wireVars, is_game_started, left, lobbies>>
                       /\ UNCHANGED <<inputVars, shown, gui, proc>>

\* handle_turn_msg after the loop.
FinishTurnMsg == /\ proc = "running"
                 /\ sPc = "events"
                 /\ left = 0
                 /\ LET g == EraseDestroyedBlocks(AddScores(game))
                    IN  /\ SendToGui(GameView(g))
                        /\ game' = ResetTurn(g)
                 /\ sPc' = "code"
                 /\ UNCHANGED <<wireVars, is_game_started, left, lobbies>>
                 /\ UNCHANGED inputVars

\* MUTANT: the flag is not lowered at the end of a game.
HandleGameEndedKeepsFlag == /\ Read("ended")
                            /\ is_game_started' = is_game_started
                            /\ game' = ResetGame(game)
                            /\ SendToGui(LobbyView(game'))
                            /\ lobbies' = lobbies + 1
                            /\ UNCHANGED <<sPc, left, inputVars>>

HandleGameEnded == /\ Read("ended")
                   /\ is_game_started' = FALSE
                   /\ game' = ResetGame(game)
                   /\ SendToGui(LobbyView(game'))
                   /\ lobbies' = lobbies + 1
                   /\ UNCHANGED <<sPc, left, inputVars>>

\* MUTANT: the end of the connection overtakes what is still to be read.
ServerGoneEarly == /\ proc = "running"
                   /\ sPc = "code" \/ left > 0
                   /\ \/ link \in {"fin", "pipe"} /\ Die("exit0")
                      \/ link = "rst" /\ Die("exit1")
                   /\ UNCHANGED <<wireVars, gameVars, inputVars>>

\* MUTANT: the error return of recv is not checked.
ServerGoneUnchecked == /\ proc = "running"
                       /\ sPc = "code" \/ left > 0
                       /\ down = <<>>
                       /\ link \in {"fin", "pipe"} /\ Die("exit0")
                       /\ UNCHANGED <<wireVars, gameVars, inputVars>>

\* recv returns 0 at the end of the stream and -1 when the connection broke.
ServerGone == /\ proc = "running"
              /\ sPc = "code" \/ left > 0
              /\ down = <<>>
              /\ \/ link \in {"fin", "pipe"} /\ Die("exit0")
                 \/ link = "rst" /\ Die("exit1")
              /\ UNCHANGED <<wireVars, gameVars, inputVars>>

\* A code that is not known here ends the process (Err::fatal).  There is no
\* step for it: StreamInSync says that S never meets one.
ThreadS == \/ ReadEmptyString \/ HandleHello \/ HandleAcceptedPlayer
           \/ HandleGameStarted \/ BeginTurnMsg
           \/ HandleBombPlaced \/ HandleBombExploded
           \/ HandlePlayerMoved \/ HandleBlockPlaced
           \/ FinishTurnMsg \/ HandleGameEnded \/ ServerGone

-----------------------------------------------------------------------------
(* Thread G.                                                               *)

\* get_msg_from_gui returns with a datagram.
ReceiveInput == /\ proc = "running"
                /\ gPc = "recv"
                /\ inputs < MaxInputs
                /\ input' \in Inputs
                /\ gPc' = "parse"
                /\ inputs' = inputs + 1
                /\ UNCHANGED <<wireVars, gameVars, request, shown, gui, proc>>

\* The datagrams that parse_msg_from_gui does not drop, in and out of a game.
IsKeyPress(d) == \/ d.len = 1 /\ d.code \in {0, 1}
                 \/ d.len = 2 /\ d.code = 2 /\ d.dir < 4

\* MUTANT: the flag is ignored and the key sent as it is.
TranslateAlways(d, started) ==
    Request(d.code + 1, IF d.code = 2 THEN d.dir ELSE 0, lobbies)

\* In a game the key itself, with the code the server knows it by; in the
\* lobby any key means Join.
Translate(d, started) ==
    IF started THEN Request(d.code + 1, IF d.code = 2 THEN d.dir ELSE 0, lobbies)
               ELSE Request(0, 0, lobbies)

ParseInput == /\ proc = "running"
              /\ gPc = "parse"
              /\ \/ /\ IsKeyPress(input)
                    /\ request' = Translate(input, is_game_started)
                    /\ gPc' = "send"
                 \/ /\ ~ IsKeyPress(input)
                    /\ gPc' = "recv"
                    /\ request' = request
              /\ UNCHANGED <<wireVars, gameVars, input, inputs, shown, gui, proc>>

\* MUTANT: a request overtakes those sent before.
SendRequestFirst ==
    /\ proc = "running"
    /\ gPc = "send"
    /\ gPc' = "recv"
    /\ \/ link = "up" /\ up' = <<request>> \o up /\ link' = link
          /\ proc' = proc
       \/ link = "fin" /\ link' = "pipe" /\ UNCHANGED <<up, proc>>
       \/ link = "pipe" /\ proc' = "killed" /\ UNCHANGED <<up, link>>
       \/ link = "rst" /\ proc' = "exit1" /\ UNCHANGED <<up, link>>
    /\ UNCHANGED <<down, gameVars, input, request, inputs, shown, gui>>

\* send_msg_to_server.  The peer of a closed connection answers the first
\* write with a reset; a write after that raises SIGPIPE.
SendRequest == /\ proc = "running"
               /\ gPc = "send"
               /\ gPc' = "recv"
               /\ \/ link = "up" /\ up' = Append(up, request) /\ link' = link
                     /\ proc' = proc
                  \/ link = "fin" /\ link' = "pipe" /\ UNCHANGED <<up, proc>>
                  \/ link = "pipe" /\ proc' = "killed" /\ UNCHANGED <<up, link>>
                  \/ link = "rst" /\ proc' = "exit1" /\ UNCHANGED <<up, link>>
               /\ UNCHANGED <<down, gameVars, input, request, inputs, shown, gui>>

ThreadG == ReceiveInput \/ ParseInput \/ SendRequest

\* The user closes the window.  The client does not notice before it sends.
GuiCloses == /\ gui = "up"
             /\ gui' = "gone"
             /\ UNCHANGED <<wireVars, gameVars, inputVars, shown, proc>>

=============================================================================
