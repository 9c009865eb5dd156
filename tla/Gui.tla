-------------------------------- MODULE Gui --------------------------------
(***************************************************************************)
(* The graphical interface (src/src/bin/gui.rs).                           *)
(*                                                                         *)
(* A receive thread takes datagrams from the UDP socket and puts messages  *)
(* into a bounded channel.  The window runs frame after frame; in each,    *)
(* the systems read_stream, draw and send_input run once, in any order,    *)
(* read_stream and draw not at the same time as both use the event queue.  *)
(* The two sides share the socket, with its pending error.                 *)
(*                                                                         *)
(* Display messages are numbered in the order of sending.  What is drawn   *)
(* for one of them is the subject of module Picture.                       *)
(***************************************************************************)
EXTENDS Integers, Sequences

CONSTANTS ChannelSize,    \* capacity of the channel: 10
          SocketSize,     \* datagrams the kernel keeps
          Datagrams,      \* kinds of datagrams [format, from] that are sent
          Keys,           \* keys that are pressed
          MaxEvents       \* bound: datagrams sent and keys pressed, together

ASSUME GuiAssumption ==
    /\ ChannelSize \in Nat \ {0} /\ SocketSize \in Nat \ {0}
    /\ Datagrams \subseteq [format : {"json", "binary"},
                            from   : {"client_address", "elsewhere"}]
    /\ Keys \subseteq {"Up", "Right", "Down", "Left", "Space", "K", "Other"}
    /\ MaxEvents \in Nat

VARIABLES
    clientUp,   \* the client listens at client_address
    sent,       \* datagrams sent to the port of the GUI
    socket,     \* those the kernel holds, as [n, format]
    refused,    \* a pending error of the socket: nobody listened to a datagram
    hand,       \* message the receive thread is about to put into the channel
    channel,    \* display_tx to display_rx
    frame,      \* "waiting" or "running"
    systems,    \* progress of the systems in this frame
    messages,   \* Events<DisplayMessage>
    keys,       \* Events<KeyboardInput>
    commands,   \* what draw has asked for, carried out after the systems
    screen,     \* messages whose entities are on the screen
    pressed,    \* history: the keys pressed
    fates       \* history: [n, input, fate], what became of the n-th of them

outside   == <<clientUp, sent>>
thread    == <<hand, channel>>
display   == <<messages, commands, screen>>
keyboard  == <<keys, pressed, fates>>
frames    == <<frame, systems>>
vars == <<outside, socket, refused, thread, frames, display, keyboard>>

Nothing == 0

\* Bevy's event queue: events live until the second update after they were
\* written.  `seen` is the position of its only reader.
EmptyQueue == [old |-> <<>>, new |-> <<>>, seen |-> 0]

Write(q, e) == [q EXCEPT !.new = Append(@, e)]

Unread(q) == SubSeq(q.old \o q.new, q.seen + 1, Len(q.old) + Len(q.new))

Seen(q, n) == [q EXCEPT !.seen = @ + n]

\* MUTANT: events live until the next update only.
UpdateDropsAll(q) == EmptyQueue

Update(q) == [old  |-> q.new,
              new  |-> <<>>,
              seen |-> IF q.seen > Len(q.old) THEN q.seen - Len(q.old) ELSE 0]

Systems == {"read_stream", "draw", "send_input"}

NoCommands == [despawn |-> {}, spawn |-> {}]

\* The letter keys mean the same as the ones named here.
InputMessage == [Up    |-> "MoveUp",
                 Right |-> "MoveRight",
                 Down  |-> "MoveDown",
                 Left  |-> "MoveLeft",
                 Space |-> "PlaceBomb",
                 K     |-> "PlaceBlock"]

Init == /\ clientUp \in BOOLEAN
        /\ sent = 0
        /\ socket = <<>> /\ refused = FALSE
        /\ hand = Nothing /\ channel = <<>>
        /\ frame = "waiting"
        /\ systems = [s \in Systems |-> "done"]
        /\ messages = EmptyQueue /\ keys = EmptyQueue
        /\ commands = NoCommands /\ screen = {}
        /\ pressed = <<>> /\ fates = <<>>

-----------------------------------------------------------------------------
(* The world outside.                                                      *)

\* The client starts, or ends, or is started again.
ClientComesOrGoes == /\ clientUp' = ~ clientUp
                     /\ UNCHANGED <<sent, socket, refused, thread, frames, display>>
                     /\ UNCHANGED keyboard

Bounded == sent + Len(pressed) < MaxEvents

\* The socket is connected: the kernel passes on what comes from client_address
\* alone, and as much as there is room for.
DatagramArrives ==
    /\ clientUp /\ Bounded
    /\ sent' = sent + 1
    /\ \E d \in Datagrams :
         socket' = IF d.from = "client_address" /\ Len(socket) < SocketSize
                   THEN Append(socket, [n |-> sent + 1, format |-> d.format])
                   ELSE socket
    /\ UNCHANGED <<clientUp, refused, thread, frames, display, keyboard>>

\* The window system delivers keys between frames.
KeyPressed == /\ frame = "waiting" /\ Bounded
              /\ \E k \in Keys : pressed' = Append(pressed, k)
              /\ keys' = Write(keys, Len(pressed) + 1)
              /\ UNCHANGED <<outside, socket, refused, thread, frames, display, fates>>

-----------------------------------------------------------------------------
(* The receive thread.                                                     *)

\* recv_from returns a datagram; one that is no message is logged and dropped.
Receive == /\ hand = Nothing /\ socket # <<>> /\ ~ refused
           /\ hand' = IF Head(socket).format = "json" THEN Head(socket).n ELSE Nothing
           /\ socket' = Tail(socket)
           /\ UNCHANGED <<outside, refused, channel, frames, display, keyboard>>

\* recv_from returns the pending error, which is logged.
ReceiveFails == /\ hand = Nothing /\ refused
                /\ refused' = FALSE
                /\ UNCHANGED <<outside, socket, thread, frames, display, keyboard>>

\* MUTANT: an unbounded channel.
PutIntoChannelAlways == /\ hand # Nothing
                        /\ channel' = Append(channel, hand)
                        /\ hand' = Nothing
                        /\ UNCHANGED <<outside, socket, refused, frames, display, keyboard>>

\* display_tx.send, which blocks while the channel is full.
PutIntoChannel == /\ hand # Nothing /\ Len(channel) < ChannelSize
                  /\ channel' = Append(channel, hand)
                  /\ hand' = Nothing
                  /\ UNCHANGED <<outside, socket, refused, frames, display, keyboard>>

ReceiveThread == Receive \/ ReceiveFails \/ PutIntoChannel

-----------------------------------------------------------------------------
(* The frames of the window.                                               *)

BeginFrame == /\ frame = "waiting"
              /\ frame' = "running"
              /\ systems' = [s \in Systems |-> "ready"]
              /\ messages' = Update(messages)
              /\ keys' = Update(keys)
              /\ UNCHANGED <<outside, socket, refused, thread, commands, screen>>
              /\ UNCHANGED <<pressed, fates>>

Runs(s) == frame = "running" /\ systems[s] # "done" /\ UNCHANGED frame

\* One round of the loop of read_stream, and its end.
ReadStream ==
    /\ Runs("read_stream")
    /\ \/ /\ channel # <<>>
          /\ messages' = Write(messages, Head(channel))
          /\ channel' = Tail(channel)
          /\ systems' = [systems EXCEPT !["read_stream"] = "running"]
       \/ /\ channel = <<>>
          /\ systems' = [systems EXCEPT !["read_stream"] = "done"]
          /\ UNCHANGED <<messages, channel>>
    /\ UNCHANGED <<outside, socket, refused, hand, commands, screen, keyboard>>

\* MUTANT: the entities of the last drawing stay.
DrawOver == /\ Runs("draw") /\ systems["read_stream"] # "running"
            /\ LET unread == Unread(messages)
               IN  /\ commands' = IF unread = <<>> THEN NoCommands
                                  ELSE [despawn |-> {}, spawn |-> {unread[Len(unread)]}]
                   /\ messages' = Seen(messages, Len(unread))
            /\ systems' = [systems EXCEPT !["draw"] = "done"]
            /\ UNCHANGED <<outside, socket, refused, thread, screen, keyboard>>

\* Only the last message matters.
Draw == /\ Runs("draw") /\ systems["read_stream"] # "running"
        /\ LET unread == Unread(messages)
           IN  /\ commands' = IF unread = <<>> THEN NoCommands
                              ELSE [despawn |-> screen, spawn |-> {unread[Len(unread)]}]
               /\ messages' = Seen(messages, Len(unread))
        /\ systems' = [systems EXCEPT !["draw"] = "done"]
        /\ UNCHANGED <<outside, socket, refused, thread, screen, keyboard>>

\* MUTANT: the error stays after it was reported.
SendStaysRefused(n) ==
    /\ fates' = Append(fates,
                       [n     |-> n,
                        input |-> InputMessage[pressed[n]],
                        fate  |-> IF refused THEN "failed"
                                  ELSE IF clientUp THEN "delivered" ELSE "unheard"])
    /\ refused' = (refused \/ ~ clientUp)

\* socket.send: a pending error is reported instead of sending; a datagram that
\* nobody listens to leaves one behind.
Send(n) ==
    /\ fates' = Append(fates,
                       [n     |-> n,
                        input |-> InputMessage[pressed[n]],
                        fate  |-> IF refused THEN "failed"
                                  ELSE IF clientUp THEN "delivered" ELSE "unheard"])
    /\ refused' = (~ refused /\ ~ clientUp)

\* MUTANT: the reader does not advance.
SendInputAgain ==
    /\ Runs("send_input") /\ Unread(keys) # <<>>
    /\ systems' = [systems EXCEPT !["send_input"] = "done"]
    /\ LET n == Head(Unread(keys))
       IN  IF pressed[n] \in DOMAIN InputMessage THEN Send(n)
           ELSE UNCHANGED <<fates, refused>>
    /\ UNCHANGED <<outside, socket, thread, display, pressed, keys>>

\* One round of the loop of send_input; keys without meaning are skipped.
SendInput ==
    /\ Runs("send_input") /\ Unread(keys) # <<>>
    /\ keys' = Seen(keys, 1)
    /\ LET n == Head(Unread(keys))
       IN  IF pressed[n] \in DOMAIN InputMessage THEN Send(n)
           ELSE UNCHANGED <<fates, refused>>
    /\ UNCHANGED <<outside, socket, thread, systems, display, pressed>>

SendInputEnds == /\ Runs("send_input") /\ Unread(keys) = <<>>
                 /\ systems' = [systems EXCEPT !["send_input"] = "done"]
                 /\ UNCHANGED <<outside, socket, refused, thread, display, keyboard>>

\* The commands are carried out when all systems are done.
EndFrame == /\ frame = "running"
            /\ \A s \in Systems : systems[s] = "done"
            /\ frame' = "waiting"
            /\ screen' = (screen \ commands.despawn) \cup commands.spawn
            /\ commands' = NoCommands
            /\ UNCHANGED <<outside, socket, refused, thread, systems, messages, keyboard>>

Window == BeginFrame \/ ReadStream \/ Draw \/ SendInput \/ SendInputEnds \/ EndFrame

Next == \/ ClientComesOrGoes \/ DatagramArrives \/ KeyPressed
        \/ ReceiveThread \/ Window

Spec == Init /\ [][Next]_vars

\* The thread and the window keep running.  Nobody has to send or to press keys.
FairSpec == Spec /\ WF_vars(ReceiveThread) /\ WF_vars(Window)

-----------------------------------------------------------------------------

TypeOK ==
    /\ clientUp \in BOOLEAN
    /\ sent \in 0 .. MaxEvents
    /\ socket \in Seq([n : 1 .. sent, format : {"json", "binary"}])
    /\ Len(socket) <= SocketSize
    /\ refused \in BOOLEAN
    /\ hand \in 0 .. sent
    /\ channel \in Seq(1 .. sent) /\ Len(channel) <= ChannelSize
    /\ frame \in {"waiting", "running"}
    /\ systems \in [Systems -> {"ready", "running", "done"}]
    /\ messages \in [old : Seq(1 .. sent), new : Seq(1 .. sent), seen : Nat]
    /\ messages.seen <= Len(messages.old) + Len(messages.new)
    /\ keys \in [old : Seq(1 .. Len(pressed)), new : Seq(1 .. Len(pressed)), seen : Nat]
    /\ keys.seen <= Len(keys.old) + Len(keys.new)
    /\ commands \in [despawn : SUBSET (1 .. sent), spawn : SUBSET (1 .. sent)]
    /\ screen \subseteq 1 .. sent
    /\ pressed \in Seq(Keys)
    /\ fates \in Seq([n     : 1 .. Len(pressed),
                      input : {InputMessage[k] : k \in DOMAIN InputMessage},
                      fate  : {"delivered", "unheard", "failed"}])

\* The screen shows one message at a time and never goes back to an older one,
\* although it passes two threads, a channel, an event queue that is emptied
\* under way and commands that are carried out later (gui.rs:74-102, 266-269).
Promised == INSTANCE Spectator

ShowsNewer == Promised!Spec

\* No message that the kernel has taken gets stuck or overlooked: it, or a newer
\* one, is drawn (gui.rs:83 blocks; draw and read_stream run in either order).
TakenIsDrawn ==
    \A n \in 1 .. MaxEvents :
        [n |-> n, format |-> "json"] \in {socket[i] : i \in DOMAIN socket}
            ~> \E m \in screen : m >= n

\* Every key that means something is handled once and in order: none is skipped
\* and none sent a second time while it is in the event queue (gui.rs:108).
KeysOnceInOrder ==
    LET meant(n) == {k \in 1 .. n : pressed[k] \in DOMAIN InputMessage}
    IN  \A i \in DOMAIN fates : /\ fates[i].n \in meant(Len(pressed))
                                /\ \A k \in meant(fates[i].n) :
                                     \E j \in 1 .. i : fates[j].n = k
                                /\ \A j \in 1 .. i - 1 : fates[j].n < fates[i].n

\* A client that listens misses at most one key, the first after one that nobody
\* heard, although every error is only logged (gui.rs:88, 128-131).
OneKeyMissedAtMost ==
    \A i \in DOMAIN fates :
        fates[i].fate = "failed" => i > 1 /\ fates[i - 1].fate = "unheard"

\* src/README.md:120, 501-507: the interface shows what the client sends to its
\* port in the format of the protocol.
ClientSeen == sent > 0 ~> screen # {}

=============================================================================
