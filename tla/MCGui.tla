------------------------------- MODULE MCGui -------------------------------
(***************************************************************************)
(* Model checking of Gui: what the other side sends.                       *)
(***************************************************************************)
EXTENDS Gui

Datagram(f, s) == [format |-> f, from |-> s]

\* What the interface understands, and two kinds that it has to ignore.
MixedDatagrams == {Datagram("json", "client_address"),
                   Datagram("binary", "client_address"),
                   Datagram("json", "elsewhere")}

\* connect_with_gui makes a socket of its own, with another port than the one
\* bind_udp_socket listens at, and the serialisers write binary data.
ClientDatagrams == {Datagram("binary", "elsewhere")}

\* A key of a command, and one without meaning.
SomeKeys == {"Space", "Other"}

=============================================================================
