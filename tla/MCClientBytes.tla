--------------------------- MODULE MCClientBytes ---------------------------
(***************************************************************************)
(* Model checking of ClientBytes over bytes of six values.                 *)
(***************************************************************************)
EXTENDS ClientBytes

Items == {U8[1], U16[1], U32[1], Str[1], Address[1]}
         \cup {T[1] : T \in {MapOf(U8, Player), MapOf(U8, U32), ListOf(U8), ListOf(Position),
                             ListOf(Event)}}
         \cup {ServerMessage[1], Event[1], Direction[1]}

\* Addresses, and how they are written.
SomeCanonical == [s \in {<<0, 2>>, <<0, 0, 2>>, <<4>>} |-> IF s = <<4>> THEN s ELSE <<0, 2>>]

\* Also the empty string, which read_str does not survive, and the longest.
SomeSamples ==
    [x \in Items |->
        CASE x.k = "str"          -> {<<>>, <<1>>, <<4, 3, 2, 1, 0>>}
          [] x.k = "address"      -> {<<0, 2>>, <<4>>}
          [] x = ListOf(Event)[1] -> {0, 1, 3}
          [] x.k = "list"         -> 0 .. 2
          [] x.k = "variant"      -> Tokens(x)
          [] x.width = 1          -> {2, Base - 1}
          [] x.width = 2          -> {8, 35}
          [] x.width = 4          -> {9, 1295}]

\* Every datagram of up to three bytes.
ShortDatagrams == UNION {[1 .. n -> Byte] : n \in 0 .. 3}

\* Its length is the largest that fits into a byte.
LongestName == <<0, 1, 2, 3, 4>>

Robot == <<<<1>>, <<0, 2>>>>
Positions == {<<>>, <<<<0, <<1, 35>>>>, <<1, <<6, 0>>>>>>}
Cells == {<<>>, <<<<0, 7>>, <<35, 1>>>>}

SampleGames ==
    [server_name : {<<>>, <<3, 4>>}, players_count : {5},
     size_x : {7}, size_y : {35}, game_length : {0}, explosion_radius : {2},
     bomb_timer : {6}, turn : {8}, players : {<<>>, <<<<0, Robot>>, <<1, Robot>>>>},
     positions : Positions, blocks : Cells, bombs : {<<>>, <<<<<<1, 6>>, 2>>>>},
     explosions : Cells, scores : {<<<<0, 1295>>, <<1, 0>>>>}]

=============================================================================
