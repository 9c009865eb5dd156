----------------------------- MODULE MCVerifier -----------------------------
(***************************************************************************)
(* Model checking of Verifier: messages of every kind over bytes of twelve *)
(* values, so that numbers and lengths reach their limits.                 *)
(***************************************************************************)
EXTENDS Verifier

Enums == {ServerMessage[1], ClientMessage[1], InputMessage[1], DisplayMessage[1],
          Event[1], Direction[1]}

Items == {U8[1], U16[1], U32[1], Str[1], Address[1]}
         \cup {T[1] : T \in {MapOf(U8, Player), MapOf(U8, Position), MapOf(U8, U32), ListOf(U8),
                             ListOf(Position), ListOf(Bomb), ListOf(Event)}}
         \cup Enums

\* Two addresses; the first may also be spelled in another way.
SomeCanonical == [s \in {<<10>>, <<7, 9>>, <<1, 0>>} |-> IF s = <<1, 0>> THEN s ELSE <<10>>]

\* Empty and nonempty strings and lists, the longest string, the smallest and
\* the largest numbers, every kind of message and event.
SomeSamples ==
    [x \in Items |->
        CASE x.k = "str"     -> {<<>>, <<1>>, [i \in 1 .. Base - 1 |-> i - 1]}
          [] x.k = "address" -> DOMAIN Canonical
          [] x.k = "list"    -> 0 .. 2
          [] x.k = "variant" -> Tokens(x)
          [] x.width = 1     -> {0, Base - 1}
          [] x.width = 2     -> {0, 13, 143}
          [] x.width = 4     -> {1, 20735}]

\* Valid ones: Turn, GameStarted twice, BombExploded in a Turn, Move, Join, a picture.
Valid == {<<3, 0, 1, 0, 0, 0, 1, 3, 0, 9, 11, 11>>,
          <<2, 0, 0, 0, 1, 5, 1, 7, 1, 10>>, <<2, 0, 0, 0, 1, 5, 0, 2, 7, 9>>,
          <<3, 1, 1, 0, 0, 0, 1, 1, 0, 0, 0, 8, 0, 0, 0, 1, 4, 0, 0, 0, 1, 0, 2, 0, 3>>,
          <<2, 3>>, <<3, 0>>,
          <<0, 2, 1, 2>>,
          <<1, 1, 4, 0, 2, 0, 2, 0, 9, 0, 11>> \o <<0, 0, 0, 1, 0, 0, 1, 10>>
            \o <<0, 0, 0, 1, 0, 0, 0, 0, 1>> \o <<0, 0, 0, 1, 0, 0, 0, 0>>
            \o <<0, 0, 0, 1, 0, 1, 0, 1, 1, 1>> \o <<0, 0, 0, 0>> \o <<0, 0, 0, 1, 0, 0, 0, 0, 1>>}

\* One byte dropped at the end, added at the end, or altered.
Damaged(b) == {SubSeq(b, 1, Len(b) - 1)} \cup {Append(b, x) : x \in Byte}
              \cup {[b EXCEPT ![i] = x] : i \in 1 .. Len(b), x \in Byte}

SomeDatagrams == UNION {[1 .. n -> Byte] : n \in 0 .. 3} \cup Valid
                 \cup UNION {Damaged(b) : b \in Valid}

=============================================================================
