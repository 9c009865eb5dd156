----------------------------- MODULE MCLibrary -----------------------------
(***************************************************************************)
(* Model checking of Library: one type of each kind, with all its values   *)
(* as far as they are few, over bytes of six values; and random numbers of *)
(* every seed, with a small prime and small words.                         *)
(***************************************************************************)
EXTENDS Library

Choice == Enum(<<<<>>, OptionOf(Unit), Bool \o Str>>)

SomeTypes == [bool   |-> Bool,
              unit   |-> Unit,
              i8     |-> Signed(1),
              i16    |-> Signed(2),
              u16    |-> U16,
              u64    |-> U64,
              string |-> Str,
              option |-> OptionOf(Bool),
              nested |-> OptionOf(OptionOf(Signed(1))),
              list   |-> ListOf(Bool),
              tuple  |-> Unit \o OptionOf(U8) \o Bool,
              choice |-> Choice,
              address |-> OptionOf(Address),
              empty  |-> <<>>]

Items == {T[1] : T \in {Bool, Unit, Signed(1), Signed(2), U8, U16, U64, Str, Address, OptionOf(Bool),
                        OptionOf(OptionOf(Signed(1))), OptionOf(Signed(1)), ListOf(Bool),
                        OptionOf(U8), OptionOf(Unit), OptionOf(Address), Choice}}

\* Two addresses, one of them with three spellings, the longest not the shortest.
SomeCanonical == [s \in {<<0>>, <<1>>, <<0, 1>>, <<2, 3>>} |->
                     IF s = <<2, 3>> THEN s ELSE <<1>>]

ShortTexts == UNION {[1 .. n -> Byte \ {NotUtf8}] : n \in 0 .. 2}

SomeSamples ==
    [x \in Items |->
        CASE x.k = "str"  -> ShortTexts \cup {[i \in 1 .. Base - 1 |-> 0]}
          [] x.k = "address" -> {<<1>>, <<2, 3>>}
          [] x.k = "list" -> {0, 1, 2, 6}
          [] x = U64[1]   -> {0, 1, 5, 6, 46655, 46656, 1679615}
          [] OTHER        -> Tokens(x)]

AllSeeds == 0 .. Word - 1

=============================================================================
