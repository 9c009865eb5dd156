---------------------------- MODULE CodecProofs ----------------------------
(***************************************************************************)
(* The binary format for all numbers, strings and types: each call of the  *)
(* Serializer is undone by the call of the Deserializer, and a sequence of *)
(* calls, a script, by the same sequence, wherever it is cut.              *)
(*                                                                         *)
(* A value of a type with lists has no bound on its calls, and no          *)
(* induction over values is needed: writer and reader go call by call, and *)
(* what is true of their next call is enough for the invariants of the     *)
(* modules LibraryProofs and VerifierProofs.                               *)
(***************************************************************************)
EXTENDS Codec, SequenceTheorems, TLAPS

\* The high half and the low half of a number.
LEMMA Halves ==
    ASSUME NEW C \in Nat \ {0}, NEW n \in 0 .. C * C - 1
    PROVE  /\ n \div C \in 0 .. C - 1
           /\ n % C \in 0 .. C - 1
           /\ n = (n \div C) * C + (n % C)
  OBVIOUS

\* A number put together from its halves has these halves.
LEMMA Joined ==
    ASSUME NEW C \in Nat \ {0}, NEW q \in 0 .. C - 1, NEW r \in 0 .. C - 1
    PROVE  /\ q * C + r \in 0 .. C * C - 1
           /\ (q * C + r) \div C = q
           /\ (q * C + r) % C = r
  OBVIOUS

-----------------------------------------------------------------------------

\* A sequence is what is before a cut and what is after it.
LEMMA Cut ==
    ASSUME NEW S, NEW b \in Seq(S), NEW k \in 0 .. Len(b)
    PROVE  /\ SubSeq(b, 1, k) \in Seq(S) /\ Len(SubSeq(b, 1, k)) = k
           /\ From(b, k + 1) \in Seq(S) /\ Len(From(b, k + 1)) = Len(b) - k
           /\ \A i \in 1 .. Len(b) - k : From(b, k + 1)[i] = b[k + i]
           /\ SubSeq(b, 1, k) \o From(b, k + 1) = b
  <1> DEFINE n == Len(b)
  <1>0. n \in Nat /\ 1 \in 1 .. n + 1 /\ k \in 1 - 1 .. n /\ n \in k .. n
    BY LenProperties
  <1>1. SubSeq(b, 1, k) \o SubSeq(b, k + 1, n) = SubSeq(b, 1, n)
    BY <1>0, ConcatAdjacentSubSeq, Zenon
  <1>2. SubSeq(b, 1, Len(b)) = b
    BY SubSeqFull
  <1>3. SubSeq(b, k + 1, Len(b)) \in Seq(S) /\ Len(SubSeq(b, k + 1, Len(b))) = Len(b) - k
    OBVIOUS
  <1>4. SubSeq(b, 1, k) \in Seq(S) /\ Len(SubSeq(b, 1, k)) = k
    OBVIOUS
  <1>5. \A i \in 1 .. Len(b) - k : SubSeq(b, k + 1, Len(b))[i] = b[k + i]
    OBVIOUS
  <1> QED
    BY <1>1, <1>2, <1>3, <1>4, <1>5 DEF From

\* A concatenation, cut where it was joined, gives both parts back.
LEMMA Parts ==
    ASSUME NEW S, NEW a \in Seq(S), NEW r \in Seq(S)
    PROVE  /\ SubSeq(a \o r, 1, Len(a)) = a
           /\ From(a \o r, Len(a) + 1) = r
  <1>1. a \o r \in Seq(S) /\ Len(a \o r) = Len(a) + Len(r) /\ Len(a) \in 0 .. Len(a \o r)
    BY ConcatProperties, LenProperties
  <1> DEFINE p == SubSeq(a \o r, 1, Len(a))
             q == From(a \o r, Len(a) + 1)
  <1>2. /\ p \in Seq(S) /\ Len(p) = Len(a) /\ q \in Seq(S) /\ Len(q) = Len(r)
        /\ \A i \in 1 .. Len(r) : q[i] = (a \o r)[Len(a) + i]
    <2> DEFINE c == a \o r
    <2>1. c \in Seq(S) /\ Len(c) = Len(a) + Len(r) /\ Len(a) \in 0 .. Len(c) /\ Len(r) \in Nat
      BY <1>1, LenProperties
    <2> HIDE DEF c
    <2>2. Len(c) - Len(a) = Len(r)
      BY <2>1, LenProperties
    <2>3. /\ SubSeq(c, 1, Len(a)) \in Seq(S) /\ Len(SubSeq(c, 1, Len(a))) = Len(a)
          /\ From(c, Len(a) + 1) \in Seq(S) /\ Len(From(c, Len(a) + 1)) = Len(c) - Len(a)
          /\ \A i \in 1 .. Len(c) - Len(a) : From(c, Len(a) + 1)[i] = c[Len(a) + i]
      <3>1. c \in Seq(S) /\ Len(a) \in 0 .. Len(c)
        BY <2>1
      <3> DEFINE k == Len(a)
      <3> HIDE DEF k
      <3>2. k \in 0 .. Len(c)
        BY <3>1 DEF k
      <3>3. /\ SubSeq(c, 1, k) \in Seq(S) /\ Len(SubSeq(c, 1, k)) = k
            /\ From(c, k + 1) \in Seq(S) /\ Len(From(c, k + 1)) = Len(c) - k
            /\ \A i \in 1 .. Len(c) - k : From(c, k + 1)[i] = c[k + i]
        BY <3>1, <3>2, Cut, Zenon
      <3> QED
        BY <3>3 DEF k
    <2>4. /\ From(c, Len(a) + 1) \in Seq(S) /\ Len(From(c, Len(a) + 1)) = Len(r)
          /\ \A i \in 1 .. Len(r) : From(c, Len(a) + 1)[i] = c[Len(a) + i]
      <3> DEFINE k == Len(c) - Len(a)
      <3>1. /\ From(c, Len(a) + 1) \in Seq(S) /\ Len(From(c, Len(a) + 1)) = k
            /\ \A i \in 1 .. k : From(c, Len(a) + 1)[i] = c[Len(a) + i]
        BY <2>3
      <3>2. k = Len(r)
        BY <2>2
      <3> HIDE DEF k
      <3> QED
        BY <3>1, <3>2, Zenon
    <2>5. SubSeq(c, 1, Len(a)) \in Seq(S) /\ Len(SubSeq(c, 1, Len(a))) = Len(a)
      BY <2>3, Zenon
    <2> QED
      BY <2>4, <2>5, Zenon DEF c
  <1>3. \A i \in 1 .. Len(a) : p[i] = a[i]
    BY <1>1
  <1>4. \A i \in 1 .. Len(r) : q[i] = r[i]
    BY <1>1, <1>2, ConcatProperties, LenProperties
  <1> HIDE DEF p, q
  <1>5. p = a
    BY <1>2, <1>3, SeqEqual
  <1>6. q = r
    BY <1>2, <1>4, SeqEqual
  <1> QED
    BY <1>5, <1>6 DEF p, q

-----------------------------------------------------------------------------
\* How many values a byte and the numbers have.
LEMMA Sizes ==
    /\ Base \in Nat \ {0} /\ Size2 \in Nat \ {0} /\ Size4 \in Nat \ {0} /\ Size8 \in Nat \ {0}
    /\ Size2 = Base * Base /\ Size4 = Size2 * Size2 /\ Size8 = Size4 * Size4
    /\ Base >= 6
  <1>1. Base \in Nat \ {0} /\ Base >= 6
    BY BaseAssumption
  <1>2. \A n \in Nat \ {0} : n * n \in Nat \ {0}
    OBVIOUS
  <1> QED
    BY <1>1, <1>2 DEF Size2, Size4, Size8

\* Two bytes hold each number of a u16 and nothing else (deserializer.rs:106-111), whatever follows them.
LEMMA TwoBytes ==
    /\ \A n \in 0 .. Size2 - 1 : Bytes2(n) \in Seq(Byte) /\ Len(Bytes2(n)) = 2
    /\ \A n \in 0 .. Size2 - 1, r \in Seq(Byte) : Number2(Bytes2(n) \o r) = n
    /\ \A b \in Seq(Byte) : Len(b) >= 2 =>
         Number2(b) \in 0 .. Size2 - 1 /\ Bytes2(Number2(b)) = SubSeq(b, 1, 2)
  <1>1. ASSUME NEW n \in 0 .. Size2 - 1
        PROVE  /\ n \div Base \in Byte /\ n % Base \in Byte
               /\ n = (n \div Base) * Base + (n % Base)
    BY Sizes, Halves DEF Byte
  <1>2. ASSUME NEW n \in 0 .. Size2 - 1
        PROVE  Bytes2(n) \in Seq(Byte) /\ Len(Bytes2(n)) = 2
    BY <1>1 DEF Bytes2
  <1>3. ASSUME NEW n \in 0 .. Size2 - 1, NEW r \in Seq(Byte)
        PROVE  Number2(Bytes2(n) \o r) = n
    <2> DEFINE x == n \div Base
               y == n % Base
    <2>1. x \in Byte /\ y \in Byte /\ n = x * Base + y
      BY <1>1
    <2> HIDE DEF x, y
    <2>2. (<<x, y>> \o r)[1] = x /\ (<<x, y>> \o r)[2] = y
      BY <2>1
    <2> QED
      BY <2>1, <2>2 DEF Bytes2, Number2, x, y
  <1>4. ASSUME NEW b \in Seq(Byte), Len(b) >= 2
        PROVE  Number2(b) \in 0 .. Size2 - 1 /\ Bytes2(Number2(b)) = SubSeq(b, 1, 2)
    <2>1. b[1] \in Byte /\ b[2] \in Byte
      BY <1>4
    <2> DEFINE x == b[1]
               y == b[2]
    <2>2. x \in 0 .. Base - 1 /\ y \in 0 .. Base - 1 /\ Base \in Nat \ {0}
      BY <2>1, Sizes DEF Byte
    <2> HIDE DEF x, y
    <2>3. /\ x * Base + y \in 0 .. Base * Base - 1
          /\ (x * Base + y) \div Base = x
          /\ (x * Base + y) % Base = y
      BY <2>2, Joined
    <2>4. /\ Number2(b) \in 0 .. Size2 - 1
          /\ Number2(b) \div Base = b[1]
          /\ Number2(b) % Base = b[2]
      BY <2>3, Sizes DEF Number2, x, y
    <2>5. SubSeq(b, 1, 2) = <<b[1], b[2]>>
      <3>1. /\ SubSeq(b, 1, 2) \in Seq(Byte) /\ Len(SubSeq(b, 1, 2)) = 2
            /\ SubSeq(b, 1, 2)[1] = b[1] /\ SubSeq(b, 1, 2)[2] = b[2]
        BY <1>4
      <3>2. /\ <<b[1], b[2]>> \in Seq(Byte) /\ Len(<<b[1], b[2]>>) = 2
            /\ <<b[1], b[2]>>[1] = b[1] /\ <<b[1], b[2]>>[2] = b[2]
        BY <2>1
      <3>3. ASSUME NEW p \in Seq(Byte), NEW q \in Seq(Byte), Len(p) = 2, Len(q) = 2,
                   p[1] = q[1], p[2] = q[2]
            PROVE  p = q
        <4>1. \A i \in 1 .. Len(p) : p[i] = q[i]
          BY <3>3
        <4> QED
          BY <3>3, <4>1, SeqEqual
      <3> QED
        BY <3>1, <3>2, <3>3
    <2> QED
      BY <2>4, <2>5 DEF Bytes2
  <1> QED
    BY <1>2, <1>3, <1>4

\* The second of three parts.
LEMMA Doubled ==
    ASSUME NEW x \in Seq(Byte), NEW y \in Seq(Byte), NEW r \in Seq(Byte)
    PROVE  /\ (x \o y) \o r = x \o (y \o r) /\ y \o r \in Seq(Byte)
           /\ SubSeq((x \o y) \o r, Len(x) + 1, Len(x) + Len(y)) = y
  <1>1. (x \o y) \o r = x \o (y \o r)
    BY ConcatAssociative
  <1>2. y \o r \in Seq(Byte) /\ Len(y \o r) = Len(y) + Len(r)
    BY ConcatProperties
  <1> DEFINE s == (x \o y) \o r
             p == SubSeq(s, Len(x) + 1, Len(x) + Len(y))
  <1>3. /\ s \in Seq(Byte) /\ Len(s) = Len(x) + Len(y) + Len(r)
        /\ \A i \in 1 .. Len(y) : s[Len(x) + i] = y[i]
    <2>1. x \o y \in Seq(Byte) /\ Len(x \o y) = Len(x) + Len(y)
      BY ConcatProperties
    <2>2. Len(x) \in Nat /\ Len(y) \in Nat /\ Len(r) \in Nat
      BY LenProperties
    <2>3. s \in Seq(Byte) /\ Len(s) = Len(x) + Len(y) + Len(r)
      BY <2>1, ConcatProperties
    <2>4. ASSUME NEW i \in 1 .. Len(y) PROVE s[Len(x) + i] = y[i]
      <3>1. s[Len(x) + i] = (x \o (y \o r))[Len(x) + i]
        BY <1>1
      <3>2. (x \o (y \o r))[Len(x) + i] = (y \o r)[i]
        BY <1>2, <2>2, ConcatProperties
      <3>3. (y \o r)[i] = y[i]
        BY <2>2, ConcatProperties
      <3> QED
        BY <3>1, <3>2, <3>3
    <2> QED
      BY <2>3, <2>4
  <1> HIDE DEF s
  <1>4. p \in Seq(Byte) /\ Len(p) = Len(y) /\ \A i \in 1 .. Len(y) : p[i] = y[i]
    <2>1. Len(x) \in Nat /\ Len(y) \in Nat /\ Len(r) \in Nat
      BY LenProperties
    <2> DEFINE m == Len(x) + 1
               n == Len(x) + Len(y)
    <2>2. /\ m \in 1 .. Len(s) + 1 /\ n \in m - 1 .. Len(s) /\ Len(s) \in Nat
          /\ n - m + 1 = Len(y) /\ (m <= n \/ Len(y) = 0)
      BY <1>3, <2>1
    <2>4. \A i \in 1 .. Len(y) : s[m + i - 1] = y[i]
      BY <1>3, <2>1
    <2> HIDE DEF m, n
    <2>5. /\ SubSeq(s, m, n) \in Seq(Byte)
          /\ Len(SubSeq(s, m, n)) = IF m <= n THEN n - m + 1 ELSE 0
          /\ \A i \in 1 .. n - m + 1 : SubSeq(s, m, n)[i] = s[m + i - 1]
      BY <1>3, <2>2
    <2>6. Len(SubSeq(s, m, n)) = Len(y)
      BY <2>2, <2>5
    <2> QED
      BY <2>2, <2>4, <2>5, <2>6 DEF m, n
  <1> HIDE DEF p
  <1>5. p = y
    BY <1>4, SeqEqual
  <1> QED
    BY <1>1, <1>2, <1>5 DEF p, s

\* Twice as many bytes are two halves.
LEMMA Second ==
    ASSUME NEW w \in Nat \ {0}, NEW b \in Seq(Byte), Len(b) >= w + w
    PROVE  LET y == SubSeq(b, w + 1, w + w)
           IN  /\ y \in Seq(Byte) /\ Len(y) = w /\ SubSeq(y, 1, w) = y
               /\ SubSeq(b, 1, w) \o y = SubSeq(b, 1, w + w) /\ Len(b) >= w
  <1> DEFINE y == SubSeq(b, w + 1, w + w)
  <1>1. y \in Seq(Byte) /\ Len(y) = w /\ Len(b) >= w
    OBVIOUS
  <1>2. SubSeq(y, 1, w) = y
    BY <1>1, SubSeqFull
  <1>3. SubSeq(b, 1, w) \o SubSeq(b, w + 1, w + w) = SubSeq(b, 1, w + w)
    <2> DEFINE n == w + w
    <2>1. 1 \in 1 .. Len(b) + 1 /\ w \in 1 - 1 .. Len(b) /\ n \in w .. Len(b)
      BY LenProperties
    <2> HIDE DEF n
    <2>2. SubSeq(b, 1, w) \o SubSeq(b, w + 1, n) = SubSeq(b, 1, n)
      BY <2>1, ConcatAdjacentSubSeq, Zenon
    <2> QED
      BY <2>2 DEF n
  <1> QED
    BY <1>1, <1>2, <1>3

\* As for two bytes, from two numbers of two bytes (u32).
LEMMA FourBytes ==
    /\ \A n \in 0 .. Size4 - 1 : Bytes4(n) \in Seq(Byte) /\ Len(Bytes4(n)) = 4
    /\ \A n \in 0 .. Size4 - 1, r \in Seq(Byte) : Number4(Bytes4(n) \o r) = n
    /\ \A b \in Seq(Byte) : Len(b) >= 4 =>
         Number4(b) \in 0 .. Size4 - 1 /\ Bytes4(Number4(b)) = SubSeq(b, 1, 4)
  <1>1. ASSUME NEW n \in 0 .. Size4 - 1
        PROVE  /\ Bytes4(n) \in Seq(Byte) /\ Len(Bytes4(n)) = 4
               /\ \A r \in Seq(Byte) : Number4(Bytes4(n) \o r) = n
    <2> DEFINE q == n \div Size2
               t == n % Size2
               x == Bytes2(q)
               y == Bytes2(t)
    <2>1. q \in 0 .. Size2 - 1 /\ t \in 0 .. Size2 - 1 /\ n = q * Size2 + t
      BY Sizes, Halves
    <2> HIDE DEF q, t
    <2>2. x \in Seq(Byte) /\ Len(x) = 2 /\ y \in Seq(Byte) /\ Len(y) = 2
      BY <2>1, TwoBytes
    <2>3. \A r \in Seq(Byte) : Number2(x \o r) = q /\ Number2(y \o r) = t
      BY <2>1, TwoBytes
    <2>4. Bytes4(n) = x \o y
      BY DEF Bytes4, q, t
    <2> HIDE DEF x, y
    <2>5. ASSUME NEW r \in Seq(Byte) PROVE Number4((x \o y) \o r) = n
      <3>1. /\ (x \o y) \o r = x \o (y \o r) /\ y \o r \in Seq(Byte)
            /\ SubSeq((x \o y) \o r, Len(x) + 1, Len(x) + Len(y)) = y
        BY <2>2, Doubled, Zenon
      <3>2. Number2(x \o (y \o r)) = q
        BY <2>3, <3>1
      <3>3. Number2(y) = t
        BY <2>2, <2>3, EmptySeq, ConcatEmptySeq
      <3>4. SubSeq((x \o y) \o r, 3, 4) = y
        <4>1. Len(x) + 1 = 3 /\ Len(x) + Len(y) = 4
          BY <2>2
        <4> QED
          BY <3>1, <4>1
      <3>5. Number4((x \o y) \o r) = Number2((x \o y) \o r) * Size2 + Number2(y)
        BY <3>4 DEF Number4
      <3> QED
        BY <2>1, <3>1, <3>2, <3>3, <3>5
    <2>6. x \o y \in Seq(Byte) /\ Len(x \o y) = 4
      <3>1. x \o y \in Seq(Byte) /\ Len(x \o y) = Len(x) + Len(y)
        BY <2>2, ConcatProperties, Zenon
      <3> QED
        BY <2>2, <3>1
    <2> QED
      BY <2>4, <2>5, <2>6
  <1>2. ASSUME NEW b \in Seq(Byte), Len(b) >= 4
        PROVE  Number4(b) \in 0 .. Size4 - 1 /\ Bytes4(Number4(b)) = SubSeq(b, 1, 4)
    <2> DEFINE y == SubSeq(b, 2 + 1, 2 + 2)
    <2>1. /\ y \in Seq(Byte) /\ Len(y) = 2 /\ SubSeq(y, 1, 2) = y
          /\ SubSeq(b, 1, 2) \o y = SubSeq(b, 1, 2 + 2) /\ Len(b) >= 2
      BY <1>2, Second
    <2>2. y = SubSeq(b, 2 + 1, 4) /\ SubSeq(b, 1, 2) \o y = SubSeq(b, 1, 4)
      BY <2>1
    <2> DEFINE q == Number2(b)
               t == Number2(y)
    <2> HIDE DEF y
    <2>3. /\ q \in 0 .. Size2 - 1 /\ Bytes2(q) = SubSeq(b, 1, 2)
          /\ t \in 0 .. Size2 - 1 /\ Bytes2(t) = y
      <3>1. Len(y) >= 2
        BY <2>1
      <3> QED
        BY <2>1, <3>1, TwoBytes, Zenon
    <2>4. Number4(b) = q * Size2 + t
      BY <2>2 DEF Number4
    <2> HIDE DEF q, t
    <2>5. /\ q * Size2 + t \in 0 .. Size2 * Size2 - 1
          /\ (q * Size2 + t) \div Size2 = q
          /\ (q * Size2 + t) % Size2 = t
      <3>1. Size2 \in Nat \ {0}
        BY Sizes
      <3> QED
        BY <2>3, <3>1, Joined, Zenon
    <2> QED
      BY <2>2, <2>3, <2>4, <2>5, Sizes DEF Bytes4
  <1> QED
    BY <1>1, <1>2

\* As for four bytes, from two numbers of four bytes (u64).
LEMMA EightBytes ==
    /\ \A n \in 0 .. Size8 - 1 : Bytes8(n) \in Seq(Byte) /\ Len(Bytes8(n)) = 8
    /\ \A n \in 0 .. Size8 - 1, r \in Seq(Byte) : Number8(Bytes8(n) \o r) = n
    /\ \A b \in Seq(Byte) : Len(b) >= 8 =>
         Number8(b) \in 0 .. Size8 - 1 /\ Bytes8(Number8(b)) = SubSeq(b, 1, 8)
  <1>1. ASSUME NEW n \in 0 .. Size8 - 1
        PROVE  /\ Bytes8(n) \in Seq(Byte) /\ Len(Bytes8(n)) = 8
               /\ \A r \in Seq(Byte) : Number8(Bytes8(n) \o r) = n
    <2> DEFINE q == n \div Size4
               t == n % Size4
               x == Bytes4(q)
               y == Bytes4(t)
    <2>1. q \in 0 .. Size4 - 1 /\ t \in 0 .. Size4 - 1 /\ n = q * Size4 + t
      BY Sizes, Halves
    <2> HIDE DEF q, t
    <2>2. x \in Seq(Byte) /\ Len(x) = 4 /\ y \in Seq(Byte) /\ Len(y) = 4
      BY <2>1, FourBytes
    <2>3. \A r \in Seq(Byte) : Number4(x \o r) = q /\ Number4(y \o r) = t
      BY <2>1, FourBytes
    <2>4. Bytes8(n) = x \o y
      BY DEF Bytes8, q, t
    <2> HIDE DEF x, y
    <2>5. ASSUME NEW r \in Seq(Byte) PROVE Number8((x \o y) \o r) = n
      <3>1. /\ (x \o y) \o r = x \o (y \o r) /\ y \o r \in Seq(Byte)
            /\ SubSeq((x \o y) \o r, Len(x) + 1, Len(x) + Len(y)) = y
        BY <2>2, Doubled, Zenon
      <3>2. Number4(x \o (y \o r)) = q
        BY <2>3, <3>1
      <3>3. Number4(y) = t
        BY <2>2, <2>3, EmptySeq, ConcatEmptySeq
      <3>4. SubSeq((x \o y) \o r, 5, 8) = y
        <4>1. Len(x) + 1 = 5 /\ Len(x) + Len(y) = 8
          BY <2>2
        <4> QED
          BY <3>1, <4>1
      <3>5. Number8((x \o y) \o r) = Number4((x \o y) \o r) * Size4 + Number4(y)
        BY <3>4 DEF Number8
      <3> QED
        BY <2>1, <3>1, <3>2, <3>3, <3>5
    <2>6. x \o y \in Seq(Byte) /\ Len(x \o y) = 8
      <3>1. x \o y \in Seq(Byte) /\ Len(x \o y) = Len(x) + Len(y)
        BY <2>2, ConcatProperties, Zenon
      <3> QED
        BY <2>2, <3>1
    <2> QED
      BY <2>4, <2>5, <2>6
  <1>2. ASSUME NEW b \in Seq(Byte), Len(b) >= 8
        PROVE  Number8(b) \in 0 .. Size8 - 1 /\ Bytes8(Number8(b)) = SubSeq(b, 1, 8)
    <2> DEFINE y == SubSeq(b, 4 + 1, 4 + 4)
    <2>1. /\ y \in Seq(Byte) /\ Len(y) = 4 /\ SubSeq(y, 1, 4) = y
          /\ SubSeq(b, 1, 4) \o y = SubSeq(b, 1, 4 + 4) /\ Len(b) >= 4
      BY <1>2, Second
    <2>2. y = SubSeq(b, 4 + 1, 8) /\ SubSeq(b, 1, 4) \o y = SubSeq(b, 1, 8)
      BY <2>1
    <2> DEFINE q == Number4(b)
               t == Number4(y)
    <2> HIDE DEF y
    <2>3. /\ q \in 0 .. Size4 - 1 /\ Bytes4(q) = SubSeq(b, 1, 4)
          /\ t \in 0 .. Size4 - 1 /\ Bytes4(t) = y
      <3>1. Len(y) >= 4
        BY <2>1
      <3> QED
        BY <2>1, <3>1, FourBytes, Zenon
    <2>4. Number8(b) = q * Size4 + t
      BY <2>2 DEF Number8
    <2> HIDE DEF q, t
    <2>5. /\ q * Size4 + t \in 0 .. Size4 * Size4 - 1
          /\ (q * Size4 + t) \div Size4 = q
          /\ (q * Size4 + t) % Size4 = t
      <3>1. Size4 \in Nat \ {0}
        BY Sizes
      <3> QED
        BY <2>3, <3>1, Joined, Zenon
    <2> QED
      BY <2>2, <2>3, <2>4, <2>5, Sizes DEF Bytes8
  <1> QED
    BY <1>1, <1>2
-----------------------------------------------------------------------------
\* The numbers of the library have 8, 16, 32 or 64 bits.
Widths == {1, 2, 4, 8}

\* Numbers of all widths: to_be_bytes and from_be_bytes are inverses.
LEMMA Numbers ==
    ASSUME NEW w \in Widths
    PROVE  /\ Size(w) \in Nat \ {0} /\ w \in Nat \ {0}
           /\ \A n \in 0 .. Size(w) - 1 : EncodeInt(w, n) \in Seq(Byte) /\ Len(EncodeInt(w, n)) = w
           /\ \A n \in 0 .. Size(w) - 1, r \in Seq(Byte) : BigEndian(w, EncodeInt(w, n) \o r) = n
           /\ \A b \in Seq(Byte) : Len(b) >= w =>
                BigEndian(w, b) \in 0 .. Size(w) - 1 /\ EncodeInt(w, BigEndian(w, b)) = SubSeq(b, 1, w)
  <1>1. CASE w = 1
    <2>1. Size(w) = Base /\ Base \in Nat \ {0}
      BY <1>1, Sizes DEF Size
    <2>2. ASSUME NEW n \in 0 .. Size(w) - 1
          PROVE  /\ EncodeInt(w, n) = <<n>> /\ n \in Byte
      BY <1>1, <2>1 DEF EncodeInt, Byte
    <2>3. ASSUME NEW n \in Byte, NEW r \in Seq(Byte)
          PROVE  <<n>> \in Seq(Byte) /\ Len(<<n>>) = 1 /\ (<<n>> \o r)[1] = n
      OBVIOUS
    <2>4. ASSUME NEW b \in Seq(Byte), Len(b) >= 1
          PROVE  b[1] \in Byte /\ <<b[1]>> = SubSeq(b, 1, 1)
      <3>1. b[1] \in Byte
        BY <2>4
      <3>2. <<b[1]>> \in Seq(Byte) /\ Len(<<b[1]>>) = 1 /\ <<b[1]>>[1] = b[1]
        BY <3>1
      <3>3. SubSeq(b, 1, 1) \in Seq(Byte) /\ Len(SubSeq(b, 1, 1)) = 1 /\ SubSeq(b, 1, 1)[1] = b[1]
        BY <2>4
      <3> DEFINE p == <<b[1]>>
                 q == SubSeq(b, 1, 1)
      <3>4. /\ p \in Seq(Byte) /\ q \in Seq(Byte) /\ Len(p) = Len(q)
            /\ \A i \in 1 .. Len(p) : p[i] = q[i]
        BY <3>2, <3>3
      <3> HIDE DEF p, q
      <3>5. p = q
        BY <3>4, SeqEqual
      <3> QED
        BY <3>1, <3>5 DEF p, q
    <2>5. ASSUME NEW b \in Seq(Byte) PROVE BigEndian(w, b) = b[1]
      BY <1>1 DEF BigEndian
    <2>6. ASSUME NEW n \in 0 .. Size(w) - 1
          PROVE  EncodeInt(w, n) \in Seq(Byte) /\ Len(EncodeInt(w, n)) = w
      BY <1>1, <2>2, <2>3, EmptySeq
    <2>7. ASSUME NEW n \in 0 .. Size(w) - 1, NEW r \in Seq(Byte)
          PROVE  BigEndian(w, EncodeInt(w, n) \o r) = n
      BY <1>1, <2>2, <2>3 DEF BigEndian
    <2>8. ASSUME NEW b \in Seq(Byte), Len(b) >= w
          PROVE  BigEndian(w, b) \in 0 .. Size(w) - 1 /\ EncodeInt(w, BigEndian(w, b)) = SubSeq(b, 1, w)
      <3>1. b[1] \in Byte /\ <<b[1]>> = SubSeq(b, 1, 1)
        BY <1>1, <2>4, <2>8
      <3>2. BigEndian(w, b) = b[1] /\ b[1] \in 0 .. Size(w) - 1
        BY <2>1, <2>5, <3>1 DEF Byte
      <3> QED
        BY <1>1, <2>2, <3>1, <3>2
    <2> QED
      BY <1>1, <2>1, <2>6, <2>7, <2>8
  <1>2. CASE w = 2
    BY <1>2, Sizes, TwoBytes DEF Size, EncodeInt, BigEndian
  <1>4. CASE w = 4
    BY <1>4, Sizes, FourBytes DEF Size, EncodeInt, BigEndian
  <1>8. CASE w = 8
    BY <1>8, Sizes, EightBytes DEF Size, EncodeInt, BigEndian
  <1> QED
    BY <1>1, <1>2, <1>4, <1>8 DEF Widths
-----------------------------------------------------------------------------

\* A number is read back with what follows it, and is waited for while it is short
\* (deserializer.rs:71-125).
LEMMA IntCalls ==
    ASSUME NEW w \in Widths
    PROVE  /\ \A n \in 0 .. Size(w) - 1, r \in Seq(Byte) :
                DecodeInt(w, EncodeInt(w, n) \o r) = Ok(n, r)
           /\ \A b \in Seq(Byte) : Len(b) < w => DecodeInt(w, b) = Eof
           /\ \A b \in Seq(Byte) : Len(b) >= w =>
                \E n \in 0 .. Size(w) - 1, r \in Seq(Byte) :
                    DecodeInt(w, b) = Ok(n, r) /\ b = EncodeInt(w, n) \o r
  <1>1. ASSUME NEW n \in 0 .. Size(w) - 1, NEW r \in Seq(Byte)
        PROVE  DecodeInt(w, EncodeInt(w, n) \o r) = Ok(n, r)
    <2> DEFINE e == EncodeInt(w, n)
    <2>1. e \in Seq(Byte) /\ Len(e) = w /\ BigEndian(w, e \o r) = n
      BY Numbers
    <2> HIDE DEF e
    <2>2. Len(e \o r) = Len(e) + Len(r) /\ Len(r) \in Nat /\ From(e \o r, Len(e) + 1) = r
      <3>1. From(e \o r, Len(e) + 1) = r
        BY <2>1, Parts, Zenon
      <3> QED
        BY <2>1, <3>1, ConcatProperties, LenProperties
    <2>3. ~ (Len(e \o r) < w)
      BY <2>1, <2>2, Numbers
    <2> QED
      BY <2>1, <2>2, <2>3 DEF DecodeInt, e
  <1>2. ASSUME NEW b \in Seq(Byte), Len(b) < w PROVE DecodeInt(w, b) = Eof
    BY <1>2 DEF DecodeInt
  <1>3. ASSUME NEW b \in Seq(Byte), Len(b) >= w
        PROVE  \E n \in 0 .. Size(w) - 1, r \in Seq(Byte) :
                   DecodeInt(w, b) = Ok(n, r) /\ b = EncodeInt(w, n) \o r
    <2> DEFINE n == BigEndian(w, b)
               r == From(b, w + 1)
    <2>1. n \in 0 .. Size(w) - 1 /\ EncodeInt(w, n) = SubSeq(b, 1, w) /\ w \in Nat \ {0}
      BY <1>3, Numbers
    <2>2. w \in 0 .. Len(b) /\ ~ (Len(b) < w)
      BY <1>3, <2>1, LenProperties
    <2>3. r \in Seq(Byte) /\ SubSeq(b, 1, w) \o r = b
      BY <2>2, Cut, Zenon
    <2>4. DecodeInt(w, b) = Ok(n, r)
      BY <2>2 DEF DecodeInt
    <2> HIDE DEF n, r
    <2>5. b = EncodeInt(w, n) \o r
      BY <2>1, <2>3
    <2>6. n \in 0 .. Size(w) - 1 /\ r \in Seq(Byte)
      BY <2>1, <2>3
    <2> QED
      BY <2>4, <2>5, <2>6
  <1> QED
    BY <1>1, <1>2, <1>3

\* Whatever the bytes are, a call says eof, or bad, or takes the bytes that the
\* Serializer makes of the result and leaves the others.
Answers(x, b) ==
    \/ Decode(x, b) = Eof
    \/ Decode(x, b) = Bad
    \/ \E v \in Tokens(x), r \in Seq(Byte) : Decode(x, b) = Ok(v, r) /\ b = Encode(x, v) \o r

\* What the library promises of a call x: it reads what it has written, whatever
\* follows; it takes nothing else for a value; and a beginning of it is eof.
CallOK(x) ==
    /\ \A v \in Tokens(x) : Encode(x, v) \in Seq(Byte)
    /\ \A v \in Tokens(x), r \in Seq(Byte) : Decode(x, Encode(x, v) \o r) = Ok(v, r)
    /\ \A b \in Seq(Byte) : Answers(x, b)
    /\ \A v \in Tokens(x), p \in Seq(Byte), q \in Seq(Byte) :
          Encode(x, v) = p \o q /\ q # <<>> => Decode(x, p) = Eof
    /\ x.k # "counted" => /\ \A v \in Tokens(x) : Encode(x, v) # <<>>
                          /\ Decode(x, <<>>) = Eof

\* What comes before something is shorter than the whole.
LEMMA Shorter ==
    ASSUME NEW S, NEW e, NEW p \in Seq(S), NEW q \in Seq(S), e = p \o q, q # <<>>
    PROVE  Len(p) < Len(e) /\ Len(p) \in Nat
  BY ConcatProperties, EmptySeq, LenProperties

\* Unsigned numbers, and the lengths of lists.
LEMMA UnsignedCall ==
    ASSUME NEW x, x.k \in {"unsigned", "list"}, x.k = "unsigned" => x.width \in Widths
    PROVE  CallOK(x)
  <1> DEFINE w == IF x.k = "unsigned" THEN x.width ELSE 4
  <1>1. w \in Widths
    BY DEF Widths
  <1>2. /\ Tokens(x) = 0 .. Size(w) - 1
        /\ \A v : Encode(x, v) = EncodeInt(w, v)
        /\ \A b : Decode(x, b) = DecodeInt(w, b)
    <2>1. CASE x.k = "unsigned"
      BY <2>1 DEF Tokens, Encode, Decode
    <2>2. CASE x.k = "list"
      BY <2>2 DEF Tokens, Encode, Decode, Size
    <2> QED
      BY <2>1, <2>2
  <1> HIDE DEF w
  <1>3. /\ \A n \in 0 .. Size(w) - 1 : EncodeInt(w, n) \in Seq(Byte) /\ Len(EncodeInt(w, n)) = w
        /\ w \in Nat \ {0}
    BY <1>1, Numbers
  <1>4. \A v \in Tokens(x), r \in Seq(Byte) : Decode(x, Encode(x, v) \o r) = Ok(v, r)
    BY <1>1, <1>2, IntCalls
  <1>5. ASSUME NEW b \in Seq(Byte) PROVE Answers(x, b)
    <2>1. CASE Len(b) < w
      BY <1>1, <1>2, <2>1, IntCalls DEF Answers
    <2>2. CASE Len(b) >= w
      <3>1. \E n \in 0 .. Size(w) - 1, r \in Seq(Byte) :
               DecodeInt(w, b) = Ok(n, r) /\ b = EncodeInt(w, n) \o r
        BY <1>1, <2>2, IntCalls
      <3> QED
        BY <1>2, <3>1 DEF Answers
    <2> QED
      BY <1>3, <2>1, <2>2, LenProperties
  <1>6. ASSUME NEW v \in Tokens(x), NEW p \in Seq(Byte), NEW q \in Seq(Byte),
               Encode(x, v) = p \o q, q # <<>>
        PROVE  Decode(x, p) = Eof
    <2>1. Len(p) < Len(Encode(x, v))
      BY <1>6, Shorter
    <2>2. Len(p) < w
      BY <1>2, <1>3, <2>1
    <2> QED
      BY <1>1, <1>2, <2>2, IntCalls
  <1>7. \A v \in Tokens(x) : Encode(x, v) # <<>>
    BY <1>2, <1>3, EmptySeq
  <1>8. Decode(x, <<>>) = Eof
    <2>1. <<>> \in Seq(Byte) /\ Len(<<>>) < w
      BY <1>3
    <2> QED
      BY <1>1, <1>2, <2>1, IntCalls
  <1>9. \A v \in Tokens(x) : Encode(x, v) \in Seq(Byte)
    BY <1>2, <1>3
  <1> QED
    BY <1>4, <1>5, <1>6, <1>7, <1>8, <1>9 DEF CallOK

\* Signed numbers: two's complement has one form for each number.
LEMMA SignedCall ==
    ASSUME NEW x, x.k = "signed", x.width \in Widths
    PROVE  CallOK(x)
  <1> DEFINE w == x.width
             size == Size(w)
             half == size \div 2
             U(v) == IF v < 0 THEN v + size ELSE v
             V(n) == IF n >= half THEN n - size ELSE n
  <1>1. w \in Widths /\ size \in Nat \ {0} /\ half \in 0 .. size /\ Size(w) = size
    <2>1. size \in Nat \ {0}
      BY Numbers
    <2> HIDE DEF size
    <2> QED
      BY <2>1 DEF size
  <1>2. /\ Tokens(x) = half - size .. half - 1
        /\ \A v : Encode(x, v) = EncodeInt(w, U(v))
        /\ \A b : Decode(x, b) = IF DecodeInt(w, b).r = "ok" /\ DecodeInt(w, b).v >= half
                              THEN Ok(DecodeInt(w, b).v - size, DecodeInt(w, b).rest)
                              ELSE DecodeInt(w, b)
    BY DEF Tokens, Encode, Decode, DecodeSigned
  <1> HIDE DEF w, size, half
  <1>3. ASSUME NEW v \in Tokens(x) PROVE U(v) \in 0 .. size - 1 /\ V(U(v)) = v
    <2>1. v \in half - size .. half - 1 /\ size \in Nat \ {0} /\ half \in 0 .. size
      BY <1>1, <1>2
    <2> QED
      BY <2>1
  <1>4. ASSUME NEW n \in 0 .. size - 1 PROVE V(n) \in Tokens(x) /\ U(V(n)) = n
    <2>1. n \in 0 .. size - 1 /\ size \in Nat \ {0} /\ half \in 0 .. size
      BY <1>1
    <2>2. V(n) \in half - size .. half - 1 /\ U(V(n)) = n
      BY <2>1
    <2> QED
      BY <1>2, <2>2
  <1> HIDE DEF U
  <1>5. ASSUME NEW b, NEW n, NEW r, DecodeInt(w, b) = Ok(n, r)
        PROVE  Decode(x, b) = Ok(V(n), r)
    <2>1. DecodeInt(w, b).r = "ok" /\ DecodeInt(w, b).v = n /\ DecodeInt(w, b).rest = r
      BY <1>5 DEF Ok
    <2> QED
      BY <1>2, <1>5, <2>1
  <1>6. ASSUME NEW b, DecodeInt(w, b) = Eof PROVE Decode(x, b) = Eof
    <2>1. DecodeInt(w, b).r # "ok"
      BY <1>6 DEF Eof
    <2> QED
      BY <1>2, <1>6, <2>1
  <1> HIDE DEF V
  <1>7. ASSUME NEW v \in Tokens(x)
        PROVE  Encode(x, v) \in Seq(Byte) /\ Len(Encode(x, v)) = w /\ w \in Nat \ {0}
    <2>1. U(v) \in 0 .. size - 1
      BY <1>3
    <2> QED
      BY <1>1, <1>2, <2>1, Numbers
  <1>8. ASSUME NEW v \in Tokens(x), NEW r \in Seq(Byte)
        PROVE  Decode(x, Encode(x, v) \o r) = Ok(v, r)
    <2>1. U(v) \in 0 .. size - 1 /\ V(U(v)) = v
      BY <1>3
    <2>2. DecodeInt(w, EncodeInt(w, U(v)) \o r) = Ok(U(v), r)
      BY <1>1, <2>1, IntCalls
    <2>3. Decode(x, EncodeInt(w, U(v)) \o r) = Ok(V(U(v)), r)
      BY <1>5, <2>2
    <2> QED
      BY <1>2, <2>1, <2>3
  <1>9. ASSUME NEW b \in Seq(Byte) PROVE Answers(x, b)
    <2>1. CASE Len(b) < w
      <3>1. DecodeInt(w, b) = Eof
        BY <1>1, <2>1, IntCalls
      <3> QED
        BY <1>6, <3>1 DEF Answers
    <2>2. CASE Len(b) >= w
      <3>1. PICK n \in 0 .. size - 1, r \in Seq(Byte) :
               DecodeInt(w, b) = Ok(n, r) /\ b = EncodeInt(w, n) \o r
        BY <1>1, <2>2, IntCalls
      <3>2. V(n) \in Tokens(x) /\ U(V(n)) = n /\ Decode(x, b) = Ok(V(n), r)
        BY <1>4, <1>5, <3>1
      <3>3. b = Encode(x, V(n)) \o r
        BY <1>2, <3>1, <3>2
      <3> QED
        BY <3>2, <3>3 DEF Answers
    <2>3. Len(b) \in Nat /\ w \in Nat
      BY <1>1, Numbers, LenProperties
    <2> QED
      BY <2>1, <2>2, <2>3
  <1>10. ASSUME NEW v \in Tokens(x), NEW p \in Seq(Byte), NEW q \in Seq(Byte),
                Encode(x, v) = p \o q, q # <<>>
         PROVE  Decode(x, p) = Eof
    <2>1. Len(p) < w
      BY <1>7, <1>10, Shorter
    <2>2. DecodeInt(w, p) = Eof
      BY <1>1, <2>1, IntCalls
    <2> QED
      BY <1>6, <2>2
  <1>11. \A v \in Tokens(x) : Encode(x, v) # <<>>
    BY <1>7, EmptySeq
  <1>12. Decode(x, <<>>) = Eof
    <2>1. <<>> \in Seq(Byte) /\ Len(<<>>) < w
      BY <1>1, Numbers
    <2>2. DecodeInt(w, <<>>) = Eof
      BY <1>1, <2>1, IntCalls
    <2> QED
      BY <1>6, <2>2
  <1> QED
    BY <1>7, <1>8, <1>9, <1>10, <1>11, <1>12 DEF CallOK

\* The byte of a boolean, an option or an enum (deserializer.rs:59-76, 180-203).
LEMMA VariantCall ==
    ASSUME NEW x, x.k = "variant", Len(x.of) \in Nat, Len(x.of) <= Base
    PROVE  CallOK(x)
  <1> DEFINE n == Len(x.of)
  <1>1. /\ Tokens(x) = 0 .. n - 1
        /\ \A v : Encode(x, v) = <<v>>
        /\ \A b : Decode(x, b) = DecodeVariant(n, b)
    BY DEF Tokens, Encode, Decode
  <1>0. n \in Nat /\ n <= Base /\ Base \in Nat
    BY Sizes
  <1> HIDE DEF n
  <1>2. \A v \in Tokens(x) : v \in Byte /\ v < n
    BY <1>0, <1>1 DEF Byte
  <1>3. ASSUME NEW v \in Tokens(x) PROVE Encode(x, v) \in Seq(Byte) /\ Encode(x, v) # <<>>
    <2>1. v \in Byte
      BY <1>2
    <2>2. <<v>> \in Seq(Byte) /\ <<v>> # <<>>
      BY <2>1
    <2> QED
      BY <1>1, <2>2
  <1>4. ASSUME NEW v \in Tokens(x), NEW r \in Seq(Byte)
        PROVE  Decode(x, Encode(x, v) \o r) = Ok(v, r)
    <2> DEFINE b == <<v>> \o r
    <2>1. v \in Byte /\ v < n /\ v \in Int
      BY <1>0, <1>1, <1>2
    <2>2. <<v>> \in Seq(Byte) /\ Len(<<v>>) = 1
      BY <2>1
    <2>3. From(b, Len(<<v>>) + 1) = r
      BY <2>2, Parts, Zenon
    <2>4. b[1] = v /\ b # <<>>
      BY <2>1
    <2>5. From(b, 2) = r
      BY <2>2, <2>3
    <2> HIDE DEF b
    <2>6. DecodeVariant(n, b) = Ok(v, r)
      BY <1>0, <2>1, <2>4, <2>5 DEF DecodeVariant
    <2> QED
      BY <1>1, <2>6 DEF b
  <1>5. ASSUME NEW b \in Seq(Byte) PROVE Answers(x, b)
    <2>1. CASE b = <<>>
      BY <1>1, <2>1 DEF Answers, DecodeVariant
    <2>2. CASE b # <<>> /\ b[1] >= n
      BY <1>1, <2>2 DEF Answers, DecodeVariant
    <2>3. CASE b # <<>> /\ ~ (b[1] >= n)
      <3> DEFINE v == b[1]
                 r == From(b, 2)
      <3>1. DecodeVariant(n, b) = Ok(v, r)
        BY <2>3 DEF DecodeVariant
      <3>2. 1 \in 0 .. Len(b) /\ v \in Byte
        BY <2>3
      <3>3. From(b, 1 + 1) \in Seq(Byte) /\ SubSeq(b, 1, 1) \o From(b, 1 + 1) = b
        BY <3>2, Cut, Zenon
      <3>4. SubSeq(b, 1, 1) = <<v>>
        <4> DEFINE p == <<b[1]>>
                   q == SubSeq(b, 1, 1)
        <4>1. p \in Seq(Byte) /\ q \in Seq(Byte) /\ Len(p) = Len(q) /\ Len(p) = 1 /\ p[1] = q[1]
          BY <2>3, <3>2
        <4> HIDE DEF p, q
        <4>2. \A i \in 1 .. Len(p) : p[i] = q[i]
          BY <4>1
        <4>3. p = q
          BY <4>1, <4>2, SeqEqual
        <4> QED
          BY <4>3 DEF p, q
      <3>5. v \in Tokens(x)
        BY <1>0, <1>1, <2>3, <3>2 DEF Byte
      <3>6. r \in Seq(Byte) /\ b = <<v>> \o r
        BY <3>3, <3>4
      <3> HIDE DEF v, r
      <3> QED
        BY <1>1, <3>1, <3>5, <3>6 DEF Answers
    <2> QED
      BY <2>1, <2>2, <2>3
  <1>6. ASSUME NEW v \in Tokens(x), NEW p \in Seq(Byte), NEW q \in Seq(Byte),
               Encode(x, v) = p \o q, q # <<>>
        PROVE  Decode(x, p) = Eof
    <2>1. Len(Encode(x, v)) = 1
      BY <1>1
    <2>2. Len(p) < 1 /\ Len(p) \in Nat
      BY <1>6, <2>1, Shorter
    <2>3. p = <<>>
      BY <2>2, EmptySeq
    <2> QED
      BY <1>1, <2>3 DEF DecodeVariant
  <1>7. Decode(x, <<>>) = Eof
    BY <1>1 DEF DecodeVariant
  <1>8. /\ \A v \in Tokens(x) : Encode(x, v) \in Seq(Byte)
        /\ \A v \in Tokens(x) : Encode(x, v) # <<>>
    BY <1>3
  <1> QED
    BY <1>4, <1>5, <1>6, <1>7, <1>8 DEF CallOK

\* Going on inside a list needs no bytes.
LEMMA CountedCall ==
    ASSUME NEW x, x.k = "counted"
    PROVE  CallOK(x)
  <1>1. /\ Tokens(x) = {0}
        /\ \A v : Encode(x, v) = <<>>
        /\ \A b : Decode(x, b) = Ok(0, b)
    BY DEF Tokens, Encode, Decode
  <1>2. ASSUME NEW r \in Seq(Byte) PROVE <<>> \o r = r
    BY ConcatEmptySeq
  <1>3. \A v \in Tokens(x) : Encode(x, v) \in Seq(Byte)
    BY <1>1, EmptySeq
  <1>4. \A v \in Tokens(x), r \in Seq(Byte) : Decode(x, Encode(x, v) \o r) = Ok(v, r)
    BY <1>1, <1>2
  <1>5. ASSUME NEW b \in Seq(Byte) PROVE Answers(x, b)
    <2>1. Decode(x, b) = Ok(0, b) /\ b = Encode(x, 0) \o b /\ 0 \in Tokens(x)
      BY <1>1, <1>2
    <2> QED
      BY <2>1 DEF Answers
  <1>6. ASSUME NEW v \in Tokens(x), NEW p \in Seq(Byte), NEW q \in Seq(Byte),
               Encode(x, v) = p \o q, q # <<>>
        PROVE  Decode(x, p) = Eof
    <2>1. p \o q = <<>>
      BY <1>1, <1>6
    <2> QED
      BY <1>6, <2>1, ConcatEqualIffEmpty
  <1> QED
    BY <1>3, <1>4, <1>5, <1>6 DEF CallOK

\* A string, its length first (deserializer.rs:148-157): any bytes that are not UTF-8 are refused.
LEMMA StrCall ==
    ASSUME NEW x, x.k = "str"
    PROVE  CallOK(x)
  <1> DEFINE Text == Byte \ {NotUtf8}
  <1>1. /\ Tokens(x) = {s \in Seq(Text) : Len(s) < Base}
        /\ \A v : Encode(x, v) = <<Len(v)>> \o v
        /\ \A b : Decode(x, b) = DecodeStr(b)
    BY DEF Tokens, Texts, Encode, Decode
  <1>2. ASSUME NEW v \in Tokens(x)
        PROVE  /\ v \in Seq(Byte) /\ Len(v) \in Byte /\ <<Len(v)>> \in Seq(Byte)
               /\ \A i \in 1 .. Len(v) : v[i] # NotUtf8
               /\ Encode(x, v) \in Seq(Byte) /\ Len(Encode(x, v)) = Len(v) + 1
               /\ Encode(x, v)[1] = Len(v)
               /\ \A i \in 1 .. Len(v) : Encode(x, v)[i + 1] = v[i]
    <2>1. v \in Seq(Text) /\ Len(v) < Base
      BY <1>1
    <2>2. v \in Seq(Byte)
      BY <2>1, SeqMonotonic
    <2>3. \A i \in 1 .. Len(v) : v[i] # NotUtf8
      BY <2>1, ElementOfSeq
    <2>4. Len(v) \in Byte
      BY <2>1, <2>2, Sizes, LenProperties DEF Byte
    <2> DEFINE h == <<Len(v)>>
    <2>5. h \in Seq(Byte) /\ Len(h) = 1 /\ h[1] = Len(v)
      BY <2>4
    <2> HIDE DEF h
    <2>6. /\ h \o v \in Seq(Byte) /\ Len(h \o v) = Len(h) + Len(v)
          /\ \A i \in 1 .. Len(h) + Len(v) : (h \o v)[i] = IF i <= Len(h) THEN h[i] ELSE v[i - Len(h)]
      BY <2>2, <2>5, ConcatProperties
    <2>7. Len(v) \in Nat
      BY <2>2, LenProperties
    <2>8. /\ Len(h \o v) = Len(v) + 1 /\ (h \o v)[1] = Len(v)
          /\ \A i \in 1 .. Len(v) : (h \o v)[i + 1] = v[i]
      BY <2>5, <2>6, <2>7
    <2>9. Encode(x, v) = h \o v
      BY <1>1 DEF h
    <2> QED
      BY <2>2, <2>3, <2>4, <2>5, <2>6, <2>8, <2>9 DEF h
  <1>3. ASSUME NEW b \in Seq(Byte), b # <<>>, Len(b) >= b[1] + 1
        PROVE  LET s == SubSeq(b, 2, b[1] + 1)
                   r == From(b, b[1] + 2)
               IN  /\ s \in Seq(Byte) /\ Len(s) = b[1] /\ r \in Seq(Byte)
                   /\ \A i \in 2 .. b[1] + 1 : s[i - 1] = b[i]
                   /\ b = (<<Len(s)>> \o s) \o r
    <2> DEFINE n == b[1]
               s == SubSeq(b, 2, b[1] + 1)
               r == From(b, b[1] + 2)
    <2>1. n \in Byte /\ n \in Nat /\ n + 1 \in 0 .. Len(b) /\ Len(b) \in Nat
      BY <1>3, Sizes, LenProperties DEF Byte
    <2>2. s \in Seq(Byte) /\ Len(s) = n
      BY <2>1
    <2>3. \A i \in 2 .. n + 1 : s[i - 1] = b[i]
      BY <2>1
    <2> DEFINE m == n + 1
    <2>4. From(b, m + 1) \in Seq(Byte) /\ SubSeq(b, 1, m) \o From(b, m + 1) = b
      <3>1. m \in 0 .. Len(b)
        BY <2>1
      <3> HIDE DEF m
      <3> QED
        BY <3>1, Cut, Zenon
    <2>5. r = From(b, m + 1)
      BY <2>1
    <2>6. SubSeq(b, 1, m) = <<n>> \o s
      <3> DEFINE p == SubSeq(b, 1, m)
                 q == <<n>> \o s
      <3>1. p \in Seq(Byte) /\ Len(p) = n + 1 /\ \A i \in 1 .. n + 1 : p[i] = b[i]
        BY <2>1
      <3>2. <<n>> \in Seq(Byte) /\ Len(<<n>>) = 1 /\ <<n>>[1] = n
        BY <2>1
      <3> HIDE DEF s
      <3>3. q \in Seq(Byte) /\ Len(q) = n + 1 /\ \A i \in 1 .. n + 1 : q[i] = IF i <= 1 THEN n ELSE s[i - 1]
        BY <2>1, <2>2, <3>2, ConcatProperties
      <3> HIDE DEF p, q
      <3>4. ASSUME NEW i \in 1 .. n + 1 PROVE p[i] = q[i]
        <4>1. i = 1 \/ (i \in 2 .. n + 1 /\ ~ (i <= 1))
          BY <2>1
        <4>2. p[i] = b[i] /\ q[i] = IF i <= 1 THEN n ELSE s[i - 1]
          BY <3>1, <3>3
        <4>3. b[1] = n
          BY <2>1
        <4> QED
          BY <2>3, <4>1, <4>2, <4>3
      <3>5. p = q
        BY <3>1, <3>3, <3>4, SeqEqual
      <3> QED
        BY <3>5 DEF p, q
    <2> QED
      BY <2>2, <2>3, <2>4, <2>5, <2>6
  <1>4. ASSUME NEW v \in Tokens(x), NEW r \in Seq(Byte)
        PROVE  Decode(x, Encode(x, v) \o r) = Ok(v, r)
    <2> DEFINE e == Encode(x, v)
               b == e \o r
               n == Len(v)
    <2>1. /\ v \in Seq(Byte) /\ n \in Nat /\ e \in Seq(Byte) /\ Len(e) = n + 1
          /\ e[1] = n /\ \A i \in 1 .. n : e[i + 1] = v[i]
      BY <1>2, LenProperties
    <2>2. \A i \in 1 .. n : v[i] # NotUtf8
      BY <1>2
    <2> HIDE DEF e
    <2>3. /\ b \in Seq(Byte) /\ Len(b) = Len(e) + Len(r) /\ Len(r) \in Nat
          /\ \A i \in 1 .. Len(e) + Len(r) : b[i] = IF i <= Len(e) THEN e[i] ELSE r[i - Len(e)]
      BY <2>1, ConcatProperties, LenProperties
    <2>4. From(b, Len(e) + 1) = r
      BY <2>1, Parts, Zenon
    <2> HIDE DEF b, n
    <2>5. /\ b[1] = n /\ Len(b) >= n + 1
          /\ \A i \in 1 .. n : b[i + 1] = v[i]
      BY <2>1, <2>3
    <2>6. b # <<>> /\ From(b, n + 2) = r
      BY <2>1, <2>3, <2>4, <2>5
    <2>7. /\ SubSeq(b, 2, n + 1) \in Seq(Byte) /\ Len(SubSeq(b, 2, n + 1)) = n
          /\ \A i \in 2 .. n + 1 : SubSeq(b, 2, n + 1)[i - 1] = b[i]
      BY <1>3, <2>3, <2>5, <2>6
    <2>8. SubSeq(b, 2, n + 1) = v
      <3> DEFINE s == SubSeq(b, 2, n + 1)
      <3>1. ASSUME NEW i \in 1 .. n PROVE s[i] = v[i]
        <4>1. i + 1 \in 2 .. n + 1 /\ (i + 1) - 1 = i
          BY <2>1
        <4>2. s[(i + 1) - 1] = b[i + 1] /\ b[i + 1] = v[i]
          BY <2>5, <2>7, <4>1
        <4> QED
          BY <4>1, <4>2
      <3>2. s \in Seq(Byte) /\ Len(s) = Len(v) /\ Len(s) = n
        BY <2>7 DEF n
      <3> HIDE DEF s
      <3>3. s = v
        BY <2>1, <3>1, <3>2, SeqEqual
      <3> QED
        BY <3>3 DEF s
    <2>9. ~ \E i \in 2 .. n + 1 : b[i] = NotUtf8
      <3> SUFFICES ASSUME NEW i \in 2 .. n + 1 PROVE b[i] # NotUtf8
        OBVIOUS
      <3>1. i - 1 \in 1 .. n /\ (i - 1) + 1 = i
        BY <2>1
      <3>2. b[(i - 1) + 1] = v[i - 1] /\ v[i - 1] # NotUtf8
        BY <2>2, <2>5, <3>1
      <3> QED
        BY <3>1, <3>2
    <2>10. ~ (b = <<>> \/ Len(b) < n + 1)
      BY <2>1, <2>3, <2>5, <2>6
    <2>11. DecodeStr(b) = Ok(v, r)
      BY <2>5, <2>6, <2>8, <2>9, <2>10 DEF DecodeStr
    <2> QED
      BY <1>1, <2>11 DEF b, e
  <1>5. ASSUME NEW b \in Seq(Byte) PROVE Answers(x, b)
    <2>1. CASE b = <<>> \/ Len(b) < b[1] + 1
      BY <1>1, <2>1 DEF Answers, DecodeStr
    <2>2. CASE ~ (b = <<>> \/ Len(b) < b[1] + 1) /\ \E i \in 2 .. b[1] + 1 : b[i] = NotUtf8
      BY <1>1, <2>2 DEF Answers, DecodeStr
    <2>3. CASE ~ (b = <<>> \/ Len(b) < b[1] + 1) /\ ~ \E i \in 2 .. b[1] + 1 : b[i] = NotUtf8
      <3> DEFINE s == SubSeq(b, 2, b[1] + 1)
                 r == From(b, b[1] + 2)
      <3>1. DecodeStr(b) = Ok(s, r)
        BY <2>3 DEF DecodeStr
      <3>2. b[1] \in Byte /\ b[1] \in Nat /\ Len(b) \in Nat /\ Len(b) >= b[1] + 1
        BY <2>3, Sizes DEF Byte
      <3>3. /\ s \in Seq(Byte) /\ Len(s) = b[1] /\ r \in Seq(Byte)
            /\ \A i \in 2 .. b[1] + 1 : s[i - 1] = b[i]
            /\ b = (<<Len(s)>> \o s) \o r
        BY <1>3, <2>3, <3>2
      <3> HIDE DEF s, r
      <3>4. ASSUME NEW i \in 1 .. Len(s) PROVE s[i] \in Text
        <4>1. i + 1 \in 2 .. b[1] + 1 /\ (i + 1) - 1 = i
          <5> DEFINE n == b[1]
          <5>1. n \in Nat /\ i \in 1 .. n
            BY <3>2, <3>3
          <5> HIDE DEF n
          <5>2. i + 1 \in 2 .. n + 1 /\ (i + 1) - 1 = i
            BY <5>1
          <5> QED
            BY <5>2 DEF n
        <4>2. s[(i + 1) - 1] = b[i + 1] /\ b[i + 1] # NotUtf8
          BY <2>3, <3>3, <4>1
        <4>3. s[i] \in Byte
          BY <3>3
        <4> QED
          BY <4>1, <4>2, <4>3
      <3> HIDE DEF Text
      <3>5. s \in Seq(Text)
        <4>1. Len(s) \in Nat /\ s \in [1 .. Len(s) -> Byte]
          BY <3>3, LenProperties
        <4>2. s \in [1 .. Len(s) -> Text]
          BY <3>4, <4>1
        <4> QED
          BY <4>1, <4>2, SeqDef
      <3>6. s \in Tokens(x)
        <4>1. Len(s) < Base
          BY <3>2, <3>3, Sizes DEF Byte
        <4> QED
          BY <1>1, <3>5, <4>1
      <3>7. b = Encode(x, s) \o r
        BY <1>1, <3>3
      <3> QED
        BY <1>1, <3>1, <3>3, <3>6, <3>7 DEF Answers
    <2> QED
      BY <2>1, <2>2, <2>3
  <1>6. ASSUME NEW v \in Tokens(x), NEW p \in Seq(Byte), NEW q \in Seq(Byte),
               Encode(x, v) = p \o q, q # <<>>
        PROVE  Decode(x, p) = Eof
    <2>1. Len(p) < Len(v) + 1 /\ Len(p) \in Nat /\ Len(v) \in Nat
      BY <1>2, <1>6, Shorter, LenProperties
    <2>2. CASE p = <<>>
      BY <1>1, <2>2 DEF DecodeStr
    <2>3. CASE p # <<>>
      <3>1. (p \o q)[1] = p[1]
        BY <2>3
      <3>2. p[1] = Len(v)
        BY <1>2, <1>6, <3>1
      <3> QED
        BY <1>1, <2>1, <3>2 DEF DecodeStr
    <2> QED
      BY <2>2, <2>3
  <1>7. \A v \in Tokens(x) : Encode(x, v) \in Seq(Byte)
    BY <1>2
  <1>8. ASSUME NEW v \in Tokens(x) PROVE Encode(x, v) # <<>>
    <2>1. Len(Encode(x, v)) = Len(v) + 1 /\ Len(v) \in Nat
      BY <1>2, LenProperties
    <2> QED
      BY <2>1, EmptySeq
  <1>9. Decode(x, <<>>) = Eof
    BY <1>1 DEF DecodeStr
  <1> QED
    BY <1>4, <1>5, <1>6, <1>7, <1>8, <1>9 DEF CallOK

\* An address: a string, and the texts that name none are refused.
LEMMA AddressCall ==
    ASSUME NEW x, x.k = "address"
    PROVE  CallOK(x)
  <1> DEFINE y == [k |-> "str"]
  <1>1. CallOK(y)
    BY StrCall
  <1>2. /\ Tokens(x) = DOMAIN Canonical /\ Tokens(x) \subseteq Tokens(y)
        /\ \A v : Encode(x, v) = Encode(y, v)
        /\ x.k # "counted" /\ y.k # "counted"
    BY AddressAssumption DEF Tokens, Encode
  <1>3. \A b : Decode(x, b) = LET d == Decode(y, b)
                             IN  IF d.r = "ok" /\ d.v \notin Tokens(x) THEN Bad ELSE d
    BY <1>2 DEF Decode, DecodeAddress
  <1> HIDE DEF y
  <1>4. ASSUME NEW v \in Tokens(x), NEW r \in Seq(Byte)
        PROVE  Decode(x, Encode(x, v) \o r) = Ok(v, r)
    <2> DEFINE b == Encode(x, v) \o r
    <2>1. Decode(y, b) = Ok(v, r)
      BY <1>1, <1>2 DEF CallOK
    <2> HIDE DEF b
    <2>2. Decode(x, b) = Ok(v, r)
      BY <1>3, <2>1 DEF Ok
    <2> QED
      BY <2>2 DEF b
  <1>5. ASSUME NEW b \in Seq(Byte) PROVE Answers(x, b)
    <2>1. Answers(y, b)
      BY <1>1 DEF CallOK
    <2>2. CASE Decode(y, b) = Eof
      BY <1>3, <2>2 DEF Answers, Eof
    <2>3. CASE Decode(y, b) = Bad
      BY <1>3, <2>3 DEF Answers, Bad
    <2>4. ASSUME NEW v \in Tokens(y), NEW r \in Seq(Byte),
                 Decode(y, b) = Ok(v, r), b = Encode(y, v) \o r
          PROVE  Answers(x, b)
      <3>1. Decode(x, b) = IF v \notin Tokens(x) THEN Bad ELSE Ok(v, r)
        BY <1>3, <2>4 DEF Ok
      <3>2. b = Encode(x, v) \o r
        BY <1>2, <2>4
      <3> QED
        BY <3>1, <3>2 DEF Answers
    <2> QED
      BY <2>1, <2>2, <2>3, <2>4 DEF Answers
  <1>6. ASSUME NEW v \in Tokens(x), NEW p \in Seq(Byte), NEW q \in Seq(Byte),
               Encode(x, v) = p \o q, q # <<>>
        PROVE  Decode(x, p) = Eof
    <2>1. Decode(y, p) = Eof
      BY <1>1, <1>2, <1>6 DEF CallOK
    <2> QED
      BY <1>3, <2>1 DEF Eof
  <1>7. /\ \A v \in Tokens(x) : Encode(x, v) \in Seq(Byte)
        /\ \A v \in Tokens(x) : Encode(x, v) # <<>>
    BY <1>1, <1>2 DEF CallOK
  <1>8. Decode(x, <<>>) = Eof
    <2>1. Decode(y, <<>>) = Eof
      BY <1>1, <1>2 DEF CallOK
    <2> QED
      BY <1>3, <2>1 DEF Eof
  <1> QED
    BY <1>4, <1>5, <1>6, <1>7, <1>8 DEF CallOK

\* They differ at some place that both have.
Differ(a, b) == \E i \in 1 .. Len(a) : i <= Len(b) /\ a[i] # b[i]

\* The encodings of two texts differ, whatever follows them.
LEMMA TwoTexts ==
    ASSUME NEW v \in Texts, NEW w \in Texts, v # w
    PROVE  Differ(<<Len(w)>> \o w, <<Len(v)>> \o v)
  <1> DEFINE e(u) == <<Len(u)>> \o u
  <1>1. ASSUME NEW u \in Texts
        PROVE  /\ Len(u) \in Nat /\ u \in Seq(Byte) /\ Len(e(u)) = Len(u) + 1 /\ e(u)[1] = Len(u)
               /\ \A i \in 1 .. Len(u) : e(u)[i + 1] = u[i]
    <2>1. u \in Seq(Byte) /\ Len(u) \in Nat /\ Len(u) < Base
      BY SeqMonotonic, LenProperties DEF Texts
    <2> DEFINE h == <<Len(u)>>
    <2>2. h \in Seq(Byte) /\ Len(h) = 1 /\ h[1] = Len(u)
      <3>1. Len(u) \in Byte
        BY <2>1, Sizes DEF Byte
      <3> QED
        BY <3>1
    <2> HIDE DEF h
    <2>3. /\ Len(h \o u) = Len(h) + Len(u)
          /\ \A i \in 1 .. Len(h) + Len(u) : (h \o u)[i] = IF i <= Len(h) THEN h[i] ELSE u[i - Len(h)]
      BY <2>1, <2>2, ConcatProperties
    <2>4. /\ Len(h \o u) = Len(u) + 1 /\ (h \o u)[1] = Len(u)
          /\ \A i \in 1 .. Len(u) : (h \o u)[i + 1] = u[i]
      BY <2>1, <2>2, <2>3
    <2> QED
      BY <2>1, <2>4 DEF h
  <1> HIDE DEF e
  <1>2. CASE Len(v) # Len(w)
    <2>1. 1 \in 1 .. Len(e(w)) /\ 1 <= Len(e(v)) /\ e(w)[1] # e(v)[1]
      BY <1>1, <1>2
    <2> QED
      BY <2>1 DEF Differ, e
  <1>3. CASE Len(v) = Len(w)
    <2>1. PICK i \in 1 .. Len(v) : v[i] # w[i]
      BY <1>1, <1>3, SeqEqual
    <2>2. i + 1 \in 1 .. Len(e(w)) /\ i + 1 <= Len(e(v)) /\ e(w)[i + 1] # e(v)[i + 1]
      BY <1>1, <1>3, <2>1
    <2> QED
      BY <2>2 DEF Differ, e
  <1> QED
    BY <1>2, <1>3

\* So do longer sequences,
LEMMA DifferBefore ==
    ASSUME NEW S, NEW a \in Seq(S), NEW b \in Seq(S), Differ(a, b), NEW p \in Seq(S), NEW q \in Seq(S)
    PROVE  Differ(a \o p, b \o q)
  <1>1. /\ Len(a \o p) = Len(a) + Len(p) /\ Len(b \o q) = Len(b) + Len(q)
        /\ Len(a) \in Nat /\ Len(b) \in Nat /\ Len(p) \in Nat /\ Len(q) \in Nat
        /\ \A i \in 1 .. Len(a) + Len(p) : (a \o p)[i] = IF i <= Len(a) THEN a[i] ELSE p[i - Len(a)]
        /\ \A i \in 1 .. Len(b) + Len(q) : (b \o q)[i] = IF i <= Len(b) THEN b[i] ELSE q[i - Len(b)]
    BY ConcatProperties, LenProperties
  <1>2. PICK i \in 1 .. Len(a) : i <= Len(b) /\ a[i] # b[i]
    BY DEF Differ
  <1>3. /\ i \in 1 .. Len(a) + Len(p) /\ i \in 1 .. Len(b) + Len(q)
        /\ i <= Len(a) /\ i <= Len(b)
    BY <1>1, <1>2
  <1>4. (a \o p)[i] = a[i] /\ (b \o q)[i] = b[i]
    BY <1>1, <1>3
  <1>5. i \in 1 .. Len(a \o p) /\ i <= Len(b \o q)
    BY <1>1, <1>3
  <1> QED
    BY <1>2, <1>4, <1>5 DEF Differ

\* and those with the same beginning.
LEMMA DifferAfter ==
    ASSUME NEW S, NEW a \in Seq(S), NEW b \in Seq(S), Differ(a, b), NEW p \in Seq(S)
    PROVE  Differ(p \o a, p \o b)
  <1>1. /\ Len(p \o a) = Len(p) + Len(a) /\ Len(p \o b) = Len(p) + Len(b)
        /\ Len(a) \in Nat /\ Len(b) \in Nat /\ Len(p) \in Nat
        /\ \A i \in 1 .. Len(p) + Len(a) : (p \o a)[i] = IF i <= Len(p) THEN p[i] ELSE a[i - Len(p)]
        /\ \A i \in 1 .. Len(p) + Len(b) : (p \o b)[i] = IF i <= Len(p) THEN p[i] ELSE b[i - Len(p)]
    BY ConcatProperties, LenProperties
  <1>2. PICK i \in 1 .. Len(a) : i <= Len(b) /\ a[i] # b[i]
    BY DEF Differ
  <1> DEFINE j == Len(p) + i
  <1>3. /\ j \in 1 .. Len(p) + Len(a) /\ j \in 1 .. Len(p) + Len(b)
        /\ ~ (j <= Len(p)) /\ j - Len(p) = i
    BY <1>1, <1>2
  <1> HIDE DEF j
  <1>4. (p \o a)[j] = a[i] /\ (p \o b)[j] = b[i]
    BY <1>1, <1>3
  <1>5. j \in 1 .. Len(p \o a) /\ j <= Len(p \o b)
    BY <1>1, <1>3
  <1> QED
    BY <1>2, <1>4, <1>5 DEF Differ
-----------------------------------------------------------------------------
\* The calls of S and those that lists of them lead to.
Frame(S) == S \cup [k : {"counted"}, left : Nat, each : Seq(S)]

\* What may be left to do.
Todo(S) == Seq(Frame(S))

\* Arguments of the calls of S.
Token(S) == UNION {Tokens(x) : x \in S}

\* Histories of calls.
CallsOf(S) == Seq([at : Todo(S), token : Token(S)])

\* All calls of the library are alike in this.
LEMMA FrameCalls ==
    ASSUME NEW S, Supported(S), NEW x \in Frame(S)
    PROVE  CallOK(x)
  <1>1. CASE x \in S
    <2>1. CASE x.k \in {"unsigned", "signed"} /\ x.width \in {1, 2, 4, 8}
      BY <2>1, UnsignedCall, SignedCall DEF Widths
    <2>2. CASE x.k \in {"str", "address"}
      BY <2>2, StrCall, AddressCall
    <2>3. CASE x.k = "list"
      BY <2>3, UnsignedCall
    <2>4. CASE x.k = "variant" /\ x.of \in Seq(Seq(S)) /\ Len(x.of) <= Base
      BY <2>4, VariantCall, LenProperties
    <2> QED
      BY <1>1, <2>1, <2>2, <2>3, <2>4 DEF Supported
  <1>2. CASE x \in [k : {"counted"}, left : Nat, each : Seq(S)]
    BY <1>2, CountedCall
  <1> QED
    BY <1>1, <1>2 DEF Frame

\* What comes after a call is made of supported calls.
LEMMA Follows ==
    ASSUME NEW S, Supported(S), NEW x \in Frame(S), NEW v \in Tokens(x)
    PROVE  Follow(x, v) \in Todo(S)
  <1> DEFINE F == Frame(S)
  <1>0. S \subseteq F /\ \A s \in Seq(S) : s \in Seq(F)
    BY SeqMonotonic DEF Frame
  <1>1. ASSUME NEW n \in Nat, NEW T \in Seq(S) PROVE Counted(n, T) \in F /\ <<Counted(n, T)>> \in Seq(F)
    <2>1. Counted(n, T) \in F
      BY DEF Counted, Frame
    <2> QED
      BY <2>1
  <1> HIDE DEF F
  <1>2. CASE x \in S /\ x.k \in {"unsigned", "signed", "str", "address"}
    BY <1>2, EmptySeq DEF Follow, Todo
  <1>3. CASE x \in S /\ x.k = "list" /\ x.each \in Seq(S)
    <2>1. v \in Nat
      BY <1>3, Sizes DEF Tokens
    <2> QED
      BY <1>1, <1>3, <2>1 DEF Follow, Todo, F
  <1>4. CASE x \in S /\ x.k = "variant" /\ x.of \in Seq(Seq(S))
    <2>1. v + 1 \in 1 .. Len(x.of)
      <3>1. v \in 0 .. Len(x.of) - 1 /\ Len(x.of) \in Nat
        BY <1>4, LenProperties DEF Tokens
      <3> QED
        BY <3>1
    <2>2. x.of[v + 1] \in Seq(S)
      BY <1>4, <2>1, ElementOfSeq
    <2> QED
      BY <1>0, <1>4, <2>2 DEF Follow, Todo, F
  <1>5. CASE x \in [k : {"counted"}, left : Nat, each : Seq(S)]
    <2>1. x.k = "counted" /\ x.left \in Nat /\ x.each \in Seq(S)
      BY <1>5
    <2>2. CASE x.left = 0
      BY <2>1, <2>2, EmptySeq DEF Follow, Todo
    <2>3. CASE x.left # 0
      <3>1. x.left - 1 \in Nat
        BY <2>1, <2>3
      <3>2. x.each \in Seq(F) /\ <<Counted(x.left - 1, x.each)>> \in Seq(F)
        BY <1>0, <1>1, <2>1, <3>1
      <3>3. x.each \o <<Counted(x.left - 1, x.each)>> \in Seq(F)
        BY <3>2, ConcatProperties
      <3> QED
        BY <2>1, <2>3, <3>3 DEF Follow, Todo, F
    <2> QED
      BY <2>2, <2>3
  <1> QED
    BY <1>2, <1>3, <1>4, <1>5 DEF Supported, Frame

\* So is what is left to do, and the history of the calls.
LEMMA AfterTyped ==
    ASSUME NEW S, Supported(S), NEW todo \in Todo(S), todo # <<>>, NEW v \in Tokens(Head(todo))
    PROVE  /\ Head(todo) \in Frame(S)
           /\ After(todo, v) \in Todo(S)
           /\ Calls(todo, v) \in CallsOf(S)
  <1>1. Head(todo) \in Frame(S) /\ Tail(todo) \in Seq(Frame(S))
    BY HeadTailProperties DEF Todo
  <1>2. Follow(Head(todo), v) \in Seq(Frame(S))
    BY <1>1, Follows DEF Todo
  <1>3. After(todo, v) \in Todo(S)
    BY <1>1, <1>2, ConcatProperties DEF After, Todo
  <1>4. CASE Head(todo).k = "counted"
    BY <1>1, <1>3, <1>4, EmptySeq DEF Calls, CallsOf
  <1>5. CASE Head(todo).k # "counted"
    <2>1. Head(todo) \in S
      BY <1>1, <1>5 DEF Frame
    <2>2. v \in Token(S)
      BY <2>1 DEF Token
    <2> DEFINE C == [at : Todo(S), token : Token(S)]
    <2>3. [at |-> todo, token |-> v] \in C
      BY <2>2
    <2> HIDE DEF C
    <2>4. <<[at |-> todo, token |-> v]>> \in Seq(C)
      BY <2>3
    <2> QED
      BY <1>1, <1>3, <1>5, <2>4 DEF Calls, CallsOf, C
  <1> QED
    BY <1>4, <1>5

-----------------------------------------------------------------------------
\* After a value another one of type M begins.
Begun(M, todo) == IF todo = <<>> THEN M ELSE todo

\* A place in what was written: what is left to do there, and the bytes and the
\* calls between it and the end.
Point(S) == [todo : Todo(S), bytes : Seq(Byte), calls : CallsOf(S)]

\* The end, with some more to do but nothing written.
End(todo) == [todo |-> todo, bytes |-> <<>>, calls |-> <<>>]

\* One call leads from p to q.
Link(M, p, q) ==
    LET x == Begun(M, p.todo)
    IN  /\ x # <<>>
        /\ \E v \in Tokens(Head(x)) : /\ q.todo = After(x, v)
                                     /\ p.bytes = Encode(Head(x), v) \o q.bytes
                                     /\ p.calls = Calls(x, v) \o q.calls

\* A sequence of such calls, from p to the end.
IsScript(M, w, p, last) ==
    /\ w # <<>> /\ w[1] = p /\ w[Len(w)] = End(last)
    /\ \A i \in 1 .. Len(w) - 1 : Link(M, w[i], w[i + 1])

\* The bytes and the calls of p are those of some sequence of calls.
Script(S, M, p, last) == \E w \in Seq(Point(S)) : IsScript(M, w, p, last)

\* When nothing is written there is nothing to read.
LEMMA ScriptEmpty ==
    ASSUME NEW S, NEW M, NEW last \in Todo(S)
    PROVE  Script(S, M, End(last), last)
  <1> DEFINE e == End(last)
  <1>1. e \in Point(S)
    BY EmptySeq DEF End, Point, CallsOf
  <1> HIDE DEF e
  <1>2. <<e>> \in Seq(Point(S)) /\ <<e>> # <<>> /\ <<e>>[1] = e /\ Len(<<e>>) = 1
    BY <1>1
  <1>3. \A i \in 1 .. Len(<<e>>) - 1 : Link(M, <<e>>[i], <<e>>[i + 1])
    BY <1>2
  <1>4. IsScript(M, <<e>>, e, last)
    BY <1>2, <1>3 DEF IsScript, e
  <1> QED
    BY <1>2, <1>4 DEF Script, e

\* The first call of a script.
LEMMA ScriptHead ==
    ASSUME NEW S, NEW M, NEW p, NEW last, Script(S, M, p, last)
    PROVE  /\ p \in Point(S)
           /\ p = End(last) \/ \E q \in Point(S) : Link(M, p, q) /\ Script(S, M, q, last)
  <1>1. PICK w \in Seq(Point(S)) : IsScript(M, w, p, last)
    BY DEF Script
  <1>2. Len(w) \in Nat \ {0} /\ w[1] = p
    BY <1>1, EmptySeq DEF IsScript
  <1>3. p \in Point(S)
    BY <1>2, ElementOfSeq
  <1>4. CASE Len(w) = 1
    BY <1>1, <1>3, <1>4 DEF IsScript
  <1>5. CASE Len(w) > 1
    <2> DEFINE u == Tail(w)
    <2>1. /\ u \in Seq(Point(S)) /\ Len(u) = Len(w) - 1
          /\ \A i \in 1 .. Len(u) : u[i] = w[i + 1]
      BY <1>1, HeadTailProperties DEF IsScript
    <2> HIDE DEF u
    <2>2. 1 \in 1 .. Len(u) /\ Len(u) \in 1 .. Len(u) /\ 1 \in 1 .. Len(w) - 1 /\ u # <<>>
      BY <1>2, <1>5, <2>1, EmptySeq
    <2>3. u[1] \in Point(S) /\ u[1] = w[2] /\ u[Len(u)] = w[Len(w)]
      <3>1. u[1] \in Point(S)
        BY <2>1, <2>2, ElementOfSeq
      <3>2. u[1] = w[2]
        BY <2>1, <2>2
      <3>3. u[Len(u)] = w[Len(u) + 1] /\ Len(u) + 1 = Len(w)
        BY <1>2, <2>1, <2>2
      <3> QED
        BY <3>1, <3>2, <3>3
    <2>4. Link(M, p, u[1])
      <3>1. Link(M, w[1], w[1 + 1])
        BY <1>1, <2>2 DEF IsScript
      <3> QED
        BY <1>2, <2>3, <3>1
    <2>5. ASSUME NEW i \in 1 .. Len(u) - 1 PROVE Link(M, u[i], u[i + 1])
      <3>1. i + 1 \in 1 .. Len(w) - 1 /\ i \in 1 .. Len(u) /\ i + 1 \in 1 .. Len(u)
        BY <1>2, <2>1
      <3>2. Link(M, w[i + 1], w[(i + 1) + 1])
        BY <1>1, <3>1 DEF IsScript
      <3> QED
        BY <2>1, <3>1, <3>2
    <2>6. IsScript(M, u, u[1], last)
      BY <1>1, <2>2, <2>3, <2>5 DEF IsScript
    <2> QED
      BY <1>3, <2>1, <2>3, <2>4, <2>6 DEF Script
  <1>6. Len(w) = 1 \/ Len(w) > 1
    <2> DEFINE n == Len(w)
    <2>1. n \in Nat \ {0}
      BY <1>2
    <2> HIDE DEF n
    <2>2. n = 1 \/ n > 1
      BY <2>1
    <2> QED
      BY <2>2 DEF n
  <1> QED
    BY <1>4, <1>5, <1>6

\* More bytes, of more calls.
Longer(p, y, c) == [todo |-> p.todo, bytes |-> p.bytes \o y, calls |-> p.calls \o c]

\* What follows may be added to both sides of a call.
LEMMA LinkLonger ==
    ASSUME NEW S, Supported(S), NEW M \in Todo(S), NEW p \in Point(S), NEW q \in Point(S),
           NEW y \in Seq(Byte), NEW c \in CallsOf(S), Link(M, p, q)
    PROVE  Link(M, Longer(p, y, c), Longer(q, y, c))
  <1> DEFINE P == Longer(p, y, c)
             Q == Longer(q, y, c)
             x == Begun(M, p.todo)
  <1>1. PICK v \in Tokens(Head(x)) : /\ q.todo = After(x, v)
                                     /\ p.bytes = Encode(Head(x), v) \o q.bytes
                                     /\ p.calls = Calls(x, v) \o q.calls
    BY DEF Link
  <1>2. x # <<>> /\ x \in Todo(S)
    BY DEF Link, Begun, Point
  <1>3. /\ P.todo = p.todo /\ P.bytes = p.bytes \o y /\ P.calls = p.calls \o c
        /\ Q.todo = q.todo /\ Q.bytes = q.bytes \o y /\ Q.calls = q.calls \o c
    BY DEF Longer
  <1> DEFINE e == Encode(Head(x), v)
             k == Calls(x, v)
  <1>4. e \in Seq(Byte) /\ k \in CallsOf(S)
    <2>1. Head(x) \in Frame(S) /\ k \in CallsOf(S)
      BY <1>2, AfterTyped, Zenon
    <2> QED
      BY <2>1, FrameCalls DEF CallOK
  <1>5. q.bytes \in Seq(Byte) /\ q.calls \in CallsOf(S)
    BY DEF Point
  <1> HIDE DEF P, Q, x, e, k
  <1>7. /\ (e \o q.bytes) \o y = e \o (q.bytes \o y)
        /\ (k \o q.calls) \o c = k \o (q.calls \o c)
    <2> DEFINE f == q.bytes
               g == q.calls
    <2>1. e \in Seq(Byte) /\ f \in Seq(Byte) /\ y \in Seq(Byte)
      BY <1>4, <1>5
    <2>2. k \in CallsOf(S) /\ g \in CallsOf(S) /\ c \in CallsOf(S)
      BY <1>4, <1>5
    <2> HIDE DEF f, g
    <2>3. (e \o f) \o y = e \o (f \o y)
      BY <2>1, ConcatAssociative
    <2>4. (k \o g) \o c = k \o (g \o c)
      BY <2>2, ConcatAssociative DEF CallsOf
    <2> QED
      BY <2>3, <2>4 DEF f, g
  <1>8. /\ Q.todo = After(x, v)
        /\ P.bytes = e \o Q.bytes
        /\ P.calls = k \o Q.calls
    BY <1>1, <1>3, <1>7 DEF e, k
  <1>9. Begun(M, P.todo) = x
    BY <1>3 DEF x
  <1>10. Link(M, P, Q)
    BY <1>2, <1>8, <1>9 DEF Link, e, k
  <1> QED
    BY <1>10 DEF P, Q

\* After one more call of the Serializer, the script is longer.
LEMMA ScriptExtend ==
    ASSUME NEW S, Supported(S), NEW M \in Todo(S), NEW p, NEW last \in Todo(S),
           Script(S, M, p, last),
           NEW x, x = Begun(M, last), x # <<>>, NEW v \in Tokens(Head(x))
    PROVE  Script(S, M, Longer(p, Encode(Head(x), v), Calls(x, v)), After(x, v))
  <1> DEFINE y == Encode(Head(x), v)
             c == Calls(x, v)
             e == End(After(x, v))
  <1>1. x \in Todo(S)
    BY DEF Begun
  <1>2. Head(x) \in Frame(S) /\ After(x, v) \in Todo(S) /\ c \in CallsOf(S)
    BY <1>1, AfterTyped, Zenon
  <1>3. y \in Seq(Byte)
    BY <1>2, FrameCalls DEF CallOK
  <1>4. PICK w \in Seq(Point(S)) : IsScript(M, w, p, last)
    BY DEF Script
  <1> DEFINE u == [i \in 1 .. Len(w) |-> Longer(w[i], y, c)]
             z == Append(u, e)
  <1>5. Len(w) \in Nat \ {0} /\ w[1] = p /\ w[Len(w)] = End(last)
    BY <1>4, EmptySeq DEF IsScript
  <1>6. ASSUME NEW q \in Point(S) PROVE Longer(q, y, c) \in Point(S)
    <2>1. q.bytes \o y \in Seq(Byte) /\ q.calls \o c \in CallsOf(S)
      BY <1>2, <1>3, ConcatProperties DEF Point, CallsOf
    <2> HIDE DEF y, c
    <2> QED
      BY <2>1 DEF Point, Longer
  <1>7. e \in Point(S)
    BY <1>2, EmptySeq DEF End, Point, CallsOf
  <1>8. \A i \in 1 .. Len(w) : w[i] \in Point(S)
    BY ElementOfSeq
  <1> HIDE DEF e, y, c
  <1>9. u \in Seq(Point(S)) /\ Len(u) = Len(w) /\ \A i \in 1 .. Len(w) : u[i] = Longer(w[i], y, c)
    BY <1>5, <1>6, <1>8
  <1> HIDE DEF u
  <1>10. /\ z \in Seq(Point(S)) /\ Len(z) = Len(w) + 1 /\ z[Len(w) + 1] = e
         /\ \A i \in 1 .. Len(w) : z[i] = Longer(w[i], y, c)
    BY <1>5, <1>7, <1>9, AppendProperties
  <1> HIDE DEF z
  <1>11. z # <<>> /\ z[1] = Longer(p, y, c) /\ z[Len(z)] = e
    BY <1>5, <1>10, EmptySeq
  <1>12. ASSUME NEW i \in 1 .. Len(z) - 1 PROVE Link(M, z[i], z[i + 1])
    <2>1. i \in 1 .. Len(w) /\ z[i] = Longer(w[i], y, c) /\ w[i] \in Point(S)
      BY <1>5, <1>8, <1>10
    <2>2. CASE i # Len(w)
      <3>1. i \in 1 .. Len(w) - 1 /\ i + 1 \in 1 .. Len(w)
        BY <1>5, <2>1, <2>2
      <3>2. Link(M, w[i], w[i + 1]) /\ w[i + 1] \in Point(S)
        BY <1>4, <1>8, <3>1 DEF IsScript
      <3>3. Link(M, Longer(w[i], y, c), Longer(w[i + 1], y, c))
        BY <1>2, <1>3, <2>1, <3>2, LinkLonger, Zenon
      <3> QED
        BY <1>10, <2>1, <3>1, <3>3
    <2>3. CASE i = Len(w)
      <3>1. z[i] = Longer(End(last), y, c) /\ z[i + 1] = e
        BY <1>5, <1>10, <2>1, <2>3
      <3>2. /\ Longer(End(last), y, c).todo = last
            /\ Longer(End(last), y, c).bytes = <<>> \o y
            /\ Longer(End(last), y, c).calls = <<>> \o c
        BY DEF Longer, End
      <3>3. /\ <<>> \o y = y \o <<>> /\ <<>> \o c = c \o <<>>
        BY <1>2, <1>3, ConcatEmptySeq DEF CallsOf
      <3>4. e.todo = After(x, v) /\ e.bytes = <<>> /\ e.calls = <<>>
        BY DEF e, End
      <3> QED
        BY <3>1, <3>2, <3>3, <3>4 DEF Link, y, c
    <2> QED
      BY <2>2, <2>3
  <1>13. IsScript(M, z, Longer(p, y, c), After(x, v))
    BY <1>11, <1>12 DEF IsScript, e
  <1> QED
    BY <1>10, <1>13 DEF Script, y, c

-----------------------------------------------------------------------------

Grouped(a, b, c) == (a \o b) \o c = a \o (b \o c)

\* Concatenation is associative.
LEMMA Regroup ==
    ASSUME NEW T, NEW a \in Seq(T), NEW b \in Seq(T), NEW c \in Seq(T)
    PROVE  Grouped(a, b, c)
  BY ConcatAssociative DEF Grouped

\* b continues e with what t begins with, before l.
Between(T, b, l, e, t) == \E r \in Seq(T) : b = e \o r /\ t = r \o l

\* Of two cuts of the same bytes, the later one also cuts what follows the
\* earlier one.
LEMMA TwoCuts ==
    ASSUME NEW T, NEW b \in Seq(T), NEW l \in Seq(T), NEW e \in Seq(T), NEW t \in Seq(T),
           b \o l = e \o t, Len(b) >= Len(e)
    PROVE  Between(T, b, l, e, t)
  <1> DEFINE n == Len(e)
             a == SubSeq(b, 1, n)
             r == From(b, n + 1)
  <1>0. n \in 0 .. Len(b) /\ n \in Nat /\ Len(b) \in Nat /\ Len(l) \in Nat /\ Len(t) \in Nat
    BY LenProperties
  <1>1. a \in Seq(T) /\ Len(a) = n /\ r \in Seq(T) /\ a \o r = b
    <2> HIDE DEF n
    <2> QED
      BY <1>0, Cut, Zenon
  <1>2. ASSUME NEW i \in 1 .. Len(a) PROVE a[i] = e[i]
    <2>0. i \in 1 .. Len(b) /\ i \in 1 .. Len(e) /\ n \in 0 .. Len(b)
      BY <1>0, <1>1
    <2>1. a[i] = b[i]
      <3> HIDE DEF n
      <3> QED
        BY <1>1, <2>0
    <2>2. (b \o l)[i] = b[i]
      BY <1>0, <2>0, ConcatProperties
    <2>3. (e \o t)[i] = e[i]
      BY <1>0, <2>0, ConcatProperties
    <2> QED
      BY <2>1, <2>2, <2>3
  <1> HIDE DEF a, r
  <1>3. a = e
    BY <1>1, <1>2, SeqEqual
  <1>4. e \o r = b
    BY <1>1, <1>3
  <1>5. r \o l \in Seq(T) /\ (e \o r) \o l = e \o (r \o l)
    <2>1. r \o l \in Seq(T)
      BY <1>1, ConcatProperties
    <2>2. e \in Seq(T) /\ r \in Seq(T) /\ l \in Seq(T)
      BY <1>1
    <2>3. Grouped(e, r, l)
      BY <2>2, Regroup, Zenon
    <2> QED
      BY <2>1, <2>3 DEF Grouped
  <1>6. e \o (r \o l) = e \o t
    BY <1>4, <1>5
  <1>7. From(e \o (r \o l), Len(e) + 1) = r \o l
    BY <1>5, Parts, Zenon
  <1>8. From(e \o t, Len(e) + 1) = t
    BY Parts, Zenon
  <1>9. r \o l = t
    BY <1>6, <1>7, <1>8
  <1> QED
    BY <1>1, <1>4, <1>9 DEF Between

\* The Deserializer repeats the first call x of the script p, and is where q is.
Repeats(x, b, l, p, q) ==
    \E v \in Tokens(Head(x)), r \in Seq(Byte) :
       /\ Decode(Head(x), b) = Ok(v, r)
       /\ q.todo = After(x, v) /\ q.bytes = r \o l
       /\ p.calls = Calls(x, v) \o q.calls

\* It does not: there is only the beginning of that call.
Halfway(x, b, l, p, q) ==
    /\ Decode(Head(x), b) = Eof /\ l # <<>> /\ Head(x).k # "counted"
    /\ \E v \in Tokens(Head(x)) :
         /\ p.calls = Calls(x, v) \o q.calls
         /\ \E n \in 0 .. Len(Encode(Head(x), v)) - 1 : b = SubSeq(Encode(Head(x), v), 1, n)

\* What a Deserializer makes of what a Serializer has written, with some bytes `l`
\* not there: it repeats the call, or there is a beginning of one call only.
LEMMA ReadLink ==
    ASSUME NEW S, Supported(S), NEW M \in Todo(S), NEW p \in Point(S), NEW q \in Point(S),
           Link(M, p, q), NEW b \in Seq(Byte), NEW l \in Seq(Byte), p.bytes = b \o l,
           NEW x, x = Begun(M, p.todo)
    PROVE  Repeats(x, b, l, p, q) \/ Halfway(x, b, l, p, q)
  <1>1. x # <<>> /\ x \in Todo(S)
    BY DEF Link, Begun, Point
  <1>2. PICK v \in Tokens(Head(x)) : /\ q.todo = After(x, v)
                                     /\ p.bytes = Encode(Head(x), v) \o q.bytes
                                     /\ p.calls = Calls(x, v) \o q.calls
    BY DEF Link
  <1> DEFINE h == Head(x)
             e == Encode(h, v)
             t == q.bytes
  <1>3. CallOK(h)
    <2>1. h \in Frame(S)
      BY <1>1, <1>2, AfterTyped, Zenon
    <2> QED
      BY <2>1, FrameCalls, Zenon
  <1>4. e \in Seq(Byte) /\ t \in Seq(Byte) /\ b \o l = e \o t
    BY <1>2, <1>3 DEF CallOK, Point
  <1> HIDE DEF e, t, h
  <1>5. Len(b) \in Nat /\ Len(e) \in Nat
    BY <1>4, LenProperties
  <1>6. CASE Len(b) >= Len(e)
    <2>0. e \in Seq(Byte) /\ t \in Seq(Byte) /\ b \o l = e \o t /\ Len(b) >= Len(e)
      BY <1>4, <1>6
    <2>9. Between(Byte, b, l, e, t)
      BY <2>0, TwoCuts, Zenon
    <2>1. PICK r \in Seq(Byte) : b = e \o r /\ t = r \o l
      BY <2>9 DEF Between
    <2>2. Decode(h, b) = Ok(v, r)
      <3>1. v \in Tokens(h)
        BY DEF h
      <3> QED
        BY <1>3, <2>1, <3>1 DEF CallOK, e
    <2> QED
      BY <1>2, <2>1, <2>2 DEF h, t, Repeats
  <1>7. CASE Len(b) < Len(e)
    <2>9. Between(Byte, e, t, b, l)
      <3>1. e \in Seq(Byte) /\ t \in Seq(Byte) /\ e \o t = b \o l /\ Len(e) >= Len(b)
        BY <1>4, <1>5, <1>7
      <3> QED
        BY <3>1, TwoCuts, Zenon
    <2>1. PICK r \in Seq(Byte) : e = b \o r /\ l = r \o t
      BY <2>9 DEF Between
    <2>2. r # <<>> /\ l # <<>>
      <3>1. r # <<>>
        <4>1. r = <<>> => Len(e) = Len(b) + 0
          BY <2>1, ConcatProperties, EmptySeq
        <4> QED
          BY <1>5, <1>7, <4>1
      <3>2. l # <<>>
        BY <1>4, <2>1, <3>1, ConcatEqualIffEmpty, ConcatProperties, LenProperties, EmptySeq
      <3> QED
        BY <3>1, <3>2
    <2>3. v \in Tokens(h)
      BY DEF h
    <2>4. Decode(h, b) = Eof
      BY <1>3, <2>1, <2>2, <2>3 DEF CallOK, e
    <2>5. h.k # "counted"
      <3>1. h.k = "counted" => e = <<>>
        BY DEF Encode, e
      <3> QED
        BY <1>5, <1>7, <3>1, EmptySeq
    <2>6. b = SubSeq(e, 1, Len(b)) /\ Len(b) \in 0 .. Len(e) - 1
      <3>1. SubSeq(b \o r, 1, Len(b)) = b
        BY Parts, Zenon
      <3> QED
        BY <1>5, <1>7, <2>1, <3>1
    <2> QED
      BY <1>2, <2>2, <2>3, <2>4, <2>5, <2>6 DEF e, h, Halfway
  <1>8. Len(b) >= Len(e) \/ Len(b) < Len(e)
    <2> DEFINE m == Len(b)
               n == Len(e)
    <2>1. m \in Nat /\ n \in Nat
      BY <1>5
    <2> HIDE DEF m, n
    <2>2. m >= n \/ m < n
      BY <2>1
    <2> QED
      BY <2>2 DEF m, n
  <1> QED
    BY <1>6, <1>7, <1>8

-----------------------------------------------------------------------------

\* A Deserializer of bytes.
Readers(S) == [todo : Todo(S), input : Seq(Byte), calls : CallsOf(S), again : Seq(Byte),
               r : {"unread", "ok", "eof", "bad"}]

\* A call of the Deserializer that succeeds.
LEMMA DeserializeOk ==
    ASSUME NEW d, NEW n, n = Deserialize(d), NEW v, NEW r,
           Decode(Head(d.todo), d.input) = Ok(v, r)
    PROVE  n = [todo |-> After(d.todo, v), input |-> r, calls |-> d.calls \o Calls(d.todo, v),
                again |-> d.again \o Encode(Head(d.todo), Rewritten(Head(d.todo), v)),
                r     |-> "ok"]
  <1> DEFINE o == Decode(Head(d.todo), d.input)
  <1>1. o.r = "ok" /\ o.v = v /\ o.rest = r
    BY DEF Ok
  <1>2. n = IF o.r = "ok"
            THEN [todo  |-> After(d.todo, o.v), input |-> o.rest,
                  calls |-> d.calls \o Calls(d.todo, o.v),
                  again |-> d.again \o Encode(Head(d.todo), Rewritten(Head(d.todo), o.v)),
                  r     |-> "ok"]
            ELSE [d EXCEPT !.r = o.r]
    BY DEF Deserialize
  <1> HIDE DEF o
  <1> QED
    BY <1>1, <1>2

\* A call of the Deserializer that fails: the reader keeps what it had.
LEMMA DeserializeNot ==
    ASSUME NEW d, NEW n, n = Deserialize(d), Decode(Head(d.todo), d.input) \in {Eof, Bad}
    PROVE  /\ n = [d EXCEPT !.r = Decode(Head(d.todo), d.input).r]
           /\ Decode(Head(d.todo), d.input).r \in {"eof", "bad"}
  <1>1. Decode(Head(d.todo), d.input).r \in {"eof", "bad"}
    BY DEF Eof, Bad
  <1> QED
    BY <1>1 DEF Deserialize

\* What a Deserializer of b has taken is what a Serializer makes of the calls so
\* far, until an address is spelled in another way: from there on they differ.
Retold(d, b) == \/ Plain(d.calls) /\ d.again \o d.input = b
                \/ ~ Plain(d.calls) /\ Differ(d.again, b)

\* A call that is written again is one of the same kind.
LEMMA RewrittenTyped ==
    ASSUME NEW h, NEW v \in Tokens(h)
    PROVE  Rewritten(h, v) \in Tokens(h)
  BY AddressAssumption DEF Rewritten, Tokens

\* Calls are plain if those before the last are, and the last.
LEMMA PlainCalls ==
    ASSUME NEW S, NEW c \in CallsOf(S), NEW todo, NEW v, Calls(todo, v) \in CallsOf(S)
    PROVE  Plain(c \o Calls(todo, v)) <=> Plain(c) /\ Rewritten(Head(todo), v) = v
  <1> DEFINE h == Head(todo)
             u == [at |-> todo, token |-> v]
             P(x) == Rewritten(Head(x.at), x.token) = x.token
  <1>1. CASE h.k = "counted"
    <2>1. Calls(todo, v) = <<>> /\ Rewritten(h, v) = v
      BY <1>1 DEF Calls, Rewritten
    <2>2. c \o <<>> = c
      BY ConcatEmptySeq DEF CallsOf
    <2> QED
      BY <2>1, <2>2
  <1>2. CASE h.k # "counted"
    <2> DEFINE n == Len(c)
               l == c \o <<u>>
    <2>1. Calls(todo, v) = <<u>>
      BY <1>2 DEF Calls
    <2>2. u \in [at : Todo(S), token : Token(S)]
      <3>1. <<u>> \in Seq([at : Todo(S), token : Token(S)])
        BY <2>1 DEF CallsOf
      <3> QED
        BY <3>1
    <2>3. n \in Nat /\ Len(l) = n + 1 /\ l[n + 1] = u /\ \A i \in 1 .. n : l[i] = c[i]
      BY <2>2 DEF CallsOf
    <2>4. P(u) <=> Rewritten(h, v) = v
      OBVIOUS
    <2>5. Plain(l) <=> \A i \in 1 .. n + 1 : P(l[i])
      BY <2>3 DEF Plain
    <2>6. Plain(c) <=> \A i \in 1 .. n : P(c[i])
      BY DEF Plain
    <2>7. (\A i \in 1 .. n + 1 : P(l[i])) <=> (\A i \in 1 .. n : P(c[i])) /\ P(u)
      <3> HIDE DEF P, u, l, n
      <3>1. \A i \in 1 .. n + 1 : i \in 1 .. n \/ i = n + 1
        BY <2>3
      <3>2. \A i \in 1 .. n : i \in 1 .. n + 1
        BY <2>3
      <3>3. n + 1 \in 1 .. n + 1
        BY <2>3
      <3> QED
        BY <2>3, <3>1, <3>2, <3>3, Zenon
    <2> HIDE DEF P
    <2> QED
      BY <2>1, <2>4, <2>5, <2>6, <2>7
  <1> QED
    BY <1>1, <1>2

\* One call of the Deserializer (deserializer.rs): what it takes from the input is
\* what a Serializer makes of the value, but for the spelling of an address.
LEMMA Deserializes ==
    ASSUME NEW S, Supported(S), NEW d \in Readers(S), Reading(d), NEW n, n = Deserialize(d),
           NEW b \in Seq(Byte), Retold(d, b)
    PROVE  n \in Readers(S) /\ Retold(n, b)
  <1> DEFINE h == Head(d.todo)
  <1>1. d.todo \in Todo(S) /\ d.todo # <<>> /\ d.input \in Seq(Byte) /\ d.r = "ok"
        /\ d.again \in Seq(Byte) /\ d.calls \in CallsOf(S)
    BY DEF Reading, Readers
  <1>2. h \in Frame(S)
    BY <1>1, HeadTailProperties DEF Todo
  <1>3. Answers(h, d.input)
    <2>1. CallOK(h)
      BY <1>2, FrameCalls, Zenon
    <2> QED
      BY <1>1, <2>1 DEF CallOK
  <1>4. CASE Decode(h, d.input) \in {Eof, Bad}
    <2>1. n = [d EXCEPT !.r = Decode(h, d.input).r]
      BY <1>4, DeserializeNot
    <2>2. Decode(h, d.input).r \in {"eof", "bad"}
      BY <1>4, DeserializeNot
    <2>3. n \in Readers(S)
      BY <2>1, <2>2 DEF Readers
    <2>4. n.calls = d.calls /\ n.again = d.again /\ n.input = d.input
      BY <2>1 DEF Readers
    <2> QED
      BY <2>3, <2>4 DEF Retold
  <1>5. ASSUME NEW v \in Tokens(h), NEW r \in Seq(Byte),
               Decode(h, d.input) = Ok(v, r), d.input = Encode(h, v) \o r
        PROVE  n \in Readers(S) /\ Retold(n, b)
    <2> DEFINE w == Rewritten(h, v)
               e == Encode(h, v)
               f == Encode(h, w)
               a == d.again
               c == Calls(d.todo, v)
    <2>1. n = [todo |-> After(d.todo, v), input |-> r, calls |-> d.calls \o c,
               again |-> a \o f, r |-> "ok"]
      BY <1>5, DeserializeOk
    <2>2. After(d.todo, v) \in Todo(S) /\ c \in CallsOf(S)
      BY <1>1, <1>5, AfterTyped
    <2>3. e \in Seq(Byte) /\ f \in Seq(Byte)
      <3>1. CallOK(h) /\ w \in Tokens(h)
        BY <1>2, <1>5, FrameCalls, RewrittenTyped, Zenon
      <3> QED
        BY <3>1 DEF CallOK
    <2>4. Plain(d.calls \o c) <=> Plain(d.calls) /\ w = v
      <3> HIDE DEF c, w
      <3>1. ASSUME NEW t, t = d.todo PROVE Plain(d.calls \o Calls(t, v)) <=> Plain(d.calls) /\ Rewritten(Head(t), v) = v
        BY <1>1, <2>2, <3>1, PlainCalls DEF c
      <3> QED
        BY <3>1 DEF c, w
    <2>5. w # v => Differ(f, e)
      <3>1. ASSUME w # v PROVE Differ(f, e)
        <4>1. h.k = "address" /\ w = Canonical[v]
          BY <3>1 DEF Rewritten
        <4>2. v \in DOMAIN Canonical
          BY <4>1 DEF Tokens
        <4>3. v \in Texts /\ w \in Texts
          BY <4>1, <4>2, AddressAssumption
        <4>4. e = <<Len(v)>> \o v /\ f = <<Len(w)>> \o w
          BY <4>1 DEF Encode
        <4> HIDE DEF e, f, w
        <4> QED
          BY <3>1, <4>3, <4>4, TwoTexts
      <3> QED
        BY <3>1
    <2>6. a \in Seq(Byte) /\ a \o f \in Seq(Byte)
      BY <1>1, <2>3, ConcatProperties
    <2>7. d.calls \o c \in CallsOf(S)
      BY <1>1, <2>2, ConcatProperties DEF CallsOf
    <2>8. n \in Readers(S)
      BY <1>5, <2>1, <2>2, <2>6, <2>7 DEF Readers
    <2>9. n.calls = d.calls \o c /\ n.again = a \o f /\ n.input = r
      <3> HIDE DEF a, c, f
      <3> QED
        BY <2>1
    <2>10. CASE ~ Plain(d.calls) /\ Differ(a, b)
      <3>1. Differ(a \o f, b \o <<>>) /\ b \o <<>> = b
        BY <2>3, <2>6, <2>10, DifferBefore, EmptySeq, ConcatEmptySeq
      <3> QED
        BY <2>4, <2>8, <2>9, <2>10, <3>1 DEF Retold
    <2>11. CASE Plain(d.calls) /\ a \o d.input = b
      <3>1. Grouped(a, e, r)
        BY <1>5, <2>3, <2>6, Regroup, Zenon
      <3>2. b = a \o (e \o r) /\ b = (a \o e) \o r
        BY <1>5, <2>11, <3>1 DEF Grouped
      <3>3. CASE w = v
        <4>1. f = e
          BY <3>3
        <4> QED
          BY <2>4, <2>8, <2>9, <2>11, <3>2, <3>3, <4>1 DEF Retold
      <3>4. CASE w # v
        <4>1. Differ(a \o f, a \o e)
          BY <2>3, <2>5, <2>6, <3>4, DifferAfter
        <4>2. Differ((a \o f) \o <<>>, (a \o e) \o r) /\ (a \o f) \o <<>> = a \o f
          <5>1. a \o e \in Seq(Byte) /\ <<>> \in Seq(Byte)
            BY <2>3, <2>6, ConcatProperties, EmptySeq
          <5> HIDE DEF a, e, f
          <5> QED
            BY <1>5, <2>6, <4>1, <5>1, DifferBefore, ConcatEmptySeq
        <4> HIDE DEF w
        <4> QED
          BY <2>4, <2>8, <2>9, <3>2, <3>4, <4>2 DEF Retold
      <3> QED
        BY <3>3, <3>4
    <2> QED
      BY <2>10, <2>11 DEF Retold
  <1> QED
    BY <1>3, <1>4, <1>5 DEF Answers

\* from_bytes begins with nothing done.
LEMMA Begins ==
    ASSUME NEW S, NEW T \in Seq(S), NEW b \in Seq(Byte)
    PROVE  /\ Deserializer(T, b) \in Readers(S)
           /\ Deserializer(T, b).r = "ok"
           /\ Retold(Deserializer(T, b), b)
           /\ Unread \in Readers(S) /\ Unread.r = "unread"
  <1>1. T \in Todo(S) /\ <<>> \in Todo(S)
    BY SeqMonotonic, EmptySeq DEF Todo, Frame
  <1>2. <<>> \in CallsOf(S) /\ <<>> \in Seq(Byte) /\ <<>> \o b = b
    BY EmptySeq, ConcatEmptySeq DEF CallsOf
  <1>3. Plain(<<>>)
    BY DEF Plain
  <1> QED
    BY <1>1, <1>2, <1>3 DEF Deserializer, Unread, Readers, Retold

\* What is accepted is what a Serializer makes of the calls, or an address in it has
\* another spelling.
LEMMA AcceptedRetold ==
    ASSUME NEW S, NEW d \in Readers(S), NEW b \in Seq(Byte), Retold(d, b), Accepted(d)
    PROVE  b = d.again <=> Plain(d.calls)
  <1>1. d.again \in Seq(Byte) /\ d.input = <<>>
    BY DEF Readers, Accepted
  <1>2. d.again \o <<>> = d.again
    BY <1>1, ConcatEmptySeq
  <1>3. Differ(d.again, b) => b # d.again
    BY DEF Differ
  <1> QED
    BY <1>1, <1>2, <1>3 DEF Retold

-----------------------------------------------------------------------------
(* A stream: a reader that repeats the calls of a writer, with bytes between them. *)

There(todo, bytes, calls) == [todo |-> todo, bytes |-> bytes, calls |-> calls]

\* What is on the wire, with the bytes `lost` that never arrived, is a script from the
\* place of the reader to the place of the writer; or the reader is the one that is
\* ahead: there is nothing to read of the end of a list, and nothing to wait for.
InStep(S, M, reads, wire, lost, calls, writes) ==
    \/ Script(S, M, There(reads, wire \o lost, calls), writes)
    \/ /\ wire = <<>> /\ lost = <<>> /\ calls = <<>>
       /\ Script(S, M, End(writes), reads)

\* Where nothing is concatenated there was nothing.
LEMMA NothingJoined ==
    ASSUME NEW T, NEW a \in Seq(T), NEW b \in Seq(T), a \o b = <<>>
    PROVE  a = <<>> /\ b = <<>>
  <1>1. Len(a) + Len(b) = 0 /\ Len(a) \in Nat /\ Len(b) \in Nat
    BY ConcatProperties, LenProperties, EmptySeq
  <1>2. Len(a) = 0 /\ Len(b) = 0
    BY <1>1
  <1> QED
    BY <1>2, EmptySeq

\* A call that writes nothing, or reads from nothing, is the end of a list or of
\* one of its elements.
LEMMA FromNothing ==
    ASSUME NEW h, CallOK(h)
    PROVE  \/ Decode(h, <<>>) = Eof
           \/ h.k = "counted" /\ Decode(h, <<>>) = Ok(0, <<>>)
  BY DEF CallOK, Decode

\* Where a writer is between two messages and a reader is not behind it, the reader
\* is there, too: every message begins with a call that writes something.
LEMMA BetweenMessages ==
    ASSUME NEW S, Supported(S), NEW M \in Seq(S), M # <<>>, NEW reads,
           Script(S, M, End(<<>>), reads)
    PROVE  reads = <<>>
  <1> DEFINE p == End(<<>>)
  <1>1. p.todo = <<>> /\ p.bytes = <<>> /\ Script(S, M, p, reads)
    BY DEF End
  <1>2. Head(M) \in S
    BY HeadTailProperties
  <1>3. CallOK(Head(M)) /\ Head(M).k # "counted"
    BY <1>2, FrameCalls DEF Supported, Frame
  <1>4. ASSUME NEW q \in Point(S), Link(M, p, q) PROVE FALSE
    <2>1. PICK v \in Tokens(Head(M)) : p.bytes = Encode(Head(M), v) \o q.bytes
      BY <1>1, <1>4 DEF Link, Begun
    <2>2. Encode(Head(M), v) \in Seq(Byte) /\ Encode(Head(M), v) # <<>> /\ q.bytes \in Seq(Byte)
      BY <1>3 DEF CallOK, Point
    <2> QED
      BY <1>1, <2>1, <2>2, NothingJoined
  <1>5. p = End(reads)
    BY <1>1, <1>4, ScriptHead
  <1> QED
    BY <1>5 DEF End

\* The call at the beginning of what is left to do.
LEMMA NextCall ==
    ASSUME NEW S, Supported(S), NEW M \in Todo(S), M # <<>>, NEW todo \in Todo(S),
           NEW x, x = Begun(M, todo)
    PROVE  x \in Todo(S) /\ x # <<>> /\ Head(x) \in Frame(S) /\ CallOK(Head(x))
  <1>1. x \in Todo(S) /\ x # <<>>
    BY DEF Begun
  <1>2. Head(x) \in Frame(S)
    BY <1>1, HeadTailProperties DEF Todo
  <1> QED
    BY <1>1, <1>2, FrameCalls

\* Nothing is written and nothing is read.
LEMMA InStepBegins ==
    ASSUME NEW S, NEW M, NEW todo \in Todo(S)
    PROVE  InStep(S, M, todo, <<>>, <<>>, <<>>, todo)
  BY ScriptEmpty DEF InStep

\* A call of the writer makes the script longer, or, where the reader is ahead, is the
\* first that the reader has already repeated.
LEMMA InStepWrites ==
    ASSUME NEW S, Supported(S), NEW M \in Todo(S), M # <<>>,
           NEW reads \in Todo(S), NEW wire \in Seq(Byte), NEW calls \in CallsOf(S),
           NEW writes \in Todo(S), InStep(S, M, reads, wire, <<>>, calls, writes),
           NEW x, x = Begun(M, writes), NEW t \in Tokens(Head(x))
    PROVE  /\ wire \o Encode(Head(x), t) \in Seq(Byte)
           /\ calls \o Calls(x, t) \in CallsOf(S)
           /\ After(x, t) \in Todo(S)
           /\ InStep(S, M, reads, wire \o Encode(Head(x), t), <<>>, calls \o Calls(x, t),
                     After(x, t))
  <1> DEFINE h == Head(x)
             y == Encode(h, t)
             c == Calls(x, t)
             z == After(x, t)
  <1>1. x \in Todo(S) /\ x # <<>> /\ h \in Frame(S) /\ CallOK(h)
    BY NextCall
  <1>2. z \in Todo(S) /\ c \in CallsOf(S)
    BY <1>1, AfterTyped, Zenon
  <1>3. y \in Seq(Byte)
    BY <1>1 DEF CallOK
  <1>4. wire \o y \in Seq(Byte) /\ calls \o c \in CallsOf(S)
    <2> HIDE DEF y, c
    <2> QED
      BY <1>2, <1>3, ConcatProperties DEF CallsOf
  <1>5. wire \o <<>> = wire /\ (wire \o y) \o <<>> = wire \o y
    <2> HIDE DEF y
    <2> QED
      BY <1>4, ConcatEmptySeq
  <1>6. CASE Script(S, M, There(reads, wire \o <<>>, calls), writes)
    <2> DEFINE p == There(reads, wire, calls)
    <2>1. Script(S, M, p, writes)
      BY <1>5, <1>6
    <2> HIDE DEF p
    <2>2. Script(S, M, Longer(p, Encode(Head(x), t), Calls(x, t)), After(x, t))
      BY <1>1, <2>1, ScriptExtend, Zenon
    <2>3. Longer(p, y, c) = There(reads, (wire \o y) \o <<>>, calls \o c)
      <3> HIDE DEF y, c
      <3> QED
        BY <1>5 DEF Longer, There, p
    <2>4. InStep(S, M, reads, wire \o y, <<>>, calls \o c, z)
      BY <2>2, <2>3 DEF InStep
    <2> QED
      BY <1>2, <1>4, <2>4
  <1>7. CASE /\ wire = <<>> /\ calls = <<>> /\ Script(S, M, End(writes), reads)
             /\ ~ Script(S, M, There(reads, wire \o <<>>, calls), writes)
    <2> DEFINE p == End(writes)
    <2>1. p.todo = writes /\ p.bytes = <<>> /\ p.calls = <<>>
      BY DEF End
    <2>2. p = End(reads) \/ \E q \in Point(S) : Link(M, p, q) /\ Script(S, M, q, reads)
      BY <1>7, ScriptHead, Zenon
    <2>3. p # End(reads)
      <3> SUFFICES ASSUME writes = reads PROVE FALSE
        BY <2>1 DEF End
      <3>1. There(reads, wire \o <<>>, calls) = End(reads)
        BY <1>5, <1>7 DEF There, End
      <3> QED
        BY <1>7, <3>1
    <2> HIDE DEF p
    <2>4. PICK q \in Point(S) : Link(M, p, q) /\ Script(S, M, q, reads)
      BY <2>2, <2>3
    <2>5. PICK v \in Tokens(h) : /\ q.todo = After(x, v)
                                 /\ p.bytes = Encode(h, v) \o q.bytes
                                 /\ p.calls = Calls(x, v) \o q.calls
      BY <2>1, <2>4 DEF Link
    <2>6. Encode(h, v) \in Seq(Byte) /\ q.bytes \in Seq(Byte) /\ q.calls \in CallsOf(S)
      BY <1>1, <2>5 DEF CallOK, Point
    <2>7. Encode(h, v) = <<>> /\ q.bytes = <<>>
      BY <2>1, <2>5, <2>6, NothingJoined
    <2>8. h.k = "counted"
      BY <1>1, <2>5, <2>7 DEF CallOK
    <2>9. v = 0 /\ t = 0
      BY <2>5, <2>8 DEF Tokens
    <2>10. y = <<>> /\ c = <<>> /\ Calls(x, v) = <<>>
      BY <2>8 DEF Encode, Calls
    <2>11. q.calls = <<>>
      BY <2>1, <2>5, <2>6, <2>10, ConcatEmptySeq DEF CallsOf
    <2>12. q = End(z)
      BY <2>5, <2>7, <2>9, <2>11 DEF Point, End
    <2>13. wire \o y = <<>> /\ calls \o c = <<>>
      BY <1>7, <2>10, EmptySeq, ConcatEmptySeq
    <2>14. InStep(S, M, reads, wire \o y, <<>>, calls \o c, z)
      BY <2>4, <2>12, <2>13 DEF InStep
    <2> QED
      BY <1>2, <1>4, <2>14
  <1> QED
    BY <1>6, <1>7 DEF InStep

\* What is cut off the wire is missing from then on.
LEMMA InStepCut ==
    ASSUME NEW S, NEW M, NEW reads, NEW wire \in Seq(Byte), NEW calls, NEW writes,
           InStep(S, M, reads, wire, <<>>, calls, writes), NEW k \in 0 .. Len(wire)
    PROVE  \E n \in Seq(Byte) : /\ SubSeq(wire, 1, k) \in Seq(Byte) /\ Len(n) = Len(wire) - k
                                /\ InStep(S, M, reads, SubSeq(wire, 1, k), n, calls, writes)
  <1> DEFINE a == SubSeq(wire, 1, k)
             n == From(wire, k + 1)
  <1>1. a \in Seq(Byte) /\ n \in Seq(Byte) /\ Len(n) = Len(wire) - k /\ a \o n = wire
    BY Cut
  <1>2. wire \o <<>> = wire
    BY ConcatEmptySeq
  <1> HIDE DEF a, n
  <1>3. wire = <<>> => a = <<>> /\ n = <<>>
    BY <1>1, NothingJoined
  <1>4. InStep(S, M, reads, a, n, calls, writes)
    BY <1>1, <1>2, <1>3 DEF InStep
  <1> QED
    BY <1>1, <1>4 DEF a

\* What the reader makes of the bytes: it is ahead, or repeats a call, or there is
\* only a beginning of the call.
LEMMA InStepCases ==
    ASSUME NEW S, Supported(S), NEW M \in Todo(S), M # <<>>,
           NEW reads \in Todo(S), NEW wire \in Seq(Byte), NEW lost \in Seq(Byte),
           NEW calls \in CallsOf(S), NEW writes \in Todo(S),
           InStep(S, M, reads, wire, lost, calls, writes), NEW x, x = Begun(M, reads)
    PROVE  \/ /\ wire = <<>> /\ lost = <<>> /\ calls = <<>>
              /\ Script(S, M, End(writes), reads)
           \/ \E q \in Point(S) :
                LET p == There(reads, wire \o lost, calls)
                IN  /\ Script(S, M, q, writes)
                    /\ Repeats(x, wire, lost, p, q) \/ Halfway(x, wire, lost, p, q)
  <1> DEFINE p == There(reads, wire \o lost, calls)
  <1> SUFFICES ASSUME Script(S, M, p, writes)
               PROVE  \/ /\ wire = <<>> /\ lost = <<>> /\ calls = <<>>
                         /\ Script(S, M, End(writes), reads)
                      \/ \E q \in Point(S) :
                           /\ Script(S, M, q, writes)
                           /\ Repeats(x, wire, lost, p, q) \/ Halfway(x, wire, lost, p, q)
    BY DEF InStep
  <1>1. p.todo = reads /\ p.bytes = wire \o lost /\ p.calls = calls
    BY DEF There
  <1> HIDE DEF p
  <1>2. /\ p \in Point(S)
        /\ p = End(writes) \/ \E q \in Point(S) : Link(M, p, q) /\ Script(S, M, q, writes)
    BY ScriptHead, Zenon
  <1>3. CASE p = End(writes)
    <2>1. reads = writes /\ wire \o lost = <<>> /\ calls = <<>>
      BY <1>1, <1>3 DEF End
    <2> QED
      BY <2>1, NothingJoined, ScriptEmpty
  <1>4. ASSUME NEW q \in Point(S), Link(M, p, q)
        PROVE  Repeats(x, wire, lost, p, q) \/ Halfway(x, wire, lost, p, q)
    <2>1. x = Begun(M, p.todo)
      BY <1>1
    <2> QED
      BY <1>1, <1>2, <1>4, <2>1, ReadLink, Zenon
  <1> QED
    BY <1>2, <1>3, <1>4

\* The reader repeats the oldest of the calls, x, of which the bytes are there.
ReadsNext(S, M, x, wire, lost, calls, writes) ==
    \E v \in Tokens(Head(x)), r \in Seq(Byte), f \in CallsOf(S) :
       /\ Decode(Head(x), wire) = Ok(v, r)
       /\ wire = Encode(Head(x), v) \o r
       /\ calls = Calls(x, v) \o f
       /\ After(x, v) \in Todo(S)
       /\ InStep(S, M, After(x, v), r, lost, f, writes)

\* A call of the reader that succeeds is the oldest of the writer's that it has not
\* repeated, with the same argument.
LEMMA InStepReads ==
    ASSUME NEW S, Supported(S), NEW M \in Todo(S), M # <<>>,
           NEW reads \in Todo(S), NEW wire \in Seq(Byte), NEW lost \in Seq(Byte),
           NEW calls \in CallsOf(S), NEW writes \in Todo(S),
           InStep(S, M, reads, wire, lost, calls, writes), NEW x, x = Begun(M, reads),
           Decode(Head(x), wire).r = "ok"
    PROVE  ReadsNext(S, M, x, wire, lost, calls, writes)
  <1> DEFINE h == Head(x)
             d == Decode(h, wire)
  <1>1. x \in Todo(S) /\ x # <<>> /\ h \in Frame(S) /\ CallOK(h)
    BY NextCall
  <1>2. PICK v \in Tokens(h), r \in Seq(Byte) : d = Ok(v, r) /\ wire = Encode(h, v) \o r
    <2>1. d \notin {Eof, Bad}
      BY DEF Eof, Bad
    <2>2. Answers(h, wire)
      BY <1>1 DEF CallOK
    <2> QED
      BY <2>1, <2>2 DEF Answers
  <1> DEFINE c == Calls(x, v)
             z == After(x, v)
  <1>3. z \in Todo(S) /\ c \in CallsOf(S)
    BY <1>1, AfterTyped, Zenon
  <1>4. CASE /\ wire = <<>> /\ lost = <<>> /\ calls = <<>> /\ Script(S, M, End(writes), reads)
    <2>1. h.k = "counted" /\ v = 0 /\ r = <<>>
      <3>1. d = Decode(h, <<>>) /\ d.r = "ok"
        BY <1>4
      <3> HIDE DEF d, h
      <3> QED
        BY <1>1, <1>2, <3>1, FromNothing DEF Eof, Ok
    <2>2. Encode(h, v) = <<>> /\ c = <<>>
      BY <2>1 DEF Encode, Calls
    <2>3. Script(S, M, Longer(End(writes), Encode(h, v), c), z)
      BY <1>1, <1>2, <1>4, ScriptExtend, Zenon
    <2>4. Longer(End(writes), Encode(h, v), c) = End(writes)
      <3>1. Longer(End(writes), <<>>, <<>>) = End(writes)
        BY EmptySeq, ConcatEmptySeq DEF Longer, End
      <3> QED
        BY <2>2, <3>1
    <2>5. InStep(S, M, z, r, lost, <<>>, writes)
      BY <1>4, <2>1, <2>3, <2>4 DEF InStep
    <2>6. <<>> \in CallsOf(S) /\ calls = c \o <<>>
      BY <1>4, <2>2, EmptySeq, ConcatEmptySeq DEF CallsOf
    <2> QED
      BY <1>2, <1>3, <2>5, <2>6 DEF ReadsNext
  <1>5. ASSUME NEW q \in Point(S), Script(S, M, q, writes),
               NEW p, p = There(reads, wire \o lost, calls),
               Repeats(x, wire, lost, p, q) \/ Halfway(x, wire, lost, p, q)
        PROVE  /\ q.calls \in CallsOf(S) /\ calls = c \o q.calls
               /\ InStep(S, M, z, r, lost, q.calls, writes)
    <2>1. Repeats(x, wire, lost, p, q)
      BY <1>5 DEF Halfway, Eof
    <2>2. PICK u \in Tokens(h), s \in Seq(Byte) :
             /\ d = Ok(u, s) /\ q.todo = After(x, u) /\ q.bytes = s \o lost
             /\ p.calls = Calls(x, u) \o q.calls
      BY <2>1 DEF Repeats
    <2>3. u = v /\ s = r
      BY <1>2, <2>2 DEF Ok
    <2>4. q.calls \in CallsOf(S) /\ calls = c \o q.calls
      BY <1>5, <2>2, <2>3 DEF There, Point
    <2>5. q = There(z, r \o lost, q.calls)
      BY <2>2, <2>3 DEF There, Point
    <2>6. InStep(S, M, z, r, lost, q.calls, writes)
      BY <1>5, <2>5 DEF InStep
    <2> QED
      BY <2>4, <2>6
  <1>6. CASE \E q \in Point(S) :
                LET p == There(reads, wire \o lost, calls)
                IN  /\ Script(S, M, q, writes)
                    /\ Repeats(x, wire, lost, p, q) \/ Halfway(x, wire, lost, p, q)
    <2>1. PICK q \in Point(S) :
                LET p == There(reads, wire \o lost, calls)
                IN  /\ Script(S, M, q, writes)
                    /\ Repeats(x, wire, lost, p, q) \/ Halfway(x, wire, lost, p, q)
      BY <1>6
    <2>2. /\ q.calls \in CallsOf(S) /\ calls = c \o q.calls
          /\ InStep(S, M, z, r, lost, q.calls, writes)
      BY <1>5, <2>1
    <2> QED
      BY <1>2, <1>3, <2>2 DEF ReadsNext
  <1> QED
    BY <1>4, <1>6, InStepCases

\* No call of the reader fails, but for want of bytes.
LEMMA InStepWaits ==
    ASSUME NEW S, Supported(S), NEW M \in Todo(S), M # <<>>,
           NEW reads \in Todo(S), NEW wire \in Seq(Byte), NEW lost \in Seq(Byte),
           NEW calls \in CallsOf(S), NEW writes \in Todo(S),
           InStep(S, M, reads, wire, lost, calls, writes), NEW x, x = Begun(M, reads),
           Decode(Head(x), wire).r # "ok"
    PROVE  Decode(Head(x), wire) = Eof
  <1> DEFINE h == Head(x)
             d == Decode(h, wire)
  <1>1. CallOK(h)
    BY NextCall
  <1>2. CASE wire = <<>>
    <2>1. d = Decode(h, <<>>) /\ d.r # "ok"
      BY <1>2
    <2> HIDE DEF d, h
    <2> QED
      BY <1>1, <2>1, FromNothing DEF Ok, d, h
  <1>3. ASSUME NEW q, NEW p, Repeats(x, wire, lost, p, q) \/ Halfway(x, wire, lost, p, q)
        PROVE  d = Eof
    BY <1>3 DEF Repeats, Halfway, Ok
  <1>4. CASE \E q \in Point(S) :
                LET p == There(reads, wire \o lost, calls)
                IN  /\ Script(S, M, q, writes)
                    /\ Repeats(x, wire, lost, p, q) \/ Halfway(x, wire, lost, p, q)
    BY <1>3, <1>4
  <1> QED
    BY <1>2, <1>4, InStepCases

=============================================================================
