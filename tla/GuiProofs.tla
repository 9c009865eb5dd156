----------------------------- MODULE GuiProofs -----------------------------
(***************************************************************************)
(* The graphical interface, for every value of the constants.              *)
(*                                                                         *)
(* A message on its way to the screen passes six places.  What is drawn    *)
(* never goes back because the places are passed in order: every message   *)
(* further on was sent before every message further back, and within a     *)
(* place the messages stand in the order of sending.                       *)
(*                                                                         *)
(* For the keys it matters that no update of the event queue drops one     *)
(* that was not read, and that a pending error of the socket comes from    *)
(* the key handled last.                                                   *)
(***************************************************************************)
EXTENDS Gui, SequenceTheorems, TLAPS

Increasing(s) == \A i, j \in 1 .. Len(s) : i < j => s[i] < s[j]

\* Message n is at the k-th place, counted from the screen.
At(k, n) == \/ k = 1 /\ n \in screen
            \/ k = 2 /\ n \in commands.spawn
            \/ k = 3 /\ \E i \in 1 .. Len(Unread(messages)) : Unread(messages)[i] = n
            \/ k = 4 /\ \E i \in 1 .. Len(channel) : channel[i] = n
            \/ k = 5 /\ hand # Nothing /\ hand = n
            \/ k = 6 /\ \E i \in 1 .. Len(socket) : socket[i].n = n

Ordered == \A k, l \in 1 .. 6, m, n \in 1 .. sent :
               k < l /\ At(k, m) /\ At(l, n) => m < n

QueuesOrdered ==
    /\ Increasing(Unread(messages)) /\ Increasing(channel)
    /\ \A i, j \in 1 .. Len(socket) : i < j => socket[i].n < socket[j].n

\* Commands are pending between draw and the end of its frame only.
CommandsInv ==
    \/ commands = NoCommands
    \/ /\ frame = "running" /\ systems["draw"] = "done"
       /\ commands.despawn = screen
       /\ \E n \in 1 .. sent : commands.spawn = {n}

OneOnScreen == \A m, n \in screen : m = n

ScreenInv == TypeOK /\ Ordered /\ QueuesOrdered /\ CommandsInv /\ OneOnScreen

\* How many keys send_input has come past.
Handled == Len(pressed) - Len(Unread(keys))

\* The unread keys are the last that were pressed, without gaps.
KeysUnread == /\ Handled \in Nat
              /\ \A i \in 1 .. Len(Unread(keys)) : Unread(keys)[i] = Handled + i

\* What an update will drop has been read when the frame begins.
KeysRead == frame = "waiting" => keys.seen >= Len(keys.old)
KeysReadInFrame == frame = "running" /\ systems["send_input"] = "done" => Unread(keys) = <<>>

FatesInv == /\ \A i, j \in 1 .. Len(fates) : i < j => fates[i].n < fates[j].n
            /\ \A i \in 1 .. Len(fates) : /\ fates[i].n <= Handled
                                          /\ pressed[fates[i].n] \in DOMAIN InputMessage
            /\ \A k \in 1 .. Handled : pressed[k] \in DOMAIN InputMessage =>
                   \E j \in 1 .. Len(fates) : fates[j].n = k

KeyInv == /\ TypeOK /\ KeysUnread /\ KeysRead /\ KeysReadInFrame
          /\ FatesInv

RefusedInv == /\ refused => fates # <<>> /\ fates[Len(fates)].fate = "unheard"
              /\ OneKeyMissedAtMost

-----------------------------------------------------------------------------
(* Event queues.                                                           *)

\* What is left of s after its first n elements.
Rest(s, n) == SubSeq(s, n + 1, Len(s))

LEMMA RestIs ==
    ASSUME NEW S, NEW s \in Seq(S), NEW n \in 0 .. Len(s)
    PROVE  /\ Rest(s, n) \in Seq(S)
           /\ Len(Rest(s, n)) = Len(s) - n
           /\ \A i \in 1 .. Len(s) - n : Rest(s, n)[i] = s[n + i]
<1>1. Len(s) \in Nat /\ n \in Nat /\ n <= Len(s) BY LenProperties
<1>2. \A i \in n + 1 .. Len(s) : s[i] \in S BY <1>1, ElementOfSeq
<1>. DEFINE m == n + 1
<1>3. /\ SubSeq(s, m, Len(s)) \in Seq(S)
      /\ Len(SubSeq(s, m, Len(s))) = IF m <= Len(s) THEN Len(s) - m + 1 ELSE 0
      /\ \A i \in 1 .. Len(s) - m + 1 : SubSeq(s, m, Len(s))[i] = s[m + i - 1]
  <2>1. m \in Int /\ Len(s) \in Int BY <1>1
  <2>2. \A i \in m .. Len(s) : s[i] \in S BY <1>2
  <2>. HIDE DEF m
  <2>. QED BY <2>1, <2>2, SubSeqProperties
<1>4. ASSUME NEW i \in 1 .. Len(s) - n PROVE Rest(s, n)[i] = s[n + i]
  <2>1. i \in 1 .. Len(s) - m + 1 /\ m + i - 1 = n + i BY <1>1
  <2>. QED BY <1>3, <2>1 DEF Rest
<1>. QED BY <1>1, <1>3, <1>4 DEF Rest

LEMMA RestAppend ==
    ASSUME NEW S, NEW s \in Seq(S), NEW n \in 0 .. Len(s), NEW e \in S
    PROVE  Rest(Append(s, e), n) = Append(Rest(s, n), e)
<1>. DEFINE a == Append(s, e)
            r == Rest(a, n)
            b == Append(Rest(s, n), e)
<1>1. /\ a \in Seq(S) /\ Len(a) = Len(s) + 1 /\ Len(s) \in Nat /\ n \in 0 .. Len(a)
      /\ \A i \in 1 .. Len(s) : a[i] = s[i]
      /\ a[Len(s) + 1] = e
  BY AppendProperties, LenProperties
<1>. HIDE DEF a
<1>2. /\ r \in Seq(S) /\ Len(r) = Len(a) - n
      /\ \A i \in 1 .. Len(a) - n : r[i] = a[n + i]
  BY <1>1, RestIs
<1>3. /\ Rest(s, n) \in Seq(S) /\ Len(Rest(s, n)) = Len(s) - n
      /\ \A i \in 1 .. Len(s) - n : Rest(s, n)[i] = s[n + i]
  BY RestIs
<1>4. /\ b \in Seq(S) /\ Len(b) = Len(Rest(s, n)) + 1
      /\ \A i \in 1 .. Len(Rest(s, n)) : b[i] = Rest(s, n)[i]
      /\ b[Len(Rest(s, n)) + 1] = e
  BY <1>3, AppendProperties
<1>. HIDE DEF r, b
<1>5. ASSUME NEW i \in 1 .. Len(r) PROVE r[i] = b[i]
  <2>1. i \in 1 .. Len(s) + 1 - n /\ n \in Nat BY <1>1, <1>2
  <2>2. r[i] = a[n + i] BY <1>1, <1>2, <2>1
  <2>3. CASE i \in 1 .. Len(s) - n
    <3>1. n + i \in 1 .. Len(s) BY <1>1, <2>1, <2>3
    <3>2. a[n + i] = s[n + i] BY <1>1, <3>1
    <3>. QED BY <1>3, <1>4, <2>2, <2>3, <3>2
  <2>4. CASE i = Len(s) - n + 1
    <3>1. n + i = Len(s) + 1 BY <1>1, <2>1, <2>4
    <3>. QED BY <1>1, <1>3, <1>4, <2>2, <2>4, <3>1
  <2>. QED BY <1>1, <2>1, <2>3, <2>4
<1>6. Len(r) = Len(b) BY <1>1, <1>2, <1>3, <1>4
<1>7. r = b BY <1>2, <1>4, <1>5, <1>6, SeqEqual
<1>. QED BY <1>7 DEF a, r, b

LEMMA ConcatAppend ==
    ASSUME NEW S, NEW s \in Seq(S), NEW t \in Seq(S), NEW e \in S
    PROVE  s \o Append(t, e) = Append(s \o t, e)
<1>1. <<e>> \in Seq(S) OBVIOUS
<1>2. Append(t, e) = t \o <<e>> BY AppendIsConcat
<1>3. s \o t \in Seq(S) BY ConcatProperties
<1>4. Append(s \o t, e) = (s \o t) \o <<e>> BY <1>3, AppendIsConcat
<1>. QED BY <1>1, <1>2, <1>4, ConcatAssociative

QueueOK(q, S) == /\ q \in [old : Seq(S), new : Seq(S), seen : Nat]
                 /\ q.seen <= Len(q.old) + Len(q.new)

\* A queue taken to pieces.
LEMMA QueueParts ==
    ASSUME NEW S, NEW q, QueueOK(q, S)
    PROVE  \E old, new \in Seq(S), n \in Nat :
               /\ n \in 0 .. Len(old \o new)
               /\ q = [old |-> old, new |-> new, seen |-> n]
               /\ Len(old \o new) = Len(old) + Len(new)
               /\ Len(old) \in Nat /\ Len(new) \in Nat
               /\ old \o new \in Seq(S)
               /\ Unread(q) = Rest(old \o new, n)
<1>1. PICK old \in Seq(S), new \in Seq(S), n \in Nat :
          q = [old |-> old, new |-> new, seen |-> n]
  BY DEF QueueOK
<1>2. /\ Len(old \o new) = Len(old) + Len(new) /\ old \o new \in Seq(S)
      /\ Len(old) \in Nat /\ Len(new) \in Nat
  BY ConcatProperties, LenProperties
<1>3. q.old = old /\ q.new = new /\ q.seen = n BY <1>1
<1>4. n <= Len(old) + Len(new) BY <1>3 DEF QueueOK
<1>5. n \in 0 .. Len(old \o new) BY <1>2, <1>4
<1>6. Unread(q) = Rest(old \o new, n) BY <1>2, <1>3 DEF Unread, Rest
<1>. QED BY <1>1, <1>2, <1>5, <1>6

\* A queue put together.
QueueFrom(q, S, old, new, s, n) == /\ old \in Seq(S) /\ new \in Seq(S)
                                   /\ s = old \o new
                                   /\ n \in 0 .. Len(s)
                                   /\ q = [old |-> old, new |-> new, seen |-> n]

LEMMA QueueMade ==
    ASSUME NEW S, NEW old, NEW new, NEW s, NEW n, NEW q, QueueFrom(q, S, old, new, s, n)
    PROVE  QueueOK(q, S) /\ Unread(q) = Rest(s, n)
<1>0. /\ old \in Seq(S) /\ new \in Seq(S)
      /\ s = old \o new /\ n \in 0 .. Len(s)
      /\ q = [old |-> old, new |-> new, seen |-> n]
  BY DEF QueueFrom
<1>1. Len(old \o new) = Len(old) + Len(new) /\ Len(old) \in Nat /\ Len(new) \in Nat
  BY <1>0, ConcatProperties, LenProperties
<1>2. n \in Nat /\ n <= Len(old) + Len(new) BY <1>0, <1>1
<1>3. QueueOK(q, S) BY <1>0, <1>2 DEF QueueOK
<1>4. Unread(q) = Rest(s, n) BY <1>0 DEF Unread, Rest
<1>. QED BY <1>3, <1>4

LEMMA UnreadType ==
    ASSUME NEW S, NEW q, QueueOK(q, S)
    PROVE  Unread(q) \in Seq(S) /\ Len(Unread(q)) \in Nat
<1>1. PICK old \in Seq(S), new \in Seq(S), n \in Nat :
          /\ n \in 0 .. Len(old \o new)
          /\ old \o new \in Seq(S)
          /\ Unread(q) = Rest(old \o new, n)
  BY QueueParts
<1>2. Unread(q) \in Seq(S) BY <1>1, RestIs
<1>. QED BY <1>2, LenProperties

LEMMA WriteIs ==
    ASSUME NEW S, NEW q, QueueOK(q, S), NEW e \in S
    PROVE  /\ QueueOK(Write(q, e), S)
           /\ Write(q, e).old = q.old /\ Write(q, e).seen = q.seen
           /\ Write(q, e).old \o Write(q, e).new = Append(q.old \o q.new, e)
           /\ Unread(Write(q, e)) = Append(Unread(q), e)
<1>1. PICK old \in Seq(S), new \in Seq(S), n \in Nat :
          /\ n \in 0 .. Len(old \o new)
          /\ q = [old |-> old, new |-> new, seen |-> n]
          /\ old \o new \in Seq(S)
          /\ Unread(q) = Rest(old \o new, n)
  BY QueueParts
<1>2. /\ q.old = old /\ q.new = new /\ q.seen = n
      /\ Write(q, e) = [old |-> old, new |-> Append(new, e), seen |-> n]
  <2>1. q.old = old /\ q.new = new /\ q.seen = n BY <1>1
  <2>2. PICK a : a = Append(new, e) OBVIOUS
  <2>3. Write(q, e) = [q EXCEPT !.new = a] BY <2>1, <2>2 DEF Write
  <2>4. q = [old |-> old, new |-> new, seen |-> n] BY <1>1
  <2>5. [q EXCEPT !.new = a] = [old |-> old, new |-> a, seen |-> n] BY <2>4
  <2>. QED BY <2>1, <2>2, <2>3, <2>5
<1>3. Append(new, e) \in Seq(S) BY AppendProperties
<1>4. old \o Append(new, e) = Append(old \o new, e) BY ConcatAppend
<1>5. n \in 0 .. Len(old \o Append(new, e))
  BY <1>1, <1>4, AppendProperties, LenProperties
<1>6. /\ QueueOK(Write(q, e), S)
      /\ Unread(Write(q, e)) = Rest(Append(old \o new, e), n)
  <2>1. PICK a, w : a = Append(new, e) /\ w = Write(q, e) OBVIOUS
  <2>2. PICK s : s = old \o a OBVIOUS
  <2>3. /\ a \in Seq(S) /\ n \in 0 .. Len(s)
        /\ w = [old |-> old, new |-> a, seen |-> n]
    BY <1>2, <1>3, <1>5, <2>1, <2>2
  <2>4. QueueFrom(w, S, old, a, s, n) BY <2>2, <2>3 DEF QueueFrom
  <2>5. QueueOK(w, S) /\ Unread(w) = Rest(s, n) BY <2>4, QueueMade
  <2>. QED BY <1>4, <2>1, <2>2, <2>5
<1>7. Rest(Append(old \o new, e), n) = Append(Unread(q), e)
  <2>1. PICK s : s = old \o new OBVIOUS
  <2>2. s \in Seq(S) /\ n \in 0 .. Len(s) /\ Unread(q) = Rest(s, n) BY <1>1, <2>1
  <2>3. Rest(Append(s, e), n) = Append(Rest(s, n), e) BY <2>2, RestAppend
  <2>. QED BY <2>1, <2>2, <2>3
<1>8. /\ Write(q, e).old = old /\ Write(q, e).new = Append(new, e)
      /\ Write(q, e).seen = n
  BY <1>2
<1>. QED BY <1>2, <1>4, <1>6, <1>7, <1>8

LEMMA SeenIs ==
    ASSUME NEW S, NEW q, QueueOK(q, S), NEW k \in 0 .. Len(Unread(q))
    PROVE  /\ QueueOK(Seen(q, k), S)
           /\ Seen(q, k).old = q.old /\ Seen(q, k).new = q.new
           /\ Seen(q, k).seen = q.seen + k
           /\ Len(Unread(Seen(q, k))) = Len(Unread(q)) - k
           /\ \A i \in 1 .. Len(Unread(q)) - k : Unread(Seen(q, k))[i] = Unread(q)[k + i]
<1>1. PICK old \in Seq(S), new \in Seq(S), n \in Nat :
          /\ n \in 0 .. Len(old \o new)
          /\ q = [old |-> old, new |-> new, seen |-> n]
          /\ old \o new \in Seq(S)
          /\ Unread(q) = Rest(old \o new, n)
  BY QueueParts
<1>. DEFINE s == old \o new
<1>2. Seen(q, k) = [old |-> old, new |-> new, seen |-> n + k] BY <1>1 DEF Seen
<1>. HIDE DEF s
<1>3. s \in Seq(S) /\ Len(s) \in Nat /\ n \in 0 .. Len(s) BY <1>1, LenProperties DEF s
<1>4. /\ Len(Unread(q)) = Len(s) - n
      /\ \A i \in 1 .. Len(s) - n : Unread(q)[i] = s[n + i]
  BY <1>1, <1>3, RestIs DEF s
<1>5. n + k \in 0 .. Len(s) BY <1>3, <1>4
<1>6. /\ QueueOK(Seen(q, k), S)
      /\ Unread(Seen(q, k)) = Rest(s, n + k)
  <2>1. QueueFrom(Seen(q, k), S, old, new, s, n + k) BY <1>2, <1>5 DEF QueueFrom, s
  <2>. QED BY <2>1, QueueMade
<1>7. /\ Len(Rest(s, n + k)) = Len(s) - (n + k)
      /\ \A i \in 1 .. Len(s) - (n + k) : Rest(s, n + k)[i] = s[(n + k) + i]
  <2>. DEFINE m == n + k
  <2>1. m \in 0 .. Len(s) BY <1>5
  <2>. HIDE DEF m
  <2>2. /\ Len(Rest(s, m)) = Len(s) - m
        /\ \A i \in 1 .. Len(s) - m : Rest(s, m)[i] = s[m + i]
    BY <1>3, <2>1, RestIs
  <2>. QED BY <2>2 DEF m
<1>8. Len(Rest(s, n + k)) = Len(Unread(q)) - k
  <2>1. k \in Nat /\ n \in Nat /\ Len(s) \in Nat BY <1>3, <1>4
  <2>2. Len(s) - (n + k) = (Len(s) - n) - k BY <2>1
  <2>. QED BY <1>4, <1>7, <2>2
<1>9. ASSUME NEW i \in 1 .. Len(Unread(q)) - k PROVE Rest(s, n + k)[i] = Unread(q)[k + i]
  <2>1. /\ k + i \in 1 .. Len(s) - n /\ (n + k) + i = n + (k + i)
        /\ i \in 1 .. Len(s) - (n + k)
    BY <1>3, <1>4
  <2>. QED BY <1>4, <1>7, <2>1
<1>. QED BY <1>1, <1>2, <1>6, <1>8, <1>9

\* An update drops the old events.  Nothing that was not read gets lost if they
\* had all been read.
LEMMA UpdateIs ==
    ASSUME NEW S, NEW q, QueueOK(q, S)
    PROVE  /\ QueueOK(Update(q), S)
           /\ Update(q).old = q.new /\ Update(q).old \o Update(q).new = q.new
           /\ \E d \in Nat : /\ Len(Unread(Update(q))) + d = Len(Unread(q))
                             /\ \A i \in 1 .. Len(Unread(Update(q))) :
                                    Unread(Update(q))[i] = Unread(q)[d + i]
                             /\ q.seen >= Len(q.old) => d = 0
<1>1. PICK old \in Seq(S), new \in Seq(S), n \in Nat :
          /\ n \in 0 .. Len(old \o new)
          /\ q = [old |-> old, new |-> new, seen |-> n]
          /\ Len(old \o new) = Len(old) + Len(new)
          /\ Len(old) \in Nat /\ Len(new) \in Nat
          /\ old \o new \in Seq(S)
          /\ Unread(q) = Rest(old \o new, n)
  BY QueueParts
<1>. DEFINE k == IF n > Len(old) THEN n - Len(old) ELSE 0
            d == IF n > Len(old) THEN 0 ELSE Len(old) - n
<1>2. Update(q) = [old |-> new, new |-> <<>>, seen |-> k] BY <1>1 DEF Update
<1>3. new \o <<>> = new /\ <<>> \in Seq(S) BY ConcatEmptySeq, EmptySeq
<1>4. k \in 0 .. Len(new) /\ d \in Nat /\ n + d = Len(old) + k /\ (n >= Len(old) => d = 0)
  BY <1>1
<1>. HIDE DEF k, d
<1>5. QueueOK(Update(q), S) /\ Unread(Update(q)) = Rest(new, k)
  <2>1. PICK w, z : w = Update(q) /\ z = <<>> OBVIOUS
  <2>2. PICK s : s = new \o z OBVIOUS
  <2>3. /\ s = new /\ z \in Seq(S) /\ k \in 0 .. Len(s)
        /\ w = [old |-> new, new |-> z, seen |-> k]
    BY <1>2, <1>3, <1>4, <2>1, <2>2
  <2>4. QueueFrom(w, S, new, z, s, k) BY <2>2, <2>3 DEF QueueFrom
  <2>5. QueueOK(w, S) /\ Unread(w) = Rest(s, k) BY <2>4, QueueMade
  <2>. QED BY <2>1, <2>3, <2>5
<1>6. /\ Len(Rest(new, k)) = Len(new) - k
      /\ \A i \in 1 .. Len(new) - k : Rest(new, k)[i] = new[k + i]
  BY <1>4, RestIs
<1>7. /\ Len(Unread(q)) = Len(old) + Len(new) - n
      /\ \A i \in 1 .. Len(old) + Len(new) - n : Unread(q)[i] = (old \o new)[n + i]
  <2>. DEFINE s == old \o new
  <2>1. s \in Seq(S) /\ n \in 0 .. Len(s) /\ Len(s) = Len(old) + Len(new)
    BY <1>1
  <2>2. Unread(q) = Rest(s, n) BY <1>1
  <2>. HIDE DEF s
  <2>3. /\ Len(Rest(s, n)) = Len(s) - n
        /\ \A i \in 1 .. Len(s) - n : Rest(s, n)[i] = s[n + i]
    BY <2>1, RestIs
  <2>4. /\ Len(Unread(q)) = Len(old) + Len(new) - n
        /\ \A i \in 1 .. Len(old) + Len(new) - n : Unread(q)[i] = s[n + i]
    BY <2>1, <2>2, <2>3
  <2>. QED BY <2>4 DEF s
<1>8. Len(Rest(new, k)) + d = Len(Unread(q))
  <2>1. PICK x, y, v, u : /\ x = Len(old) /\ y = Len(new)
                          /\ v = Len(Rest(new, k)) /\ u = Len(Unread(q))
    OBVIOUS
  <2>2. x \in Nat /\ y \in Nat /\ k \in Nat /\ d \in Nat /\ n + d = x + k
    BY <1>1, <1>4, <2>1
  <2>3. v = y - k BY <1>6, <2>1
  <2>4. u = x + y - n BY <1>7, <2>1
  <2>. QED BY <2>1, <2>2, <2>3, <2>4
<1>9. ASSUME NEW i \in 1 .. Len(new) - k PROVE Rest(new, k)[i] = Unread(q)[d + i]
  <2>1. /\ d + i \in 1 .. Len(old) + Len(new) - n
        /\ n + (d + i) \in 1 .. Len(old) + Len(new)
        /\ n + (d + i) > Len(old) /\ n + (d + i) - Len(old) = k + i
    BY <1>1, <1>4
  <2>2. (old \o new)[n + (d + i)] = new[k + i] BY <1>1, <2>1, ConcatProperties
  <2>. QED BY <1>6, <1>7, <2>1, <2>2
<1>10. q.seen = n /\ q.old = old /\ q.new = new BY <1>1
<1>11. Update(q).old = q.new /\ Update(q).old \o Update(q).new = q.new
  BY <1>2, <1>3, <1>10
<1>12. /\ Len(Unread(Update(q))) + d = Len(Unread(q))
       /\ \A i \in 1 .. Len(Unread(Update(q))) : Unread(Update(q))[i] = Unread(q)[d + i]
       /\ d \in Nat /\ (q.seen >= Len(q.old) => d = 0)
  <2>1. PICK u : u = Rest(new, k) OBVIOUS
  <2>2. Unread(Update(q)) = u BY <1>5, <2>1
  <2>3. Len(u) = Len(new) - k /\ Len(u) + d = Len(Unread(q)) BY <1>6, <1>8, <2>1
  <2>4. \A i \in 1 .. Len(new) - k : u[i] = Unread(q)[d + i] BY <1>9, <2>1
  <2>5. d \in Nat /\ (q.seen >= Len(q.old) => d = 0) BY <1>4, <1>10
  <2>. QED BY <2>2, <2>3, <2>4, <2>5
<1>. QED BY <1>4, <1>5, <1>11, <1>12

-----------------------------------------------------------------------------
(* The types.                                                              *)

\* What the socket holds, and what becomes of a key.
Taken(k) == [n : 1 .. k, format : {"json", "binary"}]
Fate(k) == [n     : 1 .. k,
            input : {InputMessage[x] : x \in DOMAIN InputMessage},
            fate  : {"delivered", "unheard", "failed"}]

\* The parts of TypeOK, by what they speak of.
SocketOK   == socket \in Seq(Taken(sent)) /\ Len(socket) <= SocketSize
ThreadOK   == hand \in 0 .. sent /\ channel \in Seq(1 .. sent) /\ Len(channel) <= ChannelSize
FrameOK    == /\ frame \in {"waiting", "running"}
              /\ systems \in [Systems -> {"ready", "running", "done"}]
MessagesOK == QueueOK(messages, 1 .. sent)
DrawnOK    == /\ commands \in [despawn : SUBSET (1 .. sent), spawn : SUBSET (1 .. sent)]
              /\ screen \subseteq 1 .. sent
KeysOK     == QueueOK(keys, 1 .. Len(pressed)) /\ pressed \in Seq(Keys)
FatesOK    == fates \in Seq(Fate(Len(pressed)))

LEMMA TypeParts ==
    TypeOK <=> /\ clientUp \in BOOLEAN /\ sent \in 0 .. MaxEvents /\ refused \in BOOLEAN
               /\ SocketOK /\ ThreadOK /\ FrameOK /\ MessagesOK /\ DrawnOK /\ KeysOK /\ FatesOK
BY DEF TypeOK, SocketOK, ThreadOK, FrameOK, MessagesOK, DrawnOK, KeysOK, FatesOK,
       Taken, Fate, QueueOK

LEMMA TypePartsNext ==
    TypeOK' <=> /\ clientUp' \in BOOLEAN /\ sent' \in 0 .. MaxEvents /\ refused' \in BOOLEAN
                /\ SocketOK' /\ ThreadOK' /\ FrameOK' /\ MessagesOK' /\ DrawnOK'
                /\ KeysOK' /\ FatesOK'
BY DEF TypeOK, SocketOK, ThreadOK, FrameOK, MessagesOK, DrawnOK, KeysOK, FatesOK,
       Taken, Fate, QueueOK

LEMMA TypeInit == Init => TypeOK
<1>. SUFFICES ASSUME Init PROVE TypeOK OBVIOUS
<1>1. \A S : <<>> \in Seq(S) /\ Len(<<>>) = 0 BY EmptySeq
<1>2. MessagesOK BY <1>1 DEF Init, MessagesOK, EmptyQueue, QueueOK
<1>3. KeysOK BY <1>1 DEF Init, KeysOK, EmptyQueue, QueueOK
<1>4. SocketOK /\ ThreadOK /\ FatesOK
  BY <1>1, GuiAssumption DEF Init, SocketOK, ThreadOK, FatesOK, Nothing
<1>5. DrawnOK /\ FrameOK BY DEF Init, DrawnOK, FrameOK, NoCommands
<1>6. sent \in 0 .. MaxEvents BY GuiAssumption DEF Init
<1>7. clientUp \in BOOLEAN /\ refused \in BOOLEAN BY DEF Init
<1>. QED BY <1>2, <1>3, <1>4, <1>5, <1>6, <1>7, TypeParts

LEMMA TypeArrives == TypeOK /\ DatagramArrives => TypeOK'
<1>. SUFFICES ASSUME TypeOK, DatagramArrives PROVE TypeOK' OBVIOUS
<1>. USE TypeParts, TypePartsNext
<1>1. sent \in Nat /\ sent' = sent + 1 /\ sent' \in 0 .. MaxEvents
  <2>1. pressed \in Seq(Keys) BY DEF KeysOK
  <2>2. Len(pressed) \in Nat BY <2>1, LenProperties
  <2>. QED BY <2>2, GuiAssumption DEF DatagramArrives, Bounded
<1>2. 1 .. sent \subseteq 1 .. sent' BY <1>1
<1>3. SocketOK'
  <2>1. Taken(sent) \subseteq Taken(sent') BY <1>2 DEF Taken
  <2>2. socket \in Seq(Taken(sent')) BY <2>1, SeqMonotonic DEF SocketOK
  <2>3. Len(socket) \in Nat /\ Len(socket) <= SocketSize BY <2>2, LenProperties DEF SocketOK
  <2>4. PICK d \in Datagrams :
            socket' = IF d.from = "client_address" /\ Len(socket) < SocketSize
                      THEN Append(socket, [n |-> sent + 1, format |-> d.format])
                      ELSE socket
    BY DEF DatagramArrives
  <2>5. d.format \in {"json", "binary"} BY GuiAssumption
  <2>6. [n |-> sent + 1, format |-> d.format] \in Taken(sent')
    BY <1>1, <2>5 DEF Taken
  <2>. DEFINE e == [n |-> sent + 1, format |-> d.format]
  <2>. HIDE DEF e
  <2>7. e \in Taken(sent') BY <2>6 DEF e
  <2>8. Append(socket, e) \in Seq(Taken(sent')) /\ Len(Append(socket, e)) = Len(socket) + 1
    BY <2>2, <2>7, AppendProperties
  <2>9. socket' = socket \/ (socket' = Append(socket, e) /\ Len(socket) < SocketSize)
    BY <2>4 DEF e
  <2>. QED BY <2>2, <2>3, <2>8, <2>9, GuiAssumption DEF SocketOK
<1>4. ThreadOK'
  <2>1. channel \in Seq(1 .. sent') BY <1>2, SeqMonotonic DEF ThreadOK
  <2>2. hand \in 0 .. sent' BY <1>1 DEF ThreadOK
  <2>. QED BY <2>1, <2>2 DEF ThreadOK, DatagramArrives, thread
<1>5. MessagesOK'
  <2>1. messages.old \in Seq(1 .. sent) /\ messages.new \in Seq(1 .. sent)
    BY DEF MessagesOK, QueueOK
  <2>2. messages.old \in Seq(1 .. sent') /\ messages.new \in Seq(1 .. sent')
    BY <1>2, <2>1, SeqMonotonic
  <2>. QED BY <2>2 DEF MessagesOK, QueueOK, DatagramArrives, display
<1>6. DrawnOK' BY <1>2 DEF DrawnOK, DatagramArrives, display
<1>7. UNCHANGED <<clientUp, refused, frames, keyboard>> BY DEF DatagramArrives
<1>8. FrameOK' /\ KeysOK' /\ FatesOK'
  BY <1>7 DEF FrameOK, KeysOK, FatesOK, frames, keyboard
<1>. QED BY <1>1, <1>3, <1>4, <1>5, <1>6, <1>7, <1>8

LEMMA TypeKeyPressed == TypeOK /\ KeyPressed => TypeOK'
<1>. SUFFICES ASSUME TypeOK, KeyPressed PROVE TypeOK' OBVIOUS
<1>. USE TypeParts, TypePartsNext
<1>1. PICK k \in Keys : pressed' = Append(pressed, k) BY DEF KeyPressed
<1>2. pressed \in Seq(Keys) /\ Len(pressed) \in Nat
  <2>1. pressed \in Seq(Keys) BY DEF KeysOK
  <2>. QED BY <2>1, LenProperties
<1>3. pressed' \in Seq(Keys) /\ Len(pressed') = Len(pressed) + 1
  BY <1>1, <1>2, AppendProperties
<1>4. 1 .. Len(pressed) \subseteq 1 .. Len(pressed') BY <1>2, <1>3
<1>5. KeysOK'
  <2>1. QueueOK(keys, 1 .. Len(pressed')) 
    <3>1. keys.old \in Seq(1 .. Len(pressed)) /\ keys.new \in Seq(1 .. Len(pressed))
      BY DEF KeysOK, QueueOK
    <3>2. keys.old \in Seq(1 .. Len(pressed')) /\ keys.new \in Seq(1 .. Len(pressed'))
      BY <1>4, <3>1, SeqMonotonic
    <3>. QED BY <3>2 DEF KeysOK, QueueOK
  <2>2. Len(pressed) + 1 \in 1 .. Len(pressed') BY <1>2, <1>3
  <2>3. QueueOK(keys', 1 .. Len(pressed')) BY <2>1, <2>2, WriteIs DEF KeyPressed
  <2>. QED BY <1>3, <2>3 DEF KeysOK
<1>6. FatesOK'
  <2>1. Fate(Len(pressed)) \subseteq Fate(Len(pressed')) BY <1>4 DEF Fate
  <2>2. fates \in Seq(Fate(Len(pressed'))) BY <2>1, SeqMonotonic DEF FatesOK
  <2>. QED BY <2>2 DEF FatesOK, KeyPressed
<1>7. UNCHANGED <<outside, socket, refused, thread, frames, display>> BY DEF KeyPressed
<1>8. /\ SocketOK' /\ ThreadOK' /\ FrameOK' /\ MessagesOK' /\ DrawnOK'
      /\ UNCHANGED <<clientUp, sent, refused>>
  BY <1>7 DEF SocketOK, ThreadOK, FrameOK, MessagesOK, DrawnOK, outside, thread, frames, display
<1>. QED BY <1>5, <1>6, <1>8

LEMMA TypeThread == TypeOK /\ ReceiveThread => TypeOK'
<1>. SUFFICES ASSUME TypeOK, ReceiveThread PROVE TypeOK' OBVIOUS
<1>. USE TypeParts, TypePartsNext
<1>1. UNCHANGED <<outside, frames, display, keyboard>>
  BY DEF ReceiveThread, Receive, ReceiveFails, PutIntoChannel
<1>2. /\ FrameOK' /\ MessagesOK' /\ DrawnOK' /\ KeysOK' /\ FatesOK'
      /\ UNCHANGED <<clientUp, sent>>
  BY <1>1 DEF FrameOK, MessagesOK, DrawnOK, KeysOK, FatesOK, outside, frames, display, keyboard
<1>3. sent \in Nat OBVIOUS
<1>4. CASE Receive
  <2>1. socket \in Seq(Taken(sent)) /\ Len(socket) <= SocketSize /\ socket # <<>>
    BY <1>4 DEF Receive, SocketOK
  <2>2. /\ Head(socket) \in Taken(sent) /\ Tail(socket) \in Seq(Taken(sent))
        /\ Len(Tail(socket)) = Len(socket) - 1 /\ Len(socket) \in Nat
    BY <2>1, HeadTailProperties, LenProperties
  <2>3. SocketOK' BY <1>2, <1>4, <2>1, <2>2, GuiAssumption DEF SocketOK, Receive
  <2>4. Head(socket).n \in 1 .. sent BY <2>2 DEF Taken
  <2>5. hand' \in 0 .. sent BY <1>3, <1>4, <2>4 DEF Receive, Nothing
  <2>6. ThreadOK' BY <1>2, <1>4, <2>5 DEF ThreadOK, Receive
  <2>. QED BY <1>2, <1>4, <2>3, <2>6 DEF Receive
<1>5. CASE ReceiveFails
  <2>1. SocketOK' /\ ThreadOK' BY <1>2, <1>5 DEF SocketOK, ThreadOK, ReceiveFails, thread
  <2>. QED BY <1>2, <1>5, <2>1 DEF ReceiveFails
<1>6. CASE PutIntoChannel
  <2>1. /\ hand \in 1 .. sent /\ channel \in Seq(1 .. sent) /\ Len(channel) < ChannelSize
        /\ channel' = Append(channel, hand) /\ hand' = Nothing
    BY <1>6 DEF PutIntoChannel, ThreadOK, Nothing
  <2>2. channel' \in Seq(1 .. sent) /\ Len(channel') = Len(channel) + 1 /\ Len(channel) \in Nat
    BY <2>1, AppendProperties, LenProperties
  <2>3. ThreadOK' BY <1>2, <1>3, <2>1, <2>2, GuiAssumption DEF ThreadOK, Nothing
  <2>4. SocketOK' BY <1>2, <1>6 DEF SocketOK, PutIntoChannel
  <2>. QED BY <1>2, <1>6, <2>3, <2>4 DEF PutIntoChannel
<1>. QED BY <1>4, <1>5, <1>6 DEF ReceiveThread

LEMMA TypeReadStream == TypeOK /\ ReadStream => TypeOK'
<1>. SUFFICES ASSUME TypeOK, ReadStream PROVE TypeOK' OBVIOUS
<1>. USE TypeParts, TypePartsNext
<1>1. UNCHANGED <<outside, socket, refused, hand, commands, screen, keyboard, frame>>
  BY DEF ReadStream, Runs
<1>2. /\ SocketOK' /\ DrawnOK' /\ KeysOK' /\ FatesOK'
      /\ UNCHANGED <<clientUp, sent, refused>>
  BY <1>1 DEF SocketOK, DrawnOK, KeysOK, FatesOK, outside, keyboard
<1>3. FrameOK' BY <1>1 DEF FrameOK, ReadStream, Systems
<1>4. CASE channel # <<>> /\ messages' = Write(messages, Head(channel)) /\ channel' = Tail(channel)
  <2>1. /\ channel \in Seq(1 .. sent) /\ Len(channel) <= ChannelSize
        /\ QueueOK(messages, 1 .. sent)
    BY DEF ThreadOK, MessagesOK
  <2>2. /\ Head(channel) \in 1 .. sent /\ Tail(channel) \in Seq(1 .. sent)
        /\ Len(Tail(channel)) = Len(channel) - 1 /\ Len(channel) \in Nat
    BY <1>4, <2>1, HeadTailProperties, LenProperties
  <2>3. QueueOK(messages', 1 .. sent) BY <1>4, <2>1, <2>2, WriteIs
  <2>4. MessagesOK' BY <1>2, <2>3 DEF MessagesOK
  <2>5. Len(Tail(channel)) <= ChannelSize BY <2>1, <2>2, GuiAssumption
  <2>6. ThreadOK' BY <1>1, <1>2, <1>4, <2>2, <2>5 DEF ThreadOK
  <2>. QED BY <1>2, <1>3, <2>4, <2>6
<1>5. CASE UNCHANGED <<messages, channel>>
  <2>1. MessagesOK' /\ ThreadOK' BY <1>1, <1>2, <1>5 DEF MessagesOK, ThreadOK
  <2>. QED BY <1>2, <1>3, <2>1
<1>. QED BY <1>4, <1>5 DEF ReadStream

\* What draw takes from the queue: everything, and it keeps the last.
LEMMA DrawTakes ==
    ASSUME TypeOK, Draw
    PROVE  LET unread == Unread(messages)
           IN  /\ unread \in Seq(1 .. sent) /\ Len(unread) \in Nat
               /\ messages' = Seen(messages, Len(unread)) /\ QueueOK(messages', 1 .. sent)
               /\ Len(Unread(messages')) = 0
               /\ \/ Len(unread) = 0 /\ commands' = NoCommands
                  \/ /\ Len(unread) > 0 /\ unread[Len(unread)] \in 1 .. sent
                     /\ commands' = [despawn |-> screen, spawn |-> {unread[Len(unread)]}]
<1>. DEFINE unread == Unread(messages)
<1>1. QueueOK(messages, 1 .. sent) BY TypeParts DEF MessagesOK
<1>2. unread \in Seq(1 .. sent) /\ Len(unread) \in Nat BY <1>1, UnreadType
<1>3. /\ messages' = Seen(messages, Len(unread))
      /\ commands' = IF unread = <<>> THEN NoCommands
                     ELSE [despawn |-> screen, spawn |-> {unread[Len(unread)]}]
  BY DEF Draw
<1>4. Len(unread) \in 0 .. Len(unread) BY <1>2
<1>5. QueueOK(messages', 1 .. sent) /\ Len(Unread(messages')) = Len(unread) - Len(unread)
  BY <1>1, <1>3, <1>4, SeenIs
<1>6. unread = <<>> => Len(unread) = 0 BY EmptySeq
<1>7. unread # <<>> => Len(unread) > 0
  <2>. HIDE DEF unread
  <2>1. unread # <<>> => Len(unread) \in Nat \ {0} BY <1>2, EmptySeq
  <2>. QED BY <2>1
<1>8. Len(unread) > 0 => unread[Len(unread)] \in 1 .. sent
  <2>. HIDE DEF unread
  <2>1. Len(unread) > 0 => Len(unread) \in 1 .. Len(unread) BY <1>2
  <2>. QED BY <1>2, <2>1, ElementOfSeq
<1>. QED BY <1>2, <1>3, <1>5, <1>6, <1>7, <1>8

LEMMA TypeDraw == TypeOK /\ Draw => TypeOK'
<1>. SUFFICES ASSUME TypeOK, Draw PROVE TypeOK' OBVIOUS
<1>. USE TypeParts, TypePartsNext
<1>1. UNCHANGED <<outside, socket, refused, thread, screen, keyboard, frame>>
  BY DEF Draw, Runs
<1>2. /\ SocketOK' /\ ThreadOK' /\ KeysOK' /\ FatesOK'
      /\ UNCHANGED <<clientUp, sent, refused>>
  BY <1>1 DEF SocketOK, ThreadOK, KeysOK, FatesOK, outside, thread, keyboard
<1>3. FrameOK' BY <1>1 DEF FrameOK, Draw, Systems
<1>4. MessagesOK' BY <1>2, DrawTakes DEF MessagesOK
<1>5. DrawnOK'
  <2>1. NoCommands \in [despawn : SUBSET (1 .. sent), spawn : SUBSET (1 .. sent)]
    BY DEF NoCommands
  <2>2. commands' \in [despawn : SUBSET (1 .. sent), spawn : SUBSET (1 .. sent)]
    BY <2>1, DrawTakes DEF DrawnOK
  <2>. QED BY <1>1, <1>2, <2>2 DEF DrawnOK
<1>. QED BY <1>2, <1>3, <1>4, <1>5

\* The key at the head of the queue.
LEMMA HeadKey ==
    ASSUME TypeOK, SendInput
    PROVE  LET unread == Unread(keys)
           IN  /\ unread \in Seq(1 .. Len(pressed)) /\ Len(unread) \in Nat \ {0}
               /\ Head(unread) = unread[1] /\ Head(unread) \in 1 .. Len(pressed)
               /\ keys' = Seen(keys, 1) /\ QueueOK(keys', 1 .. Len(pressed))
               /\ Len(Unread(keys')) = Len(unread) - 1
               /\ \A i \in 1 .. Len(unread) - 1 : Unread(keys')[i] = unread[1 + i]
<1>. DEFINE unread == Unread(keys)
<1>1. QueueOK(keys, 1 .. Len(pressed)) BY TypeParts DEF KeysOK
<1>2. unread \in Seq(1 .. Len(pressed)) /\ unread # <<>> /\ keys' = Seen(keys, 1)
  BY <1>1, UnreadType DEF SendInput
<1>3. Len(unread) \in Nat \ {0} BY <1>2, EmptySeq
<1>4. Head(unread) = unread[1] /\ Head(unread) \in 1 .. Len(pressed)
  BY <1>2, HeadTailProperties
<1>5. 1 \in 0 .. Len(unread) BY <1>3
<1>6. /\ QueueOK(Seen(keys, 1), 1 .. Len(pressed))
      /\ Len(Unread(Seen(keys, 1))) = Len(unread) - 1
      /\ \A i \in 1 .. Len(unread) - 1 : Unread(Seen(keys, 1))[i] = unread[1 + i]
  BY <1>1, <1>5, SeenIs
<1>. QED BY <1>2, <1>3, <1>4, <1>6

\* What send does with the key at the head.
LEMMA SendIs ==
    ASSUME TypeOK, NEW n \in 1 .. Len(pressed), pressed[n] \in DOMAIN InputMessage, Send(n)
    PROVE  \E f \in Fate(Len(pressed)) :
               /\ f.n = n
               /\ f.fate = IF refused THEN "failed"
                           ELSE IF clientUp THEN "delivered" ELSE "unheard"
               /\ fates' = Append(fates, f)
               /\ refused' = (~ refused /\ ~ clientUp)
<1>. DEFINE f == [n     |-> n,
                  input |-> InputMessage[pressed[n]],
                  fate  |-> IF refused THEN "failed"
                            ELSE IF clientUp THEN "delivered" ELSE "unheard"]
<1>1. f \in Fate(Len(pressed)) BY DEF Fate
<1>2. f.n = n /\ f.fate = IF refused THEN "failed" ELSE IF clientUp THEN "delivered" ELSE "unheard"
  OBVIOUS
<1>3. fates' = Append(fates, f) BY DEF Send
<1>4. refused' = (~ refused /\ ~ clientUp) BY DEF Send
<1>. HIDE DEF f
<1>. QED BY <1>1, <1>2, <1>3, <1>4, Zenon

LEMMA TypeSendInput == TypeOK /\ SendInput => TypeOK'
<1>. SUFFICES ASSUME TypeOK, SendInput PROVE TypeOK' OBVIOUS
<1>. USE TypeParts, TypePartsNext
<1>1. UNCHANGED <<outside, socket, thread, systems, display, pressed, frame>>
  BY DEF SendInput, Runs
<1>2. /\ SocketOK' /\ ThreadOK' /\ MessagesOK' /\ DrawnOK' /\ FrameOK'
      /\ UNCHANGED <<clientUp, sent>>
  BY <1>1 DEF SocketOK, ThreadOK, MessagesOK, DrawnOK, FrameOK, outside, thread, display
<1>3. KeysOK' BY <1>1, HeadKey DEF KeysOK
<1>. DEFINE n == Head(Unread(keys))
<1>4. CASE pressed[n] \in DOMAIN InputMessage /\ Send(n)
  <2>1. PICK f \in Fate(Len(pressed)) :
            fates' = Append(fates, f) /\ refused' = (~ refused /\ ~ clientUp)
    BY <1>4, HeadKey, SendIs
  <2>2. fates' \in Seq(Fate(Len(pressed))) BY <2>1, AppendProperties DEF FatesOK
  <2>3. FatesOK' BY <1>1, <2>2 DEF FatesOK
  <2>4. refused' \in BOOLEAN BY <2>1
  <2>. QED BY <1>2, <1>3, <2>3, <2>4
<1>5. CASE UNCHANGED <<fates, refused>>
  <2>1. FatesOK' BY <1>1, <1>5 DEF FatesOK
  <2>. QED BY <1>2, <1>3, <1>5, <2>1
<1>. QED BY <1>4, <1>5 DEF SendInput

LEMMA TypeBeginFrame == TypeOK /\ BeginFrame => TypeOK'
<1>. SUFFICES ASSUME TypeOK, BeginFrame PROVE TypeOK' OBVIOUS
<1>. USE TypeParts, TypePartsNext
<1>1. UNCHANGED <<outside, socket, refused, thread, commands, screen, pressed, fates>>
  BY DEF BeginFrame
<1>2. /\ SocketOK' /\ ThreadOK' /\ DrawnOK' /\ FatesOK'
      /\ UNCHANGED <<clientUp, sent, refused>>
  BY <1>1 DEF SocketOK, ThreadOK, DrawnOK, FatesOK, outside, thread
<1>3. FrameOK' BY DEF FrameOK, BeginFrame
<1>4. QueueOK(messages', 1 .. sent) BY UpdateIs DEF BeginFrame, MessagesOK
<1>5. QueueOK(keys', 1 .. Len(pressed)) BY UpdateIs DEF BeginFrame, KeysOK
<1>6. MessagesOK' /\ KeysOK' BY <1>1, <1>2, <1>4, <1>5 DEF MessagesOK, KeysOK
<1>. QED BY <1>2, <1>3, <1>6

LEMMA TypeEndFrame == TypeOK /\ EndFrame => TypeOK'
<1>. SUFFICES ASSUME TypeOK, EndFrame PROVE TypeOK' OBVIOUS
<1>. USE TypeParts, TypePartsNext
<1>1. UNCHANGED <<outside, socket, refused, thread, systems, messages, keyboard>>
  BY DEF EndFrame
<1>2. /\ SocketOK' /\ ThreadOK' /\ MessagesOK' /\ KeysOK' /\ FatesOK'
      /\ UNCHANGED <<clientUp, sent, refused>>
  BY <1>1 DEF SocketOK, ThreadOK, MessagesOK, KeysOK, FatesOK, outside, thread, keyboard
<1>3. FrameOK' BY <1>1 DEF FrameOK, EndFrame
<1>4. DrawnOK' BY <1>2 DEF DrawnOK, EndFrame, NoCommands
<1>. QED BY <1>2, <1>3, <1>4

LEMMA TypeNext == TypeOK /\ [Next]_vars => TypeOK'
<1>. SUFFICES ASSUME TypeOK, [Next]_vars PROVE TypeOK' OBVIOUS
<1>1. CASE ClientComesOrGoes
  BY <1>1 DEF ClientComesOrGoes, TypeOK, thread, frames, display, keyboard
<1>2. CASE SendInputEnds
  <2>1. UNCHANGED <<outside, socket, refused, thread, display, keyboard, frame>>
    BY <1>2 DEF SendInputEnds, Runs
  <2>2. systems' \in [Systems -> {"ready", "running", "done"}]
    BY <1>2 DEF SendInputEnds, TypeOK, Systems
  <2>. QED BY <2>1, <2>2 DEF TypeOK, outside, thread, display, keyboard
<1>3. CASE UNCHANGED vars
  BY <1>3 DEF vars, TypeOK, outside, thread, frames, display, keyboard
<1>. QED BY <1>1, <1>2, <1>3, TypeArrives, TypeKeyPressed, TypeThread, TypeReadStream, TypeDraw,
            TypeSendInput, TypeBeginFrame, TypeEndFrame DEF Next, Window

\* The window, the receive thread and the socket keep their types and their bounds:
\* the channel and the socket never hold more than they have room for.
THEOREM TypeCorrect == Spec => []TypeOK
BY TypeInit, TypeNext, PTL DEF Spec

-----------------------------------------------------------------------------
(* The way to the screen.                                                  *)

LEMMA IncreasingAppend ==
    ASSUME NEW S, NEW s \in Seq(S), NEW e \in S, Increasing(s),
           \A i \in 1 .. Len(s) : s[i] < e
    PROVE  Increasing(Append(s, e))
<1>1. /\ Len(Append(s, e)) = Len(s) + 1 /\ Len(s) \in Nat
      /\ \A i \in 1 .. Len(s) : Append(s, e)[i] = s[i]
      /\ Append(s, e)[Len(s) + 1] = e
  BY AppendProperties, LenProperties
<1>. DEFINE a == Append(s, e)
<1>. HIDE DEF a
<1>2. ASSUME NEW i \in 1 .. Len(s) + 1, NEW j \in 1 .. Len(s) + 1, i < j PROVE a[i] < a[j]
  <2>1. i \in 1 .. Len(s) /\ a[i] = s[i] BY <1>1, <1>2 DEF a
  <2>2. CASE j = Len(s) + 1 BY <1>1, <2>1, <2>2 DEF a
  <2>3. CASE j \in 1 .. Len(s)
    <3>1. a[j] = s[j] BY <1>1, <2>3 DEF a
    <3>. QED BY <1>2, <2>1, <2>3, <3>1 DEF Increasing
  <2>. QED BY <1>1, <2>2, <2>3
<1>. QED BY <1>1, <1>2 DEF Increasing, a

\* What is left after the first d elements.
LEMMA IncreasingRest ==
    ASSUME NEW s, NEW t, NEW d \in Nat, Len(t) \in Nat, Len(s) \in Nat,
           Len(t) + d <= Len(s), \A i \in 1 .. Len(t) : t[i] = s[d + i], Increasing(s)
    PROVE  Increasing(t)
<1>1. ASSUME NEW i \in 1 .. Len(t), NEW j \in 1 .. Len(t), i < j PROVE t[i] < t[j]
  <2>1. d + i \in 1 .. Len(s) /\ d + j \in 1 .. Len(s) /\ d + i < d + j BY <1>1
  <2>2. s[d + i] < s[d + j] BY <2>1 DEF Increasing
  <2>. QED BY <2>2
<1>. QED BY <1>1 DEF Increasing

\* Only what was sent is anywhere.
LEMMA AtSent ==
    ASSUME TypeOK, NEW k, NEW n, At(k, n)
    PROVE  n \in 1 .. sent
<1>. USE TypeParts
<1>1. CASE k = 3 /\ \E i \in 1 .. Len(Unread(messages)) : Unread(messages)[i] = n
  BY <1>1, UnreadType, ElementOfSeq DEF MessagesOK
<1>2. CASE k = 4 /\ \E i \in 1 .. Len(channel) : channel[i] = n
  BY <1>2, ElementOfSeq DEF ThreadOK
<1>3. CASE k = 6 /\ \E i \in 1 .. Len(socket) : socket[i].n = n
  <2>1. PICK i \in 1 .. Len(socket) : socket[i].n = n BY <1>3
  <2>2. socket[i] \in Taken(sent) BY ElementOfSeq DEF SocketOK
  <2>. QED BY <2>1, <2>2 DEF Taken
<1>4. CASE k = 5 /\ hand # Nothing /\ hand = n BY <1>4 DEF ThreadOK, Nothing
<1>5. CASE (k = 1 /\ n \in screen) \/ (k = 2 /\ n \in commands.spawn)
  BY <1>5 DEF DrawnOK
<1>. QED BY <1>1, <1>2, <1>3, <1>4, <1>5 DEF At

\* A step after which every message is where it was, or nowhere.
LEMMA OrderedStays ==
    ASSUME Ordered, sent' = sent,
           \A j \in 1 .. 6, n \in 1 .. sent : At(j, n)' => At(j, n)
    PROVE  Ordered'
<1>1. ASSUME NEW k \in 1 .. 6, NEW l \in 1 .. 6, NEW m \in 1 .. sent, NEW n \in 1 .. sent,
             k < l, At(k, m)', At(l, n)'
      PROVE  m < n
  <2>1. At(k, m) /\ At(l, n) BY <1>1
  <2>. QED BY <1>1, <2>1 DEF Ordered
<1>. QED BY <1>1 DEF Ordered

\* A step that takes message x, the oldest of its place, one place further.
LEMMA OrderedMoves ==
    ASSUME TypeOK, Ordered, sent' = sent, NEW k \in 1 .. 5, NEW x, At(k + 1, x),
           \A j \in 1 .. 6, n \in 1 .. sent : At(j, n)' => At(j, n) \/ (j = k /\ n = x),
           \A n \in 1 .. sent : At(k + 1, n)' => x < n
    PROVE  Ordered'
<1>0. x \in 1 .. sent BY AtSent
<1>1. ASSUME NEW i \in 1 .. 6, NEW l \in 1 .. 6, NEW m \in 1 .. sent, NEW n \in 1 .. sent,
             i < l, At(i, m)', At(l, n)'
      PROVE  m < n
  <2>1. CASE i = k /\ m = x
    <3>1. CASE l = k + 1 BY <1>1, <2>1, <3>1
    <3>2. CASE l > k + 1
      <4>1. At(l, n) BY <1>1, <3>2
      <4>2. k + 1 \in 1 .. 6 BY <3>2
      <4>. QED BY <1>0, <2>1, <3>2, <4>1, <4>2 DEF Ordered
    <3>. QED BY <1>1, <2>1, <3>1, <3>2
  <2>2. CASE ~ (i = k /\ m = x)
    <3>1. At(i, m) BY <1>1, <2>2
    <3>2. CASE l = k /\ n = x
      <4>1. k + 1 \in 1 .. 6 /\ i < k + 1 BY <1>1, <3>2
      <4>. QED BY <3>1, <3>2, <4>1, <1>0 DEF Ordered
    <3>3. CASE ~ (l = k /\ n = x)
      <4>1. At(l, n) BY <1>1, <3>3
      <4>. QED BY <1>1, <3>1, <4>1 DEF Ordered
    <3>. QED BY <3>2, <3>3
  <2>. QED BY <2>1, <2>2
<1>. QED BY <1>1 DEF Ordered

LEMMA ScreenInit == Init => ScreenInv
<1>. SUFFICES ASSUME Init PROVE ScreenInv OBVIOUS
<1>1. TypeOK BY TypeInit
<1>2. sent = 0 /\ commands = NoCommands /\ screen = {} BY DEF Init
<1>3. Ordered BY <1>2 DEF Ordered
<1>4. CommandsInv /\ OneOnScreen BY <1>2 DEF CommandsInv, OneOnScreen
<1>5. QueuesOrdered
  <2>1. Unread(messages) \in Seq(1 .. 0) /\ channel \in Seq(1 .. 0)
    BY <1>1, <1>2, UnreadType, TypeParts DEF MessagesOK, ThreadOK
  <2>2. ASSUME NEW s \in Seq(1 .. 0) PROVE Increasing(s)
    <3>1. \A i \in 1 .. Len(s) : s[i] \in 1 .. 0 BY ElementOfSeq
    <3>. QED BY <3>1 DEF Increasing
  <2>3. socket = <<>> /\ Len(<<>>) = 0 BY EmptySeq DEF Init
  <2>. QED BY <2>1, <2>2, <2>3 DEF QueuesOrdered
<1>. QED BY <1>1, <1>3, <1>4, <1>5 DEF ScreenInv

LEMMA ScreenArrives == ScreenInv /\ DatagramArrives => ScreenInv'
<1>. SUFFICES ASSUME ScreenInv, DatagramArrives PROVE ScreenInv' OBVIOUS
<1>1. TypeOK /\ TypeOK' BY TypeArrives DEF ScreenInv
<1>2. UNCHANGED <<screen, commands, messages, channel, hand, frame, systems>>
  BY DEF DatagramArrives, thread, frames, display
<1>3. sent' = sent + 1 /\ sent \in Nat BY <1>1, TypeParts DEF DatagramArrives
<1>4. socket \in Seq(Taken(sent)) /\ Len(socket) \in Nat
  <2>1. socket \in Seq(Taken(sent)) BY <1>1, TypeParts DEF SocketOK
  <2>. QED BY <2>1, LenProperties
<1>5. \/ socket' = socket
      \/ /\ Len(socket') = Len(socket) + 1
         /\ \A i \in 1 .. Len(socket) : socket'[i] = socket[i]
         /\ socket'[Len(socket) + 1].n = sent + 1
  <2>1. PICK d \in Datagrams :
            socket' = socket \/ socket' = Append(socket, [n |-> sent + 1, format |-> d.format])
    BY DEF DatagramArrives
  <2>. DEFINE e == [n |-> sent + 1, format |-> d.format]
  <2>2. socket \in Seq(Taken(sent) \cup {e}) /\ e \in Taken(sent) \cup {e}
    <3>. HIDE DEF e
    <3>. QED BY <1>4, SeqMonotonic
  <2>3. e.n = sent + 1 OBVIOUS
  <2>4. socket' = socket \/ socket' = Append(socket, e) BY <2>1
  <2>. HIDE DEF e
  <2>. QED BY <2>2, <2>3, <2>4, AppendProperties
<1>6. \A i \in 1 .. Len(socket) : socket[i].n \in 1 .. sent
  <2>1. ASSUME NEW i \in 1 .. Len(socket) PROVE socket[i].n \in 1 .. sent
    <3>1. socket[i] \in Taken(sent) BY <1>4, ElementOfSeq
    <3>. QED BY <3>1 DEF Taken
  <2>. QED BY <2>1
<1>7. \A j \in 1 .. 6, n \in 1 .. sent + 1 :
          At(j, n)' => At(j, n) \/ (j = 6 /\ n = sent + 1)
  BY <1>2, <1>4, <1>5 DEF At
<1>8. Ordered'
  <2>1. ASSUME NEW k \in 1 .. 6, NEW l \in 1 .. 6,
               NEW m \in 1 .. sent + 1, NEW n \in 1 .. sent + 1, k < l, At(k, m)', At(l, n)'
        PROVE  m < n
    <3>1. At(k, m) /\ m \in 1 .. sent
      <4>1. At(k, m) BY <1>7, <2>1
      <4>. QED BY <1>1, <4>1, AtSent
    <3>2. CASE n = sent + 1 BY <1>3, <3>1, <3>2
    <3>3. CASE n # sent + 1
      <4>1. At(l, n) /\ n \in 1 .. sent BY <1>3, <1>7, <2>1, <3>3
      <4>. QED BY <2>1, <3>1, <4>1 DEF Ordered, ScreenInv
    <3>. QED BY <3>2, <3>3
  <2>. QED BY <1>3, <2>1 DEF Ordered
<1>9. QueuesOrdered'
  <2>1. Increasing(Unread(messages))' /\ Increasing(channel)'
    BY <1>2 DEF ScreenInv, QueuesOrdered
  <2>2. ASSUME NEW i \in 1 .. Len(socket'), NEW j \in 1 .. Len(socket'), i < j
        PROVE  socket'[i].n < socket'[j].n
    <3>1. CASE socket' = socket
      BY <2>2, <3>1 DEF ScreenInv, QueuesOrdered
    <3>2. CASE /\ Len(socket') = Len(socket) + 1
               /\ \A x \in 1 .. Len(socket) : socket'[x] = socket[x]
               /\ socket'[Len(socket) + 1].n = sent + 1
      <4>1. i \in 1 .. Len(socket) /\ (j \in 1 .. Len(socket) \/ j = Len(socket) + 1)
        BY <1>4, <2>2, <3>2
      <4>2. CASE j \in 1 .. Len(socket)
        BY <2>2, <3>2, <4>1, <4>2 DEF ScreenInv, QueuesOrdered
      <4>3. CASE j = Len(socket) + 1
        <5>1. socket[i].n \in 1 .. sent BY <1>6, <4>1
        <5>2. socket'[i].n \in 1 .. sent /\ socket'[j].n = sent + 1 BY <3>2, <4>1, <4>3, <5>1
        <5>. QED BY <1>3, <5>2
      <4>. QED BY <4>1, <4>2, <4>3
    <3>. QED BY <1>5, <3>1, <3>2
  <2>. QED BY <2>1, <2>2 DEF QueuesOrdered
<1>10. CommandsInv' /\ OneOnScreen'
  <2>1. 1 .. sent \subseteq 1 .. sent' BY <1>3
  <2>. QED BY <1>2, <2>1 DEF ScreenInv, CommandsInv, OneOnScreen
<1>. QED BY <1>1, <1>8, <1>9, <1>10 DEF ScreenInv

\* Steps of the others: nothing on the way to the screen moves.
LEMMA ScreenUnchanged ==
    ASSUME ScreenInv, TypeOK', UNCHANGED <<sent, socket, thread, display, frame>>,
           systems'["draw"] = systems["draw"]
    PROVE  ScreenInv'
<1>1. UNCHANGED <<sent, socket, hand, channel, messages, commands, screen, frame>>
  BY DEF thread, display
<1>2. Ordered' /\ QueuesOrdered' /\ OneOnScreen'
  BY <1>1 DEF ScreenInv, Ordered, At, QueuesOrdered, OneOnScreen
<1>3. CommandsInv' BY <1>1 DEF ScreenInv, CommandsInv
<1>. QED BY <1>2, <1>3 DEF ScreenInv

LEMMA ScreenReceive == ScreenInv /\ Receive => ScreenInv'
<1>. SUFFICES ASSUME ScreenInv, Receive PROVE ScreenInv' OBVIOUS
<1>1. TypeOK /\ TypeOK' BY TypeThread DEF ScreenInv, ReceiveThread
<1>2. UNCHANGED <<sent, screen, commands, messages, channel, frame, systems>>
  BY DEF Receive, outside, frames, display
<1>. DEFINE h == Head(socket).n
<1>3. /\ Len(socket) \in Nat \ {0} /\ Len(socket') = Len(socket) - 1 /\ h = socket[1].n
      /\ \A i \in 1 .. Len(socket') : socket'[i] = socket[i + 1]
  <2>1. socket \in Seq(Taken(sent)) /\ socket # <<>> /\ socket' = Tail(socket)
    BY <1>1, TypeParts DEF Receive, SocketOK
  <2>. QED BY <2>1, HeadTailProperties, EmptySeq, LenProperties
<1>4. ASSUME NEW i \in 1 .. Len(socket') PROVE h < socket'[i].n
  <2>1. 1 \in 1 .. Len(socket) /\ i + 1 \in 1 .. Len(socket) /\ 1 < i + 1 BY <1>3
  <2>2. socket[1].n < socket[i + 1].n BY <2>1 DEF ScreenInv, QueuesOrdered
  <2>. QED BY <1>3, <2>2
<1>5. \A n : At(6, n)' => At(6, n)
  <2>1. ASSUME NEW n, NEW i \in 1 .. Len(socket'), socket'[i].n = n PROVE At(6, n)
    <3>1. i + 1 \in 1 .. Len(socket) /\ socket[i + 1].n = n BY <1>3, <2>1
    <3>. QED BY <3>1 DEF At
  <2>. QED BY <2>1 DEF At
<1>6. hand = Nothing /\ (hand' = Nothing \/ hand' = h) BY DEF Receive
<1>7. \A j \in 1 .. 4 : \A n : At(j, n)' => At(j, n) BY <1>2 DEF At
<1>8. ASSUME hand' = Nothing PROVE Ordered'
  <2>1. \A n : At(5, n)' => At(5, n) BY <1>8 DEF At
  <2>2. \A j \in 1 .. 6, n \in 1 .. sent : At(j, n)' => At(j, n) BY <1>5, <1>7, <2>1
  <2>. QED BY <1>2, <2>2, OrderedStays DEF ScreenInv
<1>9. ASSUME hand' = h PROVE Ordered'
  <2>1. At(5 + 1, h) BY <1>3 DEF At
  <2>2. \A n \in 1 .. sent : At(5 + 1, n)' => h < n BY <1>4 DEF At
  <2>3. \A n : At(5, n)' => n = h BY <1>9 DEF At
  <2>4. \A j \in 1 .. 6, n \in 1 .. sent : At(j, n)' => At(j, n) \/ (j = 5 /\ n = h)
    BY <1>5, <1>7, <2>3
  <2>. HIDE DEF h
  <2>. QED BY <1>1, <1>2, <2>1, <2>2, <2>4, OrderedMoves DEF ScreenInv
<1>10. Ordered' BY <1>6, <1>8, <1>9
<1>11. QueuesOrdered'
  <2>1. ASSUME NEW i \in 1 .. Len(socket'), NEW j \in 1 .. Len(socket'), i < j
        PROVE  socket'[i].n < socket'[j].n
    <3>1. i + 1 \in 1 .. Len(socket) /\ j + 1 \in 1 .. Len(socket) /\ i + 1 < j + 1
      BY <1>3, <2>1
    <3>2. socket[i + 1].n < socket[j + 1].n BY <3>1 DEF ScreenInv, QueuesOrdered
    <3>. QED BY <1>3, <3>2
  <2>. QED BY <1>2, <2>1 DEF ScreenInv, QueuesOrdered
<1>12. CommandsInv' /\ OneOnScreen' BY <1>2 DEF ScreenInv, CommandsInv, OneOnScreen
<1>. QED BY <1>1, <1>10, <1>11, <1>12 DEF ScreenInv

LEMMA ScreenPutIntoChannel == ScreenInv /\ PutIntoChannel => ScreenInv'
<1>. SUFFICES ASSUME ScreenInv, PutIntoChannel PROVE ScreenInv' OBVIOUS
<1>1. TypeOK /\ TypeOK' BY TypeThread DEF ScreenInv, ReceiveThread
<1>2. UNCHANGED <<sent, screen, commands, messages, socket, frame, systems>>
  BY DEF PutIntoChannel, outside, frames, display
<1>3. /\ hand # Nothing /\ hand' = Nothing /\ channel' = Append(channel, hand)
      /\ hand \in 1 .. sent /\ channel \in Seq(1 .. sent)
  BY <1>1, TypeParts DEF PutIntoChannel, ThreadOK, Nothing
<1>4. /\ Len(channel') = Len(channel) + 1 /\ Len(channel) \in Nat
      /\ \A i \in 1 .. Len(channel) : channel'[i] = channel[i]
      /\ channel'[Len(channel) + 1] = hand
  BY <1>3, AppendProperties, LenProperties
<1>5. Ordered'
  <2>1. At(4 + 1, hand) BY <1>3 DEF At
  <2>2. \A n : ~ At(4 + 1, n)' BY <1>3 DEF At
  <2>3. \A n : At(4, n)' => At(4, n) \/ n = hand BY <1>4 DEF At
  <2>4. \A j \in {1, 2, 3, 6} : \A n : At(j, n)' => At(j, n) BY <1>2 DEF At
  <2>5. \A j \in 1 .. 6, n \in 1 .. sent : At(j, n)' => At(j, n) \/ (j = 4 /\ n = hand)
    BY <2>2, <2>3, <2>4
  <2>. QED BY <1>1, <1>2, <2>1, <2>2, <2>5, OrderedMoves DEF ScreenInv
<1>6. QueuesOrdered'
  <2>1. ASSUME NEW i \in 1 .. Len(channel) PROVE channel[i] < hand
    <3>1. channel[i] \in 1 .. sent BY <1>3, ElementOfSeq
    <3>2. At(4, channel[i]) /\ At(5, hand) BY <1>3 DEF At
    <3>. QED BY <1>3, <3>1, <3>2 DEF ScreenInv, Ordered
  <2>2. Increasing(channel') BY <1>3, <2>1, IncreasingAppend DEF ScreenInv, QueuesOrdered
  <2>. QED BY <1>2, <2>2 DEF ScreenInv, QueuesOrdered
<1>7. CommandsInv' /\ OneOnScreen' BY <1>2 DEF ScreenInv, CommandsInv, OneOnScreen
<1>. QED BY <1>1, <1>5, <1>6, <1>7 DEF ScreenInv

LEMMA ScreenReadStream == ScreenInv /\ ReadStream => ScreenInv'
<1>. SUFFICES ASSUME ScreenInv, ReadStream PROVE ScreenInv' OBVIOUS
<1>1. TypeOK /\ TypeOK' BY TypeReadStream DEF ScreenInv
<1>2. UNCHANGED <<sent, screen, commands, hand, socket, frame>>
  BY DEF ReadStream, Runs, outside
<1>3. systems'["draw"] = systems["draw"]
  BY <1>1, TypeParts DEF ReadStream, FrameOK, Systems
<1>4. CommandsInv' /\ OneOnScreen' BY <1>2, <1>3 DEF ScreenInv, CommandsInv, OneOnScreen
<1>5. CASE UNCHANGED <<messages, channel>>
  <2>1. Ordered' /\ QueuesOrdered' BY <1>2, <1>5 DEF ScreenInv, Ordered, At, QueuesOrdered
  <2>. QED BY <1>1, <1>4, <2>1 DEF ScreenInv
<1>6. CASE channel # <<>> /\ messages' = Write(messages, Head(channel)) /\ channel' = Tail(channel)
  <2>. DEFINE h == Head(channel)
              u == Unread(messages)
  <2>1. /\ channel \in Seq(1 .. sent) /\ Len(channel) \in Nat \ {0}
        /\ h = channel[1] /\ h \in 1 .. sent
        /\ Len(channel') = Len(channel) - 1
        /\ \A i \in 1 .. Len(channel') : channel'[i] = channel[i + 1]
    <3>1. channel \in Seq(1 .. sent) BY <1>1, TypeParts DEF ThreadOK
    <3>2. Len(channel) \in Nat \ {0} BY <1>6, <3>1, EmptySeq
    <3>3. h \in 1 .. sent BY <1>6, <3>1, HeadTailProperties
    <3>4. h = channel[1] BY <1>6, <3>1
    <3>5. /\ Len(Tail(channel)) = Len(channel) - 1
          /\ \A i \in 1 .. Len(Tail(channel)) : Tail(channel)[i] = channel[i + 1]
      BY <1>6, <3>1, HeadTailProperties
    <3>. QED BY <1>6, <3>1, <3>2, <3>3, <3>4, <3>5
  <2>2. QueueOK(messages, 1 .. sent) BY <1>1, TypeParts DEF MessagesOK
  <2>3. Unread(messages') = Append(u, h) BY <1>6, <2>1, <2>2, WriteIs
  <2>4. u \in Seq(1 .. sent) /\ Len(u) \in Nat BY <2>2, UnreadType
  <2>. HIDE DEF h
  <2>5. /\ Len(Append(u, h)) = Len(u) + 1
        /\ \A i \in 1 .. Len(u) : Append(u, h)[i] = u[i]
        /\ Append(u, h)[Len(u) + 1] = h
    <3>. HIDE DEF u
    <3>. QED BY <2>1, <2>4, AppendProperties
  <2>6. Ordered'
    <3>1. At(3 + 1, h) BY <2>1 DEF At
    <3>2. ASSUME NEW n, At(3 + 1, n)' PROVE h < n
      <4>1. PICK i \in 1 .. Len(channel') : channel'[i] = n BY <3>2 DEF At
      <4>2. 1 \in 1 .. Len(channel) /\ i + 1 \in 1 .. Len(channel) /\ 1 < i + 1 BY <2>1
      <4>3. channel[1] < channel[i + 1] BY <4>2 DEF ScreenInv, QueuesOrdered, Increasing
      <4>. QED BY <2>1, <4>1, <4>3
    <3>3. ASSUME NEW n, At(4, n)' PROVE At(4, n)
      <4>1. PICK i \in 1 .. Len(channel') : channel'[i] = n BY <3>3 DEF At
      <4>2. i + 1 \in 1 .. Len(channel) /\ channel[i + 1] = n BY <2>1, <4>1
      <4>. QED BY <4>2 DEF At
    <3>4. ASSUME NEW n, At(3, n)' PROVE At(3, n) \/ n = h
      <4>1. PICK i \in 1 .. Len(Append(u, h)) : Append(u, h)[i] = n BY <2>3, <3>4 DEF At
      <4>2. (i \in 1 .. Len(u) /\ u[i] = n) \/ n = h
        <5>. HIDE DEF u
        <5>. QED BY <2>4, <2>5, <4>1
      <4>. QED BY <4>2 DEF At
    <3>5. \A j \in {1, 2, 5, 6} : \A n : At(j, n)' => At(j, n) BY <1>2 DEF At
    <3>6. \A j \in 1 .. 6, n \in 1 .. sent : At(j, n)' => At(j, n) \/ (j = 3 /\ n = h)
      BY <3>3, <3>4, <3>5
    <3>. QED BY <1>1, <1>2, <3>1, <3>2, <3>6, OrderedMoves DEF ScreenInv
  <2>7. QueuesOrdered'
    <3>1. ASSUME NEW i \in 1 .. Len(u) PROVE u[i] < h
      <4>1. u[i] \in 1 .. sent BY <2>4, ElementOfSeq
      <4>2. At(3, u[i]) /\ At(4, h) BY <2>1 DEF At
      <4>. QED BY <2>1, <4>1, <4>2 DEF ScreenInv, Ordered
    <3>2. Increasing(Append(u, h))
      BY <2>1, <2>4, <3>1, IncreasingAppend DEF ScreenInv, QueuesOrdered
    <3>3. Increasing(channel')
      <4>1. Len(channel') \in Nat /\ Len(channel') + 1 <= Len(channel) BY <2>1
      <4>2. \A i \in 1 .. Len(channel') : channel'[i] = channel[1 + i] BY <2>1
      <4>. QED BY <2>1, <4>1, <4>2, IncreasingRest DEF ScreenInv, QueuesOrdered
    <3>. QED BY <1>2, <2>3, <3>2, <3>3 DEF ScreenInv, QueuesOrdered
  <2>. QED BY <1>1, <1>4, <2>6, <2>7 DEF ScreenInv
<1>. QED BY <1>5, <1>6 DEF ReadStream

LEMMA ScreenBeginFrame == ScreenInv /\ BeginFrame => ScreenInv'
<1>. SUFFICES ASSUME ScreenInv, BeginFrame PROVE ScreenInv' OBVIOUS
<1>1. TypeOK /\ TypeOK' BY TypeBeginFrame DEF ScreenInv
<1>2. UNCHANGED <<sent, screen, commands, hand, channel, socket>>
  BY DEF BeginFrame, outside, thread
<1>3. frame = "waiting" /\ messages' = Update(messages) BY DEF BeginFrame
<1>4. CommandsInv' /\ OneOnScreen'
  BY <1>2, <1>3 DEF ScreenInv, CommandsInv, OneOnScreen
<1>. DEFINE u == Unread(messages)
<1>5. QueueOK(messages, 1 .. sent) /\ u \in Seq(1 .. sent) /\ Len(u) \in Nat
  <2>1. QueueOK(messages, 1 .. sent) BY <1>1, TypeParts DEF MessagesOK
  <2>. QED BY <2>1, UnreadType
<1>6. PICK d \in Nat : /\ Len(Unread(Update(messages))) + d = Len(u)
                       /\ \A i \in 1 .. Len(Unread(Update(messages))) :
                              Unread(Update(messages))[i] = u[d + i]
  BY <1>5, UpdateIs
<1>. DEFINE v == Unread(messages')
<1>7. v \in Seq(1 .. sent) /\ Len(v) \in Nat
  BY <1>3, <1>5, UpdateIs, UnreadType
<1>8. Len(v) + d = Len(u) /\ \A i \in 1 .. Len(v) : v[i] = u[d + i] BY <1>3, <1>6
<1>9. ASSUME NEW n, At(3, n)' PROVE At(3, n)
  <2>1. PICK i \in 1 .. Len(v) : v[i] = n BY <1>9 DEF At
  <2>. HIDE DEF u, v
  <2>2. d + i \in 1 .. Len(u) /\ u[d + i] = n BY <1>5, <1>7, <1>8, <2>1
  <2>. QED BY <2>2 DEF At, u
<1>10. \A j \in {1, 2, 4, 5, 6} : \A n : At(j, n)' => At(j, n) BY <1>2 DEF At
<1>11. Ordered'
  <2>1. \A j \in 1 .. 6, n \in 1 .. sent : At(j, n)' => At(j, n) BY <1>9, <1>10
  <2>. QED BY <1>2, <2>1, OrderedStays DEF ScreenInv
<1>12. Increasing(v)
  <2>1. Increasing(u) BY DEF ScreenInv, QueuesOrdered
  <2>. HIDE DEF u, v
  <2>. QED BY <1>5, <1>7, <1>8, <2>1, IncreasingRest
<1>13. QueuesOrdered' BY <1>2, <1>12 DEF ScreenInv, QueuesOrdered
<1>. QED BY <1>1, <1>4, <1>11, <1>13 DEF ScreenInv

LEMMA ScreenDraw == ScreenInv /\ Draw => ScreenInv'
<1>. SUFFICES ASSUME ScreenInv, Draw PROVE ScreenInv' OBVIOUS
<1>1. TypeOK /\ TypeOK' BY TypeDraw DEF ScreenInv
<1>2. /\ UNCHANGED <<sent, screen, hand, channel, socket, frame>>
      /\ frame = "running" /\ systems["draw"] # "done"
  BY DEF Draw, Runs, outside, thread
<1>3. systems'["draw"] = "done" BY <1>1, TypeParts DEF Draw, FrameOK, Systems
<1>4. commands = NoCommands BY <1>2 DEF ScreenInv, CommandsInv
<1>. DEFINE u == Unread(messages)
            x == u[Len(u)]
<1>5. /\ u \in Seq(1 .. sent) /\ Len(u) \in Nat
      /\ Len(Unread(messages')) = 0
      /\ \/ Len(u) = 0 /\ commands' = NoCommands
         \/ /\ Len(u) > 0 /\ x \in 1 .. sent
            /\ commands' = [despawn |-> screen, spawn |-> {x}]
  BY <1>1, DrawTakes
<1>. HIDE DEF u
<1>6. \A n : ~ At(3, n)'
  <2>1. 1 .. Len(Unread(messages')) = {} BY <1>5
  <2>. QED BY <2>1 DEF At
<1>7. \A j \in {1, 4, 5, 6} : \A n : At(j, n)' => At(j, n) BY <1>2 DEF At
<1>8. QueuesOrdered'
  <2>1. Increasing(Unread(messages'))
    <3>1. 1 .. Len(Unread(messages')) = {} BY <1>5
    <3>. QED BY <3>1 DEF Increasing
  <2>. QED BY <1>2, <2>1 DEF ScreenInv, QueuesOrdered
<1>9. OneOnScreen' BY <1>2 DEF ScreenInv, OneOnScreen
<1>10. CASE Len(u) = 0 /\ commands' = NoCommands
  <2>1. \A n : ~ At(2, n)' BY <1>10 DEF At, NoCommands
  <2>2. \A j \in 1 .. 6, n \in 1 .. sent : At(j, n)' => At(j, n) BY <1>6, <1>7, <2>1
  <2>3. Ordered' BY <1>2, <2>2, OrderedStays DEF ScreenInv
  <2>. QED BY <1>1, <1>8, <1>9, <1>10, <2>3 DEF ScreenInv, CommandsInv
<1>11. CASE /\ Len(u) > 0 /\ x \in 1 .. sent
            /\ commands' = [despawn |-> screen, spawn |-> {x}]
  <2>. HIDE DEF x
  <2>1. At(2 + 1, x)
    <3>1. Len(u) \in 1 .. Len(u) BY <1>5, <1>11
    <3>. QED BY <3>1 DEF At, u, x
  <2>2. \A n : At(2, n)' => n = x BY <1>11 DEF At
  <2>3. \A n \in 1 .. sent : At(2 + 1, n)' => x < n BY <1>6
  <2>4. \A j \in 1 .. 6, n \in 1 .. sent : At(j, n)' => At(j, n) \/ (j = 2 /\ n = x)
    BY <1>6, <1>7, <2>2
  <2>5. Ordered' BY <1>1, <1>2, <2>1, <2>3, <2>4, OrderedMoves DEF ScreenInv
  <2>6. CommandsInv'
    <3>1. commands'.despawn = screen' /\ commands'.spawn = {x} /\ x \in 1 .. sent'
      BY <1>2, <1>11
    <3>. QED BY <1>2, <1>3, <3>1 DEF CommandsInv
  <2>. QED BY <1>1, <1>8, <1>9, <2>5, <2>6 DEF ScreenInv
<1>. QED BY <1>5, <1>10, <1>11

\* At the end of a frame nothing changes, or a newer message takes the place of
\* what was on the screen.
LEMMA ScreenChange ==
    ASSUME ScreenInv, EndFrame
    PROVE  \/ UNCHANGED screen
           \/ \E n \in 1 .. sent : /\ screen' = {n} /\ commands.spawn = {n}
                                   /\ \A m \in screen : m < n
<1>1. screen' = (screen \ commands.despawn) \cup commands.spawn BY DEF EndFrame
<1>2. CASE commands = NoCommands BY <1>1, <1>2 DEF NoCommands
<1>3. CASE /\ commands.despawn = screen
           /\ \E n \in 1 .. sent : commands.spawn = {n}
  <2>1. PICK n \in 1 .. sent : commands.spawn = {n} BY <1>3
  <2>2. screen' = {n} BY <1>1, <1>3, <2>1
  <2>3. ASSUME NEW m \in screen PROVE m < n
    <3>1. At(1, m) /\ At(2, n) BY <2>1 DEF At
    <3>2. m \in 1 .. sent BY <3>1, AtSent DEF ScreenInv
    <3>. QED BY <3>1, <3>2 DEF ScreenInv, Ordered
  <2>. QED BY <2>1, <2>2, <2>3
<1>. QED BY <1>2, <1>3 DEF ScreenInv, CommandsInv

LEMMA ScreenEndFrame == ScreenInv /\ EndFrame => ScreenInv'
<1>. SUFFICES ASSUME ScreenInv, EndFrame PROVE ScreenInv' OBVIOUS
<1>1. TypeOK /\ TypeOK' BY TypeEndFrame DEF ScreenInv
<1>2. /\ UNCHANGED <<sent, messages, hand, channel, socket>>
      /\ commands' = NoCommands
  BY DEF EndFrame, outside, thread
<1>3. QueuesOrdered' /\ CommandsInv' BY <1>2 DEF ScreenInv, QueuesOrdered, CommandsInv
<1>4. \A j \in {3, 4, 5, 6} : \A n : At(j, n)' => At(j, n) BY <1>2 DEF At
<1>5. \A n : ~ At(2, n)' BY <1>2 DEF At, NoCommands
<1>6. CASE UNCHANGED screen
  <2>1. \A n : At(1, n)' => At(1, n) BY <1>6 DEF At
  <2>2. \A j \in 1 .. 6, n \in 1 .. sent : At(j, n)' => At(j, n) BY <1>4, <1>5, <2>1
  <2>3. Ordered' BY <1>2, <2>2, OrderedStays DEF ScreenInv
  <2>. QED BY <1>1, <1>3, <1>6, <2>3 DEF ScreenInv, OneOnScreen
<1>7. ASSUME NEW n \in 1 .. sent, screen' = {n}, commands.spawn = {n} PROVE ScreenInv'
  <2>1. At(1 + 1, n) BY <1>7 DEF At
  <2>2. \A m : At(1, m)' => m = n BY <1>7 DEF At
  <2>3. \A j \in 1 .. 6, m \in 1 .. sent : At(j, m)' => At(j, m) \/ (j = 1 /\ m = n)
    BY <1>4, <1>5, <2>2
  <2>4. \A m \in 1 .. sent : At(1 + 1, m)' => n < m BY <1>5
  <2>5. Ordered' BY <1>1, <1>2, <2>1, <2>3, <2>4, OrderedMoves DEF ScreenInv
  <2>. QED BY <1>1, <1>3, <1>7, <2>5 DEF ScreenInv, OneOnScreen
<1>. QED BY <1>6, <1>7, ScreenChange

LEMMA ScreenNext == ScreenInv /\ [Next]_vars => ScreenInv'
<1>. SUFFICES ASSUME ScreenInv, [Next]_vars PROVE ScreenInv' OBVIOUS
<1>1. TypeOK /\ TypeOK' BY TypeNext DEF ScreenInv
<1>2. CASE ClientComesOrGoes
  BY <1>1, <1>2, ScreenUnchanged DEF ClientComesOrGoes, frames
<1>3. CASE KeyPressed
  BY <1>1, <1>3, ScreenUnchanged DEF KeyPressed, frames, outside
<1>4. CASE ReceiveFails
  BY <1>1, <1>4, ScreenUnchanged DEF ReceiveFails, frames, outside
<1>5. CASE SendInput
  BY <1>1, <1>5, ScreenUnchanged DEF SendInput, Runs, outside
<1>6. CASE SendInputEnds
  <2>1. systems'["draw"] = systems["draw"]
    BY <1>1, <1>6, TypeParts DEF SendInputEnds, FrameOK, Systems
  <2>. QED BY <1>1, <1>6, <2>1, ScreenUnchanged DEF SendInputEnds, Runs, outside
<1>7. CASE UNCHANGED vars
  BY <1>1, <1>7, ScreenUnchanged DEF vars, frames, outside
<1>. QED BY <1>2, <1>3, <1>4, <1>5, <1>6, <1>7, ScreenArrives, ScreenReceive,
            ScreenPutIntoChannel, ScreenReadStream, ScreenBeginFrame, ScreenDraw, ScreenEndFrame
         DEF Next, Window, ReceiveThread

LEMMA ScreenAlways == Spec => []ScreenInv
BY ScreenInit, ScreenNext, PTL DEF Spec

-----------------------------------------------------------------------------
(* The interface implements what Spectator promises.                       *)

LEMMA StepIsPromised == ScreenInv /\ [Next]_vars => [Promised!Next]_<<sent, screen>>
<1>. SUFFICES ASSUME ScreenInv, [Next]_vars, ~ UNCHANGED <<sent, screen>> PROVE Promised!Next
  OBVIOUS
<1>1. CASE DatagramArrives
  BY <1>1 DEF DatagramArrives, display, Promised!Next, Promised!Send
<1>2. CASE EndFrame
  <2>1. UNCHANGED sent BY <1>2 DEF EndFrame, outside
  <2>2. PICK n \in 1 .. sent : screen' = {n} /\ \A m \in screen : m < n
    BY <1>2, <2>1, ScreenChange
  <2>. QED BY <2>1, <2>2 DEF Promised!Next, Promised!Show
<1>3. CASE ~ DatagramArrives /\ ~ EndFrame
  <2>1. UNCHANGED <<sent, screen>>
    BY <1>3 DEF Next, Window, ReceiveThread, ClientComesOrGoes, KeyPressed, Receive, ReceiveFails,
                PutIntoChannel, BeginFrame, ReadStream, Draw, SendInput, SendInputEnds,
                vars, outside, display
  <2>. QED BY <2>1
<1>. QED BY <1>1, <1>2, <1>3

\* What the screen shows is a message that was sent, one at a time, and never an
\* older one than before, however the threads and the systems take turns.
THEOREM ShowsNewerCorrect == Spec => ShowsNewer
<1>1. Init => Promised!Init BY DEF Init, Promised!Init
<1>2. Spec => Promised!Spec
  BY <1>1, ScreenAlways, StepIsPromised, PTL DEF Spec, Promised!Spec
<1>. QED BY <1>2 DEF ShowsNewer

-----------------------------------------------------------------------------
(* The keys.                                                               *)

\* A step that reads no key, sends none and drops none.
LEMMA KeysUnchanged ==
    ASSUME KeyInv, TypeOK', UNCHANGED <<Unread(keys), pressed, fates>>,
           KeysRead', KeysReadInFrame'
    PROVE  KeyInv'
BY DEF KeyInv, KeysUnread, Handled, FatesInv

LEMMA KeyInit == Init => KeyInv
<1>. SUFFICES ASSUME Init PROVE KeyInv OBVIOUS
<1>1. TypeOK BY TypeInit
<1>2. pressed = <<>> /\ fates = <<>> /\ Len(<<>>) = 0 BY EmptySeq DEF Init
<1>3. Unread(keys) \in Seq(1 .. 0) BY <1>1, <1>2, UnreadType, TypeParts DEF KeysOK
<1>4. Unread(keys) = <<>>
  <2>1. Len(Unread(keys)) \in Nat BY <1>3, LenProperties
  <2>2. ASSUME Len(Unread(keys)) > 0 PROVE FALSE
    <3>1. 1 \in 1 .. Len(Unread(keys)) BY <2>1, <2>2
    <3>2. Unread(keys)[1] \in 1 .. 0 BY <1>3, <3>1, ElementOfSeq
    <3>. QED BY <3>2
  <2>3. Len(Unread(keys)) = 0 BY <2>1, <2>2
  <2>. QED BY <1>3, <2>3, EmptySeq
<1>5. Handled = 0 /\ KeysUnread BY <1>2, <1>4 DEF KeysUnread, Handled
<1>6. FatesInv BY <1>2, <1>5 DEF FatesInv
<1>7. KeysRead BY <1>2 DEF Init, KeysRead, EmptyQueue
<1>8. KeysReadInFrame BY DEF Init, KeysReadInFrame
<1>. QED BY <1>1, <1>5, <1>6, <1>7, <1>8 DEF KeyInv

LEMMA KeyKeyPressed == KeyInv /\ KeyPressed => KeyInv'
<1>. SUFFICES ASSUME KeyInv, KeyPressed PROVE KeyInv' OBVIOUS
<1>1. TypeOK /\ TypeOK' BY TypeKeyPressed DEF KeyInv
<1>2. frame = "waiting" /\ UNCHANGED <<frame, fates>> /\ keys' = Write(keys, Len(pressed) + 1)
  BY DEF KeyPressed, frames
<1>3. /\ pressed \in Seq(Keys) /\ Len(pressed) \in Nat /\ Len(pressed') = Len(pressed) + 1
      /\ \A k \in 1 .. Len(pressed) : pressed'[k] = pressed[k]
  <2>1. pressed \in Seq(Keys) BY <1>1, TypeParts DEF KeysOK
  <2>. QED BY <2>1, AppendProperties, LenProperties DEF KeyPressed
<1>. DEFINE u == Unread(keys)
            S == 1 .. Len(pressed) + 1
<1>4. QueueOK(keys, S)
  <2>1. QueueOK(keys, 1 .. Len(pressed)) BY <1>1, TypeParts DEF KeysOK
  <2>2. 1 .. Len(pressed) \subseteq S BY <1>3
  <2>3. keys.old \in Seq(S) /\ keys.new \in Seq(S) BY <2>1, <2>2, SeqMonotonic DEF QueueOK
  <2>. QED BY <2>1, <2>3 DEF QueueOK
<1>5. Len(pressed) + 1 \in S BY <1>3
<1>6. /\ Unread(keys') = Append(u, Len(pressed) + 1)
      /\ keys'.old = keys.old /\ keys'.seen = keys.seen
  BY <1>2, <1>4, <1>5, WriteIs
<1>7. /\ Len(Unread(keys')) = Len(u) + 1 /\ Len(u) \in Nat
      /\ \A i \in 1 .. Len(u) : Unread(keys')[i] = u[i]
      /\ Unread(keys')[Len(u) + 1] = Len(pressed) + 1
  <2>1. u \in Seq(S) BY <1>4, UnreadType
  <2>. HIDE DEF u, S
  <2>. QED BY <1>5, <1>6, <2>1, AppendProperties, LenProperties
<1>8. Handled' = Handled /\ Handled = Len(pressed) - Len(u) BY <1>3, <1>7 DEF Handled
<1>9. KeysUnread'
  <2>1. ASSUME NEW i \in 1 .. Len(u) + 1 PROVE Unread(keys')[i] = Handled + i
    <3>1. CASE i \in 1 .. Len(u) BY <1>7, <3>1 DEF KeyInv, KeysUnread
    <3>2. CASE i = Len(u) + 1 BY <1>3, <1>7, <1>8, <3>2
    <3>. QED BY <1>7, <3>1, <3>2
  <2>. QED BY <1>7, <1>8, <2>1 DEF KeyInv, KeysUnread
<1>10. FatesInv'
  <2>1. Handled \in Nat /\ Handled <= Len(pressed)
    BY <1>3, <1>7, <1>8 DEF KeyInv, KeysUnread
  <2>2. \A k \in 1 .. Handled : pressed'[k] = pressed[k] BY <1>3, <2>1
  <2>3. \A i \in 1 .. Len(fates) : fates[i].n \in 1 .. Handled
    <3>1. ASSUME NEW i \in 1 .. Len(fates) PROVE fates[i].n \in 1 .. Handled
      <4>1. fates[i] \in Fate(Len(pressed)) BY <1>1, TypeParts, ElementOfSeq DEF FatesOK
      <4>2. fates[i].n \in 1 .. Len(pressed) BY <4>1 DEF Fate
      <4>. QED BY <2>1, <4>2 DEF KeyInv, FatesInv
    <3>. QED BY <3>1
  <2>. QED BY <1>2, <1>8, <2>2, <2>3 DEF KeyInv, FatesInv
<1>11. KeysRead' /\ KeysReadInFrame'
  BY <1>2, <1>6 DEF KeyInv, KeysRead, KeysReadInFrame
<1>. QED BY <1>1, <1>9, <1>10, <1>11 DEF KeyInv

LEMMA KeyBeginFrame == KeyInv /\ BeginFrame => KeyInv'
<1>. SUFFICES ASSUME KeyInv, BeginFrame PROVE KeyInv' OBVIOUS
<1>1. TypeOK /\ TypeOK' BY TypeBeginFrame DEF KeyInv
<1>2. /\ UNCHANGED <<pressed, fates>> /\ frame = "waiting" /\ frame' = "running"
      /\ systems' = [s \in Systems |-> "ready"] /\ keys' = Update(keys)
  BY DEF BeginFrame
<1>. DEFINE u == Unread(keys)
            v == Unread(keys')
<1>3. QueueOK(keys, 1 .. Len(pressed)) /\ QueueOK(keys', 1 .. Len(pressed))
  BY <1>1, <1>2, TypeParts, TypePartsNext DEF KeysOK
<1>4. keys.seen >= Len(keys.old) BY <1>2 DEF KeyInv, KeysRead
<1>5. PICK d \in Nat :
          /\ Len(Unread(Update(keys))) + d = Len(u)
          /\ \A i \in 1 .. Len(Unread(Update(keys))) : Unread(Update(keys))[i] = u[d + i]
          /\ keys.seen >= Len(keys.old) => d = 0
  BY <1>3, UpdateIs
<1>6. /\ u \in Seq(1 .. Len(pressed)) /\ v \in Seq(1 .. Len(pressed))
      /\ Len(u) \in Nat /\ Len(v) \in Nat
  BY <1>3, UnreadType
<1>7. v = u
  <2>. HIDE DEF u, v
  <2>1. Len(v) = Len(u) BY <1>2, <1>4, <1>5, <1>6 DEF v
  <2>2. ASSUME NEW i \in 1 .. Len(v) PROVE v[i] = u[i]
    <3>1. v[i] = u[d + i] /\ d = 0 BY <1>2, <1>4, <1>5 DEF v
    <3>. QED BY <3>1
  <2>. QED BY <1>6, <2>1, <2>2, SeqEqual
<1>8. KeysRead' /\ KeysReadInFrame' BY <1>2 DEF KeysRead, KeysReadInFrame, Systems
<1>. QED BY <1>1, <1>2, <1>7, <1>8, KeysUnchanged

LEMMA KeyEndFrame == KeyInv /\ EndFrame => KeyInv'
<1>. SUFFICES ASSUME KeyInv, EndFrame PROVE KeyInv' OBVIOUS
<1>1. TypeOK /\ TypeOK' BY TypeEndFrame DEF KeyInv
<1>2. /\ UNCHANGED <<keys, pressed, fates>> /\ frame = "running" /\ frame' = "waiting"
      /\ systems["send_input"] = "done"
  BY DEF EndFrame, keyboard, Systems
<1>3. Unread(keys) = <<>> BY <1>2 DEF KeyInv, KeysReadInFrame
<1>4. keys.seen >= Len(keys.old)
  <2>1. QueueOK(keys, 1 .. Len(pressed)) BY <1>1, TypeParts DEF KeysOK
  <2>2. PICK old \in Seq(1 .. Len(pressed)), new \in Seq(1 .. Len(pressed)), n \in Nat :
            /\ n \in 0 .. Len(old \o new)
            /\ keys = [old |-> old, new |-> new, seen |-> n]
            /\ Len(old \o new) = Len(old) + Len(new)
            /\ Len(old) \in Nat /\ Len(new) \in Nat
            /\ old \o new \in Seq(1 .. Len(pressed))
            /\ Unread(keys) = Rest(old \o new, n)
    BY <2>1, QueueParts
  <2>3. Len(Rest(old \o new, n)) = Len(old \o new) - n BY <2>2, RestIs
  <2>4. Len(Rest(old \o new, n)) = 0 BY <1>3, <2>2, EmptySeq
  <2>5. n >= Len(old) BY <2>2, <2>3, <2>4
  <2>. QED BY <2>2, <2>5
<1>5. KeysRead' /\ KeysReadInFrame' BY <1>2, <1>4 DEF KeysRead, KeysReadInFrame
<1>. QED BY <1>1, <1>2, <1>5, KeysUnchanged

LEMMA KeySendInput == KeyInv /\ SendInput => KeyInv'
<1>. SUFFICES ASSUME KeyInv, SendInput PROVE KeyInv' OBVIOUS
<1>1. TypeOK /\ TypeOK' BY TypeSendInput DEF KeyInv
<1>2. /\ UNCHANGED <<pressed, frame, systems>> /\ frame = "running"
      /\ systems["send_input"] # "done"
  BY DEF SendInput, Runs
<1>. DEFINE u == Unread(keys)
            n == Head(u)
<1>3. /\ Len(u) \in Nat \ {0} /\ n = u[1] /\ n \in 1 .. Len(pressed)
      /\ Len(Unread(keys')) = Len(u) - 1
      /\ \A i \in 1 .. Len(u) - 1 : Unread(keys')[i] = u[1 + i]
  BY <1>1, HeadKey
<1>4. Len(pressed) \in Nat
  <2>1. pressed \in Seq(Keys) BY <1>1, TypeParts DEF KeysOK
  <2>. QED BY <2>1, LenProperties
<1>5. Handled \in Nat /\ \A i \in 1 .. Len(u) : u[i] = Handled + i BY DEF KeyInv, KeysUnread
<1>. HIDE DEF u, n
<1>6. n = Handled + 1 /\ Handled' = Handled + 1
  <2>1. 1 \in 1 .. Len(u) BY <1>3
  <2>2. Handled = Len(pressed) - Len(u) /\ Handled' = Len(pressed) - (Len(u) - 1)
    BY <1>2, <1>3 DEF Handled, u
  <2>. QED BY <1>3, <1>4, <1>5, <2>1, <2>2
<1>7. KeysUnread'
  <2>1. ASSUME NEW i \in 1 .. Len(u) - 1 PROVE Unread(keys')[i] = Handled' + i
    <3>1. 1 + i \in 1 .. Len(u) BY <1>3
    <3>2. Unread(keys')[i] = Handled + (1 + i) BY <1>3, <1>5, <3>1
    <3>. QED BY <1>5, <1>6, <3>2
  <2>. QED BY <1>3, <1>5, <1>6, <2>1 DEF KeysUnread
<1>8. fates \in Seq(Fate(Len(pressed))) /\ Len(fates) \in Nat
  <2>1. fates \in Seq(Fate(Len(pressed))) BY <1>1, TypeParts DEF FatesOK
  <2>. QED BY <2>1, LenProperties
<1>9. \A i \in 1 .. Len(fates) : fates[i].n \in Nat /\ fates[i].n <= Handled
  <2>1. ASSUME NEW i \in 1 .. Len(fates) PROVE fates[i].n \in Nat
    <3>1. fates[i] \in Fate(Len(pressed)) BY <1>8, ElementOfSeq
    <3>. QED BY <3>1 DEF Fate
  <2>. QED BY <2>1 DEF KeyInv, FatesInv
<1>10. FatesInv'
  <2>1. CASE pressed[n] \in DOMAIN InputMessage /\ Send(n)
    <3>1. PICK f \in Fate(Len(pressed)) : f.n = n /\ fates' = Append(fates, f)
      BY <1>1, <1>3, <2>1, SendIs
    <3>2. /\ Len(fates') = Len(fates) + 1
          /\ \A i \in 1 .. Len(fates) : fates'[i] = fates[i]
          /\ fates'[Len(fates) + 1] = f
      BY <1>8, <3>1, AppendProperties
    <3>3. ASSUME NEW i \in 1 .. Len(fates'), NEW j \in 1 .. Len(fates'), i < j
          PROVE  fates'[i].n < fates'[j].n
      <4>1. i \in 1 .. Len(fates) /\ (j \in 1 .. Len(fates) \/ j = Len(fates) + 1)
        BY <1>8, <3>2, <3>3
      <4>2. CASE j \in 1 .. Len(fates) BY <3>2, <3>3, <4>1, <4>2 DEF KeyInv, FatesInv
      <4>3. CASE j = Len(fates) + 1
        <5>1. fates'[j].n = Handled + 1 /\ fates'[i].n = fates[i].n
          BY <1>6, <3>1, <3>2, <4>1, <4>3
        <5>. QED BY <1>5, <1>9, <4>1, <5>1
      <4>. QED BY <4>1, <4>2, <4>3
    <3>4. ASSUME NEW i \in 1 .. Len(fates')
          PROVE  fates'[i].n <= Handled' /\ pressed[fates'[i].n] \in DOMAIN InputMessage
      <4>1. CASE i \in 1 .. Len(fates)
        <5>1. fates'[i] = fates[i] BY <3>2, <4>1
        <5>2. fates[i].n <= Handled' BY <1>5, <1>6, <1>9, <4>1
        <5>. QED BY <4>1, <5>1, <5>2 DEF KeyInv, FatesInv
      <4>2. CASE i = Len(fates) + 1
        <5>1. fates'[i].n = n BY <3>1, <3>2, <4>2
        <5>. QED BY <1>5, <1>6, <2>1, <5>1
      <4>. QED BY <1>8, <3>2, <4>1, <4>2
    <3>5. ASSUME NEW k \in 1 .. Handled', pressed[k] \in DOMAIN InputMessage
          PROVE  \E j \in 1 .. Len(fates') : fates'[j].n = k
      <4>1. CASE k \in 1 .. Handled
        <5>1. PICK j \in 1 .. Len(fates) : fates[j].n = k
          BY <3>5, <4>1 DEF KeyInv, FatesInv
        <5>. QED BY <1>8, <3>2, <5>1
      <4>2. CASE k = Handled + 1
        <5>1. Len(fates) + 1 \in 1 .. Len(fates') BY <1>8, <3>2
        <5>2. fates'[Len(fates) + 1].n = k BY <1>6, <3>1, <3>2, <4>2
        <5>. QED BY <5>1, <5>2
      <4>. QED BY <1>5, <1>6, <4>1, <4>2
    <3>. QED BY <1>2, <3>3, <3>4, <3>5 DEF FatesInv
  <2>2. CASE pressed[n] \notin DOMAIN InputMessage /\ UNCHANGED fates
    <3>1. ASSUME NEW k \in 1 .. Handled', pressed[k] \in DOMAIN InputMessage
          PROVE  k \in 1 .. Handled
      BY <1>5, <1>6, <2>2, <3>1
    <3>2. \A i \in 1 .. Len(fates) : fates[i].n <= Handled' BY <1>5, <1>6, <1>9
    <3>. QED BY <1>2, <2>2, <3>1, <3>2 DEF KeyInv, FatesInv
  <2>. QED BY <2>1, <2>2 DEF SendInput, n, u
<1>11. KeysRead' /\ KeysReadInFrame' BY <1>2 DEF KeysRead, KeysReadInFrame
<1>. QED BY <1>1, <1>7, <1>10, <1>11 DEF KeyInv

LEMMA KeyNext == KeyInv /\ [Next]_vars => KeyInv'
<1>. SUFFICES ASSUME KeyInv, [Next]_vars PROVE KeyInv' OBVIOUS
<1>1. TypeOK /\ TypeOK' BY TypeNext DEF KeyInv
<1>2. CASE /\ UNCHANGED <<keyboard, frame>>
           /\ systems'["send_input"] = systems["send_input"]
  <2>1. UNCHANGED <<keys, pressed, fates>> BY <1>2 DEF keyboard
  <2>2. KeysRead' /\ KeysReadInFrame'
    BY <1>2, <2>1 DEF KeyInv, KeysRead, KeysReadInFrame
  <2>. QED BY <1>1, <2>1, <2>2, KeysUnchanged
<1>3. CASE SendInputEnds
  <2>1. /\ UNCHANGED <<keys, pressed, fates, frame>> /\ frame = "running"
        /\ Unread(keys) = <<>>
    BY <1>3 DEF SendInputEnds, Runs, keyboard
  <2>2. KeysRead' /\ KeysReadInFrame' BY <2>1 DEF KeysRead, KeysReadInFrame
  <2>. QED BY <1>1, <2>1, <2>2, KeysUnchanged
<1>4. CASE ClientComesOrGoes BY <1>2, <1>4 DEF ClientComesOrGoes, frames
<1>5. CASE DatagramArrives BY <1>2, <1>5 DEF DatagramArrives, frames
<1>6. CASE ReceiveThread
  BY <1>2, <1>6 DEF ReceiveThread, Receive, ReceiveFails, PutIntoChannel, frames
<1>7. CASE ReadStream \/ Draw
  <2>1. UNCHANGED <<keyboard, frame>> BY <1>7 DEF ReadStream, Draw, Runs
  <2>2. systems'["send_input"] = systems["send_input"]
    BY <1>1, <1>7, TypeParts DEF ReadStream, Draw, FrameOK, Systems
  <2>. QED BY <1>2, <2>1, <2>2
<1>8. CASE UNCHANGED vars BY <1>2, <1>8 DEF vars, frames
<1>. QED BY <1>3, <1>4, <1>5, <1>6, <1>7, <1>8, KeyKeyPressed, KeyBeginFrame, KeyEndFrame,
            KeySendInput
         DEF Next, Window

LEMMA KeyImplies == KeyInv => KeysOnceInOrder
<1>. SUFFICES ASSUME KeyInv PROVE KeysOnceInOrder OBVIOUS
<1>. DEFINE meant(n) == {k \in 1 .. n : pressed[k] \in DOMAIN InputMessage}
<1>1. fates \in Seq(Fate(Len(pressed))) /\ DOMAIN fates = 1 .. Len(fates) /\ Len(fates) \in Nat
  <2>1. fates \in Seq(Fate(Len(pressed))) BY TypeParts DEF KeyInv, FatesOK
  <2>. QED BY <2>1, LenProperties
<1>2. ASSUME NEW i \in 1 .. Len(fates) PROVE fates[i].n \in 1 .. Len(pressed)
  <2>1. fates[i] \in Fate(Len(pressed)) BY <1>1, ElementOfSeq
  <2>. QED BY <2>1 DEF Fate
<1>3. ASSUME NEW i \in 1 .. Len(fates)
      PROVE  /\ fates[i].n \in meant(Len(pressed))
             /\ \A k \in meant(fates[i].n) : \E j \in 1 .. i : fates[j].n = k
             /\ \A j \in 1 .. i - 1 : fates[j].n < fates[i].n
  <2>1. fates[i].n \in meant(Len(pressed)) BY <1>2 DEF KeyInv, FatesInv
  <2>2. ASSUME NEW k \in meant(fates[i].n) PROVE \E j \in 1 .. i : fates[j].n = k
    <3>1. k \in 1 .. Handled /\ k <= fates[i].n /\ pressed[k] \in DOMAIN InputMessage
      BY <1>2 DEF KeyInv, FatesInv, KeysUnread
    <3>2. PICK j \in 1 .. Len(fates) : fates[j].n = k BY <3>1 DEF KeyInv, FatesInv
    <3>3. ~ i < j
      <4>1. i < j => fates[i].n < fates[j].n BY DEF KeyInv, FatesInv
      <4>. QED BY <1>2, <3>1, <3>2, <4>1
    <3>4. j \in 1 .. i BY <3>3
    <3>. QED BY <3>2, <3>4
  <2>3. ASSUME NEW j \in 1 .. i - 1 PROVE fates[j].n < fates[i].n
    <3>1. j \in 1 .. Len(fates) /\ j < i BY <1>1
    <3>. QED BY <3>1 DEF KeyInv, FatesInv
  <2>. QED BY <2>1, <2>2, <2>3
<1>. QED BY <1>1, <1>3 DEF KeysOnceInOrder

\* Every key that means something is handled once and in order, whichever frames
\* the keys fall into: the event queue drops none that was not read.
THEOREM KeysCorrect == Spec => []KeysOnceInOrder
<1>1. Spec => []KeyInv BY KeyInit, KeyNext, PTL DEF Spec
<1>. QED BY <1>1, KeyImplies, PTL

-----------------------------------------------------------------------------
(* The pending error.                                                      *)

LEMMA RefusedInit == Init => RefusedInv
<1>1. Init => fates = <<>> /\ ~ refused BY DEF Init
<1>2. DOMAIN <<>> = {} OBVIOUS
<1>. QED BY <1>1, <1>2 DEF RefusedInv, OneKeyMissedAtMost

LEMMA RefusedSend ==
    ASSUME TypeOK, RefusedInv, NEW n \in 1 .. Len(pressed),
           pressed[n] \in DOMAIN InputMessage, Send(n)
    PROVE  RefusedInv'
<1>1. fates \in Seq(Fate(Len(pressed))) /\ Len(fates) \in Nat /\ DOMAIN fates = 1 .. Len(fates)
  <2>1. fates \in Seq(Fate(Len(pressed))) BY TypeParts DEF FatesOK
  <2>. QED BY <2>1, LenProperties
<1>2. PICK f \in Fate(Len(pressed)) :
          /\ f.fate = IF refused THEN "failed" ELSE IF clientUp THEN "delivered" ELSE "unheard"
          /\ fates' = Append(fates, f)
          /\ refused' = (~ refused /\ ~ clientUp)
  BY SendIs
<1>3. /\ fates' \in Seq(Fate(Len(pressed))) /\ fates' # <<>> /\ Len(fates') = Len(fates) + 1
      /\ \A i \in 1 .. Len(fates) : fates'[i] = fates[i]
      /\ fates'[Len(fates')] = f
  <2>1. /\ Append(fates, f) \in Seq(Fate(Len(pressed))) /\ Append(fates, f) # <<>>
        /\ Len(Append(fates, f)) = Len(fates) + 1
        /\ \A i \in 1 .. Len(fates) : Append(fates, f)[i] = fates[i]
        /\ Append(fates, f)[Len(fates) + 1] = f
    BY <1>1, AppendProperties
  <2>. QED BY <1>2, <2>1
<1>4. DOMAIN fates' = 1 .. Len(fates') BY <1>3, LenProperties
<1>5. refused' => fates' # <<>> /\ fates'[Len(fates')].fate = "unheard"
  <2>1. refused' => ~ refused /\ ~ clientUp BY <1>2
  <2>2. ~ refused /\ ~ clientUp => f.fate = "unheard" BY <1>2
  <2>. QED BY <1>3, <2>1, <2>2
<1>6. ASSUME NEW i \in 1 .. Len(fates'), fates'[i].fate = "failed"
      PROVE  i > 1 /\ fates'[i - 1].fate = "unheard"
  <2>1. CASE i \in 1 .. Len(fates)
    <3>1. i > 1 /\ fates[i - 1].fate = "unheard"
      BY <1>1, <1>3, <1>6, <2>1 DEF RefusedInv, OneKeyMissedAtMost
    <3>2. i - 1 \in 1 .. Len(fates) BY <1>1, <2>1, <3>1
    <3>. QED BY <1>3, <3>1, <3>2
  <2>2. CASE i = Len(fates) + 1
    <3>1. f.fate = "failed" BY <1>3, <1>6, <2>2
    <3>2. refused
      <4>1. ~ refused => f.fate \in {"delivered", "unheard"} BY <1>2
      <4>. QED BY <3>1, <4>1
    <3>3. fates # <<>> /\ fates[Len(fates)].fate = "unheard" BY <3>2 DEF RefusedInv
    <3>4. Len(fates) \in Nat \ {0} BY <1>1, <3>3, EmptySeq
    <3>5. i - 1 = Len(fates) /\ i > 1 /\ Len(fates) \in 1 .. Len(fates) BY <2>2, <3>4
    <3>. QED BY <1>3, <3>3, <3>5
  <2>. QED BY <1>1, <1>3, <2>1, <2>2
<1>. QED BY <1>4, <1>5, <1>6 DEF RefusedInv, OneKeyMissedAtMost

LEMMA RefusedNext == TypeOK /\ RefusedInv /\ [Next]_vars => RefusedInv'
<1>. SUFFICES ASSUME TypeOK, RefusedInv, [Next]_vars PROVE RefusedInv' OBVIOUS
<1>1. CASE UNCHANGED fates /\ (UNCHANGED refused \/ ~ refused')
  BY <1>1 DEF RefusedInv, OneKeyMissedAtMost
<1>2. CASE SendInput
  <2>. DEFINE n == Head(Unread(keys))
  <2>1. n \in 1 .. Len(pressed) BY <1>2, HeadKey
  <2>2. CASE pressed[n] \in DOMAIN InputMessage /\ Send(n) BY <2>1, <2>2, RefusedSend
  <2>. QED BY <1>1, <1>2, <2>2 DEF SendInput
<1>3. CASE ReceiveFails BY <1>1, <1>3 DEF ReceiveFails, keyboard
<1>4. CASE ~ SendInput /\ ~ ReceiveFails
  BY <1>1, <1>4 DEF Next, Window, ReceiveThread, ClientComesOrGoes, DatagramArrives, KeyPressed,
                    Receive, PutIntoChannel, BeginFrame, ReadStream, Draw, SendInputEnds, EndFrame,
                    vars, keyboard
<1>. QED BY <1>2, <1>3, <1>4

\* While the client listens at most one key is lost, the first after one that
\* nobody heard: the error that a send reports was left behind by the one before.
THEOREM OneKeyMissedCorrect == Spec => []OneKeyMissedAtMost
<1>1. Spec => []RefusedInv BY TypeCorrect, RefusedInit, RefusedNext, PTL DEF Spec
<1>2. RefusedInv => OneKeyMissedAtMost BY DEF RefusedInv
<1>. QED BY <1>1, <1>2, PTL

=============================================================================
