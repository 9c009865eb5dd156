----------------------------- MODULE Spectator -----------------------------
(***************************************************************************)
(* What the user interface promises: of the messages sent to it, numbered  *)
(* in the order of sending, it shows one at a time and never goes back.    *)
(* It may leave out any of them.                                           *)
(***************************************************************************)
EXTENDS Naturals

VARIABLES sent,    \* number of messages sent so far
          screen   \* {n}: message n is being shown; {}: nothing yet

Init == sent = 0 /\ screen = {}

Send == sent' = sent + 1 /\ UNCHANGED screen

Show == \E n \in 1 .. sent : /\ \A m \in screen : m < n
                             /\ screen' = {n}
                             /\ UNCHANGED sent

Next == Send \/ Show

Spec == Init /\ [][Next]_<<sent, screen>>

=============================================================================
