-------------------------------- MODULE Feed --------------------------------
(***************************************************************************)
(* What the client promises to its interface: it sends on the states that  *)
(* the server announces to it, as they are, one by one and in order.       *)
(* Nothing is promised about those still waiting when the session ends.    *)
(***************************************************************************)
EXTENDS Sequences, Naturals

VARIABLES queue,   \* states announced that have not been sent on
          shown    \* the state sent on last

Init == queue = <<>>

Announce == /\ Len(queue') > Len(queue)
            /\ SubSeq(queue', 1, Len(queue)) = queue
            /\ UNCHANGED shown

Show == /\ queue # <<>>
        /\ shown' = Head(queue)
        /\ queue' = Tail(queue)

Next == Announce \/ Show

Spec == Init /\ [][Next]_<<queue, shown>>

=============================================================================
