------------------------------ MODULE EventLog ------------------------------
(***************************************************************************)
(* What the event stream promises the reader of a thread: the committed    *)
(* events that match its subscription, each once, in the order of their    *)
(* numbers, and none left out, whatever happens to connections and         *)
(* processes in between.  Implemented by module EventStream.               *)
(***************************************************************************)
EXTENDS Naturals

CONSTANT Event   \* the numbers events may have, from 1

VARIABLES
    mine,   \* numbers of the committed events that match the subscription
    seen    \* number of the last of them the reader was shown, 0 at first

Init == mine = {} /\ seen = 0

Commit ==
    \E e \in Event :
        /\ \A x \in mine : x < e
        /\ mine' = mine \cup {e}
        /\ UNCHANGED seen

Show ==
    \E e \in mine :
        /\ e > seen
        /\ \A x \in mine : x > seen => e <= x
        /\ seen' = e
        /\ UNCHANGED mine

Spec == Init /\ [][Commit \/ Show]_<<mine, seen>>
=============================================================================
