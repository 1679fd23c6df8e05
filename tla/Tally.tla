------------------------------- MODULE Tally -------------------------------
(***************************************************************************)
(* What the program app/counter promises: counters that are raised by one  *)
(* in one step each, and printed when each of them has reached its goal.   *)
(***************************************************************************)
EXTENDS Integers

CONSTANT Goal      \* for every counter, the increments that it will get

VARIABLES
    counter,
    printed

tally == <<counter, printed>>

Init == counter = [c \in DOMAIN Goal |-> 0] /\ printed = FALSE

Increment(c) ==
    /\ counter[c] < Goal[c]
    /\ counter' = [counter EXCEPT ![c] = @ + 1]

PrintAll == counter = Goal /\ ~printed /\ printed' = TRUE

Next ==
    \/ (\E c \in DOMAIN Goal : Increment(c)) /\ UNCHANGED printed
    \/ PrintAll /\ UNCHANGED counter

Safe == Init /\ [][Next]_tally

\* Every increment is made.
Spec == Safe /\ WF_counter(\E c \in DOMAIN Goal : Increment(c))
=============================================================================
