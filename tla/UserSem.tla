------------------------------- MODULE UserSem -------------------------------
(***************************************************************************)
(* The semaphores of one program and the processes it forks, as the        *)
(* programs see them (lib/src/sync.rs over the sem system calls).  A       *)
(* process that has to block is in a queue until a signal hands it its     *)
(* unit, and takes no step while it is there.                              *)
(***************************************************************************)
EXTENDS Semaphore, Functions

CONSTANT NoSem   \* no semaphore has that key

VARIABLE sems    \* the SemaphoreSet that the processes share, by key

Blocked(p) == \E k \in DOMAIN sems : sems[k] # NoSem /\ p \in Range(sems[k].queue)

\* A call on a key that has no semaphore returns at once, and neither
\* Semaphore::wait nor Semaphore::signal looks at what it returns.
Wait(k, p) ==
    sems' = IF sems[k] = NoSem THEN sems ELSE [sems EXCEPT ![k] = SemWaited(@, p)]

Signal(k) ==
    sems' = IF sems[k] = NoSem THEN sems ELSE [sems EXCEPT ![k] = SemSignalled(@)]

RemoveSem(k) == sems' = [sems EXCEPT ![k] = NoSem]
=============================================================================
