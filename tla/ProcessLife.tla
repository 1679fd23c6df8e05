---------------------------- MODULE ProcessLife ----------------------------
(***************************************************************************)
(* What the process manager promises its programs, without queues, states  *)
(* and semaphores: processes are made in the order of their pids, one has  *)
(* the CPU, each dies at most once and keeps its exit code, who waits for  *)
(* a process is released by its death and by nothing else, and only a      *)
(* process that is alive and does not wait gets the CPU.                   *)
(***************************************************************************)
EXTENDS Integers

CONSTANTS
    Pids,     \* the pids there can be, from 1, the kernel's
    Codes,    \* exit codes
    NoExit    \* has not exited

Kernel == 1

VARIABLES
    next,     \* the next pid
    code,     \* exit codes
    waiting,  \* for every process, those who wait for its exit
    running   \* who has the CPU

life == <<next, code, waiting, running>>

Alive(p) == p < next /\ code[p] = NoExit

Waits(p) == \E q \in Pids : p \in waiting[q]

Runnable == {p \in Pids : Alive(p) /\ ~Waits(p)}

Init ==
    /\ next = Kernel + 1
    /\ code = [p \in Pids |-> NoExit]
    /\ waiting = [p \in Pids |-> {}]
    /\ running = Kernel

Make ==
    /\ next \in Pids
    /\ next' = next + 1
    /\ UNCHANGED <<code, waiting>>

Die(q, c) ==
    /\ q \in Runnable \ {Kernel}
    /\ code' = [code EXCEPT ![q] = c]
    /\ waiting' = [waiting EXCEPT ![q] = {}]
    /\ UNCHANGED next

Await(q) ==
    /\ running # Kernel
    /\ code[q] = NoExit
    /\ waiting' = [waiting EXCEPT ![q] = @ \cup {running}]
    /\ UNCHANGED <<next, code>>

Yield == UNCHANGED <<next, code, waiting>>

\* Any step may hand over the CPU, to somebody who can use it after the step.
Next ==
    /\ \/ Make \/ Yield
       \/ \E q \in Pids : Await(q)
       \/ \E q \in Pids, c \in Codes : Die(q, c)
    /\ running' \in Runnable'

Spec == Init /\ [][Next]_life
=============================================================================
