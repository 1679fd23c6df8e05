----------------------------- MODULE Semaphore -----------------------------
(***************************************************************************)
(* The kernel's counting semaphore, proc/sync.rs: a count and a FIFO of    *)
(* the processes that wait.  Every operation runs under the semaphore's    *)
(* Mutex with interrupts off, so each is a pure operator on the record.    *)
(***************************************************************************)
EXTENDS Integers, Sequences

\* Semaphore::new: the given count, nobody waiting.
NewSem(value) == [count |-> value, queue |-> << >>]

\* Semaphore::wait answers Block (and queues the caller) or Ok.
Blocks(s) == s.count = 0

\* Mutant: the caller that has to block is not queued.
WaitForgetsCaller(s, pid) == IF Blocks(s) THEN s ELSE [s EXCEPT !.count = @ - 1]

SemWaited(s, pid) ==
    IF Blocks(s) THEN [s EXCEPT !.queue = Append(@, pid)]
                 ELSE [s EXCEPT !.count = @ - 1]

\* Semaphore::signal answers WakeUp(head) or Ok.
Wakes(s) == s.queue # << >>

\* Mutant: the head is woken but stays in the queue.
SignalPeeks(s) == IF Wakes(s) THEN s ELSE [s EXCEPT !.count = @ + 1]

\* Mutant: the count is raised although a waiter takes the unit.
SignalCountsTwice(s) ==
    IF Wakes(s) THEN [count |-> s.count + 1, queue |-> Tail(s.queue)]
                ELSE [s EXCEPT !.count = @ + 1]

SemSignalled(s) ==
    IF Wakes(s) THEN [s EXCEPT !.queue = Tail(@)]
                ELSE [s EXCEPT !.count = @ + 1]
=============================================================================
