--------------------------------- MODULE Mq ---------------------------------
(***************************************************************************)
(* The program app/mq: producers and consumers, forked alternately, share  *)
(* one VecDeque that three semaphores protect.  An operation on the queue  *)
(* is a read and a later write, so that an overlap would lose messages.    *)
(***************************************************************************)
EXTENDS UserSem

CONSTANTS
    Threads,   \* processes forked (16)
    Rounds,    \* messages sent or received by each (10)
    SIZE       \* places in the queue (8)

Procs == 0..(Threads - 1)
Producers == {i \in Procs : i % 2 = 0}

ASSUME MqConstants ==
    /\ Threads \in Nat /\ Threads % 2 = 0
    /\ Rounds \in Nat
    /\ SIZE \in Nat \ {0}
    /\ NoSem \notin [count : Nat, queue : Seq(Procs)]

VARIABLES
    pc,       \* where each forked process is
    round,    \* its loop counter
    seen,     \* what it read of MQ for the operation under way
    MQ,       \* the queue
    popped,   \* history: the messages received, in the order of the pops
    main      \* main's progress: forks, then waits, then the last line

vars == <<sems, pc, round, seen, MQ, popped, main>>

Init ==
    /\ sems = [MUTEX |-> NewSem(1), EMPTY |-> NewSem(SIZE), FULL |-> NewSem(0)]
    /\ pc = [i \in Procs |-> "unborn"]
    /\ round = [i \in Procs |-> 0]
    /\ seen = [i \in Procs |-> << >>]
    /\ MQ = << >>
    /\ popped = << >>
    /\ main = 0
-----------------------------------------------------------------------------
Goes(i, from, to) == ~Blocked(i) /\ pc[i] = from /\ pc' = [pc EXCEPT ![i] = to]

\* Mutant: consumers claim an empty place too.
ClaimsEmpty(i) == "EMPTY"

\* A producer claims an empty place, a consumer a full one.
Claims(i) == IF i \in Producers THEN "EMPTY" ELSE "FULL"

Claim(i) ==
    /\ round[i] < Rounds
    /\ Goes(i, "top", "claimed")
    /\ Wait(Claims(i), i)
    /\ UNCHANGED <<round, seen, MQ, popped, main>>

\* Mutant: the queue is used without the mutex.
NoLock(i) == Goes(i, "claimed", "locked") /\ UNCHANGED <<sems, round, seen, MQ, popped, main>>

Lock(i) ==
    /\ Goes(i, "claimed", "locked")
    /\ Wait("MUTEX", i)
    /\ UNCHANGED <<round, seen, MQ, popped, main>>

ReadQueue(i) ==
    /\ Goes(i, "locked", "read")
    /\ seen' = [seen EXCEPT ![i] = MQ]
    /\ UNCHANGED <<sems, round, MQ, popped, main>>

Push(i) ==
    /\ i \in Producers
    /\ Goes(i, "read", "written")
    /\ MQ' = Append(seen[i], [pid |-> i, val |-> round[i]])
    /\ seen' = [seen EXCEPT ![i] = << >>]
    /\ UNCHANGED <<sems, round, popped, main>>

\* pop_front().unwrap(): a panic of the program when there is nothing.
Pop(i) ==
    /\ i \notin Producers
    /\ IF seen[i] = << >>
       THEN Goes(i, "read", "panic") /\ UNCHANGED <<MQ, popped, seen>>
       ELSE /\ Goes(i, "read", "written")
            /\ MQ' = Tail(seen[i])
            /\ popped' = Append(popped, Head(seen[i]))
            /\ seen' = [seen EXCEPT ![i] = << >>]
    /\ UNCHANGED <<sems, round, main>>

Unlock(i) ==
    /\ Goes(i, "written", "unlocked")
    /\ Signal("MUTEX")
    /\ UNCHANGED <<round, seen, MQ, popped, main>>

Post(i) ==
    /\ Goes(i, "unlocked", "top")
    /\ Signal(IF i \in Producers THEN "FULL" ELSE "EMPTY")
    /\ round' = [round EXCEPT ![i] = @ + 1]
    /\ UNCHANGED <<seen, MQ, popped, main>>

\* Mutant: a consumer stops one message early.
ExitEarly(i) ==
    /\ round[i] = Rounds \/ (i \notin Producers /\ round[i] = Rounds - 1)
    /\ Goes(i, "top", "exited")
    /\ UNCHANGED <<sems, round, seen, MQ, popped, main>>

Exit(i) ==
    /\ round[i] = Rounds
    /\ Goes(i, "top", "exited")
    /\ UNCHANGED <<sems, round, seen, MQ, popped, main>>

ForkNext ==
    /\ main \in Procs
    /\ pc' = [pc EXCEPT ![main] = "top"]
    /\ main' = main + 1
    /\ UNCHANGED <<sems, round, seen, MQ, popped>>

\* sys_wait_pid of the processes in the order in which they were forked.
WaitNext ==
    /\ main - Threads \in Procs
    /\ pc[main - Threads] \in {"exited", "panic"}
    /\ main' = main + 1
    /\ UNCHANGED <<sems, pc, round, seen, MQ, popped>>

Passed == main = 2 * Threads

Finished == Passed /\ UNCHANGED vars

Proc(i) == Claim(i) \/ Lock(i) \/ ReadQueue(i) \/ Push(i) \/ Pop(i) \/ Unlock(i)
           \/ Post(i) \/ Exit(i)

Next == (\E i \in Procs : Proc(i)) \/ ForkNext \/ WaitNext \/ Finished

\* The scheduler is round robin: every process that can go on does.
Spec == Init /\ [][Next]_vars
             /\ WF_vars(ForkNext) /\ WF_vars(WaitNext) /\ \A i \in Procs : WF_vars(Proc(i))
-----------------------------------------------------------------------------
\* FULL counts the messages: pop_front never meets an empty queue, so the
\* unwrap in consume cannot fail.
PopFindsMessage == \A i \in Procs : pc[i] # "panic"

\* How many messages producer i has pushed.
Pushed(i) == round[i] + (IF pc[i] \in {"written", "unlocked"} THEN 1 ELSE 0)

Chan == INSTANCE Channel
            WITH Senders <- Producers, Count <- Rounds, Capacity <- SIZE,
                 queue <- MQ, received <- popped, sent <- [i \in Producers |-> Pushed(i)]

\* The shared VecDeque under its three semaphores is an atomic channel of SIZE
\* places: whatever the schedule, it is never overfull, and each message of
\* each producer is received exactly once, in the order of the pushes.
ChannelImplemented == Chan!Spec

\* The program gets to its last line, and the queue is empty then.
TestPasses == <>(Passed /\ MQ = << >>)
=============================================================================
