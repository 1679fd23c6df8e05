------------------------------- MODULE Counter -------------------------------
(***************************************************************************)
(* The program app/counter and the SpinLock of lib/src/sync.rs.  main      *)
(* forks a child; the child forks HOLD processes that add to COUNTER under *)
(* the spin lock, main forks HOLD that add to COUNTER_SEM under a          *)
(* semaphore.  A read and a later write of the counter are two steps.      *)
(***************************************************************************)
EXTENDS UserSem

CONSTANTS
    HOLD,      \* processes in each half (4)
    Rounds     \* increments by each (100)

KEY == 4660    \* 0x1234

Halves == {"spin", "sem"}
Procs == Halves \X (1..HOLD)

ASSUME CounterConstants ==
    /\ HOLD \in Nat /\ Rounds \in Nat
    /\ NoSem \notin [count : Nat, queue : Seq(Procs)]

VARIABLES
    bolt,      \* SpinLock::bolt
    pc,        \* where each counting process is
    round,     \* its loop counter
    val,       \* the local of inc_counter
    counter,   \* COUNTER ("spin") and COUNTER_SEM ("sem")
    parent,    \* progress of the process that forked each half: forks, waits
    main       \* where main is, between its forks and its last line

vars == <<sems, bolt, pc, round, val, counter, parent, main>>

Init ==
    /\ sems = [k \in {KEY} |-> NoSem]
    /\ bolt = FALSE
    /\ pc = [p \in Procs |-> "unborn"]
    /\ round = [p \in Procs |-> 0]
    /\ val = [p \in Procs |-> 0]
    /\ counter = [h \in Halves |-> 0]
    /\ parent = [h \in Halves |-> 0]
    /\ main = "forking"
-----------------------------------------------------------------------------
Goes(p, from, to) == ~Blocked(p) /\ pc[p] = from /\ pc' = [pc EXCEPT ![p] = to]

\* Mutant: the bolt is tested and set in two steps.
AcquireLate(p) ==
    /\ p[1] = "spin" /\ round[p] < Rounds
    /\ ~bolt /\ Goes(p, "top", "stored")
    /\ UNCHANGED <<sems, bolt, round, val, counter, parent, main>>

\* SpinLock::acquire: the compare_exchange that succeeds.  (One that fails
\* changes nothing and is tried again.)
Acquire(p) ==
    /\ p[1] = "spin" /\ round[p] < Rounds
    /\ ~bolt /\ bolt' = TRUE
    /\ Goes(p, "top", "stored")
    /\ UNCHANGED <<sems, round, val, counter, parent, main>>

\* ... and its second store, which comes later.
AcquireStore(p) ==
    /\ Goes(p, "stored", "locked")
    /\ bolt' = TRUE
    /\ UNCHANGED <<sems, round, val, counter, parent, main>>

\* Mutant: the semaphore is not waited for.
SemSkipped(p) ==
    /\ p[1] = "sem" /\ round[p] < Rounds
    /\ Goes(p, "top", "locked")
    /\ UNCHANGED <<sems, bolt, round, val, counter, parent, main>>

SemAcquire(p) ==
    /\ p[1] = "sem" /\ round[p] < Rounds
    /\ Goes(p, "top", "locked")
    /\ Wait(KEY, p)
    /\ UNCHANGED <<bolt, round, val, counter, parent, main>>

\* inc_counter and inc_counter_sem
ReadCounter(p) ==
    /\ Goes(p, "locked", "read")
    /\ val' = [val EXCEPT ![p] = counter[p[1]]]
    /\ UNCHANGED <<sems, bolt, round, counter, parent, main>>

WriteCounter(p) ==
    /\ Goes(p, "read", "written")
    /\ counter' = [counter EXCEPT ![p[1]] = val[p] + 1]
    /\ val' = [val EXCEPT ![p] = 0]
    /\ UNCHANGED <<sems, bolt, round, parent, main>>

Release(p) ==
    /\ Goes(p, "written", "top")
    /\ IF p[1] = "spin" THEN bolt' = FALSE /\ UNCHANGED sems
                        ELSE Signal(KEY) /\ UNCHANGED bolt
    /\ round' = [round EXCEPT ![p] = @ + 1]
    /\ UNCHANGED <<val, counter, parent, main>>

Exit(p) ==
    /\ round[p] = Rounds
    /\ Goes(p, "top", "exited")
    /\ UNCHANGED <<sems, bolt, round, val, counter, parent, main>>

\* main forks the child, which goes on to test_spin_lock.
ForkChild ==
    /\ main = "forking"
    /\ main' = "forked"
    /\ UNCHANGED <<sems, bolt, pc, round, val, counter, parent>>

\* The start of test_semaphore.
CreateSem ==
    /\ main = "forked"
    /\ sems' = [sems EXCEPT ![KEY] = NewSem(1)]
    /\ main' = "halves"
    /\ UNCHANGED <<bolt, pc, round, val, counter, parent>>

ForkNext(h) ==
    /\ IF h = "spin" THEN main # "forking" ELSE main = "halves"
    /\ parent[h] < HOLD
    /\ pc' = [pc EXCEPT ![<<h, parent[h] + 1>>] = "top"]
    /\ parent' = [parent EXCEPT ![h] = @ + 1]
    /\ UNCHANGED <<sems, bolt, round, val, counter, main>>

\* Mutant: test_semaphore does not wait for the last process it forked.
WaitNextButLast(h) ==
    /\ parent[h] \in HOLD..(2 * HOLD - 1)
    /\ pc[<<h, parent[h] - HOLD + 1>>] = "exited" \/ parent[h] = 2 * HOLD - 1
    /\ parent' = [parent EXCEPT ![h] = @ + 1]
    /\ UNCHANGED <<sems, bolt, pc, round, val, counter, main>>

\* Mutant: the loop over pids waits for the same process again and again.
WaitNextSame(h) ==
    /\ parent[h] \in HOLD..(2 * HOLD - 1)
    /\ pc[<<h, parent[h] - HOLD + 1>>] = "exited"
    /\ UNCHANGED vars

WaitNext(h) ==
    /\ parent[h] \in HOLD..(2 * HOLD - 1)
    /\ pc[<<h, parent[h] - HOLD + 1>>] = "exited"
    /\ parent' = [parent EXCEPT ![h] = @ + 1]
    /\ UNCHANGED <<sems, bolt, pc, round, val, counter, main>>

\* sys_del_sem, the end of test_semaphore.
DeleteSem ==
    /\ main = "halves" /\ parent["sem"] = 2 * HOLD
    /\ RemoveSem(KEY)
    /\ main' = "deleted"
    /\ UNCHANGED <<bolt, pc, round, val, counter, parent>>

\* main's sys_wait_pid of the child, then the results are printed.
PrintResults ==
    /\ main = "deleted" /\ parent["spin"] = 2 * HOLD
    /\ main' = "done"
    /\ UNCHANGED <<sems, bolt, pc, round, val, counter, parent>>

Finished == main = "done" /\ UNCHANGED vars

Proc(p) == Acquire(p) \/ AcquireStore(p) \/ SemAcquire(p) \/ ReadCounter(p)
           \/ WriteCounter(p) \/ Release(p) \/ Exit(p)

Parent(h) == ForkNext(h) \/ WaitNext(h)

Main == ForkChild \/ CreateSem \/ DeleteSem \/ PrintResults

Next == (\E p \in Procs : Proc(p)) \/ (\E h \in Halves : Parent(h)) \/ Main \/ Finished

\* The scheduler is round robin, so what stays possible is done.  A spinning
\* process may miss the lock every time it is free: no more is assumed of it.
Spec == Init /\ [][Next]_vars
             /\ WF_vars(Main) /\ (\A h \in Halves : WF_vars(Parent(h)))
             /\ \A p \in Procs : WF_vars(Proc(p))
-----------------------------------------------------------------------------
InSection(p) == pc[p] \in {"stored", "locked", "read", "written"} /\ ~Blocked(p)

\* At most one process of a half is past its lock; the spin lock's bolt is
\* set exactly while one is, whatever the order of its two stores.
OneInSection ==
    /\ \A p, q \in Procs : p[1] = q[1] /\ InSection(p) /\ InSection(q) => p = q
    /\ bolt <=> \E i \in 1..HOLD : InSection(<<"spin", i>>)

Tal == INSTANCE Tally
           WITH Goal <- [h \in Halves |-> HOLD * Rounds], printed <- (main = "done")

\* The read and the later write of inc_counter, under either lock, are one
\* atomic increment, and the results are printed only when all are in them.
TallyImplemented == Tal!Spec

\* The semaphore is only deleted when nobody uses it any more.
DeletedUnused ==
    main \in {"deleted", "done"} => \A i \in 1..HOLD : pc[<<"sem", i>>] = "exited"

\* The program gets to its last line, though a spinning process has no turn
\* guaranteed at the lock.
ResultsPrinted == <>(main = "done")
=============================================================================
