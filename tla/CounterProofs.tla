--------------------------- MODULE CounterProofs ---------------------------
(***************************************************************************)
(* Proofs about Counter for every number of processes and of rounds: the   *)
(* two locks exclude, the semaphore is deleted when nobody needs it, and   *)
(* the counters implement the safety part of Tally.  The counters are      *)
(* compared with the number of increments made, which is the cardinality   *)
(* of a set: each of its elements is one round of one process.             *)
(***************************************************************************)
EXTENDS Counter, QueueLemmas, FiniteSetTheorems

Sem == sems[KEY]

Section == {"stored", "locked", "read", "written"}

TypeOK ==
    /\ sems \in [{KEY} -> Semaphores(Procs) \cup {NoSem}]
    /\ bolt \in BOOLEAN
    /\ pc \in [Procs -> Section \cup {"unborn", "top", "exited"}]
    /\ round \in [Procs -> 0..Rounds]
    /\ val \in [Procs -> Nat]
    /\ counter \in [Halves -> Nat]
    /\ parent \in [Halves -> 0..(2 * HOLD)]
    /\ main \in {"forking", "forked", "halves", "deleted", "done"}

\* What the parents know: which processes are born, and which are gone.
Family ==
    /\ \A h \in Halves, i \in 1..HOLD :
        /\ pc[<<h, i>>] = "unborn" <=> i > parent[h]
        /\ i <= parent[h] - HOLD => pc[<<h, i>>] = "exited"
    /\ main = "forking" => parent["spin"] = 0
    /\ main \in {"forking", "forked"} => parent["sem"] = 0
    /\ main \in {"deleted", "done"} => parent["sem"] = 2 * HOLD
    /\ main = "done" => parent["spin"] = 2 * HOLD

\* The one unit of the semaphore is in its count or with the one process
\* that is past sem_wait; who waits has done nothing since.
SemLock ==
    /\ Sem # NoSem <=> main = "halves"
    /\ Sem # NoSem =>
        /\ Orderly(Sem) /\ Sem.count <= 1
        /\ \A p \in Waiters(Sem) : p[1] = "sem" /\ pc[p] = "locked"
        /\ \A p \in Procs : p[1] = "sem" /\ InSection(p) => Sem.count = 0

\* Which increments of half h have been made.
Done(h) ==
    {d \in (1..HOLD) \X (0..(Rounds - 1)) :
        \/ d[2] < round[<<h, d[1]>>]
        \/ d[2] = round[<<h, d[1]>>] /\ pc[<<h, d[1]>>] = "written"}

Counts ==
    /\ \A p \in Procs :
        /\ pc[p] \in Section => round[p] < Rounds
        /\ pc[p] = "stored" => p[1] = "spin"
        /\ pc[p] = "exited" => round[p] = Rounds
        /\ pc[p] = "read" => val[p] = counter[p[1]]
    /\ \A h \in Halves : counter[h] = Cardinality(Done(h))

IInv == TypeOK /\ Family /\ SemLock /\ OneInSection /\ Counts

(***************************************************************************)
(* What the steps have in common.                                          *)
(***************************************************************************)

LEMMA ProcPairs ==
    /\ \A p \in Procs : p[1] \in Halves /\ p[2] \in 1..HOLD /\ p = <<p[1], p[2]>>
    /\ \A h \in Halves, i \in 1..HOLD : /\ <<h, i>> \in Procs
                                       /\ <<h, i>>[1] = h /\ <<h, i>>[2] = i
BY DEF Procs

\* There is one semaphore that a process can be blocked on.
Waits(p) == Sem # NoSem /\ p \in Waiters(Sem)

LEMMA BlockedWaits == ASSUME TypeOK, NEW p PROVE Blocked(p) <=> Waits(p)
<1>1. DOMAIN sems = {KEY}
  BY DEF TypeOK
<1> QED BY <1>1 DEF Blocked, Waits, Waiters, Sem

\* The same, of the state after a step.
LEMMA BlockedWaitsNext == ASSUME TypeOK', NEW p PROVE Blocked(p)' <=> Waits(p)'
<1>1. DOMAIN sems' = {KEY}
  BY DEF TypeOK
<1> QED BY <1>1 DEF Blocked, Waits, Waiters, Sem

\* The increments made do not change with a step that neither writes a
\* counter nor ends a round.
LEMMA SameDone ==
    ASSUME NEW h \in Halves,
           \A i \in 1..HOLD :
               /\ round'[<<h, i>>] = round[<<h, i>>]
               /\ pc'[<<h, i>>] = "written" <=> pc[<<h, i>>] = "written"
    PROVE  Done(h)' = Done(h)
<1>1. ASSUME NEW d \in (1..HOLD) \X (0..(Rounds - 1))
      PROVE  /\ round'[<<h, d[1]>>] = round[<<h, d[1]>>]
             /\ pc'[<<h, d[1]>>] = "written" <=> pc[<<h, d[1]>>] = "written"
  <2>1. d[1] \in 1..HOLD
    OBVIOUS
  <2> QED BY <2>1
<1> QED BY <1>1, Zenon DEF Done

\* All increments that a half will make.
Increments == (1..HOLD) \X (0..(Rounds - 1))

\* There are HOLD * Rounds of them, and so no more have been made.
LEMMA IncrementsBound ==
    ASSUME NEW D \in SUBSET Increments
    PROVE  /\ IsFiniteSet(D) /\ Cardinality(D) \in Nat
           /\ Cardinality(D) <= HOLD * Rounds
           /\ Cardinality(Increments) = HOLD * Rounds
<1>1. HOLD \in Nat /\ Rounds \in Nat
  BY CounterConstants
<1>2. IsFiniteSet(1..HOLD) /\ Cardinality(1..HOLD) = HOLD
  BY <1>1, FS_Interval
<1>3. IsFiniteSet(0..(Rounds - 1)) /\ Cardinality(0..(Rounds - 1)) = Rounds
  <2>1. 0 \in Int /\ Rounds - 1 \in Int
    BY <1>1
  <2> QED BY <1>1, <2>1, FS_Interval
<1>4. IsFiniteSet(Increments) /\ Cardinality(Increments) = HOLD * Rounds
  <2>1. /\ IsFiniteSet(Increments)
        /\ Cardinality(Increments) = Cardinality(1..HOLD) * Cardinality(0..(Rounds - 1))
    BY <1>2, <1>3, FS_Product, Zenon DEF Increments
  <2> QED BY <1>2, <1>3, <2>1
<1>5. IsFiniteSet(D) /\ Cardinality(D) <= Cardinality(Increments)
  BY <1>4, FS_Subset
<1>6. Cardinality(D) \in Nat
  BY <1>5, FS_CardinalityType
<1> QED BY <1>4, <1>5, <1>6

LEMMA DoneBound ==
    ASSUME NEW h \in Halves
    PROVE  /\ IsFiniteSet(Done(h)) /\ Cardinality(Done(h)) \in Nat
           /\ Done(h) = Increments => Cardinality(Done(h)) = HOLD * Rounds
<1>1. Done(h) \in SUBSET Increments
  BY DEF Done, Increments
<1> QED BY <1>1, IncrementsBound

\* A step of a process that lives is no birth and undoes no exit.
LEMMA ProcFamily ==
    ASSUME IInv, NEW p \in Procs, NEW to, pc' = [pc EXCEPT ![p] = to],
           pc[p] \notin {"unborn", "exited"}, to # "unborn", UNCHANGED <<parent, main>>
    PROVE  Family'
<1>1. \A q \in Procs : pc'[q] = IF q = p THEN to ELSE pc[q]
  BY DEF IInv, TypeOK
<1>2. ASSUME NEW h \in Halves, NEW i \in 1..HOLD
      PROVE  /\ pc'[<<h, i>>] = "unborn" <=> i > parent[h]
             /\ i <= parent[h] - HOLD => pc'[<<h, i>>] = "exited"
  <2>1. <<h, i>> \in Procs
    BY ProcPairs
  <2>2. /\ pc[<<h, i>>] = "unborn" <=> i > parent[h]
        /\ i <= parent[h] - HOLD => pc[<<h, i>>] = "exited"
    BY DEF IInv, Family
  <2> QED BY <1>1, <2>1, <2>2
<1> QED BY <1>2 DEF IInv, Family

\* A step that leaves the semaphore alone moves one process at most into or
\* out of its section.
LEMMA QuietSem ==
    ASSUME IInv, TypeOK', NEW p \in Procs, NEW to, pc' = [pc EXCEPT ![p] = to],
           ~Waits(p), UNCHANGED <<sems, main>>,
           p[1] = "sem" /\ to \in Section => pc[p] \in Section
    PROVE  /\ SemLock'
           /\ \A q \in Procs : InSection(q)' <=> IF q = p THEN to \in Section ELSE InSection(q)
<1>1. \A q \in Procs : pc'[q] = IF q = p THEN to ELSE pc[q]
  BY DEF IInv, TypeOK
<1>2. Sem' = Sem /\ \A q : Waits(q)' <=> Waits(q)
  BY DEF Sem, Waits, Waiters
<1>3. \A q \in Procs : InSection(q) <=> pc[q] \in Section /\ ~Waits(q)
  BY BlockedWaits DEF IInv, InSection, Section
<1>4. \A q \in Procs : InSection(q)' <=> pc'[q] \in Section /\ ~Waits(q)
  BY <1>2, BlockedWaitsNext DEF InSection, Section
<1>5. \A q \in Procs : InSection(q)' <=> IF q = p THEN to \in Section ELSE InSection(q)
  BY <1>1, <1>3, <1>4
<1>6. ASSUME Sem # NoSem
      PROVE  /\ \A q \in Waiters(Sem) : q[1] = "sem" /\ pc'[q] = "locked"
             /\ \A q \in Procs : q[1] = "sem" /\ InSection(q)' => Sem.count = 0
  <2>1. \A q \in Waiters(Sem) : q \in Procs /\ q # p
    <3>1. Sem \in Semaphores(Procs)
      BY <1>6 DEF IInv, TypeOK, Sem
    <3>2. Waiters(Sem) \subseteq Procs
      BY <3>1, RangeWithin DEF Semaphores, Waiters
    <3> QED BY <3>2, <1>6 DEF Waits
  <2>2. \A q \in Waiters(Sem) : q[1] = "sem" /\ pc[q] = "locked"
    BY <1>6 DEF IInv, SemLock
  <2>3. \A q \in Procs : q[1] = "sem" /\ InSection(q) => Sem.count = 0
    BY <1>6 DEF IInv, SemLock
  <2>4. p[1] = "sem" /\ to \in Section => InSection(p)
    BY <1>3
  <2> QED BY <1>1, <1>5, <2>1, <2>2, <2>3, <2>4
<1>7. SemLock'
  BY <1>2, <1>6 DEF IInv, SemLock
<1> QED BY <1>5, <1>7

\* A process that is past its lock and not in the queue is in its section.
LEMMA Inside ==
    ASSUME IInv, NEW p \in Procs, pc[p] \in {"stored", "read", "written"}
    PROVE  InSection(p) /\ ~Waits(p)
<1>1. ~Waits(p)
  BY DEF IInv, SemLock, Waits
<1> QED BY <1>1, BlockedWaits DEF IInv, InSection

\* The counters and the locals, when no counter is written.
LEMMA CountsKept ==
    ASSUME IInv, NEW p \in Procs, NEW to, pc' = [pc EXCEPT ![p] = to],
           UNCHANGED <<round, counter>>,
           \A q \in Procs : q # p => val'[q] = val[q],
           pc[p] # "written", to # "written",
           to \in Section => round[p] < Rounds,
           to = "stored" => p[1] = "spin",
           to = "exited" => round[p] = Rounds,
           to = "read" => val'[p] = counter[p[1]]
    PROVE  Counts'
<1>1. \A q \in Procs : pc'[q] = IF q = p THEN to ELSE pc[q]
  BY DEF IInv, TypeOK
<1>2. ASSUME NEW h \in Halves PROVE counter'[h] = Cardinality(Done(h)')
  <2>1. \A i \in 1..HOLD : pc'[<<h, i>>] = "written" <=> pc[<<h, i>>] = "written"
    BY <1>1, ProcPairs
  <2>2. Done(h)' = Done(h)
    BY <2>1, SameDone, Zenon
  <2> QED BY <2>2 DEF IInv, Counts
<1> QED BY <1>1, <1>2 DEF IInv, Counts

(***************************************************************************)
(* The steps of the counting processes.                                    *)
(***************************************************************************)

\* Who takes a step is not blocked.
LEMMA GoesFacts ==
    ASSUME IInv, NEW p \in Procs, NEW from, NEW to, Goes(p, from, to)
    PROVE  /\ pc[p] = from /\ pc' = [pc EXCEPT ![p] = to] /\ ~Waits(p)
           /\ from \in Section => InSection(p)
BY BlockedWaits, Zenon DEF Goes, IInv, InSection, Section

LEMMA AcquireInv == ASSUME IInv, NEW p \in Procs, Acquire(p) PROVE IInv'
<1>1. /\ p[1] = "spin" /\ round[p] < Rounds /\ ~bolt /\ bolt' = TRUE
      /\ UNCHANGED <<sems, round, val, counter, parent, main>>
      /\ pc[p] = "top" /\ pc' = [pc EXCEPT ![p] = "stored"] /\ ~Waits(p)
  BY GoesFacts, Zenon DEF Acquire
<1>2. TypeOK'
  BY <1>1 DEF IInv, TypeOK, Section
<1>3. Family'
  BY <1>1, ProcFamily, Zenon
<1>4. /\ SemLock'
      /\ \A q \in Procs : InSection(q)' <=> q = p \/ InSection(q)
  BY <1>1, <1>2, QuietSem, Zenon DEF Section
<1>5. \A q \in Procs : q[1] = "spin" => ~InSection(q)
  <2>1. \A i \in 1..HOLD : ~InSection(<<"spin", i>>)
    BY <1>1, Zenon DEF IInv, OneInSection
  <2> QED BY <2>1, ProcPairs
<1>6. OneInSection'
  <2>1. \A q, r \in Procs : q[1] = r[1] /\ InSection(q)' /\ InSection(r)' => q = r
    BY <1>1, <1>4, <1>5 DEF IInv, OneInSection
  <2>2. p[2] \in 1..HOLD /\ p = <<"spin", p[2]>>
    BY <1>1, ProcPairs
  <2>3. InSection(p)'
    BY <1>4
  <2>4. \E i \in 1..HOLD : InSection(<<"spin", i>>)'
    BY <2>2, <2>3
  <2> QED BY <1>1, <2>1, <2>4 DEF OneInSection
<1>7. Counts'
  BY <1>1, CountsKept, Zenon
<1> QED BY <1>2, <1>3, <1>4, <1>6, <1>7, Zenon DEF IInv

\* A step inside or outside the section keeps who is in it.
LEMMA SameSection ==
    ASSUME IInv, \A q \in Procs : InSection(q)' <=> InSection(q), bolt' = bolt
    PROVE  OneInSection'
<1>1. \A i \in 1..HOLD : InSection(<<"spin", i>>)' <=> InSection(<<"spin", i>>)
  BY ProcPairs, Zenon DEF Halves
<1> QED BY <1>1 DEF IInv, OneInSection

LEMMA AcquireStoreInv == ASSUME IInv, NEW p \in Procs, AcquireStore(p) PROVE IInv'
<1>1. /\ bolt' = TRUE /\ UNCHANGED <<sems, round, val, counter, parent, main>>
      /\ pc[p] = "stored" /\ pc' = [pc EXCEPT ![p] = "locked"] /\ ~Waits(p)
      /\ InSection(p)
  BY GoesFacts DEF AcquireStore, Section
<1>2. TypeOK'
  BY <1>1 DEF IInv, TypeOK, Section
<1>3. Family'
  BY <1>1, ProcFamily, Zenon
<1>4. /\ SemLock'
      /\ \A q \in Procs : InSection(q)' <=> InSection(q)
  BY <1>1, <1>2, QuietSem, Zenon DEF Section
<1>5. bolt
  <2>1. p[1] = "spin"
    BY <1>1 DEF IInv, Counts
  <2>2. p[2] \in 1..HOLD /\ p = <<"spin", p[2]>>
    BY <2>1, ProcPairs, Zenon
  <2> QED BY <1>1, <2>2, Zenon DEF IInv, OneInSection
<1>6. OneInSection'
  BY <1>1, <1>4, <1>5, SameSection, Zenon DEF IInv, TypeOK
<1>7. Counts'
  <2>1. round[p] < Rounds
    BY <1>1, Zenon DEF IInv, Counts, Section
  <2> QED BY <1>1, <2>1, CountsKept, Zenon
<1> QED BY <1>2, <1>3, <1>4, <1>6, <1>7 DEF IInv

LEMMA ReadCounterInv == ASSUME IInv, NEW p \in Procs, ReadCounter(p) PROVE IInv'
<1>1. /\ val' = [val EXCEPT ![p] = counter[p[1]]]
      /\ UNCHANGED <<sems, bolt, round, counter, parent, main>>
      /\ pc[p] = "locked" /\ pc' = [pc EXCEPT ![p] = "read"] /\ ~Waits(p)
      /\ InSection(p)
  BY GoesFacts DEF ReadCounter, Section
<1>2. TypeOK'
  <2>1. counter[p[1]] \in Nat
    BY ProcPairs DEF IInv, TypeOK
  <2> QED BY <1>1, <2>1, Zenon DEF IInv, TypeOK, Section
<1>3. Family'
  BY <1>1, ProcFamily, Zenon
<1>4. /\ SemLock'
      /\ \A q \in Procs : InSection(q)' <=> InSection(q)
  BY <1>1, <1>2, QuietSem, Zenon DEF Section
<1>5. OneInSection'
  BY <1>1, <1>4, SameSection, Zenon
<1>6. Counts'
  <2>1. round[p] < Rounds
    BY <1>1 DEF IInv, Counts, Section
  <2>2. \A q \in Procs : val'[q] = IF q = p THEN counter[p[1]] ELSE val[q]
    BY <1>1, Zenon DEF IInv, TypeOK
  <2> QED BY <1>1, <2>1, <2>2, CountsKept, Zenon
<1> QED BY <1>2, <1>3, <1>4, <1>5, <1>6 DEF IInv

LEMMA ExitInv == ASSUME IInv, NEW p \in Procs, Exit(p) PROVE IInv'
<1>1. /\ round[p] = Rounds
      /\ UNCHANGED <<sems, bolt, round, val, counter, parent, main>>
      /\ pc[p] = "top" /\ pc' = [pc EXCEPT ![p] = "exited"] /\ ~Waits(p)
  BY GoesFacts DEF Exit
<1>2. TypeOK'
  BY <1>1 DEF IInv, TypeOK, Section
<1>3. Family'
  BY <1>1, ProcFamily, Zenon
<1>4. /\ SemLock'
      /\ \A q \in Procs : InSection(q)' <=> InSection(q)
  <2>1. ~InSection(p)
    BY <1>1 DEF InSection
  <2>2. "exited" \notin Section
    BY DEF Section
  <2>3. /\ SemLock'
        /\ \A q \in Procs :
              InSection(q)' <=> IF q = p THEN "exited" \in Section ELSE InSection(q)
    BY <1>1, <1>2, <2>2, QuietSem, Zenon
  <2> QED BY <2>1, <2>2, <2>3, Zenon
<1>5. OneInSection'
  BY <1>1, <1>4, SameSection
<1>6. Counts'
  BY <1>1, CountsKept, Zenon DEF Section
<1> QED BY <1>2, <1>3, <1>4, <1>5, <1>6 DEF IInv

\* The write adds one increment, by a process and in a round of its own.
LEMMA OneMoreDone ==
    ASSUME IInv, NEW p \in Procs, WriteCounter(p)
    PROVE  /\ Done(p[1])' = Done(p[1]) \cup {<<p[2], round[p]>>}
           /\ <<p[2], round[p]>> \notin Done(p[1])
           /\ \A h \in Halves : h # p[1] => Done(h)' = Done(h)
<1>1. /\ pc[p] = "read" /\ pc' = [pc EXCEPT ![p] = "written"] /\ round' = round
  BY GoesFacts DEF WriteCounter
<1>2. \A q \in Procs : pc'[q] = IF q = p THEN "written" ELSE pc[q]
  BY <1>1 DEF IInv, TypeOK
<1>3. /\ p[1] \in Halves /\ p[2] \in 1..HOLD /\ p = <<p[1], p[2]>>
      /\ round[p] \in 0..(Rounds - 1)
  <2>1. round[p] < Rounds /\ round[p] \in 0..Rounds /\ Rounds \in Nat
    BY <1>1, CounterConstants DEF IInv, TypeOK, Counts, Section
  <2> QED BY <2>1, ProcPairs
<1> DEFINE h == p[1]  k == p[2]  r == round[p]
<1> HIDE DEF h, k, r
<1>4. h \in Halves /\ k \in 1..HOLD /\ r \in 0..(Rounds - 1) /\ p = <<h, k>> /\ r = round[<<h, k>>]
  BY <1>3 DEF h, k, r
<1>5. \A i \in 1..HOLD : pc'[<<h, i>>] = IF i = k THEN "written" ELSE pc[<<h, i>>]
  <2>1. \A i \in 1..HOLD : <<h, i>> \in Procs /\ (<<h, i>> = p <=> i = k)
    BY <1>4, ProcPairs
  <2> QED BY <1>2, <2>1
<1>6. Done(h)' = Done(h) \cup {<<k, r>>}
  <2>1. ASSUME NEW i \in 1..HOLD, NEW n \in 0..(Rounds - 1)
        PROVE  <<i, n>> \in Done(h)' <=> <<i, n>> \in Done(h) \/ <<i, n>> = <<k, r>>
    <3>1. <<i, n>> \in Done(h) <=> \/ n < round[<<h, i>>]
                                   \/ n = round[<<h, i>>] /\ pc[<<h, i>>] = "written"
      BY DEF Done
    <3>2. <<i, n>> \in Done(h)' <=> \/ n < round[<<h, i>>]
                                    \/ n = round[<<h, i>>] /\ pc'[<<h, i>>] = "written"
      BY <1>1 DEF Done
    <3>3. CASE i = k
      BY <3>1, <3>2, <3>3, <1>4, <1>5, Zenon
    <3>4. CASE i # k
      BY <3>1, <3>2, <3>4, <1>4, <1>5, Zenon
    <3> QED BY <3>3, <3>4
  <2>2. /\ Done(h) \subseteq (1..HOLD) \X (0..(Rounds - 1))
        /\ Done(h)' \subseteq (1..HOLD) \X (0..(Rounds - 1))
        /\ <<k, r>> \in (1..HOLD) \X (0..(Rounds - 1))
    BY <1>4 DEF Done
  <2>3. ASSUME NEW d \in (1..HOLD) \X (0..(Rounds - 1))
        PROVE  d \in Done(h)' <=> d \in Done(h) \cup {<<k, r>>}
    <3>1. d[1] \in 1..HOLD /\ d[2] \in 0..(Rounds - 1) /\ d = <<d[1], d[2]>>
      OBVIOUS
    <3>2. <<d[1], d[2]>> \in Done(h)'
             <=> <<d[1], d[2]>> \in Done(h) \/ <<d[1], d[2]>> = <<k, r>>
      BY <3>1, <2>1, Zenon
    <3> QED BY <3>1, <3>2
  <2> QED BY <2>2, <2>3
<1>7. <<k, r>> \notin Done(h)
  <2>1. ~(r < r) /\ pc[<<h, k>>] # "written"
    BY <1>1, <1>4
  <2> QED BY <1>4, <2>1 DEF Done
<1>8. ASSUME NEW g \in Halves, g # h PROVE Done(g)' = Done(g)
  <2>1. \A i \in 1..HOLD : <<g, i>> \in Procs /\ <<g, i>> # p
    BY <1>4, <1>8, ProcPairs, Zenon
  <2> QED BY <1>1, <1>2, <2>1, SameDone, Zenon
<1> QED BY <1>6, <1>7, <1>8 DEF h, k, r

LEMMA WriteCounterInv == ASSUME IInv, NEW p \in Procs, WriteCounter(p) PROVE IInv'
<1>1. /\ val' = [val EXCEPT ![p] = 0] /\ counter' = [counter EXCEPT ![p[1]] = val[p] + 1]
      /\ UNCHANGED <<sems, bolt, round, parent, main>>
      /\ pc[p] = "read" /\ pc' = [pc EXCEPT ![p] = "written"] /\ ~Waits(p)
      /\ InSection(p)
  BY GoesFacts, Zenon DEF WriteCounter, Section
<1>2. /\ \A q \in Procs : pc'[q] = IF q = p THEN "written" ELSE pc[q]
      /\ \A q \in Procs : val'[q] = IF q = p THEN 0 ELSE val[q]
      /\ \A h \in Halves : counter'[h] = IF h = p[1] THEN counter[h] + 1 ELSE counter[h]
      /\ p[1] \in Halves
  BY <1>1, ProcPairs DEF IInv, TypeOK, Counts
<1>3. TypeOK'
  <2>1. val[p] + 1 \in Nat
    BY DEF IInv, TypeOK
  <2> QED BY <1>1, <2>1, Zenon DEF IInv, TypeOK, Section
<1>4. Family'
  BY <1>1, ProcFamily, Zenon
<1>5. /\ SemLock'
      /\ \A q \in Procs : InSection(q)' <=> InSection(q)
  BY <1>1, <1>3, QuietSem, Zenon DEF Section
<1>6. OneInSection'
  BY <1>1, <1>5, SameSection, Zenon
<1>7. ASSUME NEW q \in Procs
      PROVE  /\ pc'[q] \in Section => round[q] < Rounds
             /\ pc'[q] = "stored" => q[1] = "spin"
             /\ pc'[q] = "exited" => round[q] = Rounds
             /\ pc'[q] = "read" => val'[q] = counter'[q[1]]
  <2>1. CASE q = p
    <3>1. round[p] < Rounds
      BY <1>1, Zenon DEF IInv, Counts, Section
    <3> QED BY <1>2, <2>1, <3>1, Zenon
  <2>2. CASE q # p
    <3>1. pc[q] = "read" => q[1] # p[1]
      BY <1>1, <2>2, Inside DEF IInv, OneInSection
    <3>2. q[1] \in Halves
      BY ProcPairs
    <3> QED BY <1>2, <2>2, <3>1, <3>2 DEF IInv, Counts
  <2> QED BY <2>1, <2>2
<1>8. ASSUME NEW h \in Halves PROVE counter'[h] = Cardinality(Done(h)')
  <2>1. IsFiniteSet(Done(h)) /\ Cardinality(Done(h)) \in Nat /\ counter[h] = Cardinality(Done(h))
    BY DoneBound, Zenon DEF IInv, Counts
  <2>2. CASE h = p[1]
    <3>1. /\ Done(h)' = Done(h) \cup {<<p[2], round[p]>>}
          /\ <<p[2], round[p]>> \notin Done(h)
      BY <2>2, OneMoreDone
    <3>2. Cardinality(Done(h) \cup {<<p[2], round[p]>>}) = Cardinality(Done(h)) + 1
      BY <2>1, <3>1, FS_AddElement, Zenon
    <3> QED BY <1>2, <2>1, <2>2, <3>1, <3>2, Zenon
  <2>3. CASE h # p[1]
    BY <1>2, <2>1, <2>3, OneMoreDone, Zenon
  <2> QED BY <2>2, <2>3, Zenon
<1>9. Counts'
  BY <1>1, <1>7, <1>8 DEF Counts
<1> QED BY <1>3, <1>4, <1>5, <1>6, <1>9 DEF IInv

\* A process of the semaphore's half that lives finds the semaphore there.
LEMMA SemThere ==
    ASSUME IInv, NEW p \in Procs, p[1] = "sem", pc[p] \notin {"unborn", "exited"}
    PROVE  /\ main = "halves" /\ Sem # NoSem /\ Sem \in Semaphores(Procs) /\ Orderly(Sem)
           /\ Sem.count \in {0, 1} /\ sems = [k \in {KEY} |-> Sem]
<1>1. /\ p[2] \in 1..HOLD /\ p = <<"sem", p[2]>> /\ "sem" \in Halves /\ HOLD \in Nat
      /\ parent["sem"] \in 0..(2 * HOLD)
  BY ProcPairs, CounterConstants DEF Halves, IInv, TypeOK
<1>2. p[2] <= parent["sem"] /\ ~(p[2] <= parent["sem"] - HOLD)
  <2>1. /\ pc[<<"sem", p[2]>>] = "unborn" <=> p[2] > parent["sem"]
        /\ p[2] <= parent["sem"] - HOLD => pc[<<"sem", p[2]>>] = "exited"
    BY <1>1 DEF IInv, Family
  <2> QED BY <1>1, <2>1
<1>3. parent["sem"] # 0 /\ parent["sem"] # 2 * HOLD
  BY <1>1, <1>2
<1>4. main = "halves"
  BY <1>3 DEF IInv, Family, TypeOK
<1>5. Sem # NoSem /\ Orderly(Sem) /\ Sem.count <= 1
  BY <1>4 DEF IInv, SemLock
<1>6. Sem \in Semaphores(Procs)
  BY <1>5 DEF IInv, TypeOK, Sem
<1>7. Sem.count \in {0, 1}
  BY <1>5, <1>6 DEF Semaphores
<1>8. sems = [k \in {KEY} |-> Sem]
  BY DEF IInv, TypeOK, Sem
<1> QED BY <1>4, <1>5, <1>6, <1>7, <1>8, Zenon

\* A semaphore is not the mark for no semaphore.
LEMMA SemIsNone == ASSUME NEW s \in Semaphores(Procs) PROVE s # NoSem
BY CounterConstants DEF Semaphores

\* A step of p that replaces the semaphore by s: the sections change
\* with who waits for it and with where p is.
LEMMA SemStep ==
    ASSUME IInv, NEW p \in Procs, NEW to, NEW s \in Semaphores(Procs), Sem # NoSem,
           pc' = [pc EXCEPT ![p] = to], sems' = [sems EXCEPT ![KEY] = s],
           to \in Section \cup {"top"}, UNCHANGED main, Orderly(s), s.count <= 1,
           \A q \in Waiters(s) : q[1] = "sem" /\ pc'[q] = "locked"
    PROVE  /\ sems' \in [{KEY} -> Semaphores(Procs) \cup {NoSem}]
           /\ pc' \in [Procs -> Section \cup {"unborn", "top", "exited"}]
           /\ TypeOK' => /\ \A q \in Procs : InSection(q)' <=> pc'[q] \in Section /\ q \notin Waiters(s)
                         /\ (\A q \in Procs : q[1] = "sem" /\ InSection(q)' => s.count = 0)
                                => SemLock'
<1>1. sems' \in [{KEY} -> Semaphores(Procs) \cup {NoSem}] /\ Sem' = s
  BY DEF IInv, TypeOK, Sem
<1>2. pc' \in [Procs -> Section \cup {"unborn", "top", "exited"}]
  BY DEF IInv, TypeOK
<1>3. s # NoSem
  BY SemIsNone
<1>4. ASSUME TypeOK', NEW q \in Procs PROVE InSection(q)' <=> pc'[q] \in Section /\ q \notin Waiters(s)
  <2>1. Waits(q)' <=> q \in Waiters(s)
    BY <1>1, <1>3, Zenon DEF Waits, Waiters
  <2> QED BY <1>4, <2>1, BlockedWaitsNext, Zenon DEF InSection, Section
<1>5. ASSUME \A q \in Procs : q[1] = "sem" /\ InSection(q)' => s.count = 0 PROVE SemLock'
  <2>1. Waiters(Sem)' = Waiters(s)
    BY <1>1 DEF Waiters
  <2>2. main = "halves"
    BY DEF IInv, SemLock
  <2>3. Orderly(Sem)'
    BY <1>1 DEF Orderly
  <2> QED BY <1>1, <1>3, <1>5, <2>1, <2>2, <2>3, Zenon DEF SemLock
<1> QED BY <1>1, <1>2, <1>4, <1>5, Zenon

LEMMA SemAcquireInv == ASSUME IInv, NEW p \in Procs, SemAcquire(p) PROVE IInv'
<1>1. /\ p[1] = "sem" /\ round[p] < Rounds
      /\ UNCHANGED <<bolt, round, val, counter, parent, main>>
      /\ pc[p] = "top" /\ pc' = [pc EXCEPT ![p] = "locked"] /\ ~Waits(p)
  BY GoesFacts DEF SemAcquire
<1>2. /\ Sem # NoSem /\ Sem \in Semaphores(Procs) /\ Orderly(Sem) /\ Sem.count \in {0, 1}
  BY <1>1, SemThere
<1> DEFINE s == SemWaited(Sem, p)
<1>3. sems' = [sems EXCEPT ![KEY] = s]
  BY <1>2 DEF SemAcquire, Wait, Sem
<1>4. p \notin Waiters(Sem)
  BY <1>1, <1>2, Zenon DEF Waits
<1>5. /\ s \in Semaphores(Procs) /\ Orderly(s)
      /\ Sem.count = 0 => s.count = 0 /\ Waiters(s) = Waiters(Sem) \cup {p}
      /\ Sem.count # 0 => s.count = Sem.count - 1 /\ Waiters(s) = Waiters(Sem)
  BY <1>2, <1>4, WaitedFacts
<1> HIDE DEF s
<1>6. s.count = 0
  BY <1>2, <1>5
<1>7. \A q \in Procs : pc'[q] = IF q = p THEN "locked" ELSE pc[q]
  BY <1>1 DEF IInv, TypeOK
<1>8. Waiters(Sem) \subseteq Procs /\ \A q \in Waiters(Sem) : q[1] = "sem" /\ pc[q] = "locked"
  BY <1>2, RangeWithin, Zenon DEF IInv, SemLock, Semaphores, Waiters
<1>9. \A q \in Waiters(s) : q[1] = "sem" /\ pc'[q] = "locked"
  BY <1>1, <1>5, <1>7, <1>8
<1>10. /\ sems' \in [{KEY} -> Semaphores(Procs) \cup {NoSem}]
       /\ pc' \in [Procs -> Section \cup {"unborn", "top", "exited"}]
       /\ TypeOK' => /\ \A q \in Procs :
                           InSection(q)' <=> pc'[q] \in Section /\ q \notin Waiters(s)
                     /\ SemLock'
  <2>1. "locked" \in Section \cup {"top"} /\ s.count <= 1
    BY <1>6 DEF Section
  <2>2. /\ sems' \in [{KEY} -> Semaphores(Procs) \cup {NoSem}]
        /\ pc' \in [Procs -> Section \cup {"unborn", "top", "exited"}]
        /\ TypeOK' => /\ \A q \in Procs :
                            InSection(q)' <=> pc'[q] \in Section /\ q \notin Waiters(s)
                      /\ (\A q \in Procs : q[1] = "sem" /\ InSection(q)' => s.count = 0)
                              => SemLock'
    BY <1>1, <1>2, <1>3, <1>5, <1>9, <2>1, SemStep, Zenon
  <2> QED BY <1>6, <2>2
<1>11. TypeOK'
  BY <1>1, <1>10 DEF IInv, TypeOK
<1>12. Family'
  BY <1>1, ProcFamily, Zenon
<1>13. \A q \in Procs : InSection(q) <=> pc[q] \in Section /\ q \notin Waiters(Sem)
  BY <1>2, BlockedWaits, Zenon DEF IInv, InSection, Section, Waits
<1>14. \A q \in Procs : InSection(q)' <=> InSection(q) \/ (q = p /\ Sem.count # 0)
  <2> SUFFICES ASSUME NEW q \in Procs
               PROVE  InSection(q)' <=> InSection(q) \/ (q = p /\ Sem.count # 0)
    BY Zenon
  <2>1. InSection(q)' <=> pc'[q] \in Section /\ q \notin Waiters(s)
    BY <1>10, <1>11, Zenon
  <2>2. CASE q = p
    BY <1>1, <1>4, <1>5, <1>7, <1>13, <2>1, <2>2 DEF Section
  <2>3. CASE q # p
    BY <1>4, <1>5, <1>7, <1>13, <2>1, <2>3
  <2> QED BY <2>2, <2>3, Zenon
<1>15. OneInSection'
  <2>1. Sem.count # 0 => \A q \in Procs : q[1] = "sem" => ~InSection(q)
    BY <1>2, Zenon DEF IInv, SemLock
  <2>2. \A q, r \in Procs : q[1] = r[1] /\ InSection(q)' /\ InSection(r)' => q = r
    BY <1>1, <1>14, <2>1, Zenon DEF IInv, OneInSection
  <2>3. \A i \in 1..HOLD : InSection(<<"spin", i>>)' <=> InSection(<<"spin", i>>)
    <3> SUFFICES ASSUME NEW i \in 1..HOLD
                 PROVE  InSection(<<"spin", i>>)' <=> InSection(<<"spin", i>>)
      BY Zenon
    <3>1. <<"spin", i>> \in Procs /\ <<"spin", i>>[1] = "spin"
      BY ProcPairs, Zenon DEF Halves
    <3>2. <<"spin", i>> # p
      BY <1>1, <3>1
    <3> QED BY <1>14, <3>1, <3>2, Zenon
  <2> QED BY <1>1, <2>2, <2>3, Zenon DEF IInv, OneInSection
<1>16. Counts'
  BY <1>1, CountsKept, Zenon
<1> QED BY <1>10, <1>11, <1>12, <1>15, <1>16, Zenon DEF IInv

\* The end of a round: the increment made in it stays made.
LEMMA RoundEnds ==
    ASSUME IInv, NEW p \in Procs, pc[p] = "written", pc' = [pc EXCEPT ![p] = "top"],
           round' = [round EXCEPT ![p] = @ + 1], UNCHANGED <<val, counter>>
    PROVE  Counts' /\ round' \in [Procs -> 0..Rounds]
<1>1. /\ \A q \in Procs : pc'[q] = IF q = p THEN "top" ELSE pc[q]
      /\ \A q \in Procs : round'[q] = IF q = p THEN round[p] + 1 ELSE round[q]
      /\ \A q \in Procs : round[q] \in 0..Rounds
      /\ Rounds \in Nat
  BY CounterConstants DEF IInv, TypeOK
<1>2. round[p] < Rounds
  BY DEF IInv, Counts, Section
<1>3. round' \in [Procs -> 0..Rounds]
  BY <1>1, <1>2 DEF IInv, TypeOK
<1>4. ASSUME NEW h \in Halves PROVE Done(h)' = Done(h)
  <2>1. ASSUME NEW d \in (1..HOLD) \X (0..(Rounds - 1))
        PROVE  d \in Done(h)' <=> d \in Done(h)
    <3>1. /\ <<h, d[1]>> \in Procs /\ d[2] \in 0..(Rounds - 1)
      BY ProcPairs
    <3>2. d \in Done(h) <=> \/ d[2] < round[<<h, d[1]>>]
                            \/ d[2] = round[<<h, d[1]>>] /\ pc[<<h, d[1]>>] = "written"
      BY DEF Done
    <3>3. d \in Done(h)' <=> \/ d[2] < round'[<<h, d[1]>>]
                             \/ d[2] = round'[<<h, d[1]>>] /\ pc'[<<h, d[1]>>] = "written"
      BY Zenon DEF Done
    <3>4. CASE <<h, d[1]>> = p
      BY <3>1, <3>2, <3>3, <3>4, <1>1
    <3>5. CASE <<h, d[1]>> # p
      BY <3>1, <3>2, <3>3, <3>5, <1>1, Zenon
    <3> QED BY <3>4, <3>5, Zenon
  <2>2. Done(h) \subseteq (1..HOLD) \X (0..(Rounds - 1))
        /\ Done(h)' \subseteq (1..HOLD) \X (0..(Rounds - 1))
    BY Zenon DEF Done
  <2> QED BY <2>1, <2>2, Zenon
<1>5. \A h \in Halves : counter'[h] = Cardinality(Done(h)')
  BY <1>4, Zenon DEF IInv, Counts
<1>6. ASSUME NEW q \in Procs
      PROVE  /\ pc'[q] \in Section => round'[q] < Rounds
             /\ pc'[q] = "stored" => q[1] = "spin"
             /\ pc'[q] = "exited" => round'[q] = Rounds
             /\ pc'[q] = "read" => val'[q] = counter'[q[1]]
  BY <1>1 DEF IInv, Counts, Section
<1> QED BY <1>3, <1>5, <1>6, Zenon DEF Counts

LEMMA ReleaseSpinInv == ASSUME IInv, NEW p \in Procs, Release(p), p[1] = "spin" PROVE IInv'
<1>1. /\ bolt' = FALSE /\ round' = [round EXCEPT ![p] = @ + 1]
      /\ UNCHANGED <<sems, val, counter, parent, main>>
      /\ pc[p] = "written" /\ pc' = [pc EXCEPT ![p] = "top"] /\ ~Waits(p)
      /\ InSection(p)
  BY GoesFacts DEF Release, Section
<1>2. Counts' /\ round' \in [Procs -> 0..Rounds]
  BY <1>1, RoundEnds, Zenon
<1>3. TypeOK'
  BY <1>1, <1>2, Zenon DEF IInv, TypeOK, Section
<1>4. Family'
  BY <1>1, ProcFamily, Zenon
<1>5. /\ SemLock'
      /\ \A q \in Procs : InSection(q)' <=> q # p /\ InSection(q)
  <2>1. "top" \notin Section
    BY DEF Section
  <2>2. /\ SemLock'
        /\ \A q \in Procs : InSection(q)' <=> IF q = p THEN "top" \in Section ELSE InSection(q)
    BY <1>1, <1>3, <2>1, QuietSem, Zenon
  <2> QED BY <2>1, <2>2
<1>6. OneInSection'
  <2>1. \A i \in 1..HOLD : ~InSection(<<"spin", i>>)'
    BY <1>1, <1>5, ProcPairs, Zenon DEF IInv, OneInSection, Halves
  <2> QED BY <1>1, <1>5, <2>1, Zenon DEF IInv, OneInSection
<1> QED BY <1>2, <1>3, <1>4, <1>5, <1>6, Zenon DEF IInv

LEMMA ReleaseSemInv == ASSUME IInv, NEW p \in Procs, Release(p), p[1] = "sem" PROVE IInv'
<1>1. /\ round' = [round EXCEPT ![p] = @ + 1]
      /\ UNCHANGED <<bolt, val, counter, parent, main>>
      /\ pc[p] = "written" /\ pc' = [pc EXCEPT ![p] = "top"] /\ ~Waits(p)
      /\ InSection(p) /\ Signal(KEY)
  BY GoesFacts DEF Release, Section
<1>2. Counts' /\ round' \in [Procs -> 0..Rounds]
  BY <1>1, RoundEnds, Zenon
<1>3. Sem # NoSem /\ Sem \in Semaphores(Procs) /\ Orderly(Sem) /\ Sem.count = 0
  <2>1. Sem # NoSem /\ Sem \in Semaphores(Procs) /\ Orderly(Sem)
    BY <1>1, SemThere, Zenon
  <2> QED BY <1>1, <2>1, Zenon DEF IInv, SemLock
<1> DEFINE s == SemSignalled(Sem)
<1>4. sems' = [sems EXCEPT ![KEY] = s]
  BY <1>1, <1>3, Zenon DEF Signal, Sem
<1>5. /\ s \in Semaphores(Procs) /\ Orderly(s)
      /\ Sem.queue # << >> => /\ s.count = 0 /\ Head(Sem.queue) \in Waiters(Sem)
                              /\ Waiters(s) = Waiters(Sem) \ {Head(Sem.queue)}
      /\ Sem.queue = << >> => s.count = 1 /\ Waiters(Sem) = {} /\ Waiters(s) = {}
  BY <1>3, SignalledFacts
<1> HIDE DEF s
<1>6. \A q \in Procs : pc'[q] = IF q = p THEN "top" ELSE pc[q]
  BY <1>1, Zenon DEF IInv, TypeOK
<1>7. Waiters(Sem) \subseteq Procs /\ \A q \in Waiters(Sem) : q[1] = "sem" /\ pc[q] = "locked"
  BY <1>3, RangeWithin, Zenon DEF IInv, SemLock, Semaphores, Waiters
<1>8. \A q \in Waiters(s) : q[1] = "sem" /\ pc'[q] = "locked"
  BY <1>1, <1>5, <1>6, <1>7
<1>9. /\ sems' \in [{KEY} -> Semaphores(Procs) \cup {NoSem}]
      /\ pc' \in [Procs -> Section \cup {"unborn", "top", "exited"}]
      /\ TypeOK' => /\ \A q \in Procs :
                          InSection(q)' <=> pc'[q] \in Section /\ q \notin Waiters(s)
                    /\ (\A q \in Procs : q[1] = "sem" /\ InSection(q)' => s.count = 0)
                            => SemLock'
  <2>1. "top" \in Section \cup {"top"} /\ s.count <= 1
    BY <1>5
  <2> QED BY <1>1, <1>3, <1>4, <1>5, <1>8, <2>1, SemStep, Zenon
<1>10. TypeOK'
  BY <1>1, <1>2, <1>9, Zenon DEF IInv, TypeOK
<1>11. Family'
  BY <1>1, ProcFamily, Zenon
<1>12. \A q \in Procs : InSection(q) <=> pc[q] \in Section /\ q \notin Waiters(Sem)
  BY <1>3, BlockedWaits, Zenon DEF IInv, InSection, Section, Waits
<1>13. \A q \in Procs : q[1] = "sem" /\ InSection(q) => q = p
  BY <1>1, Zenon DEF IInv, OneInSection
<1>14. "top" \notin Section /\ "locked" \in Section
  BY Zenon DEF Section
<1>15. \A q \in Procs : q[1] = "sem" =>
          (InSection(q)' <=> Sem.queue # << >> /\ q = Head(Sem.queue))
  <2> SUFFICES ASSUME NEW q \in Procs, q[1] = "sem"
               PROVE  InSection(q)' <=> Sem.queue # << >> /\ q = Head(Sem.queue)
    BY Zenon
  <2>1. InSection(q)' <=> pc'[q] \in Section /\ q \notin Waiters(s)
    BY <1>9, <1>10, Zenon
  <2>2. q # p => (pc'[q] \in Section => q \in Waiters(Sem))
    BY <1>6, <1>12, <1>13, Zenon
  <2>3. p \notin Waiters(Sem) /\ pc'[p] \notin Section
    BY <1>1, <1>6, <1>12, <1>14, Zenon
  <2>4. q \in Waiters(Sem) => pc'[q] \in Section
    BY <1>6, <1>7, <1>14, <2>3, Zenon
  <2>5. CASE Sem.queue = << >>
    BY <1>5, <2>1, <2>2, <2>3, <2>5, Zenon
  <2>6. CASE Sem.queue # << >>
    <3>1. Head(Sem.queue) \in Waiters(Sem) /\ Waiters(s) = Waiters(Sem) \ {Head(Sem.queue)}
      BY <1>5, <2>6, Zenon
    <3> QED BY <2>1, <2>2, <2>3, <2>4, <2>6, <3>1, Zenon
  <2> QED BY <2>5, <2>6, Zenon
<1>16. \A q \in Procs : q[1] = "spin" => (InSection(q)' <=> InSection(q))
  <2> SUFFICES ASSUME NEW q \in Procs, q[1] = "spin" PROVE InSection(q)' <=> InSection(q)
    BY Zenon
  <2>1. q # p /\ pc'[q] = pc[q]
    BY <1>6
  <2>2. q \notin Waiters(Sem)
    BY <1>7
  <2>3. q \notin Waiters(s)
    BY <1>5, <2>2, Zenon
  <2> QED BY <1>9, <1>10, <1>12, <2>1, <2>2, <2>3, Zenon
<1>17. SemLock'
  BY <1>5, <1>9, <1>10, <1>15, Zenon
<1>18. OneInSection'
  <2>1. \A q, r \in Procs : q[1] = r[1] /\ InSection(q)' /\ InSection(r)' => q = r
    BY <1>15, <1>16, ProcPairs DEF IInv, OneInSection, Halves
  <2>2. \A i \in 1..HOLD : InSection(<<"spin", i>>)' <=> InSection(<<"spin", i>>)
    BY <1>16, ProcPairs, Zenon DEF Halves
  <2> QED BY <1>1, <2>1, <2>2, Zenon DEF IInv, OneInSection
<1> QED BY <1>2, <1>10, <1>11, <1>17, <1>18, Zenon DEF IInv

(***************************************************************************)
(* The steps of the parents and of main.                                   *)
(***************************************************************************)

\* The arithmetic of a parent: HOLD forks, then HOLD waits.
LEMMA ParentNumbers ==
    ASSUME IInv, NEW h \in Halves
    PROVE  /\ HOLD \in Nat /\ parent[h] \in 0..(2 * HOLD)
           /\ main = "done" => parent[h] = 2 * HOLD
           /\ parent[h] < HOLD => parent[h] + 1 \in 1..HOLD
           /\ parent[h] \in HOLD..(2 * HOLD - 1) => parent[h] - HOLD + 1 \in 1..HOLD
           /\ parent[h] < 2 * HOLD => parent[h] + 1 \in 0..(2 * HOLD)
<1>1. HOLD \in Nat /\ parent[h] \in 0..(2 * HOLD)
  BY CounterConstants DEF IInv, TypeOK
<1>2. main = "done" => parent[h] = 2 * HOLD
  BY DEF IInv, Family, Halves
<1> QED BY <1>1, <1>2

LEMMA ForkNextInv == ASSUME IInv, NEW h \in Halves, ForkNext(h) PROVE IInv'
<1> DEFINE n == parent[h] + 1  p == <<h, n>>
<1>1. /\ IF h = "spin" THEN main # "forking" ELSE main = "halves"
      /\ parent[h] < HOLD /\ pc' = [pc EXCEPT ![p] = "top"]
      /\ parent' = [parent EXCEPT ![h] = n]
      /\ UNCHANGED <<sems, bolt, round, val, counter, main>>
  BY DEF ForkNext
<1>2. n \in 1..HOLD /\ p \in Procs /\ HOLD \in Nat /\ parent[h] \in 0..(2 * HOLD)
  BY <1>1, ProcPairs, ParentNumbers, Zenon
<1>3. pc[p] = "unborn"
  BY <1>2 DEF IInv, Family
<1>4. \A q \in Procs : pc'[q] = IF q = p THEN "top" ELSE pc[q]
  BY <1>1 DEF IInv, TypeOK
<1>5. \A g \in Halves : parent'[g] = IF g = h THEN n ELSE parent[g]
  BY <1>1, Zenon DEF IInv, TypeOK
<1>6. TypeOK'
  BY <1>1, <1>2 DEF IInv, TypeOK, Section
<1>7. Family'
  <2>1. ASSUME NEW g \in Halves, NEW i \in 1..HOLD
        PROVE  /\ pc'[<<g, i>>] = "unborn" <=> i > parent'[g]
               /\ i <= parent'[g] - HOLD => pc'[<<g, i>>] = "exited"
    <3>1. <<g, i>> \in Procs /\ (<<g, i>> = p <=> g = h /\ i = n)
      BY ProcPairs, Zenon
    <3>2. /\ pc[<<g, i>>] = "unborn" <=> i > parent[g]
          /\ i <= parent[g] - HOLD => pc[<<g, i>>] = "exited"
      BY Zenon DEF IInv, Family
    <3>3. CASE g = h
      BY <1>1, <1>2, <1>4, <1>5, <3>1, <3>2, <3>3
    <3>4. CASE g # h
      BY <1>4, <1>5, <3>1, <3>2, <3>4, Zenon
    <3> QED BY <3>3, <3>4, Zenon
  <2>2. parent["sem"] # 2 * HOLD \/ parent["spin"] # 2 * HOLD
    BY <1>1, <1>2 DEF Halves
  <2>3. main # "forking" /\ (h = "sem" => main = "halves") /\ main # "done"
    BY <1>1, <2>2, Zenon DEF IInv, Family, Halves
  <2>4. "spin" \in Halves /\ "sem" \in Halves
    BY Zenon DEF Halves
  <2>5. /\ main \in {"forking", "forked"} => parent'["sem"] = 0
        /\ main \in {"deleted", "done"} => parent'["sem"] = 2 * HOLD
    BY <1>5, <2>3, <2>4, Zenon DEF IInv, Family
  <2> QED BY <1>1, <2>1, <2>3, <2>5, Zenon DEF Family
<1>8. ~Waits(p)
  BY <1>3 DEF IInv, SemLock, Waits
<1>9. /\ SemLock'
      /\ \A q \in Procs : InSection(q)' <=> InSection(q)
  <2>1. ~InSection(p) /\ "top" \notin Section
    BY <1>3 DEF InSection, Section
  <2>2. /\ SemLock'
        /\ \A q \in Procs : InSection(q)' <=> IF q = p THEN "top" \in Section ELSE InSection(q)
    BY <1>1, <1>2, <1>6, <1>8, <2>1, QuietSem, Zenon
  <2> QED BY <2>1, <2>2, Zenon
<1>10. OneInSection'
  BY <1>1, <1>9, SameSection, Zenon
<1>11. Counts'
  <2>1. "top" \notin Section
    BY DEF Section
  <2> QED BY <1>1, <1>2, <1>3, <2>1, CountsKept, Zenon
<1> QED BY <1>6, <1>7, <1>9, <1>10, <1>11, Zenon DEF IInv

\* A step that moves no process and changes no counter: the sections, the
\* increments and, if the semaphore stays, its lock are as they were.
LEMMA NobodyMoves ==
    ASSUME IInv, UNCHANGED <<bolt, pc, round, val, counter>>
    PROVE  /\ Counts'
           /\ sems' = sems /\ main' = main => SemLock'
           /\ (\A q \in Procs : Blocked(q)' <=> Blocked(q)) => OneInSection'
<1>1. ASSUME NEW h \in Halves PROVE Done(h)' = Done(h)
  BY SameDone, Zenon
<1>2. Counts'
  BY <1>1 DEF IInv, Counts
<1>3. ASSUME \A q \in Procs : Blocked(q)' <=> Blocked(q) PROVE OneInSection'
  <2>1. \A q \in Procs : InSection(q)' <=> InSection(q)
    BY <1>3, Zenon DEF InSection
  <2> QED BY <2>1, SameSection
<1>4. ASSUME sems' = sems, main' = main PROVE SemLock'
  <2>1. Sem' = Sem /\ (Waiters(Sem))' = Waiters(Sem) /\ (Orderly(Sem))' = Orderly(Sem)
    BY <1>4 DEF Sem, Waiters, Orderly
  <2>2. \A q \in Procs : InSection(q)' <=> InSection(q)
    BY <1>4 DEF InSection, Blocked
  <2> QED BY <1>4, <2>1, <2>2, Zenon DEF IInv, SemLock
<1> QED BY <1>2, <1>3, <1>4, Zenon

LEMMA SameSems ==
    ASSUME UNCHANGED sems PROVE \A q \in Procs : Blocked(q)' <=> Blocked(q)
BY DEF Blocked

LEMMA WaitNextInv == ASSUME IInv, NEW h \in Halves, WaitNext(h) PROVE IInv'
<1> DEFINE n == parent[h] + 1  k == parent[h] - HOLD + 1
<1>1. /\ parent[h] \in HOLD..(2 * HOLD - 1) /\ pc[<<h, k>>] = "exited"
      /\ parent' = [parent EXCEPT ![h] = n]
      /\ UNCHANGED <<sems, bolt, pc, round, val, counter, main>>
  BY DEF WaitNext
<1>2. HOLD \in Nat /\ n \in 0..(2 * HOLD) /\ k \in 1..HOLD
  <2>1. HOLD \in Nat
    BY CounterConstants, Zenon
  <2> QED BY <1>1, <2>1
<1>3. TypeOK'
  BY <1>1, <1>2, Zenon DEF IInv, TypeOK
<1>4. Family'
  <2>1. \A g \in Halves : parent'[g] = IF g = h THEN n ELSE parent[g]
    BY <1>1, Zenon DEF IInv, TypeOK
  <2>2. ASSUME NEW g \in Halves, NEW i \in 1..HOLD
        PROVE  /\ pc[<<g, i>>] = "unborn" <=> i > parent'[g]
               /\ i <= parent'[g] - HOLD => pc[<<g, i>>] = "exited"
    <3>1. /\ pc[<<g, i>>] = "unborn" <=> i > parent[g]
          /\ i <= parent[g] - HOLD => pc[<<g, i>>] = "exited"
      BY DEF IInv, Family
    <3>2. CASE g = h /\ i = k
      <4>1. parent'[g] = n /\ pc[<<g, i>>] = "exited"
        BY <1>1, <2>1, <3>2, Zenon
      <4>2. ~(i > n)
        BY <1>1, <1>2, <3>2
      <4> QED BY <4>1, <4>2
    <3>3. CASE g = h /\ i # k
      BY <1>1, <1>2, <2>1, <3>1, <3>3
    <3>4. CASE g # h
      BY <2>1, <3>1, <3>4, Zenon
    <3> QED BY <3>2, <3>3, <3>4, Zenon
  <2>3. parent[h] # 2 * HOLD /\ parent[h] # 0
    <3>1. parent[h] # 2 * HOLD
      BY <1>1, <1>2
    <3>2. HOLD # 0
      BY <1>2
    <3> QED BY <1>1, <1>2, <3>1, <3>2
  <2>4. "spin" \in Halves /\ "sem" \in Halves /\ (h = "spin" \/ h = "sem")
    BY Zenon DEF Halves
  <2> QED BY <1>1, <2>1, <2>2, <2>3, <2>4 DEF IInv, Family
<1>5. SemLock' /\ Counts' /\ OneInSection'
  BY <1>1, NobodyMoves, SameSems, Zenon
<1> QED BY <1>3, <1>4, <1>5, Zenon DEF IInv

LEMMA ForkChildInv == ASSUME IInv, ForkChild PROVE IInv'
<1>1. /\ main = "forking" /\ main' = "forked"
      /\ UNCHANGED <<sems, bolt, pc, round, val, counter, parent>>
  BY Zenon DEF ForkChild
<1>2. TypeOK' /\ Family'
  BY <1>1 DEF IInv, TypeOK, Family
<1>3. Counts' /\ OneInSection'
  BY <1>1, NobodyMoves, SameSems, Zenon
<1>4. SemLock'
  <2>1. Sem' = Sem /\ Sem = NoSem
    BY <1>1 DEF IInv, SemLock, Sem
  <2> QED BY <1>1, <2>1, Zenon DEF SemLock
<1> QED BY <1>2, <1>3, <1>4, Zenon DEF IInv

LEMMA CreateSemInv == ASSUME IInv, CreateSem PROVE IInv'
<1>1. /\ main = "forked" /\ main' = "halves" /\ sems' = [sems EXCEPT ![KEY] = NewSem(1)]
      /\ UNCHANGED <<bolt, pc, round, val, counter, parent>>
  BY DEF CreateSem
<1>2. /\ NewSem(1) \in Semaphores(Procs) /\ Orderly(NewSem(1))
      /\ NewSem(1).count = 1 /\ Waiters(NewSem(1)) = {} /\ NewSem(1) # NoSem
  BY NewSemFacts, SemIsNone, Zenon
<1>3. Sem = NoSem /\ Sem' = NewSem(1)
  BY <1>1, Zenon DEF IInv, TypeOK, SemLock, Sem
<1>4. TypeOK'
  BY <1>1, <1>2, Zenon DEF IInv, TypeOK
<1>5. Family'
  BY <1>1 DEF IInv, Family
<1>6. \A q \in Procs : ~Blocked(q) /\ ~Blocked(q)'
  <2>1. \A q \in Procs : ~Waits(q) /\ ~Waits(q)'
    BY <1>2, <1>3, Zenon DEF Waits
  <2> QED BY <1>4, <2>1, BlockedWaits, BlockedWaitsNext, Zenon DEF IInv
<1>7. Counts' /\ OneInSection'
  BY <1>1, <1>6, NobodyMoves, Zenon
<1>8. SemLock'
  <2>1. \A q \in Procs : q[1] = "sem" => pc[q] = "unborn"
    <3>1. parent["sem"] = 0 /\ "sem" \in Halves
      BY <1>1 DEF IInv, Family, Halves
    <3>2. \A i \in 1..HOLD : i > 0
      BY CounterConstants
    <3>3. \A i \in 1..HOLD : pc[<<"sem", i>>] = "unborn"
      BY <3>1, <3>2, Zenon DEF IInv, Family
    <3> QED BY <3>3, ProcPairs
  <2>2. \A q \in Procs : q[1] = "sem" => ~InSection(q)'
    BY <1>1, <2>1, Zenon DEF InSection
  <2>3. Waiters(Sem)' = {} /\ Orderly(Sem)'
    BY <1>2, <1>3, Zenon DEF Waiters, Orderly
  <2> QED BY <1>1, <1>2, <1>3, <2>2, <2>3 DEF SemLock
<1> QED BY <1>4, <1>5, <1>7, <1>8, Zenon DEF IInv

\* When its parent has waited for all of it, a half is gone.
LEMMA HalfGone ==
    ASSUME IInv, NEW h \in Halves, parent[h] = 2 * HOLD
    PROVE  \A i \in 1..HOLD : pc[<<h, i>>] = "exited"
<1>1. \A i \in 1..HOLD : i <= parent[h] - HOLD
  <2>1. HOLD \in Nat
    BY CounterConstants, Zenon
  <2> QED BY <2>1
<1> QED BY <1>1 DEF IInv, Family

LEMMA DeleteSemInv == ASSUME IInv, DeleteSem PROVE IInv'
<1>1. /\ main = "halves" /\ parent["sem"] = 2 * HOLD /\ main' = "deleted"
      /\ sems' = [sems EXCEPT ![KEY] = NoSem]
      /\ UNCHANGED <<bolt, pc, round, val, counter, parent>>
  BY Zenon DEF DeleteSem, RemoveSem
<1>2. Sem' = NoSem
  BY <1>1, Zenon DEF IInv, TypeOK, Sem
<1>3. TypeOK'
  BY <1>1, Zenon DEF IInv, TypeOK
<1>4. Family'
  BY <1>1 DEF IInv, Family
<1>5. \A q \in Procs : ~Blocked(q) /\ ~Blocked(q)'
  <2>1. \A q \in Procs : q[1] = "sem" => pc[q] = "exited"
    BY <1>1, HalfGone, ProcPairs DEF Halves
  <2>2. \A q \in Procs : ~Waits(q)
    BY <2>1 DEF IInv, SemLock, Waits
  <2>3. \A q \in Procs : ~Waits(q)'
    BY <1>2 DEF Waits
  <2> QED BY <1>3, <2>2, <2>3, BlockedWaits, BlockedWaitsNext, Zenon DEF IInv
<1>6. Counts' /\ OneInSection'
  BY <1>1, <1>5, NobodyMoves, Zenon
<1>7. SemLock'
  BY <1>1, <1>2, Zenon DEF SemLock
<1> QED BY <1>3, <1>4, <1>6, <1>7 DEF IInv

LEMMA PrintResultsInv == ASSUME IInv, PrintResults PROVE IInv'
<1>1. /\ main = "deleted" /\ parent["spin"] = 2 * HOLD /\ main' = "done"
      /\ UNCHANGED <<sems, bolt, pc, round, val, counter, parent>>
  BY Zenon DEF PrintResults
<1>2. TypeOK' /\ Family'
  BY <1>1 DEF IInv, TypeOK, Family
<1>3. Counts' /\ OneInSection'
  BY <1>1, NobodyMoves, SameSems, Zenon
<1>4. SemLock'
  <2>1. Sem' = Sem /\ Sem = NoSem
    BY <1>1 DEF IInv, SemLock, Sem
  <2> QED BY <1>1, <2>1, Zenon DEF SemLock
<1> QED BY <1>2, <1>3, <1>4 DEF IInv

LEMMA InitInv == Init => IInv
<1> SUFFICES ASSUME Init PROVE IInv
  OBVIOUS
<1>1. TypeOK
  <2>1. HOLD \in Nat /\ Rounds \in Nat
    BY CounterConstants
  <2>2. 0 \in 0..Rounds /\ 0 \in 0..(2 * HOLD)
    BY <2>1
  <2> QED BY <2>2, Zenon DEF Init, TypeOK
<1>2. Family
  <2>1. HOLD \in Nat
    BY CounterConstants, Zenon
  <2> QED BY <2>1, ProcPairs DEF Init, Family, Halves
<1>3. SemLock
  BY DEF Init, SemLock, Sem
<1>4. OneInSection
  BY ProcPairs, Zenon DEF Init, OneInSection, InSection, Halves
<1>5. ASSUME NEW h \in Halves PROVE counter[h] = Cardinality(Done(h))
  <2>1. ASSUME NEW d \in Done(h) PROVE FALSE
    <3>1. d \in (1..HOLD) \X (0..(Rounds - 1)) /\ <<h, d[1]>> \in Procs
      BY ProcPairs, Zenon DEF Done
    <3>2. d[2] < 0 \/ (d[2] = 0 /\ "unborn" = "written")
      BY <3>1 DEF Done, Init
    <3> QED BY <3>1, <3>2, CounterConstants
  <2>2. Done(h) = {}
    BY <2>1, Zenon
  <2> QED BY <2>2, FS_EmptySet, Zenon DEF Init
<1>6. Counts
  BY <1>5 DEF Init, Counts, Section
<1> QED BY <1>1, <1>2, <1>3, <1>4, <1>6, Zenon DEF IInv

LEMMA NextInv == ASSUME IInv, [Next]_vars PROVE IInv'
<1>1. ASSUME NEW p \in Procs, Proc(p) PROVE IInv'
  <2>1. CASE Release(p)
    <3>1. p[1] = "spin" \/ p[1] = "sem"
      BY ProcPairs, Zenon DEF Halves
    <3> QED BY <2>1, <3>1, ReleaseSpinInv, ReleaseSemInv, Zenon
  <2> QED BY <1>1, <2>1, AcquireInv, AcquireStoreInv, SemAcquireInv, ReadCounterInv,
             WriteCounterInv, ExitInv, Zenon DEF Proc
<1>2. ASSUME NEW h \in Halves, Parent(h) PROVE IInv'
  BY <1>2, ForkNextInv, WaitNextInv, Zenon DEF Parent
<1>3. CASE Main
  BY <1>3, ForkChildInv, CreateSemInv, DeleteSemInv, PrintResultsInv, Zenon DEF Main
<1>4. CASE UNCHANGED vars
  <2>1. UNCHANGED <<sems, bolt, pc, round, val, counter, parent, main>>
    BY <1>4, Zenon DEF vars
  <2>2. TypeOK' /\ Family'
    BY <2>1 DEF IInv, TypeOK, Family
  <2> QED BY <2>1, <2>2, NobodyMoves, SameSems, Zenon DEF IInv
<1> QED BY <1>1, <1>2, <1>3, <1>4, Zenon DEF Next, Finished

(***************************************************************************)
(* The theorems                                                            *)
(***************************************************************************)

\* The inductive invariant holds in every state.
LEMMA Invariance == Spec => []IInv
<1>1. Init => IInv
  BY InitInv
<1>2. IInv /\ [Next]_vars => IInv'
  BY NextInv
<1> QED BY <1>1, <1>2, PTL DEF Spec

\* SpinLock and Semaphore exclude, for every number of processes: at most one
\* process of a half is between its acquire and its release, and the spin
\* lock's bolt is set exactly while one is, though acquire stores it twice.
THEOREM LocksExclude == Spec => []OneInSection
<1>1. IInv => OneInSection
  BY Zenon DEF IInv
<1> QED BY <1>1, Invariance, PTL

\* sys_del_sem comes when every process that used the semaphore has exited,
\* because main waits for each of the processes that it forked.
THEOREM SemDeletedUnused == Spec => []DeletedUnused
<1>1. IInv => DeletedUnused
  <2> SUFFICES ASSUME IInv, main \in {"deleted", "done"}
               PROVE  \A i \in 1..HOLD : pc[<<"sem", i>>] = "exited"
    BY Zenon DEF DeletedUnused
  <2>1. parent["sem"] = 2 * HOLD /\ "sem" \in Halves
    BY Zenon DEF IInv, Family, Halves
  <2> QED BY <2>1, HalfGone
<1> QED BY <1>1, Invariance, PTL

\* When all have exited every increment has been made.
LEMMA AllDone ==
    ASSUME IInv, NEW h \in Halves, parent[h] = 2 * HOLD
    PROVE  counter[h] = HOLD * Rounds
<1>1. ASSUME NEW d \in (1..HOLD) \X (0..(Rounds - 1)) PROVE d \in Done(h)
  <2>1. d[1] \in 1..HOLD /\ d[2] \in 0..(Rounds - 1) /\ <<h, d[1]>> \in Procs /\ Rounds \in Nat
    BY ProcPairs, CounterConstants, Zenon
  <2>2. pc[<<h, d[1]>>] = "exited"
    BY <2>1, HalfGone, Zenon
  <2>3. round[<<h, d[1]>>] = Rounds
    BY <2>1, <2>2, Zenon DEF IInv, Counts
  <2>4. d[2] < round[<<h, d[1]>>]
    BY <2>1, <2>3
  <2> QED BY <2>4, Zenon DEF Done
<1>2. Done(h) = (1..HOLD) \X (0..(Rounds - 1))
  BY <1>1, Zenon DEF Done
<1> QED BY <1>2, DoneBound, Zenon DEF IInv, Counts, Increments

\* Every step of the program is a step of the tally, or none.
LEMMA TallyStep == ASSUME IInv, IInv', [Next]_vars PROVE [Tal!Next]_(Tal!tally)
<1> USE DEF Tal!tally
<1>1. ASSUME NEW p \in Procs, WriteCounter(p) PROVE Tal!Next
  <2>1. /\ p[1] \in Halves /\ HOLD \in Nat /\ Rounds \in Nat
        /\ counter' = [counter EXCEPT ![p[1]] = val[p] + 1]
        /\ pc[p] = "read" /\ main' = main
    BY <1>1, ProcPairs, CounterConstants, Zenon DEF WriteCounter, Goes
  <2>2. val[p] = counter[p[1]] /\ counter \in [Halves -> Nat]
    BY <2>1, Zenon DEF IInv, Counts, TypeOK
  <2>3. /\ counter'[p[1]] = Cardinality(Done(p[1])')
        /\ Done(p[1])' = Done(p[1]) \cup {<<p[2], round[p]>>}
    BY <1>1, <2>1, OneMoreDone, Zenon DEF IInv, Counts
  <2>4. Cardinality(Done(p[1])') <= HOLD * Rounds
    <3>1. Done(p[1])' \in SUBSET Increments
      BY Zenon DEF Done, Increments
    <3> QED BY <3>1, IncrementsBound, Zenon
  <2>5. counter[p[1]] + 1 <= HOLD * Rounds
    BY <2>1, <2>2, <2>3, <2>4, Zenon
  <2>6. counter[p[1]] < HOLD * Rounds
    <3>1. HOLD * Rounds \in Nat /\ counter[p[1]] \in Nat
      BY <2>1, <2>2
    <3> QED BY <2>5, <3>1
  <2>7. Tal!Increment(p[1])
    BY <2>1, <2>2, <2>6, Zenon DEF Tal!Increment
  <2> QED BY <2>1, <2>7, Zenon DEF Tal!Next
<1>2. CASE PrintResults
  <2>1. /\ main = "deleted" /\ main' = "done" /\ parent["spin"] = 2 * HOLD /\ counter' = counter
    BY <1>2, Zenon DEF PrintResults
  <2>2. parent["sem"] = 2 * HOLD
    BY <2>1, Zenon DEF IInv, Family
  <2>3. \A h \in Halves : counter[h] = HOLD * Rounds
    BY <2>1, <2>2, AllDone, Zenon DEF Halves
  <2>4. counter = [h \in Halves |-> HOLD * Rounds]
    BY <2>3 DEF IInv, TypeOK
  <2> QED BY <2>1, <2>4, Zenon DEF Tal!Next, Tal!PrintAll
<1>3. ASSUME UNCHANGED counter, main' = "done" <=> main = "done" PROVE UNCHANGED Tal!tally
  BY <1>3, Zenon
<1>4. ASSUME NEW p \in Procs, Proc(p), ~WriteCounter(p) PROVE UNCHANGED <<counter, main>>
  BY <1>4, Zenon DEF Proc, Acquire, AcquireStore, SemAcquire, ReadCounter, Release, Exit
<1>5. ASSUME NEW h \in Halves, Parent(h) PROVE UNCHANGED <<counter, main>>
  BY <1>5, Zenon DEF Parent, ForkNext, WaitNext
<1>6. CASE Main /\ ~PrintResults
  BY <1>3, <1>6, Zenon DEF Main, ForkChild, CreateSem, DeleteSem
<1>7. CASE UNCHANGED vars
  BY <1>3, <1>7, Zenon DEF vars
<1> QED BY <1>1, <1>2, <1>3, <1>4, <1>5, <1>6, <1>7, Zenon DEF Next, Finished

\* The read and the later write of inc_counter and of inc_counter_sem are one
\* atomic increment, no increment is lost under either lock, and the results
\* are printed only when both counters are HOLD * Rounds.
THEOREM CountersExact == Spec => Tal!Safe
<1>1. Init => Tal!Init
  BY DEF Init, Tal!Init
<1>2. IInv /\ IInv' /\ [Next]_vars => [Tal!Next]_(Tal!tally)
  BY TallyStep
<1> QED BY <1>1, <1>2, Invariance, PTL DEF Spec, Tal!Safe
=============================================================================
