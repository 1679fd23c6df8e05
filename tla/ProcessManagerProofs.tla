------------------------ MODULE ProcessManagerProofs ------------------------
(***************************************************************************)
(* Proofs about ProcessManager for every number of processes, keys, counts *)
(* and exit codes.  The inductive invariant is IInv; the argument is one   *)
(* lemma about switch_next and one step per system call.  What disciplined *)
(* programs get more, and the life of a process, come after it.            *)
(***************************************************************************)
EXTENDS ProcessManager, QueueLemmas

(***************************************************************************)
(* switch_next                                                             *)
(***************************************************************************)

\* What holds of the queue and the statuses whenever switch_next is called:
\* the caller has been saved and pushed last, or has blocked or died.
PreSwitch(q, st, codes) ==
    /\ q \in Seq(Pids) /\ st \in [Pids -> Statuses]
    /\ codes \in [Pids -> Int \cup {NoExit}]
    /\ IsInjective(q)
    /\ \A p \in Pids : st[p] = "Ready" => p \in Range(q)
    /\ \A p \in Pids : p \in Range(q) => st[p] \in {"Ready", "Dead"}
    /\ \A p \in Pids : st[p] # "Running"
    /\ st[KERNEL_PID] = "Ready" /\ codes[KERNEL_PID] = NoExit
    /\ current \in Range(q) => q[Len(q)] = current
    /\ current \in Pids /\ power = "on"

\* What switch_next leaves: a caller that may run, and every other Ready
\* process still in the queue.
PostSwitch(q, st, codes) ==
    /\ readyQueue' \in Seq(Pids) /\ status' \in [Pids -> Statuses]
    /\ current' \in Pids /\ power' \in {"on", "panic"}
    /\ \A p \in Pids : status'[p] = st[p] \/ (st[p] = "Ready" /\ status'[p] = "Running")
    /\ Range(readyQueue') \subseteq Range(q)
    /\ power' = "on" =>
        /\ codes[current'] = NoExit
        /\ status'[current'] = "Running"
            \/ (current' = KERNEL_PID /\ status'[current'] = "Ready")
        /\ \A p \in Pids : status'[p] = "Running" => p = current'
        /\ current' \notin Range(readyQueue')
        /\ \A p \in Pids : status'[p] = "Ready" /\ p # current' => p \in Range(readyQueue')
        /\ IsInjective(readyQueue')
        /\ \A p \in Pids : p \in Range(readyQueue') => status'[p] \in {"Ready", "Dead"}

LEMMA KernelInPids == KERNEL_PID \in Pids
BY PidBound DEF PidBound, Pids, KERNEL_PID

\* switch_next, called as the kernel calls it, hands the CPU to the first
\* Ready process of the queue, or panics because that one was killed.
LEMMA SwitchNextOK ==
    ASSUME NEW q, NEW st, NEW codes, PreSwitch(q, st, codes), SwitchNext(q, st, codes)
    PROVE  PostSwitch(q, st, codes)
<1> USE DEF PreSwitch
<1>1. DOMAIN q = 1..Len(q) /\ Len(q) \in Nat /\ \A i \in 1..Len(q) : q[i] \in Pids
  BY SeqFacts, Zenon
<1>2. PICK k \in 1..Len(q) : q[k] = KERNEL_PID
  BY <1>1, KernelInPids, Zenon DEF Range
<1>3. k \in ReadyIndices(q, st)
  BY <1>1, <1>2, Zenon DEF ReadyIndices
<1>4. PICK i \in ReadyIndices(q, st) :
        /\ \A j \in ReadyIndices(q, st) : i <= j
        /\ readyQueue' = SubSeq(q, i + 1, Len(q))
        /\ IF q[i] = current
           THEN status' = st /\ UNCHANGED <<current, power>>
           ELSE IF HasVm(q[i], codes)
           THEN /\ status' = [st EXCEPT ![q[i]] = "Running"]
                /\ current' = q[i]
                /\ UNCHANGED power
           ELSE status' = st /\ power' = "panic" /\ UNCHANGED current
  BY <1>3, Zenon DEF SwitchNext
<1>5. i \in 1..Len(q) /\ st[q[i]] = "Ready" /\ q[i] \in Pids /\ i <= k
  BY <1>1, <1>3, <1>4, Zenon DEF ReadyIndices
<1>6. /\ readyQueue' \in Seq(Pids)
      /\ Range(readyQueue') \subseteq Range(q)
      /\ IsInjective(readyQueue')
      /\ q[i] \notin Range(readyQueue')
      /\ \A j \in 1..Len(q) : j > i => q[j] \in Range(readyQueue')
  <2>1. IsInjective(q) /\ q \in Seq(Pids)
    BY Zenon
  <2>2. i \in 1..Len(q)
    BY <1>5, Zenon
  <2> HIDE DEF PreSwitch
  <2>3. readyQueue' = Drop(q, i)
    BY <1>4, Zenon DEF Drop
  <2> QED BY ONLY <2>1, <2>2, <2>3, DropRange, Zenon
<1>10. ASSUME NEW p \in Pids, st[p] = "Ready", p # q[i] PROVE p \in Range(readyQueue')
  <2>1. PICK j \in 1..Len(q) : q[j] = p
    BY <1>1, <1>10, Zenon DEF Range
  <2>2. i <= j /\ i # j
    BY <1>1, <1>4, <1>10, <2>1, Zenon DEF ReadyIndices
  <2> QED BY <1>5, <1>6, <2>1, <2>2
<1>11. q[i] = current => current = KERNEL_PID
  <2> SUFFICES ASSUME q[i] = current PROVE current = KERNEL_PID
    BY Zenon
  <2>1. q[Len(q)] = current
    BY <1>1, <1>5, Zenon DEF Range
  <2>2. Len(q) \in 1..Len(q)
    BY <1>1, <1>5
  <2>3. i >= Len(q)
    BY <1>1, <1>5, <2>1, <2>2 DEF IsInjective
  <2>4. k = i
    BY <1>1, <1>2, <1>5, <2>3
  <2> QED BY <1>2, <2>4, Zenon
<1>12. CASE q[i] = current
  BY <1>4, <1>5, <1>6, <1>10, <1>11, <1>12, Zenon DEF PostSwitch
<1>13. CASE q[i] # current /\ HasVm(q[i], codes)
  <2>1. status' = [st EXCEPT ![q[i]] = "Running"] /\ current' = q[i] /\ power' = "on"
    BY <1>4, <1>13, Zenon
  <2>2. status' \in [Pids -> Statuses] /\ status'[q[i]] = "Running"
        /\ \A p \in Pids : p # q[i] => status'[p] = st[p]
    BY <1>5, <2>1, Zenon DEF Statuses
  <2> QED BY <1>5, <1>6, <1>10, <1>13, <2>1, <2>2, Zenon DEF PostSwitch, HasVm
<1>14. CASE q[i] # current /\ ~HasVm(q[i], codes)
  BY <1>4, <1>6, <1>14, Zenon DEF PostSwitch
<1> QED BY <1>12, <1>13, <1>14, Zenon

(***************************************************************************)
(* Changes of one wait structure                                           *)
(***************************************************************************)

QueueOf(s) == IF s = NoSem THEN << >> ELSE s.queue

\* One semaphore is replaced; whoever is in its new queue was in the old one
\* or did not wait anywhere.
LEMMA SemChange ==
    ASSUME TypeOK, WaitsApart, NEW g \in Pids, NEW k \in SemKeys,
           NEW s \in Sems \cup {NoSem}, sems' = [sems EXCEPT ![g][k] = s],
           waitQueue' = waitQueue, IsInjective(QueueOf(s)),
           \A p \in Range(QueueOf(s)) :
                p \in Range(SemQueue(g, k)) \/ (~OnSem(p) /\ ~OnExit(p))
    PROVE  /\ WaitsApart'
           /\ sems' \in [Pids -> [SemKeys -> Sems \cup {NoSem}]]
           /\ \A p \in Pids : OnExit(p)' <=> OnExit(p)
           /\ \A p \in Pids : OnSem(p)' => OnSem(p) \/ p \in Range(QueueOf(s))
           /\ \A p \in Pids : p \in Range(SemQueue(g, k)) /\ OnSem(p)' => p \in Range(QueueOf(s))
           /\ \A p \in Pids : OnSem(p) => OnSem(p)' \/ p \in Range(SemQueue(g, k))
           /\ \A p \in Pids : p \in Range(QueueOf(s)) => OnSem(p)'
<1>1. sems' \in [Pids -> [SemKeys -> Sems \cup {NoSem}]]
  BY Zenon DEF TypeOK
<1>2. \A h \in Pids, l \in SemKeys : sems'[h][l] = IF h = g /\ l = k THEN s ELSE sems[h][l]
  BY Zenon DEF TypeOK
<1>3. \A h \in Pids, l \in SemKeys : SemQueue(h, l) = QueueOf(sems[h][l])
  BY Zenon DEF SemQueue, QueueOf
<1>4. \A h \in Pids, l \in SemKeys : SemQueue(h, l)' = QueueOf(sems'[h][l])
  BY Zenon DEF SemQueue, QueueOf
<1>5. \A h \in Pids, l \in SemKeys :
        SemQueue(h, l)' = IF h = g /\ l = k THEN QueueOf(s) ELSE SemQueue(h, l)
  BY <1>2, <1>3, <1>4
<1>6. \A p \in Pids : OnExit(p)' <=> OnExit(p)
  BY Zenon DEF OnExit
<1>7. \A p \in Pids : OnSem(p)' => OnSem(p) \/ p \in Range(QueueOf(s))
  BY <1>5, Zenon DEF OnSem
<1>8. \A p \in Pids : p \in Range(SemQueue(g, k)) /\ OnSem(p)' => p \in Range(QueueOf(s))
  BY <1>5 DEF OnSem, WaitsApart
<1>9. WaitsApart'
  <2>1. \A p \in Pids : ~(OnSem(p)' /\ OnExit(p)')
    BY <1>6, <1>7, Zenon DEF OnSem, WaitsApart
  <2>2. \A p, q, r \in Pids : p \in waitQueue'[q] /\ p \in waitQueue'[r] => q = r
    BY Zenon DEF WaitsApart
  <2>3. \A h \in Pids, l \in SemKeys : IsInjective(SemQueue(h, l)')
    BY <1>5, Zenon DEF WaitsApart
  <2>4. ASSUME NEW p \in Pids, NEW h \in Pids, NEW m \in Pids, NEW j \in SemKeys, NEW l \in SemKeys,
               p \in Range(SemQueue(h, j)'), p \in Range(SemQueue(m, l)')
        PROVE  h = m /\ j = l
    BY <1>5, <2>4 DEF OnSem, WaitsApart
  <2> QED BY <2>1, <2>2, <2>3, <2>4 DEF WaitsApart
<1>10. /\ \A p \in Pids : OnSem(p) => OnSem(p)' \/ p \in Range(SemQueue(g, k))
       /\ \A p \in Pids : p \in Range(QueueOf(s)) => OnSem(p)'
  BY <1>5, Zenon DEF OnSem
<1> QED BY <1>1, <1>6, <1>7, <1>8, <1>9, <1>10, Zenon

\* One entry of wait_queue is replaced; whoever is in the new one was in the
\* old one or did not wait anywhere.
LEMMA ExitChange ==
    ASSUME TypeOK, WaitsApart, NEW q \in Pids, NEW S \in SUBSET Pids,
           waitQueue' = [waitQueue EXCEPT ![q] = S], sems' = sems,
           \A p \in S : p \in waitQueue[q] \/ (~OnSem(p) /\ ~OnExit(p))
    PROVE  /\ WaitsApart'
           /\ waitQueue' \in [Pids -> SUBSET Pids]
           /\ \A p \in Pids : OnSem(p)' <=> OnSem(p)
           /\ \A p \in Pids : OnExit(p)' => OnExit(p) \/ p \in S
           /\ \A p \in Pids : p \in waitQueue[q] /\ OnExit(p)' => p \in S
           /\ \A p \in Pids : OnExit(p) => OnExit(p)' \/ p \in waitQueue[q]
           /\ \A p \in S : OnExit(p)'
<1>1. waitQueue' \in [Pids -> SUBSET Pids]
  BY Zenon DEF TypeOK
<1>2. \A r \in Pids : waitQueue'[r] = IF r = q THEN S ELSE waitQueue[r]
  BY Zenon DEF TypeOK
<1>3. \A h \in Pids, l \in SemKeys : SemQueue(h, l)' = SemQueue(h, l)
  BY Zenon DEF SemQueue
<1>4. \A p \in Pids : OnSem(p)' <=> OnSem(p)
  BY <1>3, Zenon DEF OnSem
<1>5. \A p \in Pids : OnExit(p)' => OnExit(p) \/ p \in S
  BY <1>2, Zenon DEF OnExit
<1>6. \A p \in Pids : p \in waitQueue[q] /\ OnExit(p)' => p \in S
  BY <1>2 DEF OnExit, WaitsApart, TypeOK
<1>7. WaitsApart'
  BY <1>2, <1>3, <1>4 DEF OnExit, WaitsApart
<1>8. /\ \A p \in Pids : OnExit(p) => OnExit(p)' \/ p \in waitQueue[q]
      /\ \A p \in S : OnExit(p)'
  BY <1>2, Zenon DEF OnExit
<1> QED BY <1>1, <1>4, <1>5, <1>6, <1>7, <1>8, Zenon

LEMMA NoChange ==
    ASSUME WaitsApart, waitQueue' = waitQueue, sems' = sems
    PROVE  /\ WaitsApart'
           /\ \A p \in Pids : OnSem(p)' <=> OnSem(p)
           /\ \A p \in Pids : OnExit(p)' <=> OnExit(p)
BY DEF WaitsApart, OnSem, OnExit, SemQueue

(***************************************************************************)
(* The inductive step                                                      *)
(***************************************************************************)

\* The types of the variables that switch_next leaves alone.
RestTypeOK ==
    /\ nextPid \in 2..(MaxPid + 1)
    /\ rax \in [Pids -> Int \cup {SysNr}]
    /\ semSet \in [Pids -> Pids]
    /\ sems \in [Pids -> [SemKeys -> Sems \cup {NoSem}]]
    /\ waitQueue \in [Pids -> SUBSET Pids]
    /\ initPid \in Pids \cup {0}

\* What a handler establishes before its call of switch_next gives IInv after.
LEMMA SwitchInv ==
    ASSUME NEW q, NEW st, PreSwitch(q, st, exitCode'), SwitchNext(q, st, exitCode'),
           RestTypeOK', WaitsApart', NoMissedExit', NoIdleUnits',
           ~OnSem(KERNEL_PID)', ~OnExit(KERNEL_PID)',
           \A p \in Pids : OnSem(p)' \/ OnExit(p)' =>
                              st[p] \in {"Blocked", "Dead"} /\ p \notin Range(q),
           \A p \in Pids : p >= nextPid' => st[p] = "None"
    PROVE  IInv'
<1>1. PostSwitch(q, st, exitCode')
  BY SwitchNextOK, Zenon
<1>2. exitCode' \in [Pids -> Int \cup {NoExit}] /\ exitCode'[KERNEL_PID] = NoExit
      /\ st[KERNEL_PID] = "Ready"
  BY Zenon DEF PreSwitch
<1>3. TypeOK'
  BY <1>1, <1>2, Zenon DEF PostSwitch, TypeOK, RestTypeOK
<1>4. CpuHeldByOne'
  BY <1>1, Zenon DEF PostSwitch, CpuHeldByOne, Queued
<1>5. ReadyIsQueued'
  BY <1>1, Zenon DEF PostSwitch, ReadyIsQueued, Queued
<1>6. KernelIsRunnable'
  BY <1>1, <1>2, KernelInPids, Zenon DEF PostSwitch, KernelIsRunnable
<1>7. WaitsInOnePlace'
  BY <1>1, Zenon DEF PostSwitch, WaitsInOnePlace, Queued
<1>8. FreshPids'
  BY <1>1, Zenon DEF PostSwitch, FreshPids
<1> QED BY <1>3, <1>4, <1>5, <1>6, <1>7, <1>8, Zenon DEF IInv

\* A caller that has the CPU waits nowhere.
LEMMA CurrentFree ==
    ASSUME IInv, power = "on"
    PROVE  /\ current \in Pids /\ ~OnSem(current) /\ ~OnExit(current) /\ ~Queued(current)
           /\ status[current] \in {"Running", "Ready"} /\ exitCode[current] = NoExit
           /\ current # KERNEL_PID => status[KERNEL_PID] = "Ready"
BY KernelInPids, Zenon DEF IInv, TypeOK, CpuHeldByOne, WaitsInOnePlace, KernelIsRunnable

LEMMA ClockInv == ASSUME IInv, Clock PROVE IInv'
<1> DEFINE q == Append(readyQueue, current)
<1>1. power = "on" /\ SwitchNext(q, Saved, exitCode')
      /\ UNCHANGED <<nextPid, exitCode, rax, semSet, sems, waitQueue, initPid>>
  BY Zenon DEF Clock
<1>2. /\ q \in Seq(Pids) /\ Range(q) = Range(readyQueue) \cup {current} /\ IsInjective(q)
  BY <1>1, CurrentFree, AppendRange DEF IInv, TypeOK, ReadyIsQueued, Queued
<1>3. Len(q) = Len(readyQueue) + 1 /\ q[Len(readyQueue) + 1] = current
  BY CurrentFree, <1>1, AppendFacts DEF IInv, TypeOK
<1> HIDE DEF q
<1>4. /\ Saved \in [Pids -> Statuses] /\ Saved[current] = "Ready"
      /\ \A p \in Pids : p # current => Saved[p] = status[p]
  BY <1>1, CurrentFree, Zenon DEF Saved, IInv, TypeOK, Statuses
<1>5. PreSwitch(q, Saved, exitCode')
  BY <1>1, <1>2, <1>3, <1>4, CurrentFree, KernelInPids, Zenon
  DEF PreSwitch, IInv, TypeOK, ReadyIsQueued, CpuHeldByOne, KernelIsRunnable, Queued
<1>6. RestTypeOK' /\ NoMissedExit' /\ NoIdleUnits'
  BY <1>1, Zenon DEF IInv, TypeOK, RestTypeOK, NoMissedExit, NoIdleUnits
<1>7. /\ WaitsApart'
      /\ \A p \in Pids : OnSem(p)' <=> OnSem(p)
      /\ \A p \in Pids : OnExit(p)' <=> OnExit(p)
  BY <1>1, NoChange, Zenon DEF IInv, WaitsInOnePlace
<1>8. \A p \in Pids : OnSem(p)' \/ OnExit(p)' =>
                          Saved[p] \in {"Blocked", "Dead"} /\ p \notin Range(q)
  BY <1>1, <1>2, <1>4, <1>7, CurrentFree, Zenon DEF IInv, WaitsInOnePlace, Queued
<1>9. \A p \in Pids : p >= nextPid' => Saved[p] = "None"
  BY <1>1, <1>4, CurrentFree, Zenon DEF IInv, FreshPids
<1> QED BY <1>1, <1>5, <1>6, <1>7, <1>8, <1>9, SwitchInv, KernelInPids, Zenon DEF IInv, KernelIsRunnable

\* A handler that leaves the scheduler alone keeps its part of IInv.
LEMMA QuietInv ==
    ASSUME IInv, UNCHANGED <<status, exitCode, readyQueue, current, power, nextPid>>,
           RestTypeOK', WaitsApart', NoMissedExit', NoIdleUnits',
           \A p \in Pids : OnSem(p)' \/ OnExit(p)' => OnSem(p) \/ OnExit(p)
    PROVE  IInv'
<1>1. TypeOK' /\ FreshPids'
  BY Zenon DEF IInv, TypeOK, RestTypeOK, FreshPids
<1>2. CpuHeldByOne' /\ ReadyIsQueued'
  BY Zenon DEF IInv, CpuHeldByOne, ReadyIsQueued, Queued
<1>3. KernelIsRunnable' /\ WaitsInOnePlace'
  BY KernelInPids, Zenon DEF IInv, KernelIsRunnable, WaitsInOnePlace, Queued
<1> QED BY <1>1, <1>2, <1>3, Zenon DEF IInv

LEMMA ReturnsType ==
    ASSUME IInv, NEW v \in Int \cup {SysNr}, Returns(v)
    PROVE  rax' \in [Pids -> Int \cup {SysNr}]
BY Zenon DEF Returns, IInv, TypeOK

LEMMA PidsInt == Pids \subseteq Int
BY PidBound DEF PidBound, Pids, KERNEL_PID

\* A new process, Ready and queued, as spawn leaves it.
LEMMA NewProcessInv ==
    ASSUME IInv, power = "on", NEW p \in Pids, Create(p, p),
           status' = [status EXCEPT ![p] = "Ready"],
           readyQueue' = Append(readyQueue, p),
           initPid' \in Pids \cup {0}, rax' \in [Pids -> Int \cup {SysNr}],
           UNCHANGED <<exitCode, sems, waitQueue, current, power>>
    PROVE  IInv'
<1>1. p >= nextPid /\ status[p] = "None" /\ p # current /\ p # KERNEL_PID
  BY CurrentFree, KernelInPids, PidsInt
     DEF Create, IInv, FreshPids, CpuHeldByOne, KernelIsRunnable
<1>2. ~Queued(p) /\ ~OnSem(p) /\ ~OnExit(p)
  BY <1>1, Zenon DEF IInv, ReadyIsQueued, WaitsInOnePlace
<1>3. readyQueue' \in Seq(Pids) /\ Range(readyQueue') = Range(readyQueue) \cup {p}
      /\ IsInjective(readyQueue')
  BY <1>2, AppendRange DEF IInv, TypeOK, ReadyIsQueued, Queued
<1>4. /\ status' \in [Pids -> Statuses] /\ status'[p] = "Ready"
      /\ \A r \in Pids : r # p => status'[r] = status[r]
  BY Zenon DEF IInv, TypeOK, Statuses
<1>5. nextPid' \in 2..(MaxPid + 1) /\ \A r \in Pids : r >= nextPid' => r >= nextPid /\ r # p
  BY PidBound, PidsInt DEF PidBound, Create, IInv, TypeOK
<1>6. semSet' \in [Pids -> Pids]
  BY Zenon DEF Create, IInv, TypeOK
<1>7. TypeOK'
  BY <1>3, <1>4, <1>5, <1>6, Zenon DEF IInv, TypeOK
<1>8. FreshPids'
  BY <1>4, <1>5, Zenon DEF IInv, FreshPids
<1>9. CpuHeldByOne'
  BY <1>1, <1>3, <1>4, Zenon DEF IInv, TypeOK, CpuHeldByOne, Queued
<1>10. ReadyIsQueued'
  BY <1>3, <1>4, Zenon DEF IInv, TypeOK, ReadyIsQueued, Queued
<1>11. /\ WaitsApart'
       /\ \A r \in Pids : OnSem(r)' <=> OnSem(r)
       /\ \A r \in Pids : OnExit(r)' <=> OnExit(r)
  BY NoChange, Zenon DEF IInv, WaitsInOnePlace
<1>12. KernelIsRunnable' /\ WaitsInOnePlace'
  BY <1>1, <1>2, <1>3, <1>4, <1>11, KernelInPids, Zenon DEF IInv, KernelIsRunnable, WaitsInOnePlace, Queued
<1>13. NoMissedExit' /\ NoIdleUnits'
  BY Zenon DEF IInv, NoMissedExit, NoIdleUnits
<1> QED BY <1>7, <1>8, <1>9, <1>10, <1>12, <1>13, Zenon DEF IInv

LEMMA SpawnInitInv == ASSUME IInv, SpawnInit PROVE IInv'
<1>1. PICK p \in Pids :
        /\ Create(p, p)
        /\ status' = [status EXCEPT ![p] = "Ready"]
        /\ readyQueue' = Append(readyQueue, p)
        /\ initPid' = p
  BY Zenon DEF SpawnInit, Launch
<1>2. power = "on" /\ UNCHANGED <<exitCode, rax, sems, waitQueue, current, power>>
  BY Zenon DEF SpawnInit, Launch
<1>3. initPid' \in Pids \cup {0} /\ rax' \in [Pids -> Int \cup {SysNr}]
  BY <1>1, <1>2, Zenon DEF IInv, TypeOK
<1> QED BY <1>1, <1>2, <1>3, NewProcessInv, Zenon

LEMMA SpawnInv == ASSUME IInv, NEW found \in BOOLEAN, Spawn(found) PROVE IInv'
<1>1. power = "on" /\ UNCHANGED <<exitCode, sems, waitQueue, current, initPid, power>>
  BY Zenon DEF Spawn, InUser
<1>2. CASE found
  <2>1. PICK p \in Pids :
          /\ Create(p, p)
          /\ status' = [status EXCEPT ![p] = "Ready"]
          /\ readyQueue' = Append(readyQueue, p)
          /\ Returns(p)
    BY <1>2, Zenon DEF Spawn, Launch
  <2>2. initPid' \in Pids \cup {0} /\ rax' \in [Pids -> Int \cup {SysNr}]
    BY <1>1, <2>1, PidsInt, ReturnsType, Zenon DEF IInv, TypeOK
  <2> QED BY <1>1, <2>1, <2>2, NewProcessInv, Zenon
<1>3. CASE ~found
  <2>1. Returns(0) /\ UNCHANGED <<nextPid, semSet, status, readyQueue>>
    BY <1>3, Zenon DEF Spawn, Launch
  <2>2. RestTypeOK' /\ NoMissedExit' /\ NoIdleUnits'
    BY <1>1, <2>1, ReturnsType DEF IInv, TypeOK, RestTypeOK, NoMissedExit, NoIdleUnits
  <2> QED BY <1>1, <2>1, <2>2, NoChange, QuietInv, Zenon DEF IInv, WaitsInOnePlace
<1> QED BY <1>2, <1>3, Zenon

LEMMA KernelWaitInv == ASSUME IInv, KernelWait PROVE IInv'
<1>1. power' = "off" /\ UNCHANGED <<nextPid, status, exitCode, rax, semSet, sems, readyQueue,
                                    waitQueue, current, initPid>>
  BY Zenon DEF KernelWait
<1>2. TypeOK' /\ FreshPids' /\ NoMissedExit' /\ NoIdleUnits'
  BY <1>1, Zenon DEF IInv, TypeOK, FreshPids, NoMissedExit, NoIdleUnits
<1>3. CpuHeldByOne' /\ ReadyIsQueued'
  BY <1>1, Zenon DEF CpuHeldByOne, ReadyIsQueued
<1>4. KernelIsRunnable' /\ WaitsInOnePlace'
  BY <1>1, NoChange, KernelInPids, Zenon DEF IInv, KernelIsRunnable, WaitsInOnePlace, Queued
<1> QED BY <1>2, <1>3, <1>4, Zenon DEF IInv

LEMMA ForkInv == ASSUME IInv, Fork PROVE IInv'
<1>1. power = "on" /\ current # KERNEL_PID /\ UNCHANGED <<exitCode, sems, waitQueue, initPid>>
  BY Zenon DEF Fork, InUser
<1>2. PICK p \in Pids :
        /\ Create(p, semSet[current])
        /\ rax' = [rax EXCEPT ![current] = p, ![p] = 0]
        /\ SwitchNext(Append(Append(readyQueue, p), current),
                      [Saved EXCEPT ![p] = "Ready"], exitCode)
  BY Zenon DEF Fork, Forked, ForkQueue
<1> DEFINE q1 == Append(readyQueue, p)
           q == Append(q1, current)
           st == [Saved EXCEPT ![p] = "Ready"]
<1>3. p >= nextPid /\ status[p] = "None" /\ p # current /\ p # KERNEL_PID
  BY <1>1, <1>2, CurrentFree, KernelInPids, PidsInt
     DEF Create, IInv, FreshPids, CpuHeldByOne, KernelIsRunnable
<1>4. ~Queued(p) /\ ~OnSem(p) /\ ~OnExit(p)
  BY <1>1, <1>3, Zenon DEF IInv, ReadyIsQueued, WaitsInOnePlace
<1>5. q1 \in Seq(Pids) /\ Range(q1) = Range(readyQueue) \cup {p} /\ IsInjective(q1)
  BY <1>1, <1>4, AppendRange DEF IInv, TypeOK, ReadyIsQueued, Queued
<1> HIDE DEF q1
<1>6. q \in Seq(Pids) /\ Range(q) = Range(readyQueue) \cup {p, current} /\ IsInjective(q)
  BY <1>1, <1>3, <1>5, CurrentFree, AppendRange DEF Queued
<1>7. Len(q) = Len(q1) + 1 /\ q[Len(q1) + 1] = current
  BY <1>1, <1>5, CurrentFree, AppendFacts
<1> HIDE DEF q
<1>8. /\ st \in [Pids -> Statuses] /\ st[p] = "Ready" /\ st[current] = "Ready"
      /\ \A r \in Pids : r # p /\ r # current => st[r] = status[r]
  BY <1>1, <1>3, CurrentFree, Zenon DEF Saved, IInv, TypeOK, Statuses
<1>9. SwitchNext(q, st, exitCode')
  BY <1>1, <1>2, Zenon DEF q, q1
<1> HIDE DEF st
<1>10. PreSwitch(q, st, exitCode')
  BY <1>1, <1>6, <1>7, <1>8, CurrentFree, KernelInPids, Zenon
  DEF PreSwitch, IInv, TypeOK, ReadyIsQueued, CpuHeldByOne, KernelIsRunnable, Queued
<1>11. nextPid' \in 2..(MaxPid + 1) /\ \A r \in Pids : r >= nextPid' => r >= nextPid /\ r # p
  BY <1>2, PidBound, PidsInt DEF PidBound, Create, IInv, TypeOK
<1>12. semSet' \in [Pids -> Pids] /\ rax' \in [Pids -> Int \cup {SysNr}]
  BY <1>1, <1>2, CurrentFree, PidsInt DEF Create, IInv, TypeOK
<1>13. RestTypeOK' /\ NoMissedExit' /\ NoIdleUnits'
  BY <1>1, <1>11, <1>12, Zenon DEF IInv, TypeOK, RestTypeOK, NoMissedExit, NoIdleUnits
<1>14. /\ WaitsApart'
       /\ \A r \in Pids : OnSem(r)' <=> OnSem(r)
       /\ \A r \in Pids : OnExit(r)' <=> OnExit(r)
  BY <1>1, NoChange, Zenon DEF IInv, WaitsInOnePlace
<1>15. \A r \in Pids : OnSem(r)' \/ OnExit(r)' =>
                          st[r] \in {"Blocked", "Dead"} /\ r \notin Range(q)
  BY <1>1, <1>4, <1>6, <1>8, <1>14, CurrentFree, Zenon DEF IInv, WaitsInOnePlace, Queued
<1>16. \A r \in Pids : r >= nextPid' => st[r] = "None"
  BY <1>1, <1>8, <1>11, CurrentFree, Zenon DEF IInv, FreshPids
<1> QED BY <1>9, <1>10, <1>13, <1>14, <1>15, <1>16, SwitchInv, KernelInPids, Zenon
        DEF IInv, KernelIsRunnable

\* The state in which a blocking handler calls switch_next.
LEMMA BlockPre ==
    ASSUME IInv, power = "on", current # KERNEL_PID, exitCode' = exitCode,
           NEW st, st = [status EXCEPT ![current] = "Blocked"]
    PROVE  /\ PreSwitch(readyQueue, st, exitCode')
           /\ st[current] = "Blocked"
           /\ \A p \in Pids : p # current => st[p] = status[p]
<1>1. /\ st \in [Pids -> Statuses] /\ st[current] = "Blocked"
      /\ \A p \in Pids : p # current => st[p] = status[p]
  BY CurrentFree, Zenon DEF IInv, TypeOK, Statuses
<1>2. PreSwitch(readyQueue, st, exitCode')
  BY <1>1, CurrentFree, KernelInPids, Zenon
  DEF PreSwitch, IInv, TypeOK, ReadyIsQueued, CpuHeldByOne, KernelIsRunnable, Queued
<1> QED BY <1>1, <1>2, Zenon

LEMMA WaitPidInv == ASSUME IInv, NEW q \in Pids, WaitPid(q) PROVE IInv'
<1>1. power = "on" /\ current # KERNEL_PID /\ UNCHANGED <<nextPid, exitCode, semSet, sems, initPid>>
  BY Zenon DEF WaitPid, InUser
<1>2. CASE exitCode[q] # NoExit
  <2>1. Returns(exitCode[q]) /\ UNCHANGED <<waitQueue, status, readyQueue, current, power>>
    BY <1>2, Zenon DEF WaitPid, BlockCurrent
  <2>2. RestTypeOK' /\ NoMissedExit' /\ NoIdleUnits'
    BY <1>1, <1>2, <2>1, ReturnsType, Zenon DEF IInv, TypeOK, RestTypeOK, NoMissedExit, NoIdleUnits
  <2> QED BY <1>1, <2>1, <2>2, NoChange, QuietInv, ZenonT(30) DEF IInv, WaitsInOnePlace
<1>3. CASE exitCode[q] = NoExit
  <2> DEFINE st == [status EXCEPT ![current] = "Blocked"]
             S == waitQueue[q] \cup {current}
  <2>1. waitQueue' = [waitQueue EXCEPT ![q] = S] /\ Returns(SysNr)
        /\ SwitchNext(readyQueue, st, exitCode')
    BY <1>1, <1>3, Zenon DEF WaitPid, BlockCurrent
  <2>2. /\ PreSwitch(readyQueue, st, exitCode')
        /\ st[current] = "Blocked"
        /\ \A p \in Pids : p # current => st[p] = status[p]
    BY <1>1, BlockPre, Zenon
  <2> HIDE DEF st
  <2>3. S \in SUBSET Pids /\ \A p \in S : p \in waitQueue[q] \/ (~OnSem(p) /\ ~OnExit(p))
    BY <1>1, CurrentFree, Zenon DEF IInv, TypeOK
  <2>4. \A p \in S : p = current \/ OnExit(p)
    BY Zenon DEF OnExit
  <2> HIDE DEF S
  <2>5. /\ WaitsApart'
        /\ waitQueue' \in [Pids -> SUBSET Pids]
        /\ \A p \in Pids : OnSem(p)' <=> OnSem(p)
        /\ \A p \in Pids : OnExit(p)' => OnExit(p) \/ p \in S
    BY <1>1, <2>1, <2>3, ExitChange, Zenon DEF IInv, WaitsInOnePlace
  <2>6. RestTypeOK'
    BY <1>1, <2>1, <2>5, ReturnsType, Zenon DEF IInv, TypeOK, RestTypeOK
  <2>7. NoMissedExit' /\ NoIdleUnits'
    BY <1>1, <1>3, <2>1, Zenon DEF IInv, TypeOK, NoMissedExit, NoIdleUnits
  <2>8. \A p \in Pids : OnSem(p)' \/ OnExit(p)' =>
                          st[p] \in {"Blocked", "Dead"} /\ p \notin Range(readyQueue)
    BY <1>1, <2>2, <2>4, <2>5, CurrentFree, Zenon DEF IInv, WaitsInOnePlace, Queued
  <2>9. \A p \in Pids : p >= nextPid' => st[p] = "None"
    BY <1>1, <2>2, CurrentFree, Zenon DEF IInv, FreshPids
  <2>10. ~OnSem(KERNEL_PID)' /\ ~OnExit(KERNEL_PID)'
    BY <1>1, <2>4, <2>5, KernelInPids, Zenon DEF IInv, KernelIsRunnable
  <2> QED BY <2>1, <2>2, <2>5, <2>6, <2>7, <2>8, <2>9, <2>10, SwitchInv, Zenon
<1> QED BY <1>2, <1>3, Zenon

\* A semaphore from its two fields, and what the operations make of it.
LEMMA MakeSem ==
    ASSUME NEW c \in Nat, NEW t \in Seq(Pids), NEW s, s = [count |-> c, queue |-> t]
    PROVE  s \in Sems /\ s # NoSem /\ s.count = c /\ s.queue = t /\ QueueOf(s) = t
BY Markers DEF Markers, Sems, QueueOf

LEMMA SemOfOps ==
    ASSUME NEW k, NEW c \in Nat, NEW t \in Seq(Pids), SemOf(k) = [count |-> c, queue |-> t]
    PROVE  /\ c = 0 => SemWaited(SemOf(k), current) = [count |-> 0, queue |-> Append(t, current)]
           /\ c # 0 => SemWaited(SemOf(k), current) = [count |-> c - 1, queue |-> t]
           /\ t # << >> => SemSignalled(SemOf(k)) = [count |-> c, queue |-> Tail(t)]
           /\ t = << >> => SemSignalled(SemOf(k)) = [count |-> c + 1, queue |-> t]
           /\ Blocks(SemOf(k)) <=> c = 0
           /\ Wakes(SemOf(k)) <=> t # << >>
<1> DEFINE s == SemOf(k)
<1>1. s = [count |-> c, queue |-> t]
  OBVIOUS
<1> HIDE DEF s
<1>2. s.count = c /\ s.queue = t
  BY <1>1, Zenon
<1>3. \A u : [s EXCEPT !.queue = u] = [count |-> c, queue |-> u]
  BY <1>1
<1>4. \A n : [s EXCEPT !.count = n] = [count |-> n, queue |-> t]
  BY <1>1
<1>5. /\ SemWaited(s, current) = IF c = 0 THEN [count |-> c, queue |-> Append(t, current)]
                                          ELSE [count |-> c - 1, queue |-> t]
      /\ SemSignalled(s) = IF t # << >> THEN [count |-> c, queue |-> Tail(t)]
                                        ELSE [count |-> c + 1, queue |-> t]
      /\ (Blocks(s) <=> c = 0) /\ (Wakes(s) <=> t # << >>)
  BY <1>2, <1>3, <1>4, Zenon DEF SemWaited, SemSignalled, Blocks, Wakes
<1> QED BY <1>5, Zenon DEF s

LEMMA EmptyPids == << >> \in Seq(Pids)
BY EmptyFacts, Zenon

\* The caller's semaphore under key k, and the queue in it.
LEMMA SemOfType ==
    ASSUME IInv, power = "on", NEW k \in SemKeys
    PROVE  /\ semSet[current] \in Pids
           /\ SemOf(k) \in Sems \cup {NoSem}
           /\ SemOf(k) # NoSem =>
                /\ SemOf(k).count \in Nat /\ SemOf(k).queue \in Seq(Pids)
                /\ SemOf(k) = [count |-> SemOf(k).count, queue |-> SemOf(k).queue]
                /\ SemQueue(semSet[current], k) = SemOf(k).queue
                /\ IsInjective(SemOf(k).queue)
                /\ SemOf(k).count = 0 \/ SemOf(k).queue = << >>
<1>1. semSet[current] \in Pids
  BY Zenon DEF IInv, TypeOK
<1>2. SemOf(k) \in Sems \cup {NoSem}
  BY <1>1 DEF SemOf, IInv, TypeOK
<1>3. SemOf(k) # NoSem => SemQueue(semSet[current], k) = SemOf(k).queue
  BY Zenon DEF SemQueue, SemOf
<1>4. IsInjective(SemQueue(semSet[current], k))
  BY <1>1, Zenon DEF IInv, WaitsInOnePlace, WaitsApart
<1>5. SemOf(k) # NoSem => SemOf(k).count = 0 \/ SemOf(k).queue = << >>
  BY <1>1, Zenon DEF IInv, NoIdleUnits, SemOf
<1> QED BY <1>1, <1>2, <1>3, <1>4, <1>5, Zenon DEF Sems

LEMMA SemFields ==
    ASSUME IInv, power = "on", NEW k \in SemKeys, SemOf(k) # NoSem
    PROVE  \E c \in Nat, t \in Seq(Pids) :
              /\ SemOf(k) = [count |-> c, queue |-> t]
              /\ SemQueue(semSet[current], k) = t
              /\ IsInjective(t) /\ (c = 0 \/ t = << >>)
BY SemOfType, Zenon

\* NoIdleUnits when one semaphore is replaced.
LEMMA UnitsChange ==
    ASSUME IInv, NEW g \in Pids, NEW k \in SemKeys, NEW s \in Sems \cup {NoSem},
           sems' = [sems EXCEPT ![g][k] = s],
           s # NoSem => s.count = 0 \/ s.queue = << >>
    PROVE  NoIdleUnits'
<1>1. \A h \in Pids, l \in SemKeys : sems'[h][l] = IF h = g /\ l = k THEN s ELSE sems[h][l]
  BY Zenon DEF IInv, TypeOK
<1> QED BY <1>1 DEF IInv, NoIdleUnits

\* sem_new and sem_remove put an empty queue in the place of the old one.
LEMMA ReplaceInv ==
    ASSUME IInv, power = "on", NEW k \in SemKeys, NEW s \in Sems \cup {NoSem}, SetSem(k, s),
           QueueOf(s) = << >>, NEW v \in Int, Returns(v),
           UNCHANGED <<nextPid, status, exitCode, semSet, readyQueue, waitQueue, current,
                       initPid, power>>
    PROVE  IInv'
<1> DEFINE g == semSet[current]
<1>1. g \in Pids
  BY SemOfType, Zenon
<1>2. sems' = [sems EXCEPT ![g][k] = s]
  BY Zenon DEF SetSem
<1> HIDE DEF g
<1>3. IsInjective(QueueOf(s)) /\ Range(QueueOf(s)) = {}
  BY DEF IsInjective, Range
<1>4. /\ WaitsApart'
      /\ sems' \in [Pids -> [SemKeys -> Sems \cup {NoSem}]]
      /\ \A p \in Pids : OnExit(p)' <=> OnExit(p)
      /\ \A p \in Pids : OnSem(p)' => OnSem(p) \/ p \in Range(QueueOf(s))
  BY <1>1, <1>2, <1>3, SemChange, Zenon DEF IInv, WaitsInOnePlace
<1>5. NoIdleUnits'
  BY <1>1, <1>2, UnitsChange, Zenon DEF QueueOf
<1>6. RestTypeOK' /\ NoMissedExit'
  BY <1>4, ReturnsType, Zenon DEF IInv, TypeOK, RestTypeOK, NoMissedExit
<1> QED BY <1>3, <1>4, <1>5, <1>6, QuietInv, Zenon

LEMMA NewSemOK ==
    ASSUME NEW v \in SemInits PROVE NewSem(v) \in Sems /\ QueueOf(NewSem(v)) = << >>
<1>1. NewSem(v) \in Sems /\ NewSem(v).queue = << >> /\ NewSem(v) # NoSem
  BY Values, EmptyPids, MakeSem, Zenon DEF Values, NewSem
<1> QED BY <1>1, Zenon DEF QueueOf

LEMMA NewSemaphoreInv ==
    ASSUME IInv, NEW k \in SemKeys, NEW v \in SemInits, NewSemaphore(k, v) PROVE IInv'
<1>1. SetSem(k, NewSem(v)) /\ \E n \in {0, 1} : Returns(n)
  BY Zenon DEF NewSemaphore
<1> QED BY <1>1, NewSemOK, ReplaceInv DEF NewSemaphore, InUser

LEMMA RemoveSemaphoreInv ==
    ASSUME IInv, NEW k \in SemKeys, RemoveSemaphore(k) PROVE IInv'
<1>1. SetSem(k, NoSem) /\ \E n \in {0, 1} : Returns(n)
  BY Zenon DEF RemoveSemaphore
<1>2. QueueOf(NoSem) = << >>
  BY Zenon DEF QueueOf
<1> QED BY <1>1, <1>2, ReplaceInv DEF RemoveSemaphore, InUser

\* sem_wait on a semaphore with units takes one; nobody is queued there.
LEMMA SemWaitTakes ==
    ASSUME IInv, NEW k \in SemKeys, SemWait(k), SemOf(k) # NoSem, ~Blocks(SemOf(k))
    PROVE  /\ \E s \in Sems : SetSem(k, s) /\ QueueOf(s) = << >>
           /\ SemQueue(semSet[current], k) = << >>
           /\ Returns(0) /\ UNCHANGED <<status, readyQueue, current, power>>
<1>1. power = "on"
  BY Zenon DEF SemWait, InUser
<1> DEFINE s == SemWaited(SemOf(k), current)
<1>2. PICK c \in Nat, t \in Seq(Pids) :
          /\ SemOf(k) = [count |-> c, queue |-> t] /\ SemQueue(semSet[current], k) = t
          /\ (c = 0 \/ t = << >>)
  BY <1>1, SemFields, Zenon
<1>3. c # 0 /\ s = [count |-> c - 1, queue |-> t]
  BY <1>2, SemOfOps, Zenon
<1>4. SetSem(k, s) /\ Returns(0) /\ UNCHANGED <<status, readyQueue, current, power>>
  BY Zenon DEF SemWait, BlockCurrent
<1> HIDE DEF s
<1>5. s \in Sems /\ QueueOf(s) = t
  <2>1. c - 1 \in Nat
    BY <1>3
  <2>2. s = [count |-> c - 1, queue |-> t]
    BY <1>3, Zenon
  <2> QED BY ONLY <2>1, <2>2, MakeSem, t \in Seq(Pids)
<1> QED BY <1>2, <1>3, <1>4, <1>5, Zenon

\* sem_wait on a semaphore without units queues the caller and nobody else.
LEMMA SemWaitBlocks ==
    ASSUME IInv, NEW k \in SemKeys, SemWait(k), SemOf(k) # NoSem, Blocks(SemOf(k))
    PROVE  /\ Returns(SysNr)
           /\ SwitchNext(readyQueue, [status EXCEPT ![current] = "Blocked"], exitCode')
           /\ WaitsApart' /\ NoIdleUnits'
           /\ sems' \in [Pids -> [SemKeys -> Sems \cup {NoSem}]]
           /\ \A p \in Pids : OnExit(p)' <=> OnExit(p)
           /\ \A p \in Pids : OnSem(p)' <=> OnSem(p) \/ p = current
<1> DEFINE g == semSet[current]
           s == SemWaited(SemOf(k), current)
<1>1. power = "on" /\ UNCHANGED <<exitCode, waitQueue>>
  BY Zenon DEF SemWait, InUser
<1>2. g \in Pids
  BY <1>1, SemOfType, Zenon
<1>3. PICK c \in Nat, t \in Seq(Pids) :
          SemOf(k) = [count |-> c, queue |-> t] /\ SemQueue(g, k) = t /\ IsInjective(t)
  BY <1>1, SemFields, Zenon
<1>4. s = [count |-> 0, queue |-> Append(t, current)]
  BY <1>3, SemOfOps, Zenon
<1>5. Returns(SysNr) /\ sems' = [sems EXCEPT ![g][k] = s]
      /\ SwitchNext(readyQueue, [status EXCEPT ![current] = "Blocked"], exitCode')
  BY <1>1, Zenon DEF SemWait, SetSem, BlockCurrent
<1>6. current \in Pids /\ current \notin Range(t) /\ ~OnSem(current) /\ ~OnExit(current)
  BY <1>1, <1>2, <1>3, CurrentFree, Zenon DEF OnSem
<1>7. /\ Append(t, current) \in Seq(Pids) /\ IsInjective(Append(t, current))
      /\ Range(Append(t, current)) = Range(t) \cup {current}
  BY <1>3, <1>6, AppendRange
<1> HIDE DEF s, g
<1>8. s \in Sems /\ s # NoSem /\ s.count = 0 /\ QueueOf(s) = Append(t, current)
  <2> DEFINE u == Append(t, current)
  <2>1. s = [count |-> 0, queue |-> u] /\ u \in Seq(Pids) /\ 0 \in Nat
    BY <1>4, <1>7, Zenon
  <2> HIDE DEF u
  <2>2. s \in Sems /\ s # NoSem /\ s.count = 0 /\ QueueOf(s) = u
    BY ONLY <2>1, MakeSem
  <2> QED BY <2>2, Zenon DEF u
<1>9. \A p \in Range(QueueOf(s)) :
          p \in Range(SemQueue(g, k)) \/ (~OnSem(p) /\ ~OnExit(p))
  BY <1>3, <1>6, <1>7, <1>8, Zenon
<1>10. /\ WaitsApart'
       /\ sems' \in [Pids -> [SemKeys -> Sems \cup {NoSem}]]
       /\ \A p \in Pids : OnExit(p)' <=> OnExit(p)
       /\ \A p \in Pids : OnSem(p)' => OnSem(p) \/ p \in Range(QueueOf(s))
       /\ \A p \in Pids : OnSem(p) => OnSem(p)' \/ p \in Range(SemQueue(g, k))
       /\ \A p \in Pids : p \in Range(QueueOf(s)) => OnSem(p)'
  BY <1>1, <1>2, <1>5, <1>7, <1>8, <1>9, SemChange, Zenon DEF IInv, WaitsInOnePlace
<1>11. \A p \in Pids : OnSem(p)' <=> OnSem(p) \/ p = current
  BY <1>2, <1>3, <1>6, <1>7, <1>8, <1>10, Zenon DEF OnSem
<1>12. NoIdleUnits'
  BY <1>2, <1>5, <1>8, UnitsChange, Zenon
<1> QED BY <1>5, <1>10, <1>11, <1>12, Zenon

LEMMA SemWaitInv == ASSUME IInv, NEW k \in SemKeys, SemWait(k) PROVE IInv'
<1>1. power = "on" /\ current # KERNEL_PID
      /\ UNCHANGED <<nextPid, exitCode, semSet, waitQueue, initPid>>
  BY Zenon DEF SemWait, InUser
<1>2. CASE SemOf(k) = NoSem
  <2>1. Returns(1) /\ UNCHANGED <<sems, status, readyQueue, current, power>>
    BY <1>2, Zenon DEF SemWait, BlockCurrent
  <2>2. RestTypeOK' /\ NoMissedExit' /\ NoIdleUnits'
    BY <1>1, <2>1, ReturnsType DEF IInv, TypeOK, RestTypeOK, NoMissedExit, NoIdleUnits
  <2> QED BY <1>1, <2>1, <2>2, NoChange, QuietInv, Zenon DEF IInv, WaitsInOnePlace
<1>3. CASE SemOf(k) # NoSem /\ ~Blocks(SemOf(k))
  BY <1>1, <1>3, SemWaitTakes, ReplaceInv
<1>4. CASE SemOf(k) # NoSem /\ Blocks(SemOf(k))
  <2> DEFINE st == [status EXCEPT ![current] = "Blocked"]
  <2>1. /\ Returns(SysNr) /\ SwitchNext(readyQueue, st, exitCode')
        /\ WaitsApart' /\ NoIdleUnits'
        /\ sems' \in [Pids -> [SemKeys -> Sems \cup {NoSem}]]
        /\ \A p \in Pids : OnExit(p)' <=> OnExit(p)
        /\ \A p \in Pids : OnSem(p)' <=> OnSem(p) \/ p = current
    BY <1>4, SemWaitBlocks, Zenon
  <2>2. /\ PreSwitch(readyQueue, st, exitCode')
        /\ st[current] = "Blocked"
        /\ \A p \in Pids : p # current => st[p] = status[p]
    BY <1>1, BlockPre, Zenon
  <2> HIDE DEF st
  <2>3. RestTypeOK' /\ NoMissedExit'
    BY <1>1, <2>1, ReturnsType, Zenon DEF IInv, TypeOK, RestTypeOK, NoMissedExit
  <2>4. \A p \in Pids : OnSem(p)' \/ OnExit(p)' =>
                          st[p] \in {"Blocked", "Dead"} /\ p \notin Range(readyQueue)
    BY <1>1, <2>1, <2>2, CurrentFree, Zenon DEF IInv, WaitsInOnePlace, Queued
  <2>5. \A p \in Pids : p >= nextPid' => st[p] = "None"
    BY <1>1, <2>2, CurrentFree, Zenon DEF IInv, FreshPids
  <2>6. ~OnSem(KERNEL_PID)' /\ ~OnExit(KERNEL_PID)'
    BY <1>1, <2>1, KernelInPids, Zenon DEF IInv, KernelIsRunnable
  <2> QED BY <2>1, <2>2, <2>3, <2>4, <2>5, <2>6, SwitchInv, Zenon
<1> QED BY <1>2, <1>3, <1>4, Zenon

\* wake_up of the processes of S, which waited and wait no more, by a caller
\* that keeps the CPU; base is status, with a killed process marked Dead.
LEMMA WakeInv ==
    ASSUME IInv, power = "on", NEW S \in SUBSET Pids, NEW base \in [Pids -> Statuses],
           UNCHANGED <<nextPid, current, power>>,
           status' = Woken(base, S),
           readyQueue' \in Seq(Pids), IsInjective(readyQueue'),
           Range(readyQueue') = Range(readyQueue) \cup S,
           \A p \in S : (OnSem(p) \/ OnExit(p)) /\ ~OnSem(p)' /\ ~OnExit(p)',
           \A p \in Pids : OnSem(p)' \/ OnExit(p)' => OnSem(p) \/ OnExit(p),
           \A p \in Pids : \/ base[p] = status[p]
                           \/ /\ base[p] = "Dead" /\ p # current /\ p # KERNEL_PID
                              /\ status[p] # "None",
           exitCode' \in [Pids -> Int \cup {NoExit}],
           exitCode'[current] = NoExit, exitCode'[KERNEL_PID] = NoExit,
           RestTypeOK', WaitsApart', NoMissedExit', NoIdleUnits'
    PROVE  IInv'
<1>1. /\ status' \in [Pids -> Statuses]
      /\ \A p \in Pids : status'[p] = IF p \in S THEN "Ready" ELSE base[p]
  BY Zenon DEF Woken, Statuses
<1>2. \A p \in S : p # current /\ p # KERNEL_PID /\ status[p] \in {"Blocked", "Dead"} /\ ~Queued(p)
  BY CurrentFree, ZenonT(30) DEF IInv, KernelIsRunnable, WaitsInOnePlace
<1>3. TypeOK' /\ FreshPids'
  BY <1>1, <1>2, ZenonT(30) DEF IInv, TypeOK, RestTypeOK, FreshPids
<1>4. CpuHeldByOne'
  BY <1>1, <1>2, KernelInPids, Zenon DEF IInv, TypeOK, CpuHeldByOne, Queued
<1>5. ReadyIsQueued'
  BY <1>1, <1>2, Zenon DEF IInv, TypeOK, ReadyIsQueued, Queued
<1>6. KernelIsRunnable'
  BY <1>1, <1>2, KernelInPids, Zenon DEF IInv, KernelIsRunnable
<1>7. WaitsInOnePlace'
  BY <1>1, <1>2, Zenon DEF IInv, WaitsInOnePlace, Queued
<1> QED BY <1>3, <1>4, <1>5, <1>6, <1>7, Zenon DEF IInv

\* sem_signal on a semaphore without waiters adds a unit.
LEMMA SemSignalAdds ==
    ASSUME IInv, NEW k \in SemKeys, SemSignal(k), SemOf(k) # NoSem, ~Wakes(SemOf(k))
    PROVE  /\ \E s \in Sems : SetSem(k, s) /\ QueueOf(s) = << >>
           /\ SemQueue(semSet[current], k) = << >>
           /\ Returns(0) /\ UNCHANGED <<status, readyQueue>>
<1>1. power = "on"
  BY Zenon DEF SemSignal, InUser
<1> DEFINE s == SemSignalled(SemOf(k))
<1>2. PICK c \in Nat, t \in Seq(Pids) :
          SemOf(k) = [count |-> c, queue |-> t] /\ SemQueue(semSet[current], k) = t
  BY <1>1, SemFields, Zenon
<1>3. t = << >>
  BY <1>2, SemOfOps, Zenon
<1>4. s = [count |-> c + 1, queue |-> t]
  BY <1>2, SemOfOps, Zenon
<1>5. Returns(0) /\ UNCHANGED <<status, readyQueue>> /\ SetSem(k, s)
  BY Zenon DEF SemSignal
<1> HIDE DEF s
<1>6. s \in Sems /\ QueueOf(s) = t
  <2>1. c + 1 \in Nat
    OBVIOUS
  <2> QED BY ONLY <1>4, <2>1, MakeSem, t \in Seq(Pids)
<1> QED BY <1>2, <1>3, <1>5, <1>6, Zenon

\* sem_signal on a semaphore with waiters releases one of them, who then
\* waits nowhere, and nobody else.
LEMMA SemSignalWakes ==
    ASSUME IInv, NEW k \in SemKeys, SemSignal(k), SemOf(k) # NoSem, Wakes(SemOf(k))
    PROVE  \E p \in Pids :
              /\ rax' = [rax EXCEPT ![current] = SysNr, ![p] = 0]
              /\ status' = Woken(status, {p})
              /\ readyQueue' = Append(readyQueue, p)
              /\ OnSem(p) /\ ~OnExit(p) /\ ~Queued(p) /\ ~OnSem(p)' /\ ~OnExit(p)'
              /\ \A r \in Pids : r # p => (OnSem(r)' <=> OnSem(r))
              /\ \A r \in Pids : OnExit(r)' <=> OnExit(r)
              /\ WaitsApart' /\ NoIdleUnits'
              /\ sems' \in [Pids -> [SemKeys -> Sems \cup {NoSem}]]
<1> DEFINE g == semSet[current]
           s == SemSignalled(SemOf(k))
<1>1. power = "on" /\ UNCHANGED waitQueue
  BY Zenon DEF SemSignal, InUser
<1>2. g \in Pids
  BY <1>1, SemOfType, Zenon
<1>3. PICK c \in Nat, t \in Seq(Pids) :
          /\ SemOf(k) = [count |-> c, queue |-> t] /\ SemQueue(g, k) = t
          /\ IsInjective(t) /\ (c = 0 \/ t = << >>)
  BY <1>1, SemFields, Zenon
<1> DEFINE p == Head(t)
<1>4. /\ sems' = [sems EXCEPT ![g][k] = s]
      /\ rax' = [rax EXCEPT ![current] = SysNr, ![p] = 0]
      /\ status' = Woken(status, {p})
      /\ readyQueue' = Append(readyQueue, p)
  <2>1. SemOf(k).queue = t
    BY <1>3
  <2> QED BY <2>1, Zenon DEF SemSignal, SetSem
<1>5. t # << >> /\ s = [count |-> c, queue |-> Tail(t)]
  BY <1>3, SemOfOps, Zenon
<1> HIDE DEF s, g
<1>6. /\ p \in Range(t) /\ Tail(t) \in Seq(Pids) /\ Range(Tail(t)) = Range(t) \ {p}
      /\ IsInjective(Tail(t)) /\ p \in Pids
  BY <1>3, <1>5, TailRange, TailFacts, Zenon
<1> HIDE DEF p
<1>7. s \in Sems /\ s # NoSem /\ s.count = c /\ QueueOf(s) = Tail(t)
  <2> DEFINE u == Tail(t)
  <2>1. s = [count |-> c, queue |-> u] /\ u \in Seq(Pids)
    BY <1>5, <1>6, Zenon
  <2> HIDE DEF u
  <2>2. s \in Sems /\ s # NoSem /\ s.count = c /\ QueueOf(s) = u
    BY <2>1, MakeSem
  <2> QED BY <2>2, Zenon DEF u
<1>8. /\ WaitsApart'
      /\ sems' \in [Pids -> [SemKeys -> Sems \cup {NoSem}]]
      /\ \A r \in Pids : OnExit(r)' <=> OnExit(r)
      /\ \A r \in Pids : OnSem(r)' => OnSem(r) \/ r \in Range(QueueOf(s))
      /\ \A r \in Pids : r \in Range(SemQueue(g, k)) /\ OnSem(r)' => r \in Range(QueueOf(s))
      /\ \A r \in Pids : OnSem(r) => OnSem(r)' \/ r \in Range(SemQueue(g, k))
      /\ \A r \in Pids : r \in Range(QueueOf(s)) => OnSem(r)'
  <2>1. \A r \in Range(QueueOf(s)) : r \in Range(SemQueue(g, k))
    BY <1>3, <1>6, <1>7, Zenon
  <2> QED BY <1>1, <1>2, <1>4, <1>6, <1>7, <2>1, SemChange, ZenonT(30) DEF IInv, WaitsInOnePlace
<1>9. OnSem(p) /\ ~OnExit(p) /\ ~Queued(p)
  BY <1>2, <1>3, <1>6, Zenon DEF OnSem, IInv, WaitsInOnePlace, WaitsApart
<1>10. ~OnSem(p)' /\ ~OnExit(p)' /\ \A r \in Pids : r # p => (OnSem(r)' <=> OnSem(r))
  BY <1>2, <1>3, <1>6, <1>7, <1>8, <1>9, Zenon DEF OnSem
<1>11. NoIdleUnits'
  BY <1>2, <1>3, <1>4, <1>5, <1>7, UnitsChange, ZenonT(30)
<1> QED BY <1>4, <1>6, <1>8, <1>9, <1>10, <1>11, ZenonT(30)

LEMMA SemSignalInv == ASSUME IInv, NEW k \in SemKeys, SemSignal(k) PROVE IInv'
<1>1. power = "on" /\ UNCHANGED <<nextPid, exitCode, semSet, waitQueue, current, initPid, power>>
  BY Zenon DEF SemSignal, InUser
<1>2. CASE SemOf(k) = NoSem
  <2>1. Returns(1) /\ UNCHANGED <<sems, status, readyQueue>>
    BY <1>2, Zenon DEF SemSignal
  <2>2. RestTypeOK' /\ NoMissedExit' /\ NoIdleUnits'
    BY <1>1, <2>1, ReturnsType DEF IInv, TypeOK, RestTypeOK, NoMissedExit, NoIdleUnits
  <2> QED BY <1>1, <2>1, <2>2, NoChange, QuietInv, Zenon DEF IInv, WaitsInOnePlace
<1>3. CASE SemOf(k) # NoSem /\ ~Wakes(SemOf(k))
  BY <1>1, <1>3, SemSignalAdds, ReplaceInv
<1>4. CASE SemOf(k) # NoSem /\ Wakes(SemOf(k))
  <2>1. PICK p \in Pids :
              /\ rax' = [rax EXCEPT ![current] = SysNr, ![p] = 0]
              /\ status' = Woken(status, {p})
              /\ readyQueue' = Append(readyQueue, p)
              /\ OnSem(p) /\ ~OnExit(p) /\ ~Queued(p) /\ ~OnSem(p)' /\ ~OnExit(p)'
              /\ \A r \in Pids : r # p => (OnSem(r)' <=> OnSem(r))
              /\ \A r \in Pids : OnExit(r)' <=> OnExit(r)
              /\ WaitsApart' /\ NoIdleUnits'
              /\ sems' \in [Pids -> [SemKeys -> Sems \cup {NoSem}]]
    BY <1>4, SemSignalWakes, Zenon
  <2>2. readyQueue' \in Seq(Pids) /\ IsInjective(readyQueue')
        /\ Range(readyQueue') = Range(readyQueue) \cup {p}
    BY <1>1, <2>1, AppendRange DEF IInv, TypeOK, ReadyIsQueued, Queued
  <2>3. RestTypeOK' /\ NoMissedExit'
    <3>1. rax \in [Pids -> Int \cup {SysNr}] /\ current \in Pids
      BY Zenon DEF IInv, TypeOK
    <3>2. rax' = [rax EXCEPT ![current] = SysNr, ![p] = 0]
      BY <2>1, Zenon
    <3>3. rax' \in [Pids -> Int \cup {SysNr}]
      BY ONLY <3>1, <3>2, p \in Pids
    <3> QED BY <1>1, <2>1, <3>3, Zenon DEF IInv, TypeOK, RestTypeOK, NoMissedExit
  <2>4. /\ status \in [Pids -> Statuses] /\ exitCode' \in [Pids -> Int \cup {NoExit}]
        /\ exitCode'[current] = NoExit /\ exitCode'[KERNEL_PID] = NoExit
    BY <1>1, CurrentFree, Zenon DEF IInv, TypeOK, KernelIsRunnable
  <2>5. /\ {p} \in SUBSET Pids
        /\ \A r \in {p} : (OnSem(r) \/ OnExit(r)) /\ ~OnSem(r)' /\ ~OnExit(r)'
        /\ \A r \in Pids : OnSem(r)' \/ OnExit(r)' => OnSem(r) \/ OnExit(r)
        /\ status' = Woken(status, {p}) /\ WaitsApart' /\ NoIdleUnits'
    BY <2>1, Zenon
  <2> QED BY <1>1, <2>2, <2>3, <2>4, <2>5, WakeInv, Zenon
<1> QED BY <1>2, <1>3, <1>4, Zenon

\* A BTreeSet's elements, each once.
LEMMA ListingsOK ==
    ASSUME NEW S \in SUBSET Pids, NEW w \in Listings(S)
    PROVE  w \in Seq(Pids) /\ Range(w) = S /\ IsInjective(w)
<1>1. PICK n \in 0..MaxPid : w \in [1..n -> S]
  BY Zenon DEF Listings
<1>2. Ascending(w, S)
  BY Zenon DEF Listings
<1>3. n \in Nat /\ DOMAIN w = 1..n /\ \A i \in 1..n : w[i] \in Pids
  BY <1>1, PidBound DEF PidBound
<1>4. w \in Seq(Pids)
  BY <1>1, <1>3, SeqOfElements
<1>5. Range(w) = S
  BY <1>2, Zenon DEF Ascending
<1>6. ASSUME NEW i \in DOMAIN w, NEW j \in DOMAIN w, w[i] = w[j] PROVE i = j
  <2>1. i \in Int /\ j \in Int
    BY <1>3
  <2>2. w[i] \in Int /\ ~(w[i] < w[j]) /\ ~(w[j] < w[i])
    <3>1. w[i] \in Pids
      BY <1>3, Zenon
    <3>2. w[i] \in Int
      BY <3>1, PidsInt, Zenon
    <3> QED BY <1>6, <3>2
  <2>3. ~(i < j) /\ ~(j < i)
    BY <1>2, <2>2, Zenon DEF Ascending
  <2> QED BY <2>1, <2>3
<1> QED BY <1>4, <1>5, <1>6, Zenon DEF IsInjective

LEMMA DeadInt == Dead0x \in Int
BY DEF Dead0x

\* What kill does to the wait structures.
LEMMA KillWaits ==
    ASSUME IInv, NEW q \in Pids, waitQueue' = [waitQueue EXCEPT ![q] = {}], sems' = sems
    PROVE  /\ \A p \in Pids : OnSem(p)' <=> OnSem(p)
           /\ \A p \in Pids : OnExit(p)' <=> OnExit(p) /\ p \notin waitQueue[q]
           /\ waitQueue[q] \subseteq Pids /\ \A p \in waitQueue[q] : OnExit(p) /\ ~OnSem(p)
           /\ WaitsApart' /\ waitQueue' \in [Pids -> SUBSET Pids]
<1>1. {} \in SUBSET Pids
  BY Zenon
<1>2. /\ \A p \in Pids : OnSem(p)' <=> OnSem(p)
      /\ \A p \in Pids : OnExit(p)' => OnExit(p)
      /\ \A p \in Pids : p \in waitQueue[q] => ~OnExit(p)'
      /\ \A p \in Pids : OnExit(p) => OnExit(p)' \/ p \in waitQueue[q]
  BY <1>1, ExitChange, Zenon DEF IInv, WaitsInOnePlace
<1>3. waitQueue[q] \subseteq Pids
  BY Zenon DEF IInv, TypeOK
<1>4. \A p \in waitQueue[q] : OnExit(p) /\ ~OnSem(p)
  BY <1>3, Zenon DEF OnExit, IInv, WaitsInOnePlace, WaitsApart
<1>5. WaitsApart' /\ waitQueue' \in [Pids -> SUBSET Pids]
  BY <1>1, ExitChange, Zenon DEF IInv, WaitsInOnePlace
<1> QED BY <1>2, <1>3, <1>4, <1>5, Zenon

\* What ProcessManager::kill leaves to its caller.
LEMMA KillProcOK ==
    ASSUME IInv, power = "on", NEW q \in Pids, q # KERNEL_PID, NEW ret \in Int,
           KillProc(q, ret), UNCHANGED <<nextPid, semSet, sems, initPid>>
    PROVE  /\ exitCode' \in [Pids -> Int \cup {NoExit}]
           /\ \A p \in Pids : p # q => exitCode'[p] = exitCode[p]
           /\ RestTypeOK' /\ WaitsApart' /\ NoMissedExit' /\ NoIdleUnits'
           /\ \A p \in waitQueue[q] : OnExit(p) /\ ~OnSem(p) /\ ~OnSem(p)' /\ ~OnExit(p)'
           /\ \A p \in Pids : OnSem(p)' \/ OnExit(p)' => OnSem(p) \/ OnExit(p)
           /\ waitQueue[q] \in SUBSET Pids
<1>1. waitQueue[q] \in SUBSET Pids
  BY Zenon DEF IInv, TypeOK
<1>2. /\ exitCode' = [exitCode EXCEPT ![q] = ret]
      /\ waitQueue' = [waitQueue EXCEPT ![q] = {}]
      /\ rax' \in [Pids -> Int \cup {SysNr}]
  BY Zenon DEF KillProc, IInv, TypeOK
<1>3. exitCode' \in [Pids -> Int \cup {NoExit}] /\ \A p \in Pids : p # q => exitCode'[p] = exitCode[p]
  BY <1>2, Zenon DEF IInv, TypeOK
<1>4. /\ WaitsApart'
      /\ waitQueue' \in [Pids -> SUBSET Pids]
      /\ \A p \in Pids : OnSem(p)' <=> OnSem(p)
      /\ \A p \in Pids : OnExit(p)' => OnExit(p)
      /\ \A p \in Pids : p \in waitQueue[q] => ~OnExit(p)'
  BY <1>2, KillWaits, Zenon
<1>5. \A p \in waitQueue[q] : OnExit(p) /\ ~OnSem(p)
  BY <1>2, KillWaits, Zenon
<1>6. RestTypeOK' /\ NoIdleUnits'
  BY <1>2, <1>4, Zenon DEF IInv, TypeOK, RestTypeOK, NoIdleUnits
<1>7. NoMissedExit'
  BY <1>2, <1>3, Zenon DEF IInv, TypeOK, NoMissedExit
<1> QED BY <1>1, <1>3, <1>4, <1>5, <1>6, <1>7, Zenon

LEMMA KillSelfInv == ASSUME IInv, NEW ret \in Int, KillSelf(ret) PROVE IInv'
<1>1. power = "on" /\ current # KERNEL_PID /\ KillProc(current, ret)
      /\ UNCHANGED <<nextPid, semSet, sems, initPid>>
  BY Zenon DEF KillSelf, InUser
<1> DEFINE S == waitQueue[current]
           st == KilledStatus(current)
<1>2. PICK w \in Listings(S) : SwitchNext(readyQueue \o w, st, exitCode')
  BY Zenon DEF KillSelf
<1>3. current \in Pids /\ ~OnSem(current) /\ ~OnExit(current) /\ ~Queued(current)
      /\ status[KERNEL_PID] = "Ready"
  BY <1>1, CurrentFree, Zenon
<1>4. /\ exitCode' \in [Pids -> Int \cup {NoExit}]
      /\ \A p \in Pids : p # current => exitCode'[p] = exitCode[p]
      /\ RestTypeOK' /\ WaitsApart' /\ NoMissedExit' /\ NoIdleUnits'
      /\ \A p \in S : OnExit(p) /\ ~OnSem(p) /\ ~OnSem(p)' /\ ~OnExit(p)'
      /\ \A p \in Pids : OnSem(p)' \/ OnExit(p)' => OnSem(p) \/ OnExit(p)
      /\ S \in SUBSET Pids
  BY <1>1, <1>3, KillProcOK, Zenon
<1>5. /\ st \in [Pids -> Statuses]
      /\ \A p \in Pids : st[p] = IF p \in S THEN "Ready" ELSE IF p = current THEN "Dead" ELSE status[p]
  BY <1>3, Zenon DEF KilledStatus, Woken, Statuses, IInv, TypeOK
<1> HIDE DEF S, st
<1>6. w \in Seq(Pids) /\ Range(w) = S /\ IsInjective(w)
  BY <1>4, ListingsOK, Zenon
<1>7. \A p \in S : p # current /\ p # KERNEL_PID /\ ~Queued(p) /\ status[p] \in {"Blocked", "Dead"}
  BY <1>3, <1>4, Zenon DEF IInv, WaitsInOnePlace, KernelIsRunnable
<1> DEFINE q == readyQueue \o w
<1>8. q \in Seq(Pids) /\ Range(q) = Range(readyQueue) \cup S /\ IsInjective(q)
  <2>1. Range(readyQueue) \cap Range(w) = {}
    BY <1>6, <1>7, Zenon DEF Queued
  <2>2. readyQueue \in Seq(Pids) /\ IsInjective(readyQueue)
    BY <1>1, Zenon DEF IInv, TypeOK, ReadyIsQueued
  <2>3. /\ q \in Seq(Pids) /\ Range(q) = Range(readyQueue) \cup Range(w)
        /\ IsInjective(q)
    BY <1>6, <2>1, <2>2, ConcatRange
  <2> QED BY <1>6, <2>3, Zenon
<1> HIDE DEF q
<1>9. PreSwitch(q, st, exitCode')
  BY <1>1, <1>3, <1>4, <1>5, <1>7, <1>8, KernelInPids, ZenonT(30)
  DEF PreSwitch, IInv, TypeOK, ReadyIsQueued, CpuHeldByOne, KernelIsRunnable, Queued
<1>10. \A p \in Pids : OnSem(p)' \/ OnExit(p)' =>
                          st[p] \in {"Blocked", "Dead"} /\ p \notin Range(q)
  BY <1>3, <1>4, <1>5, <1>8, Zenon DEF IInv, WaitsInOnePlace, Queued
<1>11. \A p \in Pids : p >= nextPid' => st[p] = "None"
  BY <1>1, <1>5, <1>7, CurrentFree, ZenonT(30) DEF IInv, FreshPids
<1>12. ~OnSem(KERNEL_PID)' /\ ~OnExit(KERNEL_PID)'
  BY <1>4, KernelInPids, Zenon DEF IInv, KernelIsRunnable
<1> QED BY <1>2, <1>4, <1>9, <1>10, <1>11, <1>12, SwitchInv, Zenon DEF q

LEMMA KillInv == ASSUME IInv, NEW q \in Pids, Kill(q) PROVE IInv'
<1>1. power = "on" /\ q # current /\ UNCHANGED <<nextPid, semSet, sems, current, initPid, power>>
  BY Zenon DEF Kill, InUser
<1>2. CASE q = KERNEL_PID \/ status[q] = "None"
  <2>1. Returns(SysNr) /\ UNCHANGED <<exitCode, waitQueue, status, readyQueue>>
    BY <1>2, Zenon DEF Kill
  <2>2. RestTypeOK' /\ NoMissedExit' /\ NoIdleUnits'
    BY <1>1, <2>1, ReturnsType, Zenon DEF IInv, TypeOK, RestTypeOK, NoMissedExit, NoIdleUnits
  <2> QED BY <1>1, <2>1, <2>2, NoChange, QuietInv, Zenon DEF IInv, WaitsInOnePlace
<1>3. CASE ~(q = KERNEL_PID \/ status[q] = "None")
  <2> DEFINE S == waitQueue[q]
             base == [status EXCEPT ![q] = "Dead"]
  <2>1. KillProc(q, Dead0x) /\ status' = Woken(base, S)
        /\ \E w \in Listings(S) : readyQueue' = readyQueue \o w
    BY <1>3, Zenon DEF Kill, KilledStatus
  <2>2. /\ exitCode' \in [Pids -> Int \cup {NoExit}]
        /\ \A p \in Pids : p # q => exitCode'[p] = exitCode[p]
        /\ RestTypeOK' /\ WaitsApart' /\ NoMissedExit' /\ NoIdleUnits'
        /\ \A p \in S : OnExit(p) /\ ~OnSem(p) /\ ~OnSem(p)' /\ ~OnExit(p)'
        /\ \A p \in Pids : OnSem(p)' \/ OnExit(p)' => OnSem(p) \/ OnExit(p)
        /\ S \in SUBSET Pids
    BY <1>1, <1>3, <2>1, DeadInt, KillProcOK, Zenon
  <2>3. base \in [Pids -> Statuses] /\ base[q] = "Dead" /\ \A p \in Pids : p # q => base[p] = status[p]
    BY Zenon DEF IInv, TypeOK, Statuses
  <2> HIDE DEF S, base
  <2>4. \A p \in S : ~Queued(p)
    BY <2>2, Zenon DEF IInv, WaitsInOnePlace
  <2>5. readyQueue' \in Seq(Pids) /\ IsInjective(readyQueue')
        /\ Range(readyQueue') = Range(readyQueue) \cup S
    <3>1. PICK w \in Listings(S) : readyQueue' = readyQueue \o w
      BY <2>1, Zenon
    <3>2. w \in Seq(Pids) /\ Range(w) = S /\ IsInjective(w)
      BY <2>2, ListingsOK, Zenon
    <3>3. Range(readyQueue) \cap Range(w) = {}
      BY <2>4, <3>2, Zenon DEF Queued
    <3>4. readyQueue \in Seq(Pids) /\ IsInjective(readyQueue)
      BY <1>1, Zenon DEF IInv, TypeOK, ReadyIsQueued
    <3>5. /\ readyQueue \o w \in Seq(Pids) /\ IsInjective(readyQueue \o w)
          /\ Range(readyQueue \o w) = Range(readyQueue) \cup Range(w)
      BY <3>2, <3>3, <3>4, ConcatRange
    <3> QED BY <3>1, <3>2, <3>5, Zenon
  <2>6. exitCode'[current] = NoExit /\ exitCode'[KERNEL_PID] = NoExit
    BY <1>1, <1>3, <2>2, CurrentFree, KernelInPids, Zenon DEF IInv, KernelIsRunnable
  <2>7. \A p \in Pids : \/ base[p] = status[p]
                        \/ /\ base[p] = "Dead" /\ p # current /\ p # KERNEL_PID
                           /\ status[p] # "None"
    BY <1>1, <1>3, <2>3, Zenon
  <2> QED BY <1>1, <2>1, <2>2, <2>3, <2>5, <2>6, <2>7, WakeInv, Zenon
<1> QED BY <1>2, <1>3, Zenon

LEMMA StutterInv == ASSUME IInv, UNCHANGED vars PROVE IInv'
<1>1. TypeOK' /\ FreshPids' /\ NoMissedExit' /\ NoIdleUnits'
  BY Zenon DEF vars, IInv, TypeOK, FreshPids, NoMissedExit, NoIdleUnits
<1>2. CpuHeldByOne' /\ ReadyIsQueued' /\ KernelIsRunnable' /\ WaitsInOnePlace'
  BY NoChange, KernelInPids, Zenon
     DEF vars, IInv, CpuHeldByOne, ReadyIsQueued, KernelIsRunnable, WaitsInOnePlace, Queued
<1> QED BY <1>1, <1>2, Zenon DEF IInv

\* After kernel_main has set up the kernel process, nothing waits or is queued.
LEMMA InitInv == Init => IInv
<1> SUFFICES ASSUME Init PROVE IInv
  BY Zenon
<1>1. TypeOK
  BY PidBound, KernelInPids, EmptyPids DEF PidBound, Init, TypeOK, Statuses
<1>2. \A g \in Pids, k \in SemKeys : SemQueue(g, k) = << >>
  BY Zenon DEF Init, SemQueue
<1>3. Range(<< >>) = {} /\ IsInjective(<< >>)
  BY DEF Range, IsInjective
<1>4. \A p \in Pids : ~OnSem(p) /\ ~OnExit(p) /\ ~Queued(p)
  BY <1>2, <1>3, Zenon DEF Init, OnSem, OnExit, Queued
<1>5. CpuHeldByOne /\ ReadyIsQueued
  BY <1>3, <1>4, KernelInPids, Zenon DEF Init, CpuHeldByOne, ReadyIsQueued
<1>6. KernelIsRunnable /\ WaitsInOnePlace
  BY <1>2, <1>3, <1>4, KernelInPids, Zenon DEF Init, KernelIsRunnable, WaitsInOnePlace, WaitsApart
<1>7. NoMissedExit /\ NoIdleUnits /\ FreshPids
  BY PidsInt DEF Init, NoMissedExit, NoIdleUnits, FreshPids, KERNEL_PID
<1> QED BY <1>1, <1>5, <1>6, <1>7, Zenon DEF IInv

\* Every handler, and the clock, preserves the invariant.
LEMMA NextInv == ASSUME IInv, [Next]_vars PROVE IInv'
<1>1. CASE Clock
  BY <1>1, ClockInv, Zenon
<1>2. CASE SpawnInit
  BY <1>2, SpawnInitInv, Zenon
<1>3. CASE KernelWait
  BY <1>3, KernelWaitInv, Zenon
<1>4. CASE Stopped
  BY <1>4, StutterInv, Zenon DEF Stopped
<1>5. CASE Syscall
  <2>1. CASE \E found \in BOOLEAN : Spawn(found)
    BY <2>1, SpawnInv, Zenon
  <2>2. CASE Fork
    BY <2>2, ForkInv, Zenon
  <2>3. CASE \E ret \in ExitCodes : ProcessExit(ret)
    BY <2>3, KillSelfInv, Values, Zenon DEF ProcessExit, Values
  <2>4. CASE KillCurrent
    BY <2>4, KillSelfInv, DeadInt, Zenon DEF KillCurrent
  <2>5. CASE \E q \in Pids : Kill(q)
    BY <2>5, KillInv, Zenon
  <2>6. CASE \E q \in Pids : WaitPid(q)
    BY <2>6, WaitPidInv, Zenon
  <2>7. CASE \E k \in SemKeys, v \in SemInits : NewSemaphore(k, v)
    BY <2>7, NewSemaphoreInv, Zenon
  <2>8. CASE \E k \in SemKeys : RemoveSemaphore(k)
    BY <2>8, RemoveSemaphoreInv, Zenon
  <2>9. CASE \E k \in SemKeys : SemWait(k)
    BY <2>9, SemWaitInv, Zenon
  <2>10. CASE \E k \in SemKeys : SemSignal(k)
    BY <2>10, SemSignalInv, Zenon
  <2> QED BY <1>5, <2>1, <2>2, <2>3, <2>4, <2>5, <2>6, <2>7, <2>8, <2>9, <2>10, Zenon DEF Syscall
<1>6. CASE UNCHANGED vars
  BY <1>6, StutterInv, Zenon
<1> QED BY <1>1, <1>2, <1>3, <1>4, <1>5, <1>6, Zenon DEF Next

\* The scheduler's invariant holds whatever the programs call: the whole of
\* ProcessManager's bookkeeping stays consistent for any number of processes.
THEOREM Invariance == Spec => []IInv
<1>1. Init => IInv
  BY InitInv, Zenon
<1>2. IInv /\ [Next]_vars => IInv'
  BY NextInv, Zenon
<1> QED BY <1>1, <1>2, PTL DEF Spec

\* Types, for any number of processes, keys and counts.
THEOREM TypeCorrect == Spec => []TypeOK
<1>1. IInv => TypeOK
  BY Zenon DEF IInv
<1> QED BY <1>1, Invariance, PTL

\* The CPU has one holder, alive and not queued at the same time.
THEOREM OneHolder == Spec => []CpuHeldByOne
<1>1. IInv => CpuHeldByOne
  BY Zenon DEF IInv
<1> QED BY <1>1, Invariance, PTL

\* ready_queue loses no runnable process and holds none twice.
THEOREM NoneLost == Spec => []ReadyIsQueued
<1>1. IInv => ReadyIsQueued
  BY Zenon DEF IInv
<1> QED BY <1>1, Invariance, PTL

\* The kernel process can always be switched to.
THEOREM KernelStays == Spec => []KernelIsRunnable
<1>1. IInv => KernelIsRunnable
  BY Zenon DEF IInv
<1> QED BY <1>1, Invariance, PTL

\* The queues of the semaphores and wait_queue hold a process at most once.
THEOREM OneWait == Spec => []WaitsInOnePlace
<1>1. IInv => WaitsInOnePlace
  BY Zenon DEF IInv
<1> QED BY <1>1, Invariance, PTL

\* wait_pid and kill never miss each other.
THEOREM ExitsSeen == Spec => []NoMissedExit
<1>1. IInv => NoMissedExit
  BY Zenon DEF IInv
<1> QED BY <1>1, Invariance, PTL

\* Semaphore::wait and signal never leave units beside waiters.
THEOREM UnitsUsed == Spec => []NoIdleUnits
<1>1. IInv => NoIdleUnits
  BY Zenon DEF IInv
<1> QED BY <1>1, Invariance, PTL

(***************************************************************************)
(* What disciplined programs get from the process manager: when no blocked *)
(* process is killed the kernel never panics and a death is final; when no *)
(* semaphore with waiters is dropped nobody is blocked for nothing.  Each  *)
(* strengthening is inductive together with IInv.                          *)
(***************************************************************************)

\* Who has exited is Dead, and who waits is Blocked.
Calm ==
    /\ NoPanic
    /\ \A p \in Pids : exitCode[p] # NoExit => status[p] = "Dead"
    /\ \A p \in Pids : OnSem(p) \/ OnExit(p) => status[p] = "Blocked"

\* switch_next finds the address space of whoever is Ready.
LEMMA CalmSwitch ==
    ASSUME NEW q \in Seq(Pids), NEW st \in [Pids -> Statuses], NEW codes,
           \A p \in Pids : codes[p] # NoExit => st[p] = "Dead",
           SwitchNext(q, st, codes), power = "on"
    PROVE  /\ NoPanic'
           /\ \A p \in Pids : status'[p] = st[p] \/ (st[p] = "Ready" /\ status'[p] = "Running")
<1>1. DOMAIN q = 1..Len(q) /\ \A i \in 1..Len(q) : q[i] \in Pids
  BY SeqFacts, Zenon
<1>2. CASE ReadyIndices(q, st) = {}
  BY <1>2, Zenon DEF SwitchNext, NoPanic
<1>3. CASE ReadyIndices(q, st) # {}
  <2>1. PICK i \in ReadyIndices(q, st) :
          IF q[i] = current
          THEN status' = st /\ UNCHANGED <<current, power>>
          ELSE IF HasVm(q[i], codes)
          THEN /\ status' = [st EXCEPT ![q[i]] = "Running"]
               /\ current' = q[i]
               /\ UNCHANGED power
          ELSE status' = st /\ power' = "panic" /\ UNCHANGED current
    BY <1>3, Zenon DEF SwitchNext
  <2>2. st[q[i]] = "Ready" /\ q[i] \in Pids
    BY <1>1, Zenon DEF ReadyIndices
  <2>3. HasVm(q[i], codes)
    BY <2>2, Zenon DEF HasVm
  <2> QED BY <2>1, <2>2, <2>3, Zenon DEF NoPanic
<1> QED BY <1>2, <1>3, Zenon

LEMMA CalmAfterSwitch ==
    ASSUME NEW q \in Seq(Pids), NEW st \in [Pids -> Statuses],
           \A p \in Pids : exitCode'[p] # NoExit => st[p] = "Dead",
           \A p \in Pids : OnSem(p)' \/ OnExit(p)' => st[p] = "Blocked",
           SwitchNext(q, st, exitCode'), power = "on"
    PROVE  Calm'
<1>1. /\ NoPanic'
      /\ \A p \in Pids : status'[p] = st[p] \/ (st[p] = "Ready" /\ status'[p] = "Running")
  BY CalmSwitch, Zenon
<1> QED BY <1>1, Zenon DEF Calm

\* A handler that touches neither statuses nor exit codes, and queues nobody.
LEMMA CalmQuiet ==
    ASSUME Calm, UNCHANGED <<status, exitCode, power>>,
           \A p \in Pids : OnSem(p)' \/ OnExit(p)' => OnSem(p) \/ OnExit(p)
    PROVE  Calm'
BY Zenon DEF Calm, NoPanic

LEMMA CalmClock == ASSUME IInv, Calm, Clock PROVE Calm'
<1>1. power = "on" /\ SwitchNext(Append(readyQueue, current), Saved, exitCode')
      /\ UNCHANGED <<exitCode, sems, waitQueue>>
  BY Zenon DEF Clock
<1>2. Append(readyQueue, current) \in Seq(Pids)
  BY AppendRange, Zenon DEF IInv, TypeOK
<1>3. /\ Saved \in [Pids -> Statuses] /\ Saved[current] = "Ready"
      /\ \A p \in Pids : p # current => Saved[p] = status[p]
  BY Zenon DEF Saved, IInv, TypeOK, Statuses
<1>4. \A p \in Pids : (OnSem(p)' <=> OnSem(p)) /\ (OnExit(p)' <=> OnExit(p))
  BY <1>1, NoChange, Zenon DEF IInv, WaitsInOnePlace
<1> QED BY <1>1, <1>2, <1>3, <1>4, CurrentFree, CalmAfterSwitch, ZenonT(30) DEF Calm

LEMMA CalmNewProcess ==
    ASSUME IInv, Calm, power = "on", NEW p \in Pids, Create(p, p),
           status' = [status EXCEPT ![p] = "Ready"],
           UNCHANGED <<exitCode, sems, waitQueue, power>>
    PROVE  Calm'
<1>1. status[p] = "None"
  BY PidsInt DEF Create, IInv, FreshPids
<1>2. status'[p] = "Ready" /\ \A r \in Pids : r # p => status'[r] = status[r]
  BY Zenon DEF IInv, TypeOK
<1>3. \A r \in Pids : (OnSem(r)' <=> OnSem(r)) /\ (OnExit(r)' <=> OnExit(r))
  BY NoChange, Zenon DEF IInv, WaitsInOnePlace
<1> QED BY <1>1, <1>2, <1>3, Zenon DEF Calm, NoPanic

LEMMA CalmFork == ASSUME IInv, Calm, Fork PROVE Calm'
<1>1. power = "on" /\ UNCHANGED <<exitCode, sems, waitQueue>>
  BY Zenon DEF Fork, InUser
<1>2. PICK p \in Pids :
        /\ Create(p, semSet[current])
        /\ SwitchNext(Append(Append(readyQueue, p), current),
                      [Saved EXCEPT ![p] = "Ready"], exitCode')
  BY <1>1, Zenon DEF Fork, Forked, ForkQueue
<1> DEFINE st == [Saved EXCEPT ![p] = "Ready"]
           q == Append(Append(readyQueue, p), current)
<1>3. status[p] = "None"
  BY <1>2, PidsInt DEF Create, IInv, FreshPids
<1>4. q \in Seq(Pids)
  BY <1>1, CurrentFree, AppendFacts, Zenon DEF IInv, TypeOK
<1>5. /\ st \in [Pids -> Statuses] /\ st[p] = "Ready" /\ st[current] = "Ready"
      /\ \A r \in Pids : r # p /\ r # current => st[r] = status[r]
  BY <1>1, CurrentFree, Zenon DEF Saved, IInv, TypeOK, Statuses
<1>6. \A r \in Pids : (OnSem(r)' <=> OnSem(r)) /\ (OnExit(r)' <=> OnExit(r))
  BY <1>1, NoChange, Zenon DEF IInv, WaitsInOnePlace
<1> HIDE DEF st, q
<1>7. \A r \in Pids : exitCode'[r] # NoExit => st[r] = "Dead"
  BY <1>1, <1>3, <1>5, CurrentFree, Zenon DEF Calm
<1>8. \A r \in Pids : OnSem(r)' \/ OnExit(r)' => st[r] = "Blocked"
  BY <1>1, <1>3, <1>5, <1>6, CurrentFree, Zenon DEF Calm
<1>9. SwitchNext(q, st, exitCode')
  BY <1>2, Zenon DEF q, st
<1> QED BY <1>1, <1>4, <1>5, <1>7, <1>8, <1>9, CalmAfterSwitch, Zenon

\* Where processes wait after an empty queue has replaced the one of key k.
LEMMA ReplaceWaits ==
    ASSUME IInv, power = "on", NEW k \in SemKeys, NEW s \in Sems \cup {NoSem}, SetSem(k, s),
           QueueOf(s) = << >>, waitQueue' = waitQueue
    PROVE  /\ \A p \in Pids : OnSem(p)' => OnSem(p)
           /\ \A p \in Pids : OnExit(p)' <=> OnExit(p)
           /\ SemQueue(semSet[current], k) = << >> => \A p \in Pids : OnSem(p) => OnSem(p)'
<1> DEFINE g == semSet[current]
<1>1. g \in Pids
  BY SemOfType, Zenon
<1>2. sems' = [sems EXCEPT ![g][k] = s]
  BY Zenon DEF SetSem
<1> HIDE DEF g
<1>3. IsInjective(QueueOf(s)) /\ Range(QueueOf(s)) = {} /\ Range(<< >>) = {}
  BY DEF IsInjective, Range
<1>4. /\ \A p \in Pids : OnExit(p)' <=> OnExit(p)
      /\ \A p \in Pids : OnSem(p)' => OnSem(p) \/ p \in Range(QueueOf(s))
      /\ \A p \in Pids : OnSem(p) => OnSem(p)' \/ p \in Range(SemQueue(g, k))
  BY <1>1, <1>2, <1>3, SemChange, Zenon DEF IInv, WaitsInOnePlace
<1> QED BY <1>3, <1>4, Zenon DEF g

\* What wait_pid does to the wait structures when it blocks the caller.
LEMMA WaitPidWaits ==
    ASSUME IInv, NEW q \in Pids, WaitPid(q), exitCode[q] = NoExit
    PROVE  /\ SwitchNext(readyQueue, [status EXCEPT ![current] = "Blocked"], exitCode')
           /\ \A p \in Pids : OnSem(p)' <=> OnSem(p)
           /\ \A p \in Pids : OnExit(p)' <=> OnExit(p) \/ p = current
<1> DEFINE S == waitQueue[q] \cup {current}
<1>1. power = "on" /\ UNCHANGED <<exitCode, sems>>
      /\ waitQueue' = [waitQueue EXCEPT ![q] = S]
      /\ SwitchNext(readyQueue, [status EXCEPT ![current] = "Blocked"], exitCode')
  BY Zenon DEF WaitPid, InUser, BlockCurrent
<1>2. S \in SUBSET Pids /\ \A p \in S : p \in waitQueue[q] \/ (~OnSem(p) /\ ~OnExit(p))
  BY <1>1, CurrentFree, Zenon DEF IInv, TypeOK
<1>3. current \in S /\ waitQueue[q] \subseteq S /\ \A p \in S : p = current \/ OnExit(p)
  BY Zenon DEF OnExit
<1> HIDE DEF S
<1>4. /\ \A p \in Pids : OnSem(p)' <=> OnSem(p)
      /\ \A p \in Pids : OnExit(p)' => OnExit(p) \/ p \in S
      /\ \A p \in Pids : OnExit(p) => OnExit(p)' \/ p \in waitQueue[q]
      /\ \A p \in S : OnExit(p)'
  BY <1>1, <1>2, ExitChange, Zenon DEF IInv, WaitsInOnePlace
<1> QED BY <1>1, <1>3, <1>4, Zenon

\* The status that a blocking handler gives its caller.
LEMMA BlockedStatus ==
    ASSUME IInv, NEW st, st = [status EXCEPT ![current] = "Blocked"]
    PROVE  /\ st \in [Pids -> Statuses] /\ st[current] = "Blocked"
           /\ \A p \in Pids : p # current => st[p] = status[p]
BY Zenon DEF IInv, TypeOK, Statuses

LEMMA KilledStatusIs ==
    ASSUME IInv, NEW q \in Pids
    PROVE  /\ KilledStatus(q) \in [Pids -> Statuses]
           /\ \A p \in Pids : KilledStatus(q)[p] =
                 IF p \in waitQueue[q] THEN "Ready" ELSE IF p = q THEN "Dead" ELSE status[p]
BY Zenon DEF KilledStatus, Woken, Statuses, IInv, TypeOK

LEMMA CalmBlock ==
    ASSUME IInv, Calm, power = "on", exitCode' = exitCode,
           SwitchNext(readyQueue, [status EXCEPT ![current] = "Blocked"], exitCode'),
           \A p \in Pids : OnSem(p)' \/ OnExit(p)' => OnSem(p) \/ OnExit(p) \/ p = current
    PROVE  Calm'
<1> DEFINE st == [status EXCEPT ![current] = "Blocked"]
<1>1. /\ st \in [Pids -> Statuses] /\ st[current] = "Blocked"
      /\ \A p \in Pids : p # current => st[p] = status[p]
  BY BlockedStatus, Zenon
<1>2. SwitchNext(readyQueue, st, exitCode') /\ readyQueue \in Seq(Pids)
  BY Zenon DEF IInv, TypeOK
<1> HIDE DEF st
<1>3. \A p \in Pids : exitCode'[p] # NoExit => st[p] = "Dead"
  BY <1>1, CurrentFree, Zenon DEF Calm
<1>4. \A p \in Pids : OnSem(p)' \/ OnExit(p)' => st[p] = "Blocked"
  BY <1>1, CurrentFree, Zenon DEF Calm
<1> QED BY <1>1, <1>2, <1>3, <1>4, CalmAfterSwitch, Zenon

LEMMA CalmKillSelf == ASSUME IInv, Calm, NEW ret, KillSelf(ret) PROVE Calm'
<1> DEFINE S == waitQueue[current]
           st == KilledStatus(current)
<1>1. power = "on" /\ current # KERNEL_PID /\ sems' = sems
      /\ exitCode' = [exitCode EXCEPT ![current] = ret]
      /\ waitQueue' = [waitQueue EXCEPT ![current] = {}]
  BY Zenon DEF KillSelf, InUser, KillProc
<1>2. PICK w \in Listings(S) : SwitchNext(readyQueue \o w, st, exitCode')
  BY Zenon DEF KillSelf
<1>3. current \in Pids /\ ~OnSem(current) /\ ~OnExit(current)
  BY <1>1, CurrentFree, Zenon
<1>4. /\ \A p \in Pids : OnSem(p)' <=> OnSem(p)
      /\ \A p \in Pids : OnExit(p)' <=> OnExit(p) /\ p \notin S
      /\ S \subseteq Pids /\ \A p \in S : OnExit(p) /\ ~OnSem(p)
  BY <1>1, <1>3, KillWaits, Zenon
<1>5. /\ st \in [Pids -> Statuses]
      /\ \A p \in Pids : st[p] = IF p \in S THEN "Ready" ELSE IF p = current THEN "Dead" ELSE status[p]
  BY <1>3, KilledStatusIs, Zenon
<1> HIDE DEF S, st
<1>6. \A p \in S : p # current /\ exitCode[p] = NoExit
  BY <1>3, <1>4, Zenon DEF Calm
<1>7. \A p \in Pids : exitCode'[p] # NoExit => st[p] = "Dead"
  BY <1>1, <1>3, <1>5, <1>6, Zenon DEF Calm, IInv, TypeOK
<1>8. \A p \in Pids : OnSem(p)' \/ OnExit(p)' => st[p] = "Blocked"
  BY <1>3, <1>4, <1>5, Zenon DEF Calm
<1>9. readyQueue \o w \in Seq(Pids)
  BY <1>4, ListingsOK, ConcatRange, Zenon DEF IInv, TypeOK
<1> QED BY <1>1, <1>2, <1>5, <1>7, <1>8, <1>9, CalmAfterSwitch, Zenon

LEMMA CalmKill ==
    ASSUME IInv, Calm, NEW q \in Pids, Kill(q), "Blocked" \notin KillableStates PROVE Calm'
<1>1. power = "on" /\ q # current /\ UNCHANGED <<sems, power>> /\ status[q] # "Blocked"
  BY Zenon DEF Kill, InUser
<1>2. CASE q = KERNEL_PID \/ status[q] = "None"
  BY <1>1, <1>2, NoChange, CalmQuiet, Zenon DEF Kill, IInv, WaitsInOnePlace
<1>3. CASE ~(q = KERNEL_PID \/ status[q] = "None")
  <2>1. /\ exitCode' = [exitCode EXCEPT ![q] = Dead0x]
        /\ waitQueue' = [waitQueue EXCEPT ![q] = {}]
        /\ status' = KilledStatus(q)
    BY <1>3, Zenon DEF Kill, KillProc
  <2>2. /\ \A p \in Pids : OnSem(p)' <=> OnSem(p)
        /\ \A p \in Pids : OnExit(p)' <=> OnExit(p) /\ p \notin waitQueue[q]
        /\ waitQueue[q] \subseteq Pids /\ \A p \in waitQueue[q] : OnExit(p) /\ ~OnSem(p)
    BY <1>1, <2>1, KillWaits, Zenon
  <2>3. \A p \in Pids : status'[p] =
            IF p \in waitQueue[q] THEN "Ready" ELSE IF p = q THEN "Dead" ELSE status[p]
    BY <2>1, KilledStatusIs, Zenon
  <2>4. ~OnSem(q) /\ ~OnExit(q) /\ \A p \in waitQueue[q] : p # q /\ exitCode[p] = NoExit
    BY <1>1, <2>2, Zenon DEF Calm
  <2>5. \A p \in Pids : exitCode'[p] # NoExit => status'[p] = "Dead"
    BY <2>1, <2>3, <2>4, Zenon DEF Calm, IInv, TypeOK
  <2>6. \A p \in Pids : OnSem(p)' \/ OnExit(p)' => status'[p] = "Blocked"
    BY <2>2, <2>3, <2>4, Zenon DEF Calm
  <2> QED BY <1>1, <2>5, <2>6, Zenon DEF Calm, NoPanic
<1> QED BY <1>2, <1>3, Zenon

LEMMA CalmSem ==
    ASSUME IInv, Calm, NEW k \in SemKeys,
           (\E v \in SemInits : NewSemaphore(k, v)) \/ RemoveSemaphore(k)
           \/ SemWait(k) \/ SemSignal(k)
    PROVE  Calm'
<1>1. power = "on" /\ exitCode' = exitCode /\ waitQueue' = waitQueue
  BY Zenon DEF NewSemaphore, RemoveSemaphore, SemWait, SemSignal, InUser
<1>2. CASE \E v \in SemInits : NewSemaphore(k, v)
  <2>1. PICK v \in SemInits : NewSemaphore(k, v)
    BY <1>2, Zenon
  <2>2. NewSem(v) \in Sems /\ QueueOf(NewSem(v)) = << >>
    BY NewSemOK, Zenon
  <2>3. SetSem(k, NewSem(v)) /\ UNCHANGED <<status, power>>
    BY <2>1, Zenon DEF NewSemaphore
  <2> QED BY <1>1, <2>2, <2>3, ReplaceWaits, CalmQuiet, Zenon
<1>3. CASE RemoveSemaphore(k)
  <2>1. SetSem(k, NoSem) /\ UNCHANGED <<status, power>> /\ QueueOf(NoSem) = << >>
    BY <1>3, Zenon DEF RemoveSemaphore, QueueOf
  <2> QED BY <1>1, <2>1, ReplaceWaits, CalmQuiet, Zenon
<1>4. CASE SemWait(k)
  <2>1. CASE SemOf(k) = NoSem
    <3>1. UNCHANGED <<sems, status, power>>
      BY <1>4, <2>1, Zenon DEF SemWait, BlockCurrent
    <3> QED BY <1>1, <3>1, NoChange, CalmQuiet, Zenon DEF IInv, WaitsInOnePlace
  <2>2. CASE SemOf(k) # NoSem /\ ~Blocks(SemOf(k))
    BY <1>1, <1>4, <2>2, SemWaitTakes, ReplaceWaits, CalmQuiet, Zenon
  <2>3. CASE SemOf(k) # NoSem /\ Blocks(SemOf(k))
    BY <1>1, <1>4, <2>3, SemWaitBlocks, CalmBlock, Zenon
  <2> QED BY <2>1, <2>2, <2>3, Zenon
<1>5. CASE SemSignal(k)
  <2>1. UNCHANGED power
    BY <1>5, Zenon DEF SemSignal
  <2>2. CASE SemOf(k) = NoSem
    <3>1. UNCHANGED <<sems, status>>
      BY <1>5, <2>2, Zenon DEF SemSignal
    <3> QED BY <1>1, <2>1, <3>1, NoChange, CalmQuiet, Zenon DEF IInv, WaitsInOnePlace
  <2>3. CASE SemOf(k) # NoSem /\ ~Wakes(SemOf(k))
    BY <1>1, <1>5, <2>1, <2>3, SemSignalAdds, ReplaceWaits, CalmQuiet, Zenon
  <2>4. CASE SemOf(k) # NoSem /\ Wakes(SemOf(k))
    <3>1. PICK p \in Pids :
              /\ status' = Woken(status, {p})
              /\ OnSem(p) /\ ~OnSem(p)' /\ ~OnExit(p)'
              /\ \A r \in Pids : r # p => (OnSem(r)' <=> OnSem(r))
              /\ \A r \in Pids : OnExit(r)' <=> OnExit(r)
      BY <1>5, <2>4, SemSignalWakes, Zenon
    <3>2. \A r \in Pids : status'[r] = IF r = p THEN "Ready" ELSE status[r]
      BY <3>1, Zenon DEF Woken
    <3>3. exitCode[p] = NoExit
      BY <3>1, Zenon DEF Calm
    <3>4. \A r \in Pids : exitCode'[r] # NoExit => status'[r] = "Dead"
      BY <1>1, <3>2, <3>3, Zenon DEF Calm
    <3>5. \A r \in Pids : OnSem(r)' \/ OnExit(r)' => status'[r] = "Blocked"
      BY <3>1, <3>2, Zenon DEF Calm
    <3> QED BY <2>1, <3>4, <3>5, Zenon DEF Calm, NoPanic
  <2> QED BY <2>2, <2>3, <2>4, Zenon
<1> QED BY <1>2, <1>3, <1>4, <1>5, Zenon

LEMMA CalmNext ==
    ASSUME IInv, Calm, [Next]_vars, "Blocked" \notin KillableStates PROVE Calm'
<1>1. CASE Clock
  BY <1>1, CalmClock, Zenon
<1>2. CASE SpawnInit
  BY <1>2, CalmNewProcess, Zenon DEF SpawnInit, Launch
<1>3. CASE KernelWait
  <2>1. power' = "off" /\ UNCHANGED <<status, exitCode, sems, waitQueue>>
    BY <1>3, Zenon DEF KernelWait
  <2>2. \A p \in Pids : (OnSem(p)' <=> OnSem(p)) /\ (OnExit(p)' <=> OnExit(p))
    BY <2>1, NoChange, Zenon DEF IInv, WaitsInOnePlace
  <2> QED BY <2>1, <2>2, Zenon DEF Calm, NoPanic
<1>4. CASE UNCHANGED vars
  BY <1>4, NoChange, CalmQuiet, Zenon DEF vars, IInv, WaitsInOnePlace
<1>5. CASE Syscall
  <2>1. CASE \E found \in BOOLEAN : Spawn(found)
    <3>1. PICK found \in BOOLEAN : Spawn(found)
      BY <2>1, Zenon
    <3>2. CASE found
      BY <3>1, <3>2, CalmNewProcess, Zenon DEF Spawn, InUser, Launch
    <3>3. CASE ~found
      BY <3>1, <3>3, NoChange, CalmQuiet, Zenon DEF Spawn, IInv, WaitsInOnePlace, Launch
    <3> QED BY <3>2, <3>3, Zenon
  <2>2. CASE Fork
    BY <2>2, CalmFork, Zenon
  <2>3. CASE \E ret \in ExitCodes : ProcessExit(ret)
    BY <2>3, CalmKillSelf, Zenon DEF ProcessExit
  <2>4. CASE KillCurrent
    BY <2>4, CalmKillSelf, Zenon DEF KillCurrent
  <2>5. CASE \E q \in Pids : Kill(q)
    BY <2>5, CalmKill, Zenon
  <2>6. CASE \E q \in Pids : WaitPid(q)
    <3>1. PICK q \in Pids : WaitPid(q)
      BY <2>6, Zenon
    <3>2. CASE exitCode[q] = NoExit
      <4>1. power = "on" /\ exitCode' = exitCode
        BY <3>1, Zenon DEF WaitPid, InUser
      <4> QED BY <3>1, <3>2, <4>1, WaitPidWaits, CalmBlock, Zenon
    <3>3. CASE exitCode[q] # NoExit
      <4>1. UNCHANGED <<status, exitCode, power, sems, waitQueue>>
        BY <3>1, <3>3, Zenon DEF WaitPid, BlockCurrent
      <4> QED BY <4>1, NoChange, CalmQuiet, Zenon DEF IInv, WaitsInOnePlace
    <3> QED BY <3>2, <3>3, Zenon
  <2>7. CASE \E k \in SemKeys : (\E v \in SemInits : NewSemaphore(k, v)) \/ RemoveSemaphore(k)
                                \/ SemWait(k) \/ SemSignal(k)
    BY <2>7, CalmSem, Zenon
  <2> QED BY <1>5, <2>1, <2>2, <2>3, <2>4, <2>5, <2>6, <2>7, Zenon DEF Syscall
<1> QED BY <1>1, <1>2, <1>3, <1>4, <1>5, Zenon DEF Next, Stopped

LEMMA CalmInit == Init => Calm
<1> SUFFICES ASSUME Init PROVE Calm
  BY Zenon
<1>1. \A g \in Pids, k \in SemKeys : SemQueue(g, k) = << >>
  BY Zenon DEF Init, SemQueue
<1>2. Range(<< >>) = {}
  BY DEF Range
<1>3. \A p \in Pids : ~OnSem(p) /\ ~OnExit(p)
  BY <1>1, <1>2, Zenon DEF Init, OnSem, OnExit
<1> QED BY <1>3, Zenon DEF Init, Calm, NoPanic

\* The kernel does not panic in switch_next as long as the programs kill no
\* blocked process: for any number of processes and semaphores.
THEOREM NeverPanics == ASSUME "Blocked" \notin KillableStates PROVE Spec => []NoPanic
<1>1. Init => IInv /\ Calm
  BY InitInv, CalmInit, Zenon
<1>2. IInv /\ Calm /\ [Next]_vars => IInv' /\ Calm'
  BY NextInv, CalmNext, Zenon
<1>3. Calm => NoPanic
  BY Zenon DEF Calm
<1> QED BY <1>1, <1>2, <1>3, PTL DEF Spec

(***************************************************************************)
(* A death is final                                                        *)
(***************************************************************************)

\* Exit codes change only in kill, and only for its target.
LEMMA CodesChange ==
    ASSUME IInv, [Next]_vars
    PROVE  \/ exitCode' = exitCode
           \/ \E ret : power = "on" /\ exitCode' = [exitCode EXCEPT ![current] = ret]
           \/ \E q \in Pids : \E ret : /\ status[q] \in KillableStates
                                        /\ exitCode' = [exitCode EXCEPT ![q] = ret]
<1>1. CASE \E q \in Pids : Kill(q)
  BY <1>1, Zenon DEF Kill, KillProc
<1>2. CASE \E ret \in ExitCodes : ProcessExit(ret)
  BY <1>2, Zenon DEF ProcessExit, KillSelf, KillProc, InUser
<1>3. CASE KillCurrent
  BY <1>3, Zenon DEF KillCurrent, KillSelf, KillProc, InUser
<1>4. CASE Clock \/ SpawnInit \/ KernelWait \/ Stopped \/ UNCHANGED vars
  BY <1>4, Zenon DEF Clock, SpawnInit, KernelWait, Stopped, vars, Launch
<1>5. CASE (\E found \in BOOLEAN : Spawn(found)) \/ Fork \/ \E q \in Pids : WaitPid(q)
  BY <1>5, Zenon DEF Spawn, Fork, WaitPid, Launch, Forked, ForkQueue, BlockCurrent
<1>6. CASE \E k \in SemKeys : (\E v \in SemInits : NewSemaphore(k, v)) \/ RemoveSemaphore(k)
                              \/ SemWait(k) \/ SemSignal(k)
  BY <1>6, Zenon DEF NewSemaphore, RemoveSemaphore, SemWait, SemSignal, BlockCurrent
<1> QED BY <1>1, <1>2, <1>3, <1>4, <1>5, <1>6, Zenon DEF Next, Syscall

\* When only living processes that are not blocked are killed, a process
\* that has an exit code is Dead and keeps that code for ever.
THEOREM DeathsFinal ==
    ASSUME KillableStates \cap {"Blocked", "Dead"} = {} PROVE Spec => DeathIsFinal
<1>1. Init => IInv /\ Calm
  BY InitInv, CalmInit, Zenon
<1>2. IInv /\ Calm /\ [Next]_vars => IInv' /\ Calm'
  BY NextInv, CalmNext, Zenon
<1>3. ASSUME IInv, Calm, Calm', [Next]_vars, NEW p \in Pids, exitCode[p] # NoExit
      PROVE  exitCode'[p] = exitCode[p] /\ status'[p] = "Dead"
  <2>1. status[p] = "Dead"
    BY <1>3, Zenon DEF Calm
  <2>2. power = "on" => p # current
    BY <1>3, CurrentFree, Zenon
  <2>3. exitCode'[p] = exitCode[p]
    BY <1>3, <2>1, <2>2, CodesChange, Zenon DEF IInv, TypeOK
  <2> QED BY <1>3, <2>3, Zenon DEF Calm
<1>4. IInv /\ Calm /\ Calm' /\ [Next]_vars =>
        [\A p \in Pids : exitCode[p] # NoExit =>
            exitCode'[p] = exitCode[p] /\ status'[p] = "Dead"]_vars
  BY <1>3, Zenon
<1> QED BY <1>1, <1>2, <1>4, PTL DEF Spec, DeathIsFinal

(***************************************************************************)
(* Nobody is blocked for nothing                                           *)
(***************************************************************************)

LEMMA SwitchStatus ==
    ASSUME NEW q \in Seq(Pids), NEW st \in [Pids -> Statuses], NEW codes, SwitchNext(q, st, codes)
    PROVE  \A p \in Pids : status'[p] = st[p] \/ (st[p] = "Ready" /\ status'[p] = "Running")
<1>1. DOMAIN q = 1..Len(q) /\ \A i \in 1..Len(q) : q[i] \in Pids
  BY SeqFacts, Zenon
<1>2. CASE ReadyIndices(q, st) = {}
  BY <1>2, Zenon DEF SwitchNext
<1>3. CASE ReadyIndices(q, st) # {}
  <2>1. PICK i \in ReadyIndices(q, st) :
          status' = st \/ status' = [st EXCEPT ![q[i]] = "Running"]
    BY <1>3, Zenon DEF SwitchNext
  <2>2. st[q[i]] = "Ready" /\ q[i] \in Pids
    BY <1>1, Zenon DEF ReadyIndices
  <2> QED BY <2>1, <2>2, Zenon
<1> QED BY <1>2, <1>3, Zenon

LEMMA WaitingAfterSwitch ==
    ASSUME NEW q \in Seq(Pids), NEW st \in [Pids -> Statuses], SwitchNext(q, st, exitCode'),
           \A p \in Pids : st[p] = "Blocked" => OnSem(p)' \/ OnExit(p)'
    PROVE  BlockedIsWaiting'
<1>1. \A p \in Pids : status'[p] = st[p] \/ (st[p] = "Ready" /\ status'[p] = "Running")
  BY SwitchStatus, Zenon
<1> QED BY <1>1, Zenon DEF BlockedIsWaiting

LEMMA WaitingQuiet ==
    ASSUME BlockedIsWaiting,
           \A p \in Pids : status'[p] = "Blocked" => status[p] = "Blocked",
           \A p \in Pids : OnSem(p) => OnSem(p)', \A p \in Pids : OnExit(p) => OnExit(p)'
    PROVE  BlockedIsWaiting'
BY Zenon DEF BlockedIsWaiting

LEMMA WaitingBlock ==
    ASSUME IInv, BlockedIsWaiting,
           SwitchNext(readyQueue, [status EXCEPT ![current] = "Blocked"], exitCode'),
           \A p \in Pids : OnSem(p) \/ OnExit(p) \/ p = current => OnSem(p)' \/ OnExit(p)'
    PROVE  BlockedIsWaiting'
<1> DEFINE st == [status EXCEPT ![current] = "Blocked"]
<1>1. /\ st \in [Pids -> Statuses] /\ st[current] = "Blocked"
      /\ \A p \in Pids : p # current => st[p] = status[p]
  BY BlockedStatus, Zenon
<1>2. SwitchNext(readyQueue, st, exitCode') /\ readyQueue \in Seq(Pids)
  BY Zenon DEF IInv, TypeOK
<1> HIDE DEF st
<1> QED BY <1>1, <1>2, WaitingAfterSwitch, Zenon DEF BlockedIsWaiting

LEMMA WaitingScheduler ==
    ASSUME IInv, BlockedIsWaiting, Clock \/ Fork PROVE BlockedIsWaiting'
<1>1. UNCHANGED <<sems, waitQueue>> /\ exitCode' = exitCode /\ power = "on"
  BY Zenon DEF Clock, Fork, InUser
<1>2. \A p \in Pids : (OnSem(p)' <=> OnSem(p)) /\ (OnExit(p)' <=> OnExit(p))
  BY <1>1, NoChange, Zenon DEF IInv, WaitsInOnePlace
<1>3. /\ Saved \in [Pids -> Statuses] /\ current \in Pids
      /\ \A p \in Pids : Saved[p] = "Blocked" => status[p] = "Blocked"
  BY Zenon DEF Saved, IInv, TypeOK, Statuses
<1>4. CASE Clock
  <2>1. Append(readyQueue, current) \in Seq(Pids)
    BY AppendRange, Zenon DEF IInv, TypeOK
  <2>2. SwitchNext(Append(readyQueue, current), Saved, exitCode')
    BY <1>1, <1>4, Zenon DEF Clock
  <2> QED BY <1>2, <1>3, <2>1, <2>2, WaitingAfterSwitch, Zenon DEF BlockedIsWaiting
<1>5. CASE Fork
  <2>1. PICK p \in Pids : SwitchNext(Append(Append(readyQueue, p), current),
                                     [Saved EXCEPT ![p] = "Ready"], exitCode')
    BY <1>1, <1>5, Zenon DEF Fork, Forked, ForkQueue
  <2> DEFINE st == [Saved EXCEPT ![p] = "Ready"]
             q == Append(Append(readyQueue, p), current)
  <2>2. q \in Seq(Pids)
    BY <1>3, AppendFacts, Zenon DEF IInv, TypeOK
  <2>3. st \in [Pids -> Statuses] /\ \A r \in Pids : st[r] = "Blocked" => status[r] = "Blocked"
    BY <1>3, Zenon DEF Statuses
  <2>4. SwitchNext(q, st, exitCode')
    BY <2>1, Zenon
  <2> HIDE DEF st, q
  <2> QED BY <1>2, <2>2, <2>3, <2>4, WaitingAfterSwitch, Zenon DEF BlockedIsWaiting
<1> QED BY <1>4, <1>5, Zenon

LEMMA WaitingKill ==
    ASSUME IInv, BlockedIsWaiting,
           (\E ret : KillSelf(ret)) \/ (\E q \in Pids : Kill(q))
    PROVE  BlockedIsWaiting'
<1>1. CASE \E ret : KillSelf(ret)
  <2>1. PICK ret : KillSelf(ret)
    BY <1>1, Zenon
  <2>2. /\ current \in Pids /\ sems' = sems
        /\ waitQueue' = [waitQueue EXCEPT ![current] = {}]
    BY <2>1, Zenon DEF KillSelf, KillProc, IInv, TypeOK
  <2> DEFINE st == KilledStatus(current)
  <2>3. PICK w \in Listings(waitQueue[current]) : SwitchNext(readyQueue \o w, st, exitCode')
    BY <2>1, Zenon DEF KillSelf
  <2>4. /\ \A p \in Pids : OnSem(p)' <=> OnSem(p)
        /\ \A p \in Pids : OnExit(p)' <=> OnExit(p) /\ p \notin waitQueue[current]
        /\ waitQueue[current] \subseteq Pids
    BY <2>2, KillWaits, Zenon
  <2>5. /\ st \in [Pids -> Statuses]
        /\ \A p \in Pids : st[p] = "Blocked" => status[p] = "Blocked" /\ p \notin waitQueue[current]
    BY <2>2, KilledStatusIs, Zenon
  <2> HIDE DEF st
  <2>6. readyQueue \o w \in Seq(Pids)
    BY <2>4, ListingsOK, ConcatRange, ZenonT(30) DEF IInv, TypeOK
  <2> QED BY <2>3, <2>4, <2>5, <2>6, WaitingAfterSwitch, Zenon DEF BlockedIsWaiting
<1>2. CASE \E q \in Pids : Kill(q)
  <2>1. PICK q \in Pids : Kill(q)
    BY <1>2, Zenon
  <2>2. sems' = sems
    BY <2>1, Zenon DEF Kill
  <2>3. CASE q = KERNEL_PID \/ status[q] = "None"
    <3>1. waitQueue' = waitQueue /\ status' = status
      BY <2>1, <2>3, Zenon DEF Kill
    <3>2. (\A p \in Pids : OnSem(p)' <=> OnSem(p)) /\ (\A p \in Pids : OnExit(p)' <=> OnExit(p))
      BY <3>1, <2>2, NoChange, Zenon DEF IInv, WaitsInOnePlace
    <3> QED BY <3>1, <3>2, WaitingQuiet, Zenon
  <2>4. CASE ~(q = KERNEL_PID \/ status[q] = "None")
    <3>1. waitQueue' = [waitQueue EXCEPT ![q] = {}] /\ status' = KilledStatus(q)
      BY <2>1, <2>4, Zenon DEF Kill, KillProc
    <3>2. /\ \A p \in Pids : OnSem(p)' <=> OnSem(p)
          /\ \A p \in Pids : OnExit(p)' <=> OnExit(p) /\ p \notin waitQueue[q]
      BY <2>2, <3>1, KillWaits, Zenon
    <3>3. \A p \in Pids : status'[p] = "Blocked" => status[p] = "Blocked" /\ p \notin waitQueue[q]
      BY <3>1, KilledStatusIs, Zenon
    <3> QED BY <3>2, <3>3, Zenon DEF BlockedIsWaiting
  <2> QED BY <2>3, <2>4, Zenon
<1> QED BY <1>1, <1>2, Zenon

\* A semaphore that may be dropped has nobody in its queue.
LEMMA DropsIdle ==
    ASSUME IInv, power = "on", NEW k \in SemKeys, MayDrop(k), DropBusySem = FALSE
    PROVE  SemQueue(semSet[current], k) = << >>
BY Zenon DEF MayDrop, Wakes, SemQueue, SemOf

LEMMA WaitingSem ==
    ASSUME IInv, BlockedIsWaiting, DropBusySem = FALSE, NEW k \in SemKeys,
           (\E v \in SemInits : NewSemaphore(k, v)) \/ RemoveSemaphore(k)
           \/ SemWait(k) \/ SemSignal(k)
    PROVE  BlockedIsWaiting'
<1>1. power = "on" /\ waitQueue' = waitQueue
  BY Zenon DEF NewSemaphore, RemoveSemaphore, SemWait, SemSignal, InUser
<1>2. CASE \E v \in SemInits : NewSemaphore(k, v)
  <2>1. PICK v \in SemInits : NewSemaphore(k, v)
    BY <1>2, Zenon
  <2>2. SetSem(k, NewSem(v)) /\ MayDrop(k) /\ status' = status
    BY <2>1, Zenon DEF NewSemaphore
  <2>3. SemQueue(semSet[current], k) = << >>
    BY <1>1, <2>2, DropsIdle, Zenon
  <2> QED BY <1>1, <2>2, <2>3, NewSemOK, ReplaceWaits, WaitingQuiet, Zenon
<1>3. CASE RemoveSemaphore(k)
  <2>1. SetSem(k, NoSem) /\ MayDrop(k) /\ status' = status /\ QueueOf(NoSem) = << >>
    BY <1>3, Zenon DEF RemoveSemaphore, QueueOf
  <2>2. SemQueue(semSet[current], k) = << >>
    BY <1>1, <2>1, DropsIdle, Zenon
  <2> QED BY <1>1, <2>1, <2>2, ReplaceWaits, WaitingQuiet, Zenon
<1>4. CASE SemWait(k)
  <2>1. CASE SemOf(k) = NoSem
    <3>1. UNCHANGED <<sems, status>>
      BY <1>4, <2>1, Zenon DEF SemWait, BlockCurrent
    <3> QED BY <1>1, <3>1, NoChange, WaitingQuiet, Zenon DEF IInv, WaitsInOnePlace
  <2>2. CASE SemOf(k) # NoSem /\ ~Blocks(SemOf(k))
    BY <1>1, <1>4, <2>2, SemWaitTakes, ReplaceWaits, WaitingQuiet, Zenon
  <2>3. CASE SemOf(k) # NoSem /\ Blocks(SemOf(k))
    BY <1>4, <2>3, SemWaitBlocks, WaitingBlock, Zenon
  <2> QED BY <2>1, <2>2, <2>3, Zenon
<1>5. CASE SemSignal(k)
  <2>1. CASE SemOf(k) = NoSem
    <3>1. UNCHANGED <<sems, status>>
      BY <1>5, <2>1, Zenon DEF SemSignal
    <3> QED BY <1>1, <3>1, NoChange, WaitingQuiet, Zenon DEF IInv, WaitsInOnePlace
  <2>2. CASE SemOf(k) # NoSem /\ ~Wakes(SemOf(k))
    BY <1>1, <1>5, <2>2, SemSignalAdds, ReplaceWaits, WaitingQuiet, Zenon
  <2>3. CASE SemOf(k) # NoSem /\ Wakes(SemOf(k))
    <3>1. PICK p \in Pids :
              /\ status' = Woken(status, {p})
              /\ \A r \in Pids : r # p => (OnSem(r)' <=> OnSem(r))
              /\ \A r \in Pids : OnExit(r)' <=> OnExit(r)
      BY <1>5, <2>3, SemSignalWakes, Zenon
    <3>2. \A r \in Pids : status'[r] = "Blocked" => status[r] = "Blocked" /\ r # p
      BY <3>1, Zenon DEF Woken
    <3> QED BY <3>1, <3>2, Zenon DEF BlockedIsWaiting
  <2> QED BY <2>1, <2>2, <2>3, Zenon
<1> QED BY <1>2, <1>3, <1>4, <1>5, Zenon

LEMMA WaitingNext ==
    ASSUME IInv, BlockedIsWaiting, DropBusySem = FALSE, [Next]_vars PROVE BlockedIsWaiting'
<1>1. CASE Clock \/ Fork
  BY <1>1, WaitingScheduler, Zenon
<1>2. CASE SpawnInit \/ \E found \in BOOLEAN : Spawn(found)
  <2>1. UNCHANGED <<sems, waitQueue>>
    BY <1>2, Zenon DEF SpawnInit, Spawn, Launch
  <2>2. \A r \in Pids : status'[r] = "Blocked" => status[r] = "Blocked"
    BY <1>2, Zenon DEF SpawnInit, Spawn, IInv, TypeOK, Launch
  <2> QED BY <2>1, <2>2, NoChange, WaitingQuiet, Zenon DEF IInv, WaitsInOnePlace
<1>3. CASE KernelWait \/ UNCHANGED vars \/ Stopped
  <2>1. UNCHANGED <<status, sems, waitQueue>>
    BY <1>3, Zenon DEF KernelWait, Stopped, vars
  <2> QED BY <2>1, NoChange, WaitingQuiet, Zenon DEF IInv, WaitsInOnePlace
<1>4. CASE (\E ret \in ExitCodes : ProcessExit(ret)) \/ KillCurrent \/ (\E q \in Pids : Kill(q))
  BY <1>4, WaitingKill, Zenon DEF ProcessExit, KillCurrent
<1>5. CASE \E q \in Pids : WaitPid(q)
  <2>1. PICK q \in Pids : WaitPid(q)
    BY <1>5, Zenon
  <2>2. CASE exitCode[q] = NoExit
    BY <2>1, <2>2, WaitPidWaits, WaitingBlock, Zenon
  <2>3. CASE exitCode[q] # NoExit
    <3>1. UNCHANGED <<status, sems, waitQueue>>
      BY <2>1, <2>3, Zenon DEF WaitPid, BlockCurrent
    <3> QED BY <3>1, NoChange, WaitingQuiet, Zenon DEF IInv, WaitsInOnePlace
  <2> QED BY <2>2, <2>3, Zenon
<1>6. CASE \E k \in SemKeys : (\E v \in SemInits : NewSemaphore(k, v)) \/ RemoveSemaphore(k)
                              \/ SemWait(k) \/ SemSignal(k)
  BY <1>6, WaitingSem, Zenon
<1> QED BY <1>1, <1>2, <1>3, <1>4, <1>5, <1>6, Zenon DEF Next, Syscall

\* Whoever is Blocked is in a semaphore's queue or in wait_queue, provided
\* the programs drop no semaphore that has waiters, whomever they kill.
THEOREM BlockedWaits == ASSUME DropBusySem = FALSE PROVE Spec => []BlockedIsWaiting
<1>1. Init => IInv /\ BlockedIsWaiting
  BY InitInv, Zenon DEF Init, BlockedIsWaiting
<1>2. IInv /\ BlockedIsWaiting /\ [Next]_vars => IInv' /\ BlockedIsWaiting'
  BY NextInv, WaitingNext, Zenon
<1> QED BY <1>1, <1>2, PTL DEF Spec

(***************************************************************************)
(* Waiters get the exit code                                               *)
(***************************************************************************)

\* wait_queue shrinks only in kill, at the target's entry.
LEMMA WaitersLeave ==
    ASSUME IInv, [Next]_vars, NEW p \in Pids, NEW q \in Pids,
           p \in waitQueue[q], p \notin waitQueue'[q]
    PROVE  \/ \E ret \in Int : q = current /\ KillSelf(ret)
           \/ /\ Kill(q) /\ KillProc(q, Dead0x)
              /\ \E w \in Listings(waitQueue[q]) : readyQueue' = readyQueue \o w
<1>1. CASE \E r \in Pids : Kill(r)
  <2>1. PICK r \in Pids : Kill(r)
    BY <1>1, Zenon
  <2>2. /\ KillProc(r, Dead0x)
        /\ \E w \in Listings(waitQueue[r]) : readyQueue' = readyQueue \o w
    BY <2>1, Zenon DEF Kill
  <2>3. waitQueue' = [waitQueue EXCEPT ![r] = {}]
    BY <2>2, Zenon DEF KillProc
  <2>4. q = r
    BY <2>3, Zenon DEF IInv, TypeOK
  <2> QED BY <2>1, <2>2, <2>4, Zenon
<1>2. CASE (\E ret \in ExitCodes : ProcessExit(ret)) \/ KillCurrent
  <2>1. PICK ret \in Int : KillSelf(ret)
    BY <1>2, Values, DeadInt, Zenon DEF Values, ProcessExit, KillCurrent
  <2>2. waitQueue' = [waitQueue EXCEPT ![current] = {}]
    BY <2>1, Zenon DEF KillSelf, KillProc
  <2>3. q = current
    BY <2>2, Zenon DEF IInv, TypeOK
  <2> QED BY <2>1, <2>3, Zenon
<1>3. CASE Clock \/ SpawnInit \/ KernelWait \/ Stopped \/ UNCHANGED vars
  <2>1. waitQueue' = waitQueue
    BY <1>3, Zenon DEF Clock, SpawnInit, KernelWait, Stopped, vars
  <2> QED BY <2>1, Zenon
<1>4. CASE (\E found \in BOOLEAN : Spawn(found)) \/ Fork
  BY <1>4, Zenon DEF Spawn, Fork, Launch, Forked, ForkQueue
<1>5. CASE \E r \in Pids : WaitPid(r)
  <2>1. PICK r \in Pids : WaitPid(r)
    BY <1>5, Zenon
  <2>2. waitQueue' = waitQueue \/ waitQueue' = [waitQueue EXCEPT ![r] = @ \cup {current}]
    BY <2>1, Zenon DEF WaitPid
  <2>3. waitQueue'[q] = waitQueue[q] \/ waitQueue'[q] = waitQueue[q] \cup {current}
    BY <2>2, Zenon DEF IInv, TypeOK
  <2> QED BY <2>3, Zenon
<1>6. CASE \E k \in SemKeys : (\E v \in SemInits : NewSemaphore(k, v)) \/ RemoveSemaphore(k)
                              \/ SemWait(k) \/ SemSignal(k)
  BY <1>6, Zenon DEF NewSemaphore, RemoveSemaphore, SemWait, SemSignal, BlockCurrent
<1> QED BY <1>1, <1>2, <1>3, <1>4, <1>5, <1>6, Zenon DEF Next, Syscall

\* What a waiter of q finds after the kill of q.
LEMMA CodeDelivered ==
    ASSUME IInv, NEW p \in Pids, NEW q \in Pids, p \in waitQueue[q],
           NEW ret \in Int, KillProc(q, ret)
    PROVE  exitCode[q] = NoExit /\ exitCode'[q] = ret /\ ret # NoExit /\ rax'[p] = ret
<1>1. exitCode[q] = NoExit
  BY Zenon DEF IInv, NoMissedExit
<1>2. exitCode'[q] = ret /\ rax'[p] = ret
  BY Zenon DEF KillProc, IInv, TypeOK
<1>3. ret # NoExit
  BY Markers, Zenon DEF Markers
<1> QED BY <1>1, <1>2, <1>3, Zenon

LEMMA Delivered ==
    ASSUME IInv, IInv', [Next]_vars, NEW p \in Pids, NEW q \in Pids,
           p \in waitQueue[q], p \notin waitQueue'[q]
    PROVE  /\ exitCode[q] = NoExit /\ exitCode'[q] # NoExit
           /\ rax'[p] = exitCode'[q]
           /\ power' = "on" => status'[p] = "Running" \/ Queued(p)'
<1>1. CASE \E ret \in Int : q = current /\ KillSelf(ret)
  <2>1. PICK ret \in Int : q = current /\ KillSelf(ret)
    BY <1>1, Zenon
  <2>2. KillProc(q, ret)
    BY <2>1, Zenon DEF KillSelf
  <2>3. PICK w \in Listings(waitQueue[q]) : SwitchNext(readyQueue \o w, KilledStatus(q), exitCode')
    BY <2>1, Zenon DEF KillSelf
  <2>4. waitQueue[q] \in SUBSET Pids
    BY Zenon DEF IInv, TypeOK
  <2>5. KilledStatus(q) \in [Pids -> Statuses] /\ KilledStatus(q)[p] = "Ready"
    BY KilledStatusIs, Zenon
  <2>6. readyQueue \o w \in Seq(Pids)
    BY <2>4, ListingsOK, ConcatRange, Zenon DEF IInv, TypeOK
  <2>7. status'[p] \in {"Ready", "Running"}
    BY <2>3, <2>5, <2>6, SwitchStatus, Zenon
  <2>8. p # KERNEL_PID
    BY Zenon DEF IInv, KernelIsRunnable, OnExit
  <2>9. power' = "on" => status'[p] = "Running" \/ Queued(p)'
    BY <2>7, <2>8, ZenonT(30) DEF IInv, CpuHeldByOne, ReadyIsQueued
  <2> QED BY <2>2, <2>9, CodeDelivered
<1>2. CASE /\ Kill(q) /\ KillProc(q, Dead0x)
           /\ \E w \in Listings(waitQueue[q]) : readyQueue' = readyQueue \o w
  <2>1. PICK w \in Listings(waitQueue[q]) : readyQueue' = readyQueue \o w
    BY <1>2, Zenon
  <2>2. waitQueue[q] \in SUBSET Pids
    BY Zenon DEF IInv, TypeOK
  <2>3. w \in Seq(Pids) /\ Range(w) = waitQueue[q]
    BY <2>2, ListingsOK, Zenon
  <2>4. Range(readyQueue') = Range(readyQueue) \cup waitQueue[q]
    BY <2>1, <2>3, ConcatRange DEF IInv, TypeOK
  <2>5. Queued(p)'
    BY <2>4, Zenon DEF Queued
  <2> QED BY <1>2, <2>5, DeadInt, CodeDelivered
<1> QED BY <1>1, <1>2, WaitersLeave, Zenon

\* kill gives its exit code to every process that waits for the target and
\* puts it in the ready queue, in the step that sets the code: for any
\* number of waiters, whatever else the programs call.
THEOREM CodesReachWaiters == Spec => ExitReachesWaiters
<1>1. Init => IInv
  BY InitInv, Zenon
<1>2. IInv /\ [Next]_vars => IInv'
  BY NextInv, Zenon
<1>3. IInv /\ IInv' /\ [Next]_vars =>
        [\A p, q \in Pids :
            p \in waitQueue[q] /\ p \notin waitQueue'[q] =>
                /\ exitCode[q] = NoExit /\ exitCode'[q] # NoExit
                /\ rax'[p] = exitCode'[q]
                /\ power' = "on" => status'[p] = "Running" \/ Queued(p)']_vars
  BY Delivered, Zenon
<1> QED BY <1>1, <1>2, <1>3, PTL DEF Spec, ExitReachesWaiters

(***************************************************************************)
(* The process manager implements ProcessLife for every number of          *)
(* processes, keys and exit codes, when its programs kill only living      *)
(* processes that are not blocked.                                         *)
(***************************************************************************)


\* The process that has the CPU, or had it when the machine stopped, is alive
\* and waits for nobody.
CurrentRunnable == current \in Life!Runnable

PowerOn == power = "on"

\* While the machine is on this is what IInv says of the caller.
LEMMA OnRunnable == ASSUME IInv, power = "on" PROVE CurrentRunnable
<1>1. /\ current \in Pids /\ ~OnExit(current) /\ exitCode[current] = NoExit
      /\ status[current] \in {"Running", "Ready"}
  BY CurrentFree, Zenon
<1>2. current < nextPid
  BY <1>1, PidsInt DEF IInv, FreshPids, TypeOK
<1>3. ~Life!Waits(current)
  BY <1>1, Zenon DEF OnExit, Life!Waits
<1> QED BY <1>1, <1>2, <1>3, Zenon DEF CurrentRunnable, Life!Runnable, Life!Alive

\* The switch keeps the machine on, or panics.
LEMMA SwitchPower ==
    ASSUME NEW q, NEW st, NEW codes, SwitchNext(q, st, codes)
    PROVE  power' \in {power, "panic"}
BY Zenon DEF SwitchNext

\* Only the kernel's shutdown switches the machine off.
LEMMA PowerOff ==
    ASSUME [Next]_vars, NoPanic', power' # "on"
    PROVE  KernelWait \/ Stopped \/ UNCHANGED vars
<1>1. ASSUME power' \in {power, "panic"}, power = "on" PROVE FALSE
  BY <1>1, Zenon DEF NoPanic
<1>2. CASE Clock
  BY <1>1, <1>2, SwitchPower, Zenon DEF Clock
<1>3. CASE SpawnInit
  BY <1>1, <1>3, Zenon DEF SpawnInit
<1>4. CASE (\E found \in BOOLEAN : Spawn(found)) \/ \E q \in Pids : Kill(q)
  BY <1>1, <1>4, Zenon DEF Spawn, Kill, InUser
<1>5. CASE Fork
  BY <1>1, <1>5, SwitchPower, Zenon DEF Fork, InUser
<1>6. ASSUME NEW ret, KillSelf(ret) PROVE FALSE
  BY <1>1, <1>6, SwitchPower, Zenon DEF KillSelf, InUser
<1>7. CASE (\E ret \in ExitCodes : ProcessExit(ret)) \/ KillCurrent
  BY <1>6, <1>7, Zenon DEF ProcessExit, KillCurrent
<1>8. ASSUME NEW q \in Pids, WaitPid(q) PROVE FALSE
  BY <1>1, <1>8, SwitchPower, Zenon DEF WaitPid, BlockCurrent, InUser
<1>9. ASSUME NEW k \in SemKeys, SemWait(k) PROVE FALSE
  BY <1>1, <1>9, SwitchPower, Zenon DEF SemWait, BlockCurrent, InUser
<1>10. CASE \E k \in SemKeys : (\E v \in SemInits : NewSemaphore(k, v)) \/ RemoveSemaphore(k)
                               \/ SemSignal(k)
  BY <1>1, <1>10, Zenon DEF NewSemaphore, RemoveSemaphore, SemSignal, InUser
<1> QED BY <1>2, <1>3, <1>4, <1>5, <1>7, <1>8, <1>9, <1>10, Zenon DEF Next, Syscall

\* When the machine stops the caller stays where it is.
LEMMA RunnableStopped ==
    ASSUME Calm', power' # "on", CurrentRunnable, [Next]_vars
    PROVE  CurrentRunnable'
<1>1. UNCHANGED <<nextPid, exitCode, waitQueue, current>>
  BY PowerOff, Zenon DEF Calm, KernelWait, Stopped, vars
<1> QED BY <1>1, Zenon DEF CurrentRunnable, Life!Runnable, Life!Alive, Life!Waits

\* A process that the programs may kill is alive and waits for nobody.
LEMMA VictimRunnable ==
    ASSUME IInv, Calm, NEW q \in Pids, status[q] \notin {"None", "Blocked", "Dead"}
    PROVE  q \in Life!Runnable
<1>1. q < nextPid
  BY PidsInt DEF IInv, FreshPids, TypeOK
<1>2. exitCode[q] = NoExit /\ ~OnExit(q)
  BY Zenon DEF Calm
<1>3. ~Life!Waits(q)
  BY <1>2, Zenon DEF OnExit, Life!Waits
<1> QED BY <1>1, <1>2, <1>3, Zenon DEF Life!Runnable, Life!Alive

\* Every step of the manager is a step of the abstract life of processes.
LEMMA LifeStep ==
    ASSUME KillableStates \cap {"Blocked", "Dead"} = {},
           IInv, Calm, CurrentRunnable', [Next]_vars
    PROVE  Life!Next
<1> DEFINE Step == \/ Life!Make \/ Life!Yield
                   \/ \E q \in Pids : Life!Await(q)
                   \/ \E q \in Pids, c \in ExitCodes \cup {Dead0x} : Life!Die(q, c)
<1> SUFFICES Step
  BY Zenon DEF Life!Next, CurrentRunnable
<1>1. ASSUME UNCHANGED <<nextPid, exitCode, waitQueue>> PROVE Step
  BY <1>1, Zenon DEF Life!Yield
<1>2. ASSUME NEW p \in Pids, NEW set, Create(p, set), UNCHANGED <<exitCode, waitQueue>>
      PROVE  Step
  BY <1>2, Zenon DEF Create, Life!Make
<1>3. ASSUME NEW q \in Pids, q # KERNEL_PID, status[q] \notin {"None", "Blocked", "Dead"},
             NEW c \in ExitCodes \cup {Dead0x}, KillProc(q, c), nextPid' = nextPid
      PROVE  Step
  <2>1. Life!Die(q, c)
    BY <1>3, VictimRunnable, Zenon DEF KillProc, Life!Die, Life!Kernel, KERNEL_PID
  <2> QED BY <2>1, Zenon
<1>4. CASE Clock \/ KernelWait \/ Stopped \/ UNCHANGED vars
  BY <1>1, <1>4, Zenon DEF Clock, KernelWait, Stopped, vars
<1>5. CASE SpawnInit
  BY <1>2, <1>5, Zenon DEF SpawnInit, Launch
<1>6. ASSUME NEW found \in BOOLEAN, Spawn(found) PROVE Step
  BY <1>1, <1>2, <1>6, Zenon DEF Spawn, Launch
<1>7. CASE Fork
  BY <1>2, <1>7, Zenon DEF Fork
<1>8. ASSUME NEW ret \in ExitCodes \cup {Dead0x}, KillSelf(ret) PROVE Step
  <2>1. /\ current # KERNEL_PID /\ power = "on" /\ nextPid' = nextPid
        /\ KillProc(current, ret)
    BY <1>8, Zenon DEF KillSelf, InUser
  <2>2. current \in Pids /\ status[current] \in {"Running", "Ready"}
    BY <2>1, CurrentFree, Zenon
  <2> QED BY <1>3, <2>1, <2>2, Zenon
<1>9. CASE (\E ret \in ExitCodes : ProcessExit(ret)) \/ KillCurrent
  BY <1>8, <1>9, Zenon DEF ProcessExit, KillCurrent
<1>10. ASSUME NEW q \in Pids, Kill(q) PROVE Step
  <2>1. nextPid' = nextPid /\ status[q] \in KillableStates
    BY <1>10, Zenon DEF Kill
  <2>2. CASE q = KERNEL_PID \/ status[q] = "None"
    BY <1>1, <1>10, <2>2, Zenon DEF Kill
  <2>3. CASE ~(q = KERNEL_PID \/ status[q] = "None")
    <3>1. KillProc(q, Dead0x)
      BY <1>10, <2>3, Zenon DEF Kill
    <3> QED BY <1>3, <2>1, <2>3, <3>1, Zenon
  <2> QED BY <2>2, <2>3, Zenon
<1>11. ASSUME NEW q \in Pids, WaitPid(q) PROVE Step
  <2>1. nextPid' = nextPid /\ exitCode' = exitCode /\ current # KERNEL_PID
    BY <1>11, Zenon DEF WaitPid, InUser
  <2>2. CASE exitCode[q] # NoExit
    BY <1>1, <1>11, <2>1, <2>2, Zenon DEF WaitPid
  <2>3. CASE exitCode[q] = NoExit
    <3>1. waitQueue' = [waitQueue EXCEPT ![q] = @ \cup {current}]
      BY <1>11, <2>3, Zenon DEF WaitPid
    <3>2. Life!Await(q)
      BY <2>1, <2>3, <3>1, Zenon DEF Life!Await, Life!Kernel, KERNEL_PID
    <3> QED BY <3>2, Zenon
  <2> QED BY <2>2, <2>3, Zenon
<1>12. CASE \E k \in SemKeys : (\E v \in SemInits : NewSemaphore(k, v)) \/ RemoveSemaphore(k)
                               \/ SemWait(k) \/ SemSignal(k)
  BY <1>1, <1>12, Zenon DEF NewSemaphore, RemoveSemaphore, SemWait, SemSignal
<1> QED BY <1>4, <1>5, <1>6, <1>7, <1>9, <1>10, <1>11, <1>12, Zenon DEF Next, Syscall

LEMMA LifeInit == Init => Life!Init
BY DEF Init, Life!Init, Life!Kernel, KERNEL_PID, Pids

\* The manager, with its queues, statuses, switches and semaphores, implements
\* the plain life of processes, when only living processes that are not
\* blocked are killed: one CPU, final deaths, waits that end with the death
\* waited for, and a CPU that only goes to the living who wait for nobody.
THEOREM LifeRefined ==
    ASSUME KillableStates \cap {"Blocked", "Dead"} = {} PROVE Spec => LifeImplemented
<1>1. Init => IInv /\ Calm /\ CurrentRunnable /\ Life!Init
  BY InitInv, CalmInit, OnRunnable, LifeInit, Zenon DEF Init
<1>2. IInv /\ Calm /\ [Next]_vars => IInv' /\ Calm'
  BY NextInv, CalmNext, Zenon
<1>3. IInv /\ PowerOn => CurrentRunnable
  BY OnRunnable, Zenon DEF PowerOn
<1>4. Calm' /\ ~PowerOn' /\ CurrentRunnable /\ [Next]_vars => CurrentRunnable'
  BY RunnableStopped, Zenon DEF PowerOn
<1>5. IInv /\ Calm /\ CurrentRunnable' /\ [Next]_vars => [Life!Next]_(Life!life)
  BY LifeStep, Zenon
<1> QED BY <1>1, <1>2, <1>3, <1>4, <1>5, PTL DEF Spec, LifeImplemented, Life!Spec
=============================================================================
