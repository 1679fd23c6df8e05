--------------------------- MODULE ProcessManager ---------------------------
(***************************************************************************)
(* The process manager of the kernel: proc/manager.rs, process.rs, mod.rs  *)
(* and sync.rs, with the system calls and the clock interrupt that enter   *)
(* it.  There is one CPU and every entry runs under without_interrupts, so *)
(* one entry is one action; user code is preempted between any two.        *)
(***************************************************************************)
EXTENDS Semaphore, Functions

CONSTANTS
    MaxPid,          \* bound: the largest pid handed out
    SemKeys,         \* the keys the programs use
    SemInits,        \* the initial counts the programs use
    MaxCount,        \* bound: the largest count a semaphore reaches
    ExitCodes,       \* the codes the programs exit with
    KillableStates,  \* the states of the processes that the programs sys_kill
    DropBusySem,     \* may the programs remove or re-create a semaphore in use?
    NoExit,          \* exit_code: None
    NoSem,           \* the key is not in SemaphoreSet::sems
    SysNr            \* rax as the program loaded it: the number of the call

KERNEL_PID == 1
Pids == KERNEL_PID..MaxPid
Dead0x == 57005      \* 0xdead, the exit code of a killed process
Statuses == {"None", "Running", "Ready", "Blocked", "Dead"}

\* (and at most 65535, the largest u16: the kernel's memory ends long before)
ASSUME PidBound == MaxPid \in Nat /\ MaxPid >= 2

ASSUME Values ==
    /\ SemInits \subseteq Nat /\ MaxCount \in Nat
    /\ ExitCodes \subseteq Int
    /\ KillableStates \subseteq Statuses
    /\ DropBusySem \in BOOLEAN

ASSUME Markers ==
    /\ NoExit \notin Int /\ SysNr \notin Int
    /\ NoSem \notin [count : Nat, queue : Seq(Pids)]

VARIABLES
    nextPid,     \* NEXT_PID
    status,      \* ProcessInner::status; "None": not in ProcessManager::processes
    exitCode,    \* ProcessInner::exit_code
    rax,         \* the return register a process resumes with
    semSet,      \* whose SemaphoreSet the process shares (Arc in ProcessData)
    sems,        \* the semaphore sets, by the process they were made for
    readyQueue,  \* ProcessManager::ready_queue
    waitQueue,   \* ProcessManager::wait_queue
    current,     \* processor::current_pid
    initPid,     \* kernel_main: 0, then the pid that ysos::wait polls
    power        \* "on", "off" after shutdown, "panic" in the panic handler

vars == <<nextPid, status, exitCode, rax, semSet, sems, readyQueue, waitQueue,
          current, initPid, power>>

Sems == [count : Nat, queue : Seq(Pids)]

Init ==
    /\ nextPid = 2
    /\ status = [p \in Pids |-> IF p = KERNEL_PID THEN "Running" ELSE "None"]
    /\ exitCode = [p \in Pids |-> NoExit]
    /\ rax = [p \in Pids |-> SysNr]
    /\ semSet = [p \in Pids |-> p]
    /\ sems = [p \in Pids |-> [k \in SemKeys |-> NoSem]]
    /\ readyQueue = << >>
    /\ waitQueue = [p \in Pids |-> {}]
    /\ current = KERNEL_PID
    /\ initPid = 0
    /\ power = "on"
-----------------------------------------------------------------------------
\* proc_vm and proc_data are taken in the same step that sets exit_code.
HasVm(p, codes) == codes[p] = NoExit

\* Mutant: the head of the queue runs whatever its status.
AnyIndices(queue, st) == DOMAIN queue

ReadyIndices(queue, st) == {i \in DOMAIN queue : st[queue[i]] = "Ready"}

\* ProcessManager::switch_next on the given queue, statuses and exit codes:
\* entries that are not Ready are dropped; the first Ready one is restored
\* unless it is the caller.  restore unwraps proc_vm, which panics for a
\* process that was killed.
SwitchNext(queue, st, codes) ==
    IF ReadyIndices(queue, st) = {}
    THEN /\ readyQueue' = << >>
         /\ status' = st
         /\ UNCHANGED <<current, power>>
    ELSE \E i \in ReadyIndices(queue, st) :
         /\ \A j \in ReadyIndices(queue, st) : i <= j
         /\ readyQueue' = SubSeq(queue, i + 1, Len(queue))
         /\ IF queue[i] = current
            THEN status' = st /\ UNCHANGED <<current, power>>
            ELSE IF HasVm(queue[i], codes)
            THEN /\ status' = [st EXCEPT ![queue[i]] = "Running"]
                 /\ current' = queue[i]
                 /\ UNCHANGED power
            ELSE status' = st /\ power' = "panic" /\ UNCHANGED current

\* Mutant: the status is not updated when the context is saved.
NotSaved == status

\* save_current: the running process's context is saved and it becomes Ready.
Saved == [status EXCEPT ![current] = "Ready"]

\* Mutant: the preempted process is not put back in the queue.
ClockForgetsCurrent ==
    /\ power = "on"
    /\ SwitchNext(readyQueue, Saved, exitCode)
    /\ UNCHANGED <<nextPid, exitCode, rax, semSet, sems, waitQueue, initPid>>

\* Mutant: the preempted process goes to the front of the queue.
ClockPushesFront ==
    /\ power = "on"
    /\ SwitchNext([i \in 1..(Len(readyQueue) + 1) |->
                      IF i = 1 THEN current ELSE readyQueue[i - 1]], Saved, exitCode)
    /\ UNCHANGED <<nextPid, exitCode, rax, semSet, sems, waitQueue, initPid>>

\* The clock interrupt: proc::switch, whoever runs.
Clock ==
    /\ power = "on"
    /\ SwitchNext(Append(readyQueue, current), Saved, exitCode)
    /\ UNCHANGED <<nextPid, exitCode, rax, semSet, sems, waitQueue, initPid>>

\* Mutant: a process takes two pids from the counter.
CreateBurnsPid(p, set) ==
    /\ p = nextPid /\ nextPid <= MaxPid
    /\ nextPid' = nextPid + 2
    /\ semSet' = [semSet EXCEPT ![p] = set]

\* A new process takes the next pid, and the semaphores of its data are a set
\* of its own or its parent's.
Create(p, set) ==
    /\ p = nextPid /\ nextPid <= MaxPid
    /\ nextPid' = nextPid + 1
    /\ semSet' = [semSet EXCEPT ![p] = set]

\* ProcessManager::spawn
Launch(p) ==
    /\ Create(p, p)
    /\ status' = [status EXCEPT ![p] = "Ready"]
    /\ readyQueue' = Append(readyQueue, p)

\* spawn_init, called once by kernel_main.
SpawnInit ==
    /\ power = "on" /\ current = KERNEL_PID /\ initPid = 0
    /\ \E p \in Pids : Launch(p) /\ initPid' = p
    /\ UNCHANGED <<exitCode, rax, sems, waitQueue, current, power>>

\* Mutant: only a successful exit of the first program ends the wait.
KernelWaitsForSuccess ==
    /\ power = "on" /\ current = KERNEL_PID /\ initPid # 0
    /\ exitCode[initPid] = 0
    /\ power' = "off"
    /\ UNCHANGED <<nextPid, status, exitCode, rax, semSet, sems, readyQueue,
                   waitQueue, current, initPid>>

\* ysos::wait: wait_no_block finds the exit code, kernel_main shuts down.
\* (When it finds none the kernel only halts until the next interrupt.)
KernelWait ==
    /\ power = "on" /\ current = KERNEL_PID /\ initPid # 0
    /\ exitCode[initPid] # NoExit
    /\ power' = "off"
    /\ UNCHANGED <<nextPid, status, exitCode, rax, semSet, sems, readyQueue,
                   waitQueue, current, initPid>>

\* A system call is made by the user process that runs.
InUser == power = "on" /\ current # KERNEL_PID

Returns(value) == rax' = [rax EXCEPT ![current] = value]

\* sys_spawn: 0 when the app list has no such program.
Spawn(found) ==
    /\ InUser
    /\ IF found
       THEN \E p \in Pids : Launch(p) /\ Returns(p)
       ELSE Returns(0) /\ UNCHANGED <<nextPid, semSet, status, readyQueue>>
    /\ UNCHANGED <<exitCode, sems, waitQueue, current, initPid, power>>

\* ProcessManager::fork queues the child p, then proc::fork its parent.
Forked(p) == [Saved EXCEPT ![p] = "Ready"]
ForkQueue(p) == Append(Append(readyQueue, p), current)

\* sys_fork: the child shares the semaphores, gets 0, and is queued before
\* the parent, which gets the child's pid.
Fork ==
    /\ InUser
    /\ \E p \in Pids :
        /\ Create(p, semSet[current])
        /\ rax' = [rax EXCEPT ![current] = p, ![p] = 0]
        /\ SwitchNext(ForkQueue(p), Forked(p), exitCode)
    /\ UNCHANGED <<exitCode, sems, waitQueue, initPid>>

\* w lists the set S the way a BTreeSet iterates.
Ascending(w, S) ==
    /\ Range(w) = S
    /\ \A i, j \in DOMAIN w : i < j => w[i] < w[j]

Listings(S) == {w \in UNION {[1..n -> S] : n \in 0..MaxPid} : Ascending(w, S)}

\* wake_up of every process in S: its status is set without a look at it.
Woken(st, S) == [p \in Pids |-> IF p \in S THEN "Ready" ELSE st[p]]

\* Mutant: the waiters are woken without the exit code.
KillForgetsCode(q, ret) ==
    /\ exitCode' = [exitCode EXCEPT ![q] = ret]
    /\ waitQueue' = [waitQueue EXCEPT ![q] = {}]
    /\ rax' = [rax EXCEPT ![current] = SysNr]

\* ProcessManager::kill of process q with exit code ret.
KillProc(q, ret) ==
    /\ exitCode' = [exitCode EXCEPT ![q] = ret]
    /\ waitQueue' = [waitQueue EXCEPT ![q] = {}]
    /\ rax' = [p \in Pids |-> IF p \in waitQueue[q] THEN ret
                              ELSE IF p = current THEN SysNr ELSE rax[p]]

\* Mutant: the killed process keeps its status.
KilledKeepsStatus(q) == Woken(status, waitQueue[q])

KilledStatus(q) == Woken([status EXCEPT ![q] = "Dead"], waitQueue[q])

\* kill_self, then switch_next.
KillSelf(ret) ==
    /\ InUser
    /\ KillProc(current, ret)
    /\ \E w \in Listings(waitQueue[current]) :
        SwitchNext(readyQueue \o w, KilledStatus(current), exitCode')
    /\ UNCHANGED <<nextPid, semSet, sems, initPid>>

ProcessExit(ret) == ret \in ExitCodes /\ KillSelf(ret)

\* sys_kill of the caller itself.
KillCurrent == "Running" \in KillableStates /\ KillSelf(Dead0x)

\* Mutant: sys_kill does not protect the kernel.
KillAnyone(q) ==
    /\ InUser /\ q # current
    /\ status[q] \in KillableStates \ {"None"}
    /\ KillProc(q, Dead0x)
    /\ status' = KilledStatus(q)
    /\ \E w \in Listings(waitQueue[q]) : readyQueue' = readyQueue \o w
    /\ UNCHANGED <<nextPid, semSet, sems, current, initPid, power>>

\* sys_kill of another process; the kernel, and a pid nobody has, are refused.
Kill(q) ==
    /\ InUser /\ q # current
    /\ status[q] \in KillableStates
    /\ IF q = KERNEL_PID \/ status[q] = "None"
       THEN Returns(SysNr) /\ UNCHANGED <<exitCode, waitQueue, status, readyQueue>>
       ELSE /\ KillProc(q, Dead0x)
            /\ status' = KilledStatus(q)
            /\ \E w \in Listings(waitQueue[q]) : readyQueue' = readyQueue \o w
    /\ UNCHANGED <<nextPid, semSet, sems, current, initPid, power>>

\* The caller is saved and blocked, and the CPU goes to the next process.
BlockCurrent == SwitchNext(readyQueue, [status EXCEPT ![current] = "Blocked"], exitCode)

\* Mutant: the caller blocks without a look at the exit code.
WaitPidBlocks(q) ==
    /\ InUser
    /\ waitQueue' = [waitQueue EXCEPT ![q] = @ \cup {current}]
    /\ Returns(SysNr)
    /\ BlockCurrent
    /\ UNCHANGED <<nextPid, exitCode, semSet, sems, initPid>>

\* sys_wait_pid: the exit code at once, or the caller blocks.
WaitPid(q) ==
    /\ InUser
    /\ IF exitCode[q] # NoExit
       THEN Returns(exitCode[q]) /\ UNCHANGED <<waitQueue, status, readyQueue, current, power>>
       ELSE /\ waitQueue' = [waitQueue EXCEPT ![q] = @ \cup {current}]
            /\ Returns(SysNr)
            /\ BlockCurrent
    /\ UNCHANGED <<nextPid, exitCode, semSet, sems, initPid>>

\* The semaphore that the caller's set has under key k.
SemOf(k) == sems[semSet[current]][k]

SetSem(k, s) == sems' = [sems EXCEPT ![semSet[current]][k] = s]

MayDrop(k) == (SemOf(k) # NoSem /\ Wakes(SemOf(k))) => DropBusySem

\* SemaphoreSet::insert replaces a semaphore of that key, and then reports 1.
NewSemaphore(k, value) ==
    /\ InUser /\ MayDrop(k)
    /\ SetSem(k, NewSem(value))
    /\ Returns(IF SemOf(k) = NoSem THEN 0 ELSE 1)
    /\ UNCHANGED <<nextPid, status, exitCode, semSet, readyQueue, waitQueue, current,
                   initPid, power>>

RemoveSemaphore(k) ==
    /\ InUser /\ MayDrop(k)
    /\ SetSem(k, NoSem)
    /\ Returns(IF SemOf(k) = NoSem THEN 1 ELSE 0)
    /\ UNCHANGED <<nextPid, status, exitCode, semSet, readyQueue, waitQueue, current,
                   initPid, power>>

\* proc::sem_wait
SemWait(k) ==
    /\ InUser
    /\ IF SemOf(k) = NoSem
       THEN Returns(1) /\ UNCHANGED <<sems, status, readyQueue, current, power>>
       ELSE /\ SetSem(k, SemWaited(SemOf(k), current))
            /\ IF Blocks(SemOf(k))
               THEN /\ Returns(SysNr)
                    /\ BlockCurrent
               ELSE Returns(0) /\ UNCHANGED <<status, readyQueue, current, power>>
    /\ UNCHANGED <<nextPid, exitCode, semSet, waitQueue, initPid>>

\* proc::sem_signal: the WakeUp arm leaves the caller's rax as it was.
SemSignal(k) ==
    /\ InUser
    /\ IF SemOf(k) = NoSem
       THEN Returns(1) /\ UNCHANGED <<sems, status, readyQueue>>
       ELSE /\ SetSem(k, SemSignalled(SemOf(k)))
            /\ IF Wakes(SemOf(k))
               THEN LET p == Head(SemOf(k).queue) IN
                    /\ rax' = [rax EXCEPT ![current] = SysNr, ![p] = 0]
                    /\ status' = Woken(status, {p})
                    /\ readyQueue' = Append(readyQueue, p)
               ELSE /\ SemOf(k).count < MaxCount
                    /\ Returns(0) /\ UNCHANGED <<status, readyQueue>>
    /\ UNCHANGED <<nextPid, exitCode, semSet, waitQueue, current, initPid, power>>

\* After shutdown, and in the panic handler's loop, nothing happens any more.
Stopped == power # "on" /\ UNCHANGED vars

Syscall ==
    \/ \E found \in BOOLEAN : Spawn(found)
    \/ Fork
    \/ \E ret \in ExitCodes : ProcessExit(ret)
    \/ KillCurrent
    \/ \E q \in Pids : Kill(q)
    \/ \E q \in Pids : WaitPid(q)
    \/ \E k \in SemKeys, v \in SemInits : NewSemaphore(k, v)
    \/ \E k \in SemKeys : RemoveSemaphore(k)
    \/ \E k \in SemKeys : SemWait(k)
    \/ \E k \in SemKeys : SemSignal(k)

Next == Clock \/ SpawnInit \/ KernelWait \/ Syscall \/ Stopped

Spec == Init /\ [][Next]_vars

\* The APIC timer never stops; the kernel's polling loop gets its turns.
FairSpec == Spec /\ WF_vars(Clock) /\ SF_vars(SpawnInit) /\ SF_vars(KernelWait)
-----------------------------------------------------------------------------
\* Every variable keeps its type, whatever the programs call.
TypeOK ==
    /\ nextPid \in 2..(MaxPid + 1)
    /\ status \in [Pids -> Statuses]
    /\ exitCode \in [Pids -> Int \cup {NoExit}]
    /\ rax \in [Pids -> Int \cup {SysNr}]
    /\ semSet \in [Pids -> Pids]
    /\ sems \in [Pids -> [SemKeys -> Sems \cup {NoSem}]]
    /\ readyQueue \in Seq(Pids)
    /\ waitQueue \in [Pids -> SUBSET Pids]
    /\ current \in Pids
    /\ initPid \in Pids \cup {0}
    /\ power \in {"on", "off", "panic"}

Queued(p) == p \in Range(readyQueue)

SemQueue(g, k) == IF sems[g][k] = NoSem THEN << >> ELSE sems[g][k].queue

OnSem(p) == \E g \in Pids, k \in SemKeys : p \in Range(SemQueue(g, k))

OnExit(p) == \E q \in Pids : p \in waitQueue[q]

\* The process that has the CPU is alive: it runs, or it is the kernel that
\* switch_next found at the head of the queue itself and left Ready.  No other
\* process is Running, and the caller is never also in the ready queue.
CpuHeldByOne ==
    power = "on" =>
        /\ exitCode[current] = NoExit
        /\ status[current] = "Running" \/ (current = KERNEL_PID /\ status[current] = "Ready")
        /\ \A p \in Pids : status[p] = "Running" => p = current
        /\ ~Queued(current)

\* No runnable process is lost and none is scheduled twice: a Ready process
\* without the CPU is in the ready queue, at one place, and what is in the
\* ready queue is Ready or was killed while it was there.
ReadyIsQueued ==
    power = "on" =>
        /\ \A p \in Pids : status[p] = "Ready" /\ p # current => Queued(p)
        /\ IsInjective(readyQueue)
        /\ \A p \in Pids : Queued(p) => status[p] \in {"Ready", "Dead"}

\* switch_next always finds somebody: the kernel process never blocks and
\* never dies, so the loop in process_exit cannot return to the dead caller.
KernelIsRunnable ==
    /\ status[KERNEL_PID] \in {"Ready", "Running"}
    /\ exitCode[KERNEL_PID] = NoExit
    /\ ~OnSem(KERNEL_PID) /\ ~OnExit(KERNEL_PID)

\* No process is in two wait structures, or twice in one.
WaitsApart ==
    /\ \A p \in Pids : ~(OnSem(p) /\ OnExit(p))
    /\ \A p, q, r \in Pids : p \in waitQueue[q] /\ p \in waitQueue[r] => q = r
    /\ \A g \in Pids, k \in SemKeys : IsInjective(SemQueue(g, k))
    /\ \A p, g, h \in Pids, k, l \in SemKeys :
          p \in Range(SemQueue(g, k)) /\ p \in Range(SemQueue(h, l)) => g = h /\ k = l

\* A process waits in at most one place: one slot of one semaphore, or one
\* entry of wait_queue, and never while it is in the ready queue.  So one
\* wake_up cannot be followed by a second one that runs it in the middle of
\* something else.
WaitsInOnePlace ==
    /\ WaitsApart
    /\ \A p \in Pids : OnSem(p) \/ OnExit(p) =>
                          status[p] \in {"Blocked", "Dead"} /\ ~Queued(p)

\* No exit is missed: nobody is left waiting for a process that has an exit
\* code, so wait_pid's check and its insertion cannot be overtaken by kill.
NoMissedExit == \A q \in Pids : exitCode[q] # NoExit => waitQueue[q] = {}

\* A semaphore never has units to give and waiters that want one.
NoIdleUnits ==
    \A g \in Pids, k \in SemKeys :
        sems[g][k] # NoSem => sems[g][k].count = 0 \/ sems[g][k].queue = << >>

\* The inductive invariant: all of the above, and pids are handed out in order.
FreshPids == \A p \in Pids : p >= nextPid => status[p] = "None"

IInv ==
    /\ TypeOK /\ CpuHeldByOne /\ ReadyIsQueued /\ KernelIsRunnable
    /\ WaitsInOnePlace /\ NoMissedExit /\ NoIdleUnits /\ FreshPids

\* A blocked process is in some wait structure, so that something can wake
\* it: this needs the programs not to drop a semaphore that has waiters.
BlockedIsWaiting == \A p \in Pids : status[p] = "Blocked" => OnSem(p) \/ OnExit(p)

\* switch_next never restores a process whose address space is gone: this
\* needs the programs not to kill a process that is blocked.
NoPanic == power # "panic"

\* Whoever is released from wait_queue[q] gets the exit code of q in rax and
\* is queued to run, in the step that gives q its exit code.
ExitReachesWaiters ==
    [][\A p, q \in Pids :
        p \in waitQueue[q] /\ p \notin waitQueue'[q] =>
            /\ exitCode[q] = NoExit /\ exitCode'[q] # NoExit
            /\ rax'[p] = exitCode'[q]
            /\ power' = "on" => status'[p] = "Running" \/ Queued(p)']_vars

\* A process dies once: it does not come back and its exit code stays.
DeathIsFinal ==
    [][\A p \in Pids : exitCode[p] # NoExit =>
        exitCode'[p] = exitCode[p] /\ status'[p] = "Dead"]_vars

Life == INSTANCE ProcessLife
            WITH Codes <- ExitCodes \cup {Dead0x}, next <- nextPid, code <- exitCode,
                 waiting <- waitQueue, running <- current

\* The queues, states and switches of the process manager implement the plain
\* life of processes: one CPU that only the living who wait for nobody get,
\* deaths that are final, and waits that end with the death waited for.
LifeImplemented == Life!Spec

\* Round robin: a process that is ready to run gets the CPU or is killed.
ReadyRuns ==
    \A p \in Pids : (power = "on" /\ status[p] = "Ready") ~>
        (current = p \/ status[p] = "Dead" \/ power # "on")

\* The machine is shut down once the first program has exited.
ShutdownFollows == (initPid # 0 /\ exitCode[initPid] # NoExit) ~> power = "off"
=============================================================================
