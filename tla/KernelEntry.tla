---------------------------- MODULE KernelEntry ----------------------------
(***************************************************************************)
(* The locks inside one entry of the kernel.  There is one CPU: a spinning *)
(* lock that is held when it is taken is never released.  Handlers run     *)
(* with interrupts off, the kernel process with interrupts on outside      *)
(* without_interrupts; a page fault can come in the middle of a handler.   *)
(* Each function is the sequence of its lock operations, and a call is the *)
(* set of the sequences that its branches allow.  The log level is debug.  *)
(***************************************************************************)
EXTENDS Integers, Sequences

Locks == {"processes", "ready", "wait", "inner", "other", "child", "resources", "handle",
          "sems", "sem", "serial", "frames", "heap", "userheap", "uefi"}

VARIABLES
    calls,    \* the handlers that are active, innermost last: what is left of each
    kernel,   \* what is left of the kernel process
    cpu,      \* whose code runs below the handlers: "kernel", "user" or "panic"
    masked,   \* depth of without_interrupts
    held,     \* held[l]: -1 for a writer, the number of readers, or 0
    spawned,  \* is there a user process?
    grown,    \* has ready_queue allocated its first buffer?
    input     \* has INPUT_BUF been initialised?

vars == <<calls, kernel, cpu, masked, held, spawned, grown, input>>
-----------------------------------------------------------------------------
Op(op, lock, skip) == <<[op |-> op, lock |-> lock, skip |-> skip]>>
Do(op) == Op(op, "serial", 0)
With(op, lock, body) == Op(op, lock, 0) \o body \o Op("release", lock, 0)

Reading(lock, body) == With("read", lock, body)
Locked(lock, body) == With("write", lock, body)
Sure(lock, body) == With("sure", lock, body)
NoInterrupts(body) == Do("off") \o body \o Do("on")
Nothing == << >>

\* The concatenations of a sequence in S and one in T.
Then(S, T) == {s \o t : s \in S, t \in T}

\* The global allocator, for one or more calls in a row.
Alloc == Locked("heap", Nothing)

\* Mutant: interrupts stay on while the serial port is locked.
PrintInternalUnmasked(body) ==
    Op("try", "serial", Len(body) + 1) \o body \o Op("release", "serial", 0)

\* print_internal: the message is dropped when the port is locked.
PrintInternal(body) ==
    NoInterrupts(Op("try", "serial", Len(body) + 1) \o body \o Op("release", "serial", 0))

Log == PrintInternal(Nothing)

GetProc == Reading("processes", Nothing)
Current == GetProc
SaveCurrent == Current \o Locked("inner", Nothing)
PushReady == Locked("ready", Do("grow"))
AddProc == Locked("processes", Alloc)
GetRet == GetProc \o Reading("other", Nothing)

\* switch_next holds ready_queue in the body of its loop: the entry may be the
\* caller's, or be dropped with a message, or be restored.
Popped(body) == Locked("ready", Reading("processes", body))
SwitchSelf == Popped(Reading("inner", Nothing))
SwitchDrop == Popped(Reading("other", Nothing) \o Reading("other", Log))
SwitchAway == Popped(Reading("other", Nothing) \o Locked("other", Do("switch")))
SwitchNext == {SwitchAway, SwitchDrop \o SwitchAway}

WakeUp == GetProc \o Locked("other", PushReady)

\* ProcessManager::kill; wait_queue stays locked while the waiters are woken.
KillProc(lock) ==
    Then({GetProc \o Locked(lock, Log \o Sure("frames", Alloc \o Log) \o Alloc)},
         {Locked("wait", Alloc \o w) : w \in {Nothing, WakeUp}})

\* ProcessManager::spawn, where lock is the kernel process's.
ManagerSpawn(lock) ==
    GetProc \o Reading(lock, Sure("frames", Nothing)) \o Alloc
    \o Locked("child", Sure("frames", Alloc)) \o AddProc \o PushReady

ElfSpawn(lock) == NoInterrupts(Alloc \o Current \o ManagerSpawn(lock) \o Log)
-----------------------------------------------------------------------------
\* The handlers.  "touch" is an access to memory of the caller, which may be
\* on a page of its stack that is not mapped yet.
Clock ==
    {NoInterrupts(SaveCurrent \o PushReady \o s) :
        s \in IF spawned THEN SwitchNext \cup {SwitchSelf} ELSE {SwitchSelf}}

\* The first use of INPUT_BUF, by push_key or try_pop_key, allocates it.
Receive ==
    {Sure("serial", Nothing) \o m : m \in {Nothing, Do("input"), Do("input") \o Log}}

Handled(body) == NoInterrupts(Current \o Locked("inner", Sure("frames", body)))
Unhandled == Log \o Current \o PrintInternal(Reading("inner", Alloc)) \o Do("panic")

PageFault ==
    {Handled(IF cpu = "kernel" THEN Log ELSE Nothing), NoInterrupts(Nothing) \o Unhandled}
    \cup {Handled(m) \o Unhandled : m \in {Nothing, Log}}

Brk == {Log \o NoInterrupts(Current \o Reading("inner", Sure("frames", Log)))}

SemTable == {NoInterrupts(Current \o Locked("inner", Locked("sems", Alloc)))}

SemOp == Current \o Locked("inner", Reading("sems", Locked("sem", Alloc)))

Block == SaveCurrent \o Current \o Locked("inner", Nothing)

\* Mutant: the guard of the process lives until the end of the match.
SemWaitMatch ==
    {NoInterrupts(Current \o Locked("inner", Reading("sems", Locked("sem", Alloc)) \o s)) :
        s \in {Nothing} \cup Then({Block}, SwitchNext)}

SemWait == {NoInterrupts(SemOp \o s) : s \in {Nothing} \cup Then({Block}, SwitchNext)}

SemSignal == {NoInterrupts(SemOp \o s) : s \in {Nothing, WakeUp}}

ForkLocked ==
    Sure("frames", Nothing) \o Alloc \o Log \o Log \o Alloc

\* Without frames the search of Stack::fork for a place never ends.
ForkSearches ==
    NoInterrupts(SaveCurrent \o Current \o Locked("inner", Sure("frames", Do("search"))))


Fork ==
    {NoInterrupts(SaveCurrent \o Current \o Locked("inner", ForkLocked)
        \o PrintInternal(Reading("child", Alloc)) \o PushReady \o AddProc \o PushReady \o s) :
        s \in SwitchNext} \cup {ForkSearches}

\* proc::read and proc::write hold the process while the buffer is accessed.
Handle(body) ==
    NoInterrupts(Current \o Reading("inner", Reading("resources", Locked("handle", body))))
Read == {Handle(Nothing), Handle(Do("input")), Handle(Do("input") \o Do("touch"))}
Write == {Handle(Nothing), Handle(Do("touch") \o Log)}

GetPid == {NoInterrupts(Nothing)}

Spawn ==
    {Do("touch") \o NoInterrupts(Nothing) \o s :
        s \in {Alloc \o Log, Alloc \o ElfSpawn("other")}}

Exit == {NoInterrupts(s) : s \in Then(KillProc("inner"), SwitchNext)}

Kill == {Log, NoInterrupts(GetProc \o Log)} \cup {NoInterrupts(s) : s \in KillProc("other")} \cup Exit

WaitPid ==
    {NoInterrupts(GetRet \o s) : s \in {Nothing} \cup Then({Locked("wait", Alloc) \o Block}, SwitchNext)}

Time == {Sure("uefi", Nothing)}

\* print_process_list keeps the frame allocator until it has printed.
Stat ==
    {NoInterrupts(Alloc \o Reading("processes", Reading("inner", Nothing) \o Reading("inner", Alloc))
        \o Locked("heap", Nothing) \o Alloc \o Locked("userheap", Nothing) \o Alloc
        \o Sure("frames", Alloc \o Locked("ready", Alloc) \o Alloc \o Log))}

ListApp == {NoInterrupts(Alloc \o Log)}

Allocate == {Do("touch"), Do("touch") \o Locked("userheap", Nothing)}

\* The dispatcher: the branches of every call, by name.
Branches(call) ==
    CASE call = "brk" -> Brk [] call = "sem_new" -> SemTable [] call = "sem_wait" -> SemWait
      [] call = "sem_signal" -> SemSignal [] call = "fork" -> Fork [] call = "read" -> Read
      [] call = "write" -> Write [] call = "pid" -> GetPid [] call = "spawn" -> Spawn
      [] call = "exit" -> Exit [] call = "kill" -> Kill [] call = "wait" -> WaitPid
      [] call = "time" -> Time [] call = "stat" -> Stat [] call = "list" -> ListApp
      [] call = "allocate" -> Allocate

Calls == {"brk", "sem_new", "sem_wait", "sem_signal", "fork", "read", "write", "pid", "spawn",
          "exit", "kill", "wait", "time", "stat", "list", "allocate"}

\* grow_stack: the pages under the initial stack, touched in the function and
\* in the message that it prints.
GrowStack == Do("touch") \o PrintInternal(Do("touch"))

\* ysos::init from where interrupts are enabled, then spawn_init.
KernelMain ==
    Log \o Log \o Log \o GrowStack \o Log
    \o NoInterrupts(Alloc \o Log) \o NoInterrupts(Nothing) \o Alloc
    \o ElfSpawn("inner") \o Do("spawned")

\* ysos::wait
WaitLoop == NoInterrupts(GetRet)

Frame(entry, code) == [entry |-> entry, code |-> code]

Init ==
    /\ kernel = KernelMain
    /\ cpu = "kernel" /\ masked = 0
    /\ held = [l \in Locks |-> 0]
    /\ spawned = FALSE /\ grown = FALSE /\ input = FALSE
    /\ calls = << >>
-----------------------------------------------------------------------------
Top == calls[Len(calls)]
Code == IF calls = << >> THEN kernel ELSE Top.code
Running == Code # << >> /\ (calls # << >> \/ cpu = "kernel") /\ cpu # "panic"
Now == Head(Code)

\* What is left of the code that runs.
Continue(code) ==
    IF calls = << >> THEN kernel' = code /\ UNCHANGED calls
    ELSE calls' = [calls EXCEPT ![Len(calls)].code = code] /\ UNCHANGED kernel

Free(op, l) == IF op = "read" THEN held[l] >= 0 ELSE held[l] = 0

\* A lock that is waited for, taken when it is free.
TakeLock ==
    /\ Running /\ Now.op \in {"read", "write"} /\ Free(Now.op, Now.lock)
    /\ held' = [held EXCEPT ![Now.lock] = IF Now.op = "read" THEN @ + 1 ELSE -1]
    /\ Continue(Tail(Code))
    /\ UNCHANGED <<cpu, masked, spawned, grown, input>>

\* try_lock: for_sure panics when the lock is held, get_serial gives None.
TryLock ==
    /\ Running /\ Now.op \in {"sure", "try"}
    /\ IF Free(Now.op, Now.lock)
       THEN /\ held' = [held EXCEPT ![Now.lock] = -1]
            /\ Continue(Tail(Code))
            /\ UNCHANGED cpu
       ELSE IF Now.op = "try"
       THEN Continue(SubSeq(Code, Now.skip + 2, Len(Code))) /\ UNCHANGED <<held, cpu>>
       ELSE cpu' = "panic" /\ UNCHANGED <<held, calls, kernel>>
    /\ UNCHANGED <<masked, spawned, grown, input>>

Release ==
    /\ Running /\ Now.op = "release"
    /\ held' = [held EXCEPT ![Now.lock] = IF @ > 0 THEN @ - 1 ELSE 0]
    /\ Continue(Tail(Code))
    /\ UNCHANGED <<cpu, masked, spawned, grown, input>>

Mask ==
    /\ Running /\ Now.op \in {"off", "on"}
    /\ masked' = IF Now.op = "off" THEN masked + 1 ELSE masked - 1
    /\ Continue(Tail(Code))
    /\ UNCHANGED <<cpu, held, spawned, grown, input>>

\* VecDeque::push_back allocates the first time, and may do so again when
\* there are more processes.
Grow ==
    /\ Running /\ Now.op = "grow"
    /\ \E code \in (IF grown THEN {Tail(Code)} ELSE {}) \cup
                   (IF ~grown \/ spawned THEN {Alloc \o Tail(Code)} ELSE {}) : Continue(code)
    /\ grown' = TRUE
    /\ UNCHANGED <<cpu, masked, held, spawned, input>>

\* lazy_static: INPUT_BUF.
FirstInput ==
    /\ Running /\ Now.op = "input"
    /\ Continue(IF input THEN Tail(Code) ELSE Alloc \o Tail(Code))
    /\ input' = TRUE
    /\ UNCHANGED <<cpu, masked, held, spawned, grown>>

\* restore
Switch ==
    /\ Running /\ Now.op = "switch"
    /\ cpu' \in IF cpu = "kernel" THEN {"user"} ELSE {"kernel", "user"}
    /\ Continue(Tail(Code))
    /\ UNCHANGED <<masked, held, spawned, grown, input>>

Touch ==
    /\ Running /\ Now.op = "touch"
    /\ Continue(Tail(Code))
    /\ UNCHANGED <<cpu, masked, held, spawned, grown, input>>

\* The page is not mapped: the page fault handler runs first.
Fault ==
    /\ Running /\ Now.op = "touch"
    /\ \E s \in PageFault :
        calls' = Append(IF calls = << >> THEN calls
                        ELSE [calls EXCEPT ![Len(calls)].code = Tail(Code)], Frame("fault", s))
    /\ kernel' = IF calls = << >> THEN Tail(kernel) ELSE kernel
    /\ UNCHANGED <<cpu, masked, held, spawned, grown, input>>

Spawned ==
    /\ Running /\ Now.op = "spawned"
    /\ spawned' = TRUE
    /\ Continue(Tail(Code))
    /\ UNCHANGED <<cpu, masked, held, grown, input>>

Panics ==
    /\ Running /\ Now.op = "panic"
    /\ cpu' = "panic"
    /\ UNCHANGED <<calls, kernel, masked, held, spawned, grown, input>>

\* iretq
Return ==
    /\ calls # << >> /\ Top.code = << >> /\ cpu # "panic"
    /\ calls' = SubSeq(calls, 1, Len(calls) - 1)
    /\ UNCHANGED <<kernel, cpu, masked, held, spawned, grown, input>>

Poll ==
    /\ calls = << >> /\ cpu = "kernel" /\ kernel = << >>
    /\ kernel' = WaitLoop
    /\ UNCHANGED <<calls, cpu, masked, held, spawned, grown, input>>

\* A handler begins: an interrupt when they are on, or what a program does.
Enter(entry, scripts) ==
    /\ calls = << >> /\ cpu # "panic"
    /\ \E s \in scripts : calls' = <<Frame(entry, s)>>
    /\ UNCHANGED <<kernel, cpu, masked, held, spawned, grown, input>>

Interrupt ==
    /\ cpu = "user" \/ masked = 0
    /\ Enter("clock", Clock) \/ Enter("serial", Receive)

UserEntry ==
    /\ cpu = "user"
    /\ \/ Enter("fault", PageFault)
       \/ \E call \in Calls : Enter(call, {NoInterrupts(s) : s \in Branches(call)})

\* A lock that is wanted while it is held.
Stuck == Running /\ Now.op \in {"read", "write"} /\ ~Free(Now.op, Now.lock)
Searches == Running /\ Now.op = "search"

\* On the only CPU it is waited for for ever.
Spin == (Stuck \/ Searches) /\ UNCHANGED vars

Halted == cpu = "panic" /\ UNCHANGED vars

Step ==
    \/ TakeLock \/ TryLock \/ Release \/ Mask \/ Grow \/ FirstInput \/ Switch \/ Touch \/ Fault
    \/ Spawned \/ Panics \/ Return \/ Poll

Next == Step \/ Interrupt \/ UserEntry \/ Spin \/ Halted

\* The CPU executes.
Spec == Init /\ [][Next]_vars /\ WF_vars(Step)
-----------------------------------------------------------------------------
\* A page fault at the buffer of sys_read or sys_write.
BufferFault ==
    Len(calls) > 1 /\ Top.entry = "fault" /\ calls[Len(calls) - 1].entry \in {"read", "write"}

\* The kernel process is in the allocation of the first program's name, which
\* spawn makes with interrupts on.
InName == cpu = "kernel" /\ kernel # << >> /\ <<Head(kernel)>> = Op("release", "heap", 0)

\* An interrupt there that is the first tick or the first key: the one
\* allocates the buffer of ready_queue, the other INPUT_BUF.
FirstInName == InName /\ Len(calls) = 1 /\ Top.entry \in {"clock", "serial"}

\* Wherever an interrupt comes, and in every branch of every handler, no lock
\* that is waited for is held, with two exceptions.  A read or write with a
\* buffer on a stack page that is not mapped holds the process that the page
\* fault handler wants to write; and the first tick or key, when it comes in
\* the middle of the allocation of the first program's name, wants the heap.
TwoSpins ==
    Stuck => \/ BufferFault /\ Now.lock = "inner"
             \/ FirstInName /\ Now.lock = "heap"

\* for_sure never panics, and no message is dropped, except by a page fault
\* on the kernel's own stack in the middle of a message.
TriedLocksFree ==
    Running /\ Now.op \in {"sure", "try"} /\ ~Free(Now.op, Now.lock) =>
        Now.op = "try" /\ cpu = "kernel" /\ Top.entry = "fault" /\ ~spawned

=============================================================================
