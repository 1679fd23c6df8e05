------------------------------ MODULE ProcessVm ------------------------------
(***************************************************************************)
(* The memory of the user processes: proc/vm/{mod,stack,heap}.rs and       *)
(* proc/paging.rs over the page tables and frames of Paging.  Processes    *)
(* forked from one another share a page table.  Everything here runs with  *)
(* interrupts off.                                                         *)
(***************************************************************************)
EXTENDS Paging, FiniteSets

CONSTANTS
    MaxPid,          \* bound: processes made
    NumFrames,       \* frames in the machine
    STACK_MAX_PAGES, \* pages in the slot of one stack
    Slots,           \* bound: stack slots below STACK_MAX
    CodePages,       \* pages of the program's segments, as load_segment returns them
    HEAP_PAGES,      \* pages of the heap
    PAGE_SIZE,       \* addresses in a page
    Brks             \* the ends the programs ask brk for, relative to the base

STACK_DEF_PAGE == 1
StackPages == 0..(Slots * STACK_MAX_PAGES - 1)
CodeStart == Slots * STACK_MAX_PAGES
CodeEnd == CodeStart + CodePages - 1
BssPage == CodeEnd + 1   \* the page behind the last segment
HeapStart == BssPage + 1
\* brk accepts base + HEAP_SIZE, whose page is the one after the heap
Pages == 0..(HeapStart + HEAP_PAGES)
Frames == 1..NumFrames
Procs == 1..MaxPid

ASSUME VmConstants ==
    /\ MaxPid \in Nat /\ NumFrames \in Nat /\ Slots \in Nat \ {0}
    /\ STACK_MAX_PAGES \in Nat \ {0} /\ CodePages \in Nat \ {0}
    /\ HEAP_PAGES \in Nat /\ PAGE_SIZE \in Nat \ {0}
    /\ Brks \subseteq 0..(HEAP_PAGES * PAGE_SIZE)
    /\ NoFrame \notin Frames

VARIABLES
    free,      \* the frame allocator
    map,       \* the page tables, by the process they were made for
    p4,        \* the frame of the top table, the one in Cr3
    table,     \* whose page table a process uses (PageTableContext::reg); 0: no memory
    start,     \* Stack::range.start
    usage,     \* Stack::usage
    children,  \* how many processes it has forked
    end,       \* Heap::end, shared like the table, relative to the base
    code,      \* does the process hold the code pages (ProcessVm::code)?
    nextPid,   \* the next process
    forking,   \* the fork under way: parent and the slots below it to try next
    state,     \* "ok", or what has stopped the machine
    dropped,   \* history: the frames dropped by a map_range that failed
    strays,    \* history: the pages, by table, that a map_range mapped before it
               \* failed or that a lowered brk has left
    last       \* history: the last process that used a table

lostVars == <<dropped, strays, last>>
vars == <<free, map, p4, table, start, usage, children, end, code, nextPid, forking, state,
          lostVars>>

NoFork == [parent |-> 0, offset |-> 0]
Blank == [p \in Pages |-> NoFrame]

Init ==
    /\ free = [i \in Frames |-> i]
    /\ map = [t \in Procs |-> Blank]
    /\ p4 = [t \in Procs |-> NoFrame]
    /\ table = [p \in Procs |-> 0]
    /\ start = [p \in Procs |-> 0]
    /\ usage = [p \in Procs |-> 0]
    /\ children = [p \in Procs |-> 0]
    /\ end = [t \in Procs |-> 0]
    /\ code = [p \in Procs |-> FALSE]
    /\ nextPid = 1
    /\ forking = NoFork
    /\ state = "ok"
    /\ dropped = {}
    /\ strays = [t \in Procs |-> {}]
    /\ last = [t \in Procs |-> 0]
-----------------------------------------------------------------------------
Idle == state = "ok" /\ forking = NoFork
Alive(p) == table[p] # 0
Users(t) == {q \in Procs : table[q] = t}
Slot(page) == page \div STACK_MAX_PAGES

\* ProcessManager::spawn: clone_level_4, then load_elf.  Every allocation is
\* unwrapped, so that running out of frames is a panic.  When the last segment
\* ends in .bss and on a page boundary, load_segment maps one page more (extra)
\* than the range that it returns.
Spawn(p, extra) ==
    /\ Idle /\ p = nextPid
    /\ nextPid' = nextPid + 1
    /\ LET top == Slots * STACK_MAX_PAGES - STACK_DEF_PAGE
           withCode == Mapped(Blank, Tail(free), CodeStart, CodeEnd + extra)
           rest == MapFree(Blank, Tail(free), CodeStart, CodeEnd + extra)
       IN  IF Len(free) < 1 + CodePages + extra + STACK_DEF_PAGE
           THEN /\ state' = "oom"
                /\ UNCHANGED <<free, map, p4, table, start, usage, end, code>>
           ELSE /\ p4' = [p4 EXCEPT ![p] = Head(free)]
                /\ map' = [map EXCEPT ![p] =
                              Mapped(withCode, rest, top, top + STACK_DEF_PAGE - 1)]
                /\ free' = MapFree(withCode, rest, top, top + STACK_DEF_PAGE - 1)
                /\ table' = [table EXCEPT ![p] = p]
                /\ start' = [start EXCEPT ![p] = top]
                /\ usage' = [usage EXCEPT ![p] = STACK_DEF_PAGE]
                /\ end' = [end EXCEPT ![p] = 0]
                /\ code' = [code EXCEPT ![p] = TRUE]
                /\ UNCHANGED state
    /\ UNCHANGED <<children, forking, lostVars>>

\* Process::fork enters Stack::fork.  The loop there goes on, with interrupts
\* off, in ForkMaps and ForkRetries, and nothing else runs meanwhile.
ForkBegins(p) ==
    /\ Idle /\ Alive(p) /\ nextPid <= MaxPid
    /\ forking' = [parent |-> p, offset |-> children[p]]
    /\ UNCHANGED <<free, map, p4, table, start, usage, children, end, code, nextPid, state,
                   lostVars>>

\* The pages that the loop tries to map for the new stack.
ChildStart == start[forking.parent] - forking.offset * STACK_MAX_PAGES
ChildEnd == ChildStart + usage[forking.parent] - 1
ForkTable == table[forking.parent]
ForkFits == MapOk(map[ForkTable], free, ChildStart, ChildEnd)

\* bound: the search has not left the Slots.
InSlots == ChildStart >= 0

ForkTakes ==
    /\ map' = [map EXCEPT ![ForkTable] = Mapped(@, free, ChildStart, ChildEnd)]
    /\ free' = MapFree(map[ForkTable], free, ChildStart, ChildEnd)
    /\ dropped' = dropped \cup MapDrops(map[ForkTable], free, ChildStart, ChildEnd)
    /\ strays' = [strays EXCEPT ![ForkTable] =
                     @ \cup MapStrays(map[ForkTable], free, ChildStart, ChildEnd)]
    /\ UNCHANGED last

\* Mutant: the child gets its parent's stack when that is mapped.
ForkShares(p) ==
    /\ state = "ok" /\ forking # NoFork /\ p = nextPid
    /\ ForkTakes
    /\ table' = [table EXCEPT ![p] = ForkTable]
    /\ start' = [start EXCEPT ![p] = ChildStart]
    /\ usage' = [usage EXCEPT ![p] = usage[forking.parent]]
    /\ children' = [children EXCEPT ![forking.parent] = @ + 1]
    /\ nextPid' = nextPid + 1
    /\ forking' = NoFork
    /\ UNCHANGED <<p4, end, code, state>>

\* map_pages succeeds: the child shares the table, the heap, not the code info.
ForkMaps(p) ==
    /\ state = "ok" /\ forking # NoFork /\ p = nextPid /\ InSlots
    /\ ForkFits
    /\ ForkTakes
    /\ table' = [table EXCEPT ![p] = ForkTable]
    /\ start' = [start EXCEPT ![p] = ChildStart]
    /\ usage' = [usage EXCEPT ![p] = usage[forking.parent]]
    /\ children' = [children EXCEPT ![forking.parent] = @ + 1]
    /\ nextPid' = nextPid + 1
    /\ forking' = NoFork
    /\ UNCHANGED <<p4, end, code, state>>

\* map_pages fails: what it has mapped stays mapped, and the next slot below
\* is tried.  Without frames that goes on for ever.
ForkRetries ==
    /\ state = "ok" /\ forking # NoFork /\ InSlots
    /\ ~ForkFits
    /\ ForkTakes
    /\ IF free' = << >>
       THEN state' = "oom" /\ UNCHANGED forking
       ELSE forking' = [forking EXCEPT !.offset = @ + 1] /\ UNCHANGED state
    /\ UNCHANGED <<p4, table, start, usage, children, end, code, nextPid>>

\* is_on_stack: the page is in the slot of p's stack.
OnStack(p, page) == Slot(page) = Slot(start[p])

\* grow_stack maps everything from the page to the start of the stack.
GrowStack(p, page) ==
    LET t == table[p]
        hi == start[p] - 1
    IN  /\ map' = [map EXCEPT ![t] = Mapped(@, free, page, hi)]
        /\ free' = MapFree(map[t], free, page, hi)
        /\ IF MapOk(map[t], free, page, hi)
           THEN /\ start' = [start EXCEPT ![p] = page]
                /\ usage' = [usage EXCEPT ![p] = @ + start[p] - page]
                /\ UNCHANGED state
           ELSE /\ state' = IF MapStop(map[t], page, hi) <= hi THEN "fault" ELSE "oom"
                /\ UNCHANGED <<start, usage>>

\* A process touches a page of its own stack slot that is not mapped.  When
\* the stack cannot be grown the handler panics.
PageFault(p, page) ==
    /\ Idle /\ Alive(p)
    /\ OnStack(p, page) /\ page < start[p]
    /\ map[table[p]][page] = NoFrame
    /\ GrowStack(p, page)
    /\ UNCHANGED <<p4, table, children, end, code, nextPid, forking, lostVars>>

\* The page of an end of the heap, and the first page that brk takes to be
\* behind that end.
EndPage(e) == HeapStart + e \div PAGE_SIZE
BehindPage(e) == IF e = 0 THEN HeapStart ELSE EndPage(e) + 1

\* Heap::brk with an end in range.  The difference is a u64: it is never
\* below zero, so an end below the current one is stored and nothing unmapped.
Brk(p, e) ==
    /\ Idle /\ Alive(p)
    /\ LET t == table[p]
           lo == BehindPage(end[t])
           hi == BehindPage(e) - 1
       IN  IF e = end[t] THEN UNCHANGED <<free, map, end, dropped, strays>>
           ELSE /\ map' = [map EXCEPT ![t] = Mapped(@, free, lo, hi)]
                /\ free' = MapFree(map[t], free, lo, hi)
                /\ dropped' = dropped \cup MapDrops(map[t], free, lo, hi)
                /\ strays' = [strays EXCEPT ![t] =
                                 @ \cup MapStrays(map[t], free, lo, hi) \cup (hi + 1)..(lo - 1)]
                /\ IF MapOk(map[t], free, lo, hi)
                   THEN end' = [end EXCEPT ![t] = e]
                   ELSE UNCHANGED end
    /\ UNCHANGED <<p4, table, start, usage, children, code, nextPid, forking, state, last>>

\* Mutant: the table, the heap and the code are freed by whoever exits.
LastAlways(p) == TRUE

\* Mutant: the users are counted as if p were gone already.
LastNever(p) == Users(table[p]) = {}

LastUser(p) == Users(table[p]) = {p}

\* The clean_up of the stack; then, by the last user only, that of the heap,
\* up to the page of its end, and of the code ranges that p holds.
StackCleaned(p) == Unmapping(map[table[p]], free, start[p], start[p] + usage[p] - 1)

HeapCleaned(p, was) ==
    Unmapping(was.map, was.free, HeapStart,
              IF end[table[p]] = 0 THEN HeapStart - 1 ELSE EndPage(end[table[p]]))

CodeCleaned(p, was) ==
    Unmapping(was.map, was.free, CodeStart, IF code[p] THEN CodeEnd ELSE CodeStart - 1)

\* ProcessVm::clean_up, which the exit or the kill of p runs when it drops the
\* memory.  Each step is skipped when one before it has failed; the last one
\* frees the top table.
CleanUp(p) ==
    LET t == table[p]
        stack == StackCleaned(p)
        heap == HeapCleaned(p, stack)
        codes == CodeCleaned(p, heap)
        shared == stack.ok /\ LastUser(p)
        top == shared /\ heap.ok /\ codes.ok
        done == IF ~shared THEN stack ELSE IF ~heap.ok THEN heap ELSE codes
    IN  /\ map' = [map EXCEPT ![t] = done.map]
        /\ free' = IF top THEN Dealloc(done.free, <<p4[t]>>) ELSE done.free
        /\ p4' = IF top THEN [p4 EXCEPT ![t] = NoFrame] ELSE p4
        /\ end' = IF shared THEN [end EXCEPT ![t] = 0] ELSE end
        /\ last' = IF LastUser(p) THEN [last EXCEPT ![t] = p] ELSE last
        /\ UNCHANGED <<dropped, strays>>

\* Mutant: the usage of the stack is not reset.
ExitKeepsUsage(p) ==
    /\ Idle /\ Alive(p)
    /\ CleanUp(p)
    /\ table' = [table EXCEPT ![p] = 0]
    /\ start' = [start EXCEPT ![p] = 0]
    /\ code' = [code EXCEPT ![p] = FALSE]
    /\ UNCHANGED <<usage, children, nextPid, forking, state>>

Exit(p) ==
    /\ Idle /\ Alive(p)
    /\ CleanUp(p)
    /\ table' = [table EXCEPT ![p] = 0]
    /\ start' = [start EXCEPT ![p] = 0]
    /\ usage' = [usage EXCEPT ![p] = 0]
    /\ code' = [code EXCEPT ![p] = FALSE]
    /\ UNCHANGED <<children, nextPid, forking, state>>

Stopped == state # "ok" /\ UNCHANGED vars

\* All pids of the bound are used and nobody lives.
AllGone == nextPid > MaxPid /\ (\A p \in Procs : ~Alive(p)) /\ UNCHANGED vars

Next ==
    \/ \E p \in Procs, extra \in {0, 1} : Spawn(p, extra)
    \/ \E p \in Procs : ForkBegins(p)
    \/ \E p \in Procs : ForkMaps(p)
    \/ ForkRetries
    \/ \E p \in Procs, page \in StackPages : PageFault(p, page)
    \/ \E p \in Procs, e \in Brks : Brk(p, e)
    \/ \E p \in Procs : Exit(p)
    \/ Stopped
    \/ AllGone

Spec == Init /\ [][Next]_vars
-----------------------------------------------------------------------------
StackOf(p) == start[p]..(start[p] + usage[p] - 1)

\* Every variable keeps its type, and a process without memory has no stack.
TypeOK ==
    /\ free \in Seq(Frames)
    /\ map \in [Procs -> [Pages -> Frames \cup {NoFrame}]]
    /\ p4 \in [Procs -> Frames \cup {NoFrame}]
    /\ table \in [Procs -> 0..MaxPid]
    /\ start \in [Procs -> StackPages]
    /\ usage \in [Procs -> 0..STACK_MAX_PAGES]
    /\ end \in [Procs -> 0..(HEAP_PAGES * PAGE_SIZE)]
    /\ nextPid \in 1..(MaxPid + 1)
    /\ state \in {"ok", "oom", "fault"}
    /\ \A p \in Procs : Alive(p) <=> usage[p] > 0

\* No frame has two uses: a frame is one page of one table, or the top table
\* of one, or waits once in the free list.  So no process reaches memory of
\* another through a page that was freed and handed out again.
FramesApart ==
    /\ \A s \in Procs, p \in Pages : map[s][p] # NoFrame =>
          \A t \in Procs, q \in Pages : map[t][q] = map[s][p] => t = s /\ q = p
    /\ \A s \in Procs : p4[s] # NoFrame =>
          \A t \in Procs : (p4[t] = p4[s] => t = s) /\ \A p \in Pages : map[t][p] # p4[s]
    /\ \A i \in 1..Len(free) :
          /\ \A j \in 1..Len(free) : free[i] = free[j] => i = j
          /\ \A t \in Procs : p4[t] # free[i] /\ \A p \in Pages : map[t][p] # free[i]

\* The stack of a living process is mapped, within its slot, and shares no
\* slot with a stack in the same table: neither growth nor clean_up of one
\* touches the other.
StacksApart ==
    \A p \in Procs : Alive(p) =>
        /\ \A page \in StackOf(p) :
              map[table[p]][page] # NoFrame /\ Slot(page) = Slot(start[p])
        /\ \A q \in Procs : table[q] = table[p] /\ q # p => Slot(start[q]) # Slot(start[p])

\* As long as a process lives the code is mapped, whoever of the family has
\* died, and so is the heap up to its end.
SharedMapped ==
    \A p \in Procs : Alive(p) =>
        LET t == table[p]
        IN  /\ p4[t] # NoFrame
            /\ \A page \in CodeStart..CodeEnd : map[t][page] # NoFrame
            /\ end[t] # 0 => \A page \in HeapStart..EndPage(end[t]) : map[t][page] # NoFrame

InUse(f) ==
    \E t \in Procs : (Users(t) # {}) /\ (p4[t] = f \/ \E p \in Pages : map[t][p] = f)

\* What clean_up leaves mapped in a table that nobody uses any more.
Left(t, page) ==
    \/ page \in strays[t]
    \/ page = BssPage
    \/ page \in CodeStart..CodeEnd /\ last[t] # t

\* Frames are lost in four ways only.  Through every order of forks, growth,
\* brk and exits, a frame is free, or in use by a process that lives, or was
\* dropped by a map_range that met a mapped page, or lies in the table of a dead
\* family: in a page that a failed map_range or a lowered brk has left there, in
\* the page behind .bss, or in the code when a forked process was the last.
NoFrameLost ==
    state = "ok" => \A f \in Frames :
        \/ InUse(f) \/ (\E i \in 1..Len(free) : free[i] = f) \/ f \in dropped
        \/ \E t \in Procs, page \in Pages :
              Users(t) = {} /\ map[t][page] = f /\ Left(t, page)

\* "every time we meet a page fault, we alloc more frames": with frames left,
\* a fault on the process's own stack is handled.
FaultHandled == state # "fault"

\* brk leaves exactly the pages up to the new end mapped.
HeapIsItsPages ==
    \A t \in Procs : Users(t) # {} =>
        \A page \in HeapStart..(HeapStart + HEAP_PAGES) :
            map[t][page] # NoFrame <=> page < BehindPage(end[t])
=============================================================================
