-------------------------------- MODULE Boot --------------------------------
(***************************************************************************)
(* From the firmware to the running kernel: efi_main loads the files, maps *)
(* physical memory, the kernel (LoadElf) and its stack, hands the firmware *)
(* memory map over, and ysos::init builds the frame allocator and the user *)
(* heap from it.  Addresses are counted in frames; the page tables that    *)
(* one region of the address space needs are one frame.                    *)
(***************************************************************************)
EXTENDS LoadElf, FiniteSets, FiniteSetsExt

CONSTANTS
    RamSizes,         \* the machines: the frame behind the last one
    Firmware,         \* frames the firmware keeps
    IoApic,           \* the device frame that is not memory
    MMIO_END,         \* 0x1_0000_0000: the frame behind the devices
    HUGE,             \* frames in a 2MiB frame
    ConfFiles,        \* boot.conf files: sequences of <<key, value>>
    Listings,         \* what is in \APP: sequences of directory entries
    MAX_APPS,         \* capacity of the list of apps
    MAX_REGIONS,      \* capacity of the memory map in BootInfo
    STACK_MAX_PAGES, KSTACK_DEF_PAGE, USER_HEAP_PAGE

ASSUME BootConstants ==
    /\ RamSizes \subseteq Nat \ {0} /\ IoApic \in Nat
    /\ MMIO_END \in Nat /\ MMIO_END > IoApic
    /\ HUGE \in Nat \ {0} /\ USER_HEAP_PAGE \in Nat \ {0, 1}
    /\ STACK_MAX_PAGES \in Nat /\ KSTACK_DEF_PAGE \in 1..STACK_MAX_PAGES

VARIABLES
    stage,     \* where efi_main, then ysos::init, is
    ram,       \* this machine
    conf,      \* Config
    entries,   \* directory entries not read yet
    apps,      \* the pages of every loaded app
    taken,     \* frames allocated from the firmware: LOADER_DATA
    use,       \* what a frame holds
    tables,    \* the regions that have their page tables
    window,    \* huge frames mapped at physical_memory_offset
    stack,     \* mapped pages of the kernel stack, by number from its bottom
    usable,    \* the frames that BootInfoFrameAllocator has to give
    heap       \* mapped pages of the user heap

boot == <<stage, ram, conf, entries, apps, taken, use, tables, window, stack, usable, heap>>
allVars == <<vars, boot>>

Memory == (0..(ram - 1)) \ {IoApic}
Conventional == Memory \ (Firmware \cup taken)

DEFAULT_CONFIG == [size |-> STACK_MAX_PAGES - 1, grow |-> 0, load |-> FALSE]

\* u64::from_str(value).unwrap_or(0): what is not a number is 0.
Number(value) == IF value \in Nat THEN value ELSE 0

\* Config::process; a key that Config has no field for is only warned about.
Process(c, line) ==
    CASE line[1] = "kernel_stack_size" -> [c EXCEPT !.size = Number(line[2])]
      [] line[1] = "kernel_stack_auto_grow" -> [c EXCEPT !.grow = Number(line[2])]
      [] line[1] = "load_apps" -> [c EXCEPT !.load = Number(line[2]) # 0]
      [] OTHER -> c

\* Config::parse, line by line.
Parse(lines) ==
    LET after[n \in 0..Len(lines)] ==
            IF n = 0 THEN DEFAULT_CONFIG ELSE Process(after[n - 1], lines[n])
    IN  after[Len(lines)]

\* Both sizes are u64, whatever the file says.
ASSUME ConfNumbers ==
    \A lines \in ConfFiles : Parse(lines).size \in Nat /\ Parse(lines).grow \in Nat

BootInit ==
    /\ Init
    /\ stage = "config"
    /\ ram \in RamSizes
    /\ conf = DEFAULT_CONFIG
    /\ entries = << >> /\ apps = << >>
    /\ taken = {} /\ use = [f \in Memory |-> "nothing"]
    /\ tables = {} /\ window = {} /\ stack = {} /\ usable = {} /\ heap = {}
-----------------------------------------------------------------------------
\* allocate_pages(AnyPages): the lowest run of n free frames.
Runs(n) == {f \in Memory : f..(f + n - 1) \subseteq Conventional}

Allocate(n, what) ==
    /\ Runs(n) # {}
    /\ LET got == Min(Runs(n))..(Min(Runs(n)) + n - 1)
       IN  /\ taken' = taken \cup got
           /\ use' = [f \in Memory |-> IF f \in got THEN what ELSE use[f]]

\* load_file
LoadPages(len) == len \div PAGE + 1

LoadConfig ==
    /\ stage = "config"
    /\ Allocate(LoadPages(1), "config")
    /\ \E lines \in ConfFiles : conf' = Parse(lines)
    /\ stage' = "kernel"
    /\ UNCHANGED <<vars, ram, entries, apps, tables, window, stack, usable, heap>>

\* The bytes of the kernel's file: its last segment ends it.
KernelSize == segs[Len(segs)].vaddr + segs[Len(segs)].file

LoadKernel ==
    /\ stage = "kernel"
    /\ Allocate(LoadPages(KernelSize), "file")
    /\ IF conf.load
       THEN entries' \in Listings /\ stage' = "apps"
       ELSE UNCHANGED entries /\ stage' = "mmap"
    /\ UNCHANGED <<vars, ram, conf, apps, tables, window, stack, usable, heap>>

\* An entry of \APP: a name that begins with "." and a directory are skipped.
Entry == Head(entries)
Skipped == Entry.dot \/ Entry.dir

SkipEntry ==
    /\ stage = "apps" /\ entries # << >> /\ Skipped
    /\ entries' = Tail(entries)
    /\ UNCHANGED <<vars, stage, ram, conf, apps, taken, use, tables, window, stack, usable, heap>>

LoadApp ==
    /\ stage = "apps" /\ entries # << >> /\ ~Skipped
    /\ Len(apps) < MAX_APPS
    /\ Allocate(LoadPages(Entry.size), "app")
    /\ apps' = Append(apps, Min(taken' \ taken))
    /\ entries' = Tail(entries)
    /\ UNCHANGED <<vars, stage, ram, conf, tables, window, stack, usable, heap>>

AppsLoaded ==
    /\ stage = "apps" /\ entries = << >>
    /\ stage' = "mmap"
    /\ UNCHANGED <<vars, ram, conf, entries, apps, taken, use, tables, window, stack, usable, heap>>

\* The buffer of the first memory map is leaked.
LoadMemoryMap ==
    /\ stage = "mmap"
    /\ Allocate(1, "mmap")
    /\ stage' = "window"
    /\ UNCHANGED <<vars, ram, conf, entries, apps, tables, window, stack, usable, heap>>

\* Mutant: the devices above the memory are left out.
MaxFrameOfMemory == ram

\* max_phys_addr
MaxFrame == Max({ram, MMIO_END})

\* map_to needs the page tables of a region with its first page.  (They are
\* taken after the page's own frame; which frame is which makes no difference.)
NewTable ==
    /\ stage \in {"window", "elf", "stack"} \ tables
    /\ Allocate(1, "table")
    /\ tables' = tables \cup {stage}
    /\ UNCHANGED <<vars, stage, ram, conf, entries, apps, window, stack, usable, heap>>

MapPhysicalMemory ==
    /\ stage = "window" /\ stage \in tables
    /\ window' = 0..(MaxFrame \div HUGE)
    /\ stage' = "elf"
    /\ UNCHANGED <<vars, ram, conf, entries, apps, taken, use, tables, stack, usable, heap>>

-----------------------------------------------------------------------------
\* Mutant: the initial pages are at the bottom of the stack.
StackPagesLow == IF conf.grow > 0 THEN 0..(conf.grow - 1) ELSE 0..(conf.size - 1)

\* (When the size is below auto_grow the u64 wraps, to pages below the stack.)
StackPages == IF conf.grow > 0 THEN (conf.size - conf.grow)..(conf.size - 1) ELSE 0..(conf.size - 1)

\* load_elf of the kernel, a page at a time.
LoadElfStep ==
    /\ stage = "elf" /\ stage \in tables
    /\ \/ (LoadFilePage \/ LoadBssPage) /\ Allocate(1, "image")
       \/ (EnterBss \/ FinishSegment) /\ UNCHANGED <<taken, use>>
    /\ stage' = IF phase' # "done" THEN "elf" ELSE IF StackPages = {} THEN "free" ELSE "stack"
    /\ UNCHANGED <<ram, conf, entries, apps, tables, window, stack, usable, heap>>
\* map_pages of the stack.
MapStackPage ==
    /\ stage = "stack" /\ stage \in tables
    /\ Allocate(1, "stack")
    /\ stack' = stack \cup {Min(StackPages \ stack)}
    /\ stage' = IF stack' = StackPages THEN "free" ELSE "stack"
    /\ UNCHANGED <<vars, ram, conf, entries, apps, tables, window, usable, heap>>

\* Mutant: the pages of the file's bytes, which may be one less.
FreePagesLess(len) == (len + PAGE - 1) \div PAGE

FreePages(len) == len \div PAGE + 1

\* free_elf; the kernel's file is not needed any more.
FreeElf ==
    /\ stage = "free"
    /\ LET start == Min({f \in Memory : use[f] = "file"})
       IN  taken' = taken \ start..(start + FreePages(KernelSize) - 1)
    /\ use' = [f \in Memory |-> IF use[f] = "file" THEN "nothing" ELSE use[f]]
    /\ stage' = "exit"
    /\ UNCHANGED <<vars, ram, conf, entries, apps, tables, window, stack, usable, heap>>

\* The descriptors of the memory map when the frames in t are LOADER_DATA.
Regions(t) ==
    {f \in Memory : f - 1 \notin Memory
                    \/ <<f \in Firmware, f \in t>> # <<f - 1 \in Firmware, f - 1 \in t>>}

\* Mutant: BootInfo gets the memory map of step 3.
HandedOverEarly == Memory \ (Firmware \cup {f \in taken : use[f] \in {"config", "app"}})

\* The conventional frames of the memory map that the kernel gets: the map is
\* taken again when the boot services end, with its own buffer in it.
HandedOver == Memory \ (Firmware \cup taken')

ExitBootServices ==
    /\ stage = "exit"
    /\ Allocate(1, "mmap")
    /\ Cardinality(Regions(taken')) <= MAX_REGIONS
    /\ usable' = HandedOver
    /\ stage' = "entry"
    /\ UNCHANGED <<vars, ram, conf, entries, apps, tables, window, stack, heap>>

\* The page of the word below stacktop, where the call of ENTRY pushes.
FirstPush == conf.size - 1

\* jump_to_entry; the machine is reset when the push faults.
JumpToEntry ==
    /\ stage = "entry"
    /\ stage' = IF FirstPush \in stack THEN "heap" ELSE "panic"
    /\ UNCHANGED <<vars, ram, conf, entries, apps, taken, use, tables, window, stack, usable, heap>>

\* Page::range excludes its end, which is the last page of the heap.
HeapPages == 0..(USER_HEAP_PAGE - 2)

\* allocate_frame of the kernel, whose frames come in the order of their addresses.
KernelAllocate(what) ==
    /\ usable # {}
    /\ usable' = usable \ {Min(usable)}
    /\ use' = [use EXCEPT ![Min(usable)] = what]

\* init_user_heap
MapHeapPage ==
    /\ stage = "heap"
    /\ IF stage \notin tables
       THEN KernelAllocate("table") /\ tables' = tables \cup {stage} /\ UNCHANGED <<stage, heap>>
       ELSE /\ KernelAllocate("heap")
            /\ heap' = heap \cup {Min(HeapPages \ heap)}
            /\ stage' = IF heap' = HeapPages THEN "run" ELSE "heap"
            /\ UNCHANGED tables
    /\ UNCHANGED <<vars, ram, conf, entries, apps, taken, window, stack>>

\* The frames that the next step asks for, in one run.
Wanted ==
    CASE stage = "config" -> LoadPages(1)
      [] stage = "kernel" -> LoadPages(KernelSize)
      [] stage = "apps" -> IF entries = << >> \/ Skipped THEN 0 ELSE LoadPages(Entry.size)
      [] stage = "elf" -> IF stage \in tables /\ ~(AtFilePage \/ AtBssPage) THEN 0 ELSE 1
      [] stage = "window" -> IF stage \in tables THEN 0 ELSE 1
      [] stage \in {"mmap", "stack", "exit"} -> 1
      [] OTHER -> 0

\* An expect fails: no frames, or a full list.  (A page of the kernel that is
\* mapped already would fail too: the model would be stuck there.)
Panic ==
    /\ \/ Wanted > 0 /\ Runs(Wanted) = {}
       \/ stage = "apps" /\ Wanted > 0 /\ Len(apps) = MAX_APPS
       \/ /\ stage = "exit" /\ Runs(1) # {}
          /\ Cardinality(Regions(taken \cup {Min(Runs(1))})) > MAX_REGIONS
       \/ stage = "heap" /\ usable = {}
    /\ stage' = "panic"
    /\ UNCHANGED <<vars, ram, conf, entries, apps, taken, use, tables, window, stack, usable, heap>>

Booted == stage \in {"run", "panic"} /\ UNCHANGED allVars

BootNext ==
    \/ LoadConfig \/ LoadKernel \/ SkipEntry \/ LoadApp \/ AppsLoaded \/ LoadMemoryMap
    \/ NewTable \/ MapPhysicalMemory \/ LoadElfStep \/ MapStackPage \/ FreeElf
    \/ ExitBootServices \/ JumpToEntry \/ MapHeapPage \/ Panic \/ Booted

BootSpec == BootInit /\ [][BootNext]_allVars
-----------------------------------------------------------------------------
\* The frames that the kernel's allocator has are really unused: no file, page
\* table, page of the kernel, of its stack or of the user heap is in one.
UsableUnused == \A f \in usable : f \notin Firmware /\ use[f] = "nothing"

\* No frame is lost on the way: every frame in which there is nothing any more
\* comes to the kernel, the pages of its own file included.
NothingLost ==
    stage \in {"entry", "heap", "run"} =>
        \A f \in Memory \ Firmware : use[f] = "nothing" => f \in usable

\* The kernel reaches all memory and the I/O APIC through the window at
\* physical_memory_offset, however much memory there is.
WindowCovers == stage = "run" => \A f \in Memory \cup {IoApic} : f \div HUGE \in window

\* The kernel's first push is on a mapped page whatever boot.conf says, unless
\* both its sizes are 0, as they are when they cannot be read.  With the
\* shipped sizes the stack begins where Stack::kstack says, so that it grows
\* without a gap.
StackReady ==
    stage = "entry" =>
        /\ FirstPush \in stack \/ (conf.size = 0 /\ conf.grow = 0)
        /\ conf.size = STACK_MAX_PAGES /\ conf.grow = KSTACK_DEF_PAGE =>
               stack = (STACK_MAX_PAGES - KSTACK_DEF_PAGE)..(STACK_MAX_PAGES - 1)
=============================================================================
