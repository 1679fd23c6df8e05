------------------------------- MODULE LoadElf -------------------------------
(***************************************************************************)
(* elf::load_elf: the segments of a program are copied page by page into   *)
(* new frames, what is behind the file's bytes is zeroed, and the page     *)
(* ranges are returned for clean_up.  The linker scripts start every       *)
(* segment on a page of its own and put .bss at the end of the last one.   *)
(* Every page needs a frame: the composition with its caller adds that.    *)
(***************************************************************************)
EXTENDS Integers, Sequences

CONSTANTS
    PAGE,      \* bytes in a page
    MaxFile,   \* bound: bytes of a segment in the file
    MaxBss,    \* bound: bytes of .bss
    Junk       \* what is in a byte of a new frame

ASSUME ElfConstants == PAGE \in Nat \ {0} /\ MaxFile \in Nat /\ MaxBss \in Nat

PageOf(addr) == addr \div PAGE
AlignUp(addr) == PageOf(addr + PAGE - 1) * PAGE

\* A byte of the image: <<segment, offset>> in the file, or 0.
Zero == <<0, 0>>

VARIABLES
    segs,      \* the Load segments: vaddr, file_size, mem_size
    cur,       \* the segment that load_segment works on
    page,      \* the page its loops are at
    phase,     \* "file", "bss" or "done"
    image,     \* the pages mapped so far and their bytes
    ranges     \* the page ranges returned so far

vars == <<segs, cur, page, phase, image, ranges>>

Segment(vaddr, file, mem) == [vaddr |-> vaddr, file |-> file, mem |-> mem]

Programs ==
    {<<Segment(0, f, f), Segment(AlignUp(f), g, g + b)>> :
        f \in 1..MaxFile, g \in 0..MaxFile, b \in 0..MaxBss}

Init ==
    /\ segs \in {s \in Programs : s[2].mem > 0}
    /\ cur = 1 /\ page = PageOf(segs[1].vaddr)
    /\ phase = "file"
    /\ image = << >>
    /\ ranges = << >>
-----------------------------------------------------------------------------
Seg == segs[cur]
StartPage == PageOf(Seg.vaddr)
FileEnd == PageOf(Seg.vaddr + Seg.file - 1)

BssStart == PageOf(AlignUp(Seg.vaddr + Seg.file))

\* Mutant: one page more than the code maps.
BssEndLate == PageOf(Seg.vaddr + Seg.mem) + 1

\* (the page of the address behind the last byte, where RangeEnd has the last byte's)
BssEnd == PageOf(Seg.vaddr + Seg.mem)

\* Mutant: the range ends with the page of the first address behind the segment.
RangeEndLate == PageOf(Seg.vaddr + Seg.mem)

RangeEnd == PageOf(Seg.vaddr + Seg.mem - 1)

MapPage(bytes) ==
    image' = [p \in DOMAIN image \cup {page} |-> IF p = page THEN bytes ELSE image[p]]

\* Mutant: the rest of the last page is not zeroed.
FilePageDirty(offset) ==
    [i \in 0..(PAGE - 1) |-> IF offset + i < Seg.file THEN <<cur, offset + i>> ELSE Junk]

\* The frame of a file page: the copied bytes, and zeroes behind the last.
FilePage(offset) ==
    [i \in 0..(PAGE - 1) |-> IF offset + i < Seg.file THEN <<cur, offset + i>> ELSE Zero]

AtFilePage == phase = "file" /\ page <= FileEnd

LoadFilePage ==
    /\ AtFilePage
    /\ page \notin DOMAIN image
    /\ MapPage(FilePage((page - StartPage) * PAGE))
    /\ page' = page + 1
    /\ UNCHANGED <<segs, cur, phase, ranges>>

EnterBss ==
    /\ phase = "file" /\ page > FileEnd /\ Seg.mem > Seg.file
    /\ phase' = "bss" /\ page' = BssStart
    /\ UNCHANGED <<segs, cur, image, ranges>>

AtBssPage == phase = "bss" /\ page <= BssEnd

LoadBssPage ==
    /\ AtBssPage
    /\ page \notin DOMAIN image
    /\ MapPage([i \in 0..(PAGE - 1) |-> Zero])
    /\ page' = page + 1
    /\ UNCHANGED <<segs, cur, phase, ranges>>

\* The range of the segment is returned and the next segment begins.
FinishSegment ==
    /\ \/ phase = "file" /\ page > FileEnd /\ Seg.mem = Seg.file
       \/ phase = "bss" /\ page > BssEnd
    /\ ranges' = Append(ranges, StartPage..RangeEnd)
    /\ IF cur < Len(segs)
       THEN cur' = cur + 1 /\ page' = PageOf(segs[cur + 1].vaddr) /\ phase' = "file"
       ELSE phase' = "done" /\ UNCHANGED <<cur, page>>
    /\ UNCHANGED <<segs, image>>
-----------------------------------------------------------------------------
ByteAt(addr) == image[PageOf(addr)][addr % PAGE]

\* A loaded program is in memory as its headers describe it: the bytes of
\* the file at their addresses, zeroes from there to the end of the memory
\* size, whatever the sizes do to the page boundaries.
ImageLoaded ==
    phase = "done" =>
        \A k \in DOMAIN segs : \A i \in 0..(segs[k].mem - 1) :
            /\ PageOf(segs[k].vaddr + i) \in DOMAIN image
            /\ ByteAt(segs[k].vaddr + i) = IF i < segs[k].file THEN <<k, i>> ELSE Zero

\* The returned ranges are mapped and do not overlap, so that unmap_range in
\* clean_up goes through them to the end.
RangesUnmappable ==
    /\ \A k \in DOMAIN ranges : ranges[k] \subseteq DOMAIN image
    /\ \A k, l \in DOMAIN ranges : k # l => ranges[k] \cap ranges[l] = {}

\* The ranges tell clean_up of every page but one: with .bss that ends on a
\* page boundary the page behind it is mapped and not returned.
OneUnreturned ==
    phase = "done" =>
        LET last == segs[Len(segs)]
            stop == last.vaddr + last.mem
        IN  DOMAIN image \ UNION {ranges[k] : k \in DOMAIN ranges} =
                IF last.mem > last.file /\ stop % PAGE = 0 THEN {PageOf(stop)} ELSE {}
=============================================================================
