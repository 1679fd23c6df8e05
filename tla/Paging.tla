------------------------------- MODULE Paging -------------------------------
(***************************************************************************)
(* The frame allocator (memory/frames.rs) and the loops that map and unmap *)
(* a range of pages (elf/src/lib.rs), as operators on a page table "map",  *)
(* which gives each page its frame or NoFrame, and on "free": the frames   *)
(* in the order in which allocate_frame hands them out, those in recycle,  *)
(* last pushed first, and then what is left of the iterator.               *)
(***************************************************************************)
EXTENDS Integers, Sequences

CONSTANT NoFrame   \* the page is not mapped

\* deallocate_frame of the frames in w, one after the other.
Dealloc(free, w) == [i \in 1..Len(w) |-> w[Len(w) + 1 - i]] \o free

Least(S) == CHOOSE x \in S : \A y \in S : x <= y

\* Where map_range stops: at the first page that is mapped already, or at the end.
MapStop(map, lo, hi) ==
    LET taken == {p \in lo..hi : map[p] # NoFrame}
    IN  IF taken = {} THEN hi + 1 ELSE Least(taken)

\* The pages lo..(lo + MapCount - 1) are mapped, one frame each.
MapCount(map, free, lo, hi) ==
    IF hi < lo THEN 0
    ELSE Least({MapStop(map, lo, hi) - lo, Len(free)})

MapOk(map, free, lo, hi) == hi < lo \/ MapCount(map, free, lo, hi) = hi + 1 - lo

Mapped(map, free, lo, hi) ==
    [p \in DOMAIN map |->
        IF p \in lo..(lo + MapCount(map, free, lo, hi) - 1) THEN free[p - lo + 1] ELSE map[p]]

\* Mutant: the last frame that was mapped stays in the free list.
MapPeeks(map, free, lo, hi) ==
    LET n == MapCount(map, free, lo, hi) IN SubSeq(free, IF n = 0 THEN 1 ELSE n, Len(free))

\* The frame allocated for a page that turns out to be mapped is dropped.
MapFree(map, free, lo, hi) ==
    LET n == MapCount(map, free, lo, hi)
    IN  SubSeq(free, IF MapOk(map, free, lo, hi) THEN n + 1 ELSE n + 2, Len(free))

\* The frames that are dropped in this way, and the pages that stay mapped, when
\* map_range fails.
MapDrops(map, free, lo, hi) ==
    LET n == MapCount(map, free, lo, hi)
    IN  IF MapOk(map, free, lo, hi) \/ n = Len(free) THEN {} ELSE {free[n + 1]}

MapStrays(map, free, lo, hi) ==
    IF MapOk(map, free, lo, hi) THEN {} ELSE lo..(lo + MapCount(map, free, lo, hi) - 1)

\* unmap_range stops at the first page that is not mapped.
UnmapStop(map, lo, hi) ==
    LET absent == {p \in lo..hi : map[p] = NoFrame}
    IN  IF absent = {} THEN hi + 1 ELSE Least(absent)

UnmapOk(map, lo, hi) == \A p \in lo..hi : map[p] # NoFrame

Unmapped(map, lo, hi) ==
    [p \in DOMAIN map |-> IF p \in lo..(UnmapStop(map, lo, hi) - 1) THEN NoFrame ELSE map[p]]

UnmapFree(map, free, lo, hi) ==
    IF hi < lo THEN free
    ELSE Dealloc(free, [i \in 1..(UnmapStop(map, lo, hi) - lo) |-> map[lo + i - 1]])

\* What unmap_range leaves behind, and whether it got to the end.
Unmapping(map, free, lo, hi) ==
    [map |-> Unmapped(map, lo, hi), free |-> UnmapFree(map, free, lo, hi),
     ok |-> UnmapOk(map, lo, hi)]
=============================================================================
