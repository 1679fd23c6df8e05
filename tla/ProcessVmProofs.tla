--------------------------- MODULE ProcessVmProofs ---------------------------
(***************************************************************************)
(* The memory of the user processes, for every number of processes, frames *)
(* and pages: no frame has two uses, no process touches the stack of       *)
(* another, what a family shares stays mapped as long as one of it lives,  *)
(* and frames are lost in no other way than the four of NoFrameLost.       *)
(*                                                                         *)
(* First what map_range and unmap_range do to a page table and to the free *)
(* list, for every range, table and list: which pages change, and that no  *)
(* frame gets a second use, or loses its only one, on the way.  Then the   *)
(* inductive invariant, and that every step keeps it.                      *)
(***************************************************************************)
EXTENDS ProcessVm, WellFoundedInduction, TLAPS

Tables == [Procs -> [Pages -> Frames \cup {NoFrame}]]
Tops == [Procs -> Frames \cup {NoFrame}]

\* FramesApart of page tables m, a free list f and top tables r.
Apart(m, f, r) ==
    /\ \A s \in Procs, p \in Pages : m[s][p] # NoFrame =>
          \A t \in Procs, q \in Pages : m[t][q] = m[s][p] => t = s /\ q = p
    /\ \A s \in Procs : r[s] # NoFrame =>
          \A t \in Procs : (r[t] = r[s] => t = s) /\ \A p \in Pages : m[t][p] # r[s]
    /\ \A i \in 1..Len(f) :
          /\ \A j \in 1..Len(f) : f[i] = f[j] => i = j
          /\ \A t \in Procs : r[t] # f[i] /\ \A p \in Pages : m[t][p] # f[i]

\* Every frame has a use, or is free, or is one of the frames in d.
Complete(m, f, r, d) ==
    \A x \in Frames : \/ \E t \in Procs, p \in Pages : m[t][p] = x
                      \/ \E t \in Procs : r[t] = x
                      \/ \E i \in 1..Len(f) : f[i] = x
                      \/ x \in d

(***************************************************************************)
(* Arithmetic                                                              *)
(***************************************************************************)

\* A natural number is an integer.
LEMMA NatIsInt == ASSUME NEW n \in Nat PROVE n \in Int
OBVIOUS

\* An interval that ends earlier is a part of one that ends later.
LEMMA LowerPart ==
    ASSUME NEW a \in Int, NEW b \in Int, NEW c \in Int, b <= c
    PROVE  \A x \in a..(b - 1) : x \in a..(c - 1)
OBVIOUS

\* A number between two bounds is in their interval.
LEMMA Between == ASSUME NEW a \in Int, NEW b \in Int, NEW x \in Int, a <= x, x < b + 1 PROVE x \in a..b
OBVIOUS

\* An interval with equal bounds has one member.
LEMMA Point == ASSUME NEW a \in Int, NEW x \in a..a PROVE x = a
OBVIOUS

\* The first pages of a run of free pages are free.
LEMMA InRun ==
    ASSUME NEW lo \in Nat, NEW hi \in Nat, NEW stop \in lo..(hi + 1), NEW n \in Nat, n <= stop - lo
    PROVE  \A p \in lo..(lo + n - 1) : p <= hi /\ p \in lo..(stop - 1)
OBVIOUS

\* The pages below the old start of a stack are in the grown stack.
LEMMA HeadPart ==
    ASSUME NEW a \in Nat, NEW b \in Nat, NEW u \in Nat, NEW v \in Nat, b + v = a + u
    PROVE  \A x \in b..(a - 1) : x \in b..(b + v - 1)
OBVIOUS

LEMMA LongerInterval ==
    ASSUME NEW a \in Nat, NEW b \in Nat, NEW u \in Nat, NEW v \in Nat, b <= a, b + v = a + u
    PROVE  \A x \in a..(a + u - 1) : x \in b..(b + v - 1)
OBVIOUS

LEMMA LeastFacts ==
    ASSUME NEW S \in SUBSET Nat, S # {}
    PROVE  Least(S) \in S /\ \A y \in S : Least(S) <= y
<1> DEFINE R == {ss \in Nat \X Nat : ss[1] < ss[2]}
<1>1. IsWellFoundedOn(R, Nat)
  BY NatLessThanWellFounded, Zenon DEF OpToRel
<1>2. \E x \in S : \A y \in S : ~ (<<y, x>> \in R)
  <2> HIDE DEF R
  <2> QED BY <1>1, WFMin, Zenon
<1>3. PICK x \in S : \A y \in S : ~ (<<y, x>> \in R)
  BY <1>2, Zenon
<1>4. \A y \in S : x <= y
  <2>1. \A y \in S : <<y, x>> \in Nat \X Nat /\ <<y, x>>[1] = y /\ <<y, x>>[2] = x
    BY Zenon
  <2>2. \A y \in S : ~ (y < x)
    BY <1>3, <2>1, Zenon
  <2> QED BY <2>2
<1> QED BY <1>4, Zenon DEF Least

LEMMA LeastOfTwo ==
    ASSUME NEW a \in Nat, NEW b \in Nat
    PROVE  Least({a, b}) = IF a <= b THEN a ELSE b
<1> DEFINE S == {a, b}
<1>1. S \in SUBSET Nat /\ S # {}
  BY Zenon
<1>2. Least(S) \in S /\ \A y \in S : Least(S) <= y
  <2> HIDE DEF S
  <2> QED BY <1>1, LeastFacts, Zenon
<1>3. (Least({a, b}) = a \/ Least({a, b}) = b) /\ Least({a, b}) <= a /\ Least({a, b}) <= b
  BY <1>2, Zenon
<1> QED BY <1>3

LEMMA DivFacts ==
    ASSUME NEW M \in Nat \ {0}, NEW a \in Nat
    PROVE  /\ a \div M \in Nat
           /\ (a \div M) * M <= a /\ a < (a \div M) * M + M
  OBVIOUS

LEMMA DivIs ==
    ASSUME NEW M \in Nat \ {0}, NEW a \in Nat, NEW k \in Int, k * M <= a, a < k * M + M
    PROVE  a \div M = k
  OBVIOUS

LEMMA DivMono ==
    ASSUME NEW M \in Nat \ {0}, NEW a \in Nat, NEW b \in Nat, a <= b
    PROVE  a \div M <= b \div M
  OBVIOUS

LEMMA Constants ==
    /\ MaxPid \in Nat /\ NumFrames \in Nat /\ Slots \in Nat \ {0} /\ HEAP_PAGES \in Nat
    /\ STACK_MAX_PAGES \in Nat \ {0} /\ CodePages \in Nat \ {0} /\ PAGE_SIZE \in Nat \ {0}
    /\ Slots * STACK_MAX_PAGES \in Nat \ {0} /\ HEAP_PAGES * PAGE_SIZE \in Nat
    /\ CodeStart \in Nat \ {0} /\ CodeEnd \in Nat /\ HeapStart \in Nat
    /\ CodeStart = Slots * STACK_MAX_PAGES /\ CodeStart <= CodeEnd /\ HeapStart = CodeEnd + 2
    /\ CodeEnd = CodeStart + CodePages - 1 /\ BssPage = CodeEnd + 1
    /\ Pages \subseteq Nat /\ StackPages \subseteq Pages /\ CodeStart..CodeEnd \subseteq Pages
    /\ \A p \in Nat : p <= HeapStart + HEAP_PAGES => p \in Pages
    /\ NoFrame \notin Frames
    /\ \A p \in Procs : p \in Nat \ {0} /\ p <= MaxPid
<1>1. /\ MaxPid \in Nat /\ NumFrames \in Nat /\ Slots \in Nat \ {0} /\ HEAP_PAGES \in Nat
      /\ STACK_MAX_PAGES \in Nat \ {0} /\ CodePages \in Nat \ {0} /\ PAGE_SIZE \in Nat \ {0}
      /\ NoFrame \notin Frames
  BY VmConstants, Zenon
<1>2. Slots * STACK_MAX_PAGES \in Nat \ {0} /\ HEAP_PAGES * PAGE_SIZE \in Nat
  BY <1>1
<1>3. /\ CodeStart \in Nat \ {0} /\ CodeEnd \in Nat /\ HeapStart \in Nat
      /\ CodeStart = Slots * STACK_MAX_PAGES /\ CodeStart <= CodeEnd /\ HeapStart = CodeEnd + 2
      /\ CodeEnd = CodeStart + CodePages - 1 /\ BssPage = CodeEnd + 1
  BY <1>1, <1>2 DEF CodeStart, CodeEnd, HeapStart, BssPage
<1>4. StackPages = 0..(CodeStart - 1)
  BY Zenon DEF StackPages, CodeStart
<1>5. \A p \in Nat : p <= HeapStart + HEAP_PAGES => p \in Pages
  BY <1>1, <1>3 DEF Pages
<1>6. StackPages \subseteq Pages /\ CodeStart..CodeEnd \subseteq Pages
  BY <1>1, <1>3, <1>4, <1>5
<1>7. Pages \subseteq Nat
  BY DEF Pages
<1>8. \A p \in Procs : p \in Nat \ {0} /\ p <= MaxPid
  BY <1>1 DEF Procs
<1> QED BY <1>1, <1>2, <1>3, <1>5, <1>6, <1>7, <1>8, Zenon

\* The pages from one stack page up to another are pages of the user region.
LEMMA StackBelow ==
    ASSUME NEW a \in StackPages, NEW b \in StackPages, a < b
    PROVE  a \in Nat /\ b - 1 \in Nat /\ \A x \in a..(b - 1) : x \in Pages
<1>1. CodeStart \in Nat /\ HeapStart \in Nat /\ HEAP_PAGES \in Nat /\ CodeStart <= HeapStart
  BY Constants
<1>2. a \in 0..(CodeStart - 1) /\ b \in 0..(CodeStart - 1)
  BY Zenon DEF StackPages, CodeStart
<1>3. a \in Nat /\ b - 1 \in Nat /\ \A x \in a..(b - 1) : x \in Nat /\ x <= HeapStart + HEAP_PAGES
  BY <1>1, <1>2
<1> QED BY <1>3, Constants, Zenon

PageTables == [Pages -> Frames \cup {NoFrame}]

(***************************************************************************)
(* map_range                                                               *)
(***************************************************************************)

\* mm and g are m and f after map_range has mapped n pages and taken k frames,
\* those in d beyond the n: a mapped page keeps its frame, a new one gets a frame
\* of the free list.
Taking(m, f, lo, hi, mm, g, d, n, k) ==
    /\ n <= k
    /\ mm \in PageTables /\ g \in Seq(Frames)
    /\ \A p \in Pages :
          \/ /\ p \in lo..hi /\ m[p] = NoFrame /\ p - lo + 1 \in 1..n /\ p - lo + 1 \in 1..Len(f)
             /\ mm[p] = f[p - lo + 1] /\ mm[p] \in Frames
          \/ mm[p] = m[p]
    /\ \A i \in 1..Len(g) : i + k \in 1..Len(f) /\ g[i] = f[i + k]
    /\ \A i \in 1..n : lo + i - 1 \in Pages /\ mm[lo + i - 1] = f[i]
    /\ \A i \in 1..Len(f) : i \in 1..n \/ f[i] \in d \/ \E j \in 1..Len(g) : g[j] = f[i]

\* All of the range is mapped, and the frames that are gone are in it.
Filled(m, f, lo, hi, mm, g, n, k) ==
    /\ k = n /\ Len(g) = Len(f) - n /\ (lo <= hi => n = hi + 1 - lo)
    /\ \A p \in Pages : p \in lo..hi =>
          m[p] = NoFrame /\ mm[p] # NoFrame

\* What a reader of the tables m1 and the free list g can tell of a map_range
\* of lo..hi in table t that found m and f, and got to the end or dropped the
\* frames in d and left the pages in s.
Mapping(m, f, r, t, lo, hi, m1, g, ok, d, s) ==
    /\ m1 \in Tables /\ g \in Seq(Frames) /\ Apart(m1, g, r)
    /\ \A u \in Procs, p \in Pages : m[u][p] # NoFrame => m1[u][p] # NoFrame
    /\ \A u \in Procs : u # t => m1[u] = m[u]
    /\ \A p \in Pages : p \notin lo..hi => m1[t][p] = m[t][p]
    /\ \A p \in Pages : m1[t][p] = m[t][p] \/ ok \/ p \in s
    /\ \A c : Complete(m, f, r, c) => Complete(m1, g, r, c \cup d)
    /\ ok => /\ \A p \in Pages : p \in lo..hi => m1[t][p] # NoFrame
             /\ \A p \in Pages : p \in lo..hi => m[t][p] = NoFrame
             /\ lo <= hi => Len(g) = Len(f) - (hi + 1 - lo)

\* With all pages unmapped and frames for all of them the loop gets to the end.
LEMMA MapAll ==
    ASSUME NEW m, NEW f \in Seq(Frames), NEW lo \in Nat, NEW hi \in Nat, lo <= hi,
           \A p \in lo..hi : m[p] = NoFrame, hi + 1 - lo <= Len(f)
    PROVE  MapOk(m, f, lo, hi)
<1>1. MapStop(m, lo, hi) = hi + 1
  BY Zenon DEF MapStop
<1>2. Len(f) \in Nat
  OBVIOUS
<1>3. Least({hi + 1 - lo, Len(f)}) = hi + 1 - lo
  BY <1>2, LeastOfTwo
<1> QED BY <1>1, <1>2, <1>3 DEF MapOk, MapCount

LEMMA MapTable ==
    \A m \in Tables, f \in Seq(Frames), r \in Tops, t \in Procs, lo \in Nat, hi \in Int :
        Apart(m, f, r) /\ (\A p \in lo..hi : p \in Pages) =>
            Mapping(m, f, r, t, lo, hi, [m EXCEPT ![t] = Mapped(m[t], f, lo, hi)],
                    MapFree(m[t], f, lo, hi), MapOk(m[t], f, lo, hi),
                    MapDrops(m[t], f, lo, hi), MapStrays(m[t], f, lo, hi))
<1>stop.
    ASSUME NEW m, NEW lo \in Nat, NEW hi \in Nat, lo <= hi
    PROVE  /\ MapStop(m, lo, hi) \in lo..(hi + 1)
           /\ \A p \in lo..(MapStop(m, lo, hi) - 1) : m[p] = NoFrame
           /\ MapStop(m, lo, hi) <= hi => m[MapStop(m, lo, hi)] # NoFrame
  <2> USE <1>stop
  <2> DEFINE taken == {p \in lo..hi : m[p] # NoFrame}
  <2>1. CASE taken = {}
    BY <2>1 DEF MapStop
  <2>2. CASE taken # {}
    <3>1. taken \in SUBSET Nat
      OBVIOUS
    <3>2. Least(taken) \in taken /\ \A y \in taken : Least(taken) <= y
      <4> HIDE DEF taken
      <4> QED BY <2>2, <3>1, LeastFacts, Zenon
    <3>3. MapStop(m, lo, hi) = Least(taken)
      BY <2>2, Zenon DEF MapStop
    <3>4. Least(taken) \in lo..hi /\ m[Least(taken)] # NoFrame
      BY <3>2, Zenon
    <3>5. ASSUME NEW p \in lo..(Least(taken) - 1) PROVE m[p] = NoFrame
      <4>1. p \in lo..hi /\ ~(Least(taken) <= p)
        BY <3>4
      <4> QED BY <3>2, <4>1, Zenon
    <3> HIDE DEF taken
    <3>6. Least(taken) \in lo..(hi + 1)
      BY <3>4
    <3> QED BY <3>3, <3>4, <3>5, <3>6, Zenon
  <2> QED BY <2>1, <2>2, Zenon
\* The pages that are mapped were unmapped, there is a frame for each, and all
\* of the range is mapped when the loop gets to the end.
<1>count.
    ASSUME NEW m, NEW f \in Seq(Frames), NEW lo \in Nat, NEW hi \in Int
    PROVE  /\ MapCount(m, f, lo, hi) \in 0..Len(f)
           /\ \A p \in lo..(lo + MapCount(m, f, lo, hi) - 1) : p <= hi /\ m[p] = NoFrame
           /\ MapOk(m, f, lo, hi) =>
                 \A p \in lo..hi : p \in lo..(lo + MapCount(m, f, lo, hi) - 1)
  <2> USE <1>count
  <2> DEFINE n == MapCount(m, f, lo, hi)
  <2>1. Len(f) \in Nat
    OBVIOUS
  <2>2. CASE hi < lo
    BY <2>1, <2>2 DEF MapCount
  <2>3. CASE lo <= hi
    <3>1. hi \in Nat
      BY <2>3
    <3>2. /\ MapStop(m, lo, hi) \in lo..(hi + 1)
          /\ \A p \in lo..(MapStop(m, lo, hi) - 1) : m[p] = NoFrame
      BY <2>3, <3>1, <1>stop, Zenon
    <3> DEFINE d == MapStop(m, lo, hi) - lo
    <3>3. d \in 0..(hi + 1 - lo)
      BY <3>1, <3>2
    <3>4. n = Least({d, Len(f)})
      BY <2>3 DEF MapCount
    <3>5. n = IF d <= Len(f) THEN d ELSE Len(f)
      <4>1. d \in Nat
        BY <3>1, <3>3
      <4> HIDE DEF d, n
      <4> QED BY <2>1, <3>4, <4>1, LeastOfTwo, Zenon
    <3>6. n \in 0..Len(f) /\ n <= d
      BY <2>1, <3>1, <3>3, <3>5
    <3>7. \A p \in lo..(lo + n - 1) : p <= hi /\ m[p] = NoFrame
      <4>1. n \in Nat
        BY <2>1, <3>6
      <4> HIDE DEF n
      <4> QED BY <3>1, <3>2, <3>6, <4>1, InRun, Zenon
    <3>8. MapOk(m, f, lo, hi) => lo + n - 1 = hi
      BY <2>1, <2>3, <3>6 DEF MapOk
    <3> QED BY <3>6, <3>7, <3>8, Zenon
  <2> QED BY <2>2, <2>3
<1>left.
    ASSUME NEW m, NEW f \in Seq(Frames), NEW lo \in Nat, NEW hi \in Int
    PROVE  /\ MapFree(m, f, lo, hi) \in Seq(Frames)
           /\ \E k \in Nat :
                 /\ MapCount(m, f, lo, hi) <= k
                 /\ \A i \in 1..Len(MapFree(m, f, lo, hi)) :
                       i + k \in 1..Len(f) /\ MapFree(m, f, lo, hi)[i] = f[i + k]
                 /\ \A i \in 1..Len(f) :
                       \/ i \in 1..MapCount(m, f, lo, hi) \/ f[i] \in MapDrops(m, f, lo, hi)
                       \/ \E j \in 1..Len(MapFree(m, f, lo, hi)) : MapFree(m, f, lo, hi)[j] = f[i]
                 /\ MapOk(m, f, lo, hi) => /\ k = MapCount(m, f, lo, hi)
                                           /\ Len(MapFree(m, f, lo, hi)) = Len(f) - k
  <2> USE <1>left
  <2> DEFINE n == MapCount(m, f, lo, hi)
             g == MapFree(m, f, lo, hi)
             d == MapDrops(m, f, lo, hi)
             k == IF MapOk(m, f, lo, hi) THEN n ELSE n + 1
  <2>1. n \in 0..Len(f) /\ Len(f) \in Nat /\ \A i \in 1..Len(f) : f[i] \in Frames
    <3>1. n \in 0..Len(f)
      BY <1>count, Zenon
    <3>2. Len(f) \in Nat /\ \A i \in 1..Len(f) : f[i] \in Frames
      OBVIOUS
    <3> QED BY <3>1, <3>2, Zenon
  <2>2. g = SubSeq(f, k + 1, Len(f))
    <3>1. CASE MapOk(m, f, lo, hi)
      BY <3>1, Zenon DEF MapFree
    <3>2. CASE ~MapOk(m, f, lo, hi)
      <4>1. k + 1 = n + 2
        BY <2>1, <3>2
      <4> QED BY <3>2, <4>1, Zenon DEF MapFree
    <3> QED BY <3>1, <3>2, Zenon
  <2>3. k \in Nat /\ n <= k
    BY <2>1
  <2>4. MapOk(m, f, lo, hi) => k = n
    BY Zenon
  <2>d. ~MapOk(m, f, lo, hi) => k = n + 1 /\ (n = Len(f) \/ f[n + 1] \in d)
    BY Zenon DEF MapDrops
  <2> HIDE DEF k, g, n, d
  <2>5. \A i \in (k + 1)..Len(f) : f[i] \in Frames
    BY <2>1, <2>3
  <2>6. /\ g \in Seq(Frames) /\ Len(g) = IF k + 1 <= Len(f) THEN Len(f) - (k + 1) + 1 ELSE 0
        /\ \A i \in 1..(Len(f) - (k + 1) + 1) : g[i] = f[k + 1 + i - 1]
    BY <2>1, <2>2, <2>3, <2>5
  <2>7. ASSUME NEW i \in 1..Len(g) PROVE i + k \in 1..Len(f) /\ g[i] = f[i + k]
    <3>1. i + k \in 1..Len(f) /\ k + 1 + i - 1 = i + k /\ i \in 1..(Len(f) - (k + 1) + 1)
      BY <2>1, <2>3, <2>6
    <3> QED BY <2>6, <3>1, Zenon
  <2>8. MapOk(m, f, lo, hi) => k = n /\ Len(g) = Len(f) - k
    BY <2>1, <2>3, <2>4, <2>6
  <2>9. ASSUME NEW i \in 1..Len(f)
        PROVE  i \in 1..n \/ f[i] \in d \/ \E j \in 1..Len(g) : g[j] = f[i]
    <3>1. CASE i <= n
      BY <2>1, <3>1
    <3>2. CASE i > n /\ i <= k
      <4>1. ~MapOk(m, f, lo, hi)
        BY <2>1, <2>4, <3>2
      <4>2. i = n + 1 /\ n # Len(f)
        BY <2>1, <2>d, <3>2, <4>1
      <4> QED BY <2>d, <4>1, <4>2, Zenon
    <3>3. CASE i > k
      <4>1. i - k \in 1..Len(g) /\ i - k + k = i
        BY <2>1, <2>3, <2>6, <3>3
      <4> QED BY <2>7, <4>1, Zenon
    <3> QED BY <2>1, <2>3, <3>1, <3>2, <3>3
  <2> QED BY <2>3, <2>6, <2>7, <2>8, <2>9, Zenon DEF g, n, d
<1>effect.
    ASSUME NEW m \in PageTables, NEW f \in Seq(Frames), NEW lo \in Nat, NEW hi \in Int,
           \A p \in lo..hi : p \in Pages
    PROVE  \E n, k \in Nat :
              /\ Taking(m, f, lo, hi, Mapped(m, f, lo, hi), MapFree(m, f, lo, hi),
                        MapDrops(m, f, lo, hi), n, k)
              /\ \A p \in Pages : \/ Mapped(m, f, lo, hi)[p] = m[p]
                                  \/ MapOk(m, f, lo, hi) \/ p \in MapStrays(m, f, lo, hi)
              /\ MapOk(m, f, lo, hi) =>
                    Filled(m, f, lo, hi, Mapped(m, f, lo, hi), MapFree(m, f, lo, hi), n, k)
  <2> USE <1>effect
  <2> DEFINE n == MapCount(m, f, lo, hi)
             mm == Mapped(m, f, lo, hi)
             g == MapFree(m, f, lo, hi)
             d == MapDrops(m, f, lo, hi)
  <2>1. /\ n \in 0..Len(f) /\ \A p \in lo..(lo + n - 1) : p <= hi /\ m[p] = NoFrame
        /\ MapOk(m, f, lo, hi) => \A p \in lo..hi : p \in lo..(lo + n - 1)
    BY <1>count, Zenon
  <2>2. g \in Seq(Frames)
    BY <1>left, Zenon
  <2>3. PICK k \in Nat : /\ n <= k
                         /\ \A i \in 1..Len(g) : i + k \in 1..Len(f) /\ g[i] = f[i + k]
                         /\ \A i \in 1..Len(f) : \/ i \in 1..n \/ f[i] \in d
                                                 \/ \E j \in 1..Len(g) : g[j] = f[i]
                         /\ MapOk(m, f, lo, hi) => k = n /\ Len(g) = Len(f) - k
    BY <1>left, Zenon
  <2>4. Len(f) \in Nat /\ \A i \in 1..Len(f) : f[i] \in Frames
    OBVIOUS
  <2>5. /\ mm = [p \in Pages |-> IF p \in lo..(lo + n - 1) THEN f[p - lo + 1] ELSE m[p]]
        /\ Pages \subseteq Nat /\ NoFrame \notin Frames
    BY Constants, Zenon DEF Mapped, PageTables
  <2>6. n \in Nat /\ n <= Len(f)
    BY <2>1, <2>4
  <2>s. MapOk(m, f, lo, hi) \/ MapStrays(m, f, lo, hi) = lo..(lo + n - 1)
    BY Zenon DEF MapStrays
  <2> HIDE DEF n, mm, g, d
  <2>7. ASSUME NEW p \in Pages, p \in lo..(lo + n - 1)
        PROVE  /\ p \in lo..hi /\ m[p] = NoFrame /\ p - lo + 1 \in 1..n /\ p - lo + 1 \in 1..Len(f)
               /\ mm[p] = f[p - lo + 1] /\ mm[p] \in Frames
    <3>1. p \in Nat
      BY <2>5, Zenon
    <3>2. p - lo + 1 \in 1..n /\ p - lo + 1 \in 1..Len(f)
      BY <2>4, <2>6, <2>7, <3>1
    <3>3. p \in lo..hi /\ m[p] = NoFrame
      BY <2>1, <2>7
    <3> QED BY <2>4, <2>5, <2>7, <3>2, <3>3, Zenon
  <2>8. \A p \in Pages : p \notin lo..(lo + n - 1) => mm[p] = m[p]
    BY <2>5, Zenon
  <2>9. \A p \in Pages : mm[p] \in Frames \cup {NoFrame}
    BY <2>7, <2>8, Zenon DEF PageTables
  <2>10. mm \in PageTables
    BY <2>5, <2>9, Zenon DEF PageTables
  <2>t. ASSUME NEW i \in 1..n PROVE lo + i - 1 \in Pages /\ mm[lo + i - 1] = f[i]
    <3>1. lo + i - 1 \in lo..(lo + n - 1) /\ lo + i - 1 - lo + 1 = i
      BY <2>6
    <3>2. lo + i - 1 \in Pages
      BY <2>1, <3>1
    <3>3. PICK q \in Pages : q = lo + i - 1
      BY <3>2, Zenon
    <3>4. q \in lo..(lo + n - 1) /\ q - lo + 1 = i
      BY <3>1, <3>3
    <3>5. mm[q] = f[q - lo + 1]
      BY <2>7, <3>4, Zenon
    <3> QED BY <3>2, <3>3, <3>4, <3>5, Zenon
  <2>11. Taking(m, f, lo, hi, mm, g, d, n, k)
    BY <2>2, <2>3, <2>7, <2>8, <2>10, <2>t, Zenon DEF Taking
  <2>12. ASSUME MapOk(m, f, lo, hi) PROVE Filled(m, f, lo, hi, mm, g, n, k)
    <3>1. /\ \A p \in lo..hi : p \in lo..(lo + n - 1)
          /\ k = n /\ Len(g) = Len(f) - n
      BY <2>1, <2>3, <2>12
    <3>2. \A p \in Pages : p \in lo..hi =>
              m[p] = NoFrame /\ mm[p] # NoFrame
      BY <2>5, <2>7, <3>1, Zenon
    <3>3. \A p \in lo..(lo + n - 1) : p \in lo..hi
      BY <2>1
    <3>4. ASSUME lo <= hi PROVE n = hi + 1 - lo
      <4>1. hi <= lo + n - 1
        BY <3>1, <3>4
      <4>2. lo + n - 1 <= hi
        BY <2>6, <3>3, <3>4, <4>1
      <4> QED BY <2>6, <4>1, <4>2
    <3> QED BY <3>1, <3>2, <3>4, Zenon DEF Filled
  <2>13. \A p \in Pages : mm[p] = m[p] \/ MapOk(m, f, lo, hi) \/ p \in MapStrays(m, f, lo, hi)
    BY <2>8, <2>s, Zenon
  <2> QED BY <2>6, <2>11, <2>12, <2>13, Zenon DEF n, mm, g, d
\* Mapping pages of table t keeps every frame to one use.
<1>apart.
    ASSUME NEW m \in Tables, NEW f \in Seq(Frames), NEW r \in Tops, Apart(m, f, r),
           NEW t \in Procs, NEW lo \in Nat, NEW hi \in Int,
           NEW mm, NEW g, NEW d, NEW n \in Nat, NEW k \in Nat,
           Taking(m[t], f, lo, hi, mm, g, d, n, k)
    PROVE  /\ [m EXCEPT ![t] = mm] \in Tables /\ g \in Seq(Frames)
           /\ Apart([m EXCEPT ![t] = mm], g, r)
  <2> USE <1>apart
  <2> DEFINE m1 == [m EXCEPT ![t] = mm]
  <2>1. /\ n <= k /\ mm \in PageTables /\ g \in Seq(Frames)
        /\ \A p \in Pages : \/ /\ p - lo + 1 \in 1..n /\ p - lo + 1 \in 1..Len(f)
                               /\ mm[p] = f[p - lo + 1]
                            \/ mm[p] = m[t][p]
    BY Zenon DEF Taking
  <2>2. m1 \in Tables /\ \A s \in Procs : m1[s] = IF s = t THEN mm ELSE m[s]
    BY <2>1, Zenon DEF Tables, PageTables
  <2>4. \A i \in 1..Len(g) : i + k \in 1..Len(f) /\ g[i] = f[i + k]
    BY Zenon DEF Taking
  <2>5. Len(f) \in Nat /\ Len(g) \in Nat
    BY <2>1
  <2> HIDE DEF m1
  <2>a. /\ \A i, j \in 1..Len(f) : f[i] = f[j] => i = j
        /\ \A i \in 1..Len(f), u \in Procs : r[u] # f[i]
        /\ \A i \in 1..Len(f), u \in Procs, p \in Pages : m[u][p] # f[i]
    BY Zenon DEF Apart
  <2>6. ASSUME NEW s \in Procs, NEW p \in Pages
        PROVE  \/ m1[s][p] = m[s][p]
               \/ s = t /\ p \in Nat /\ p - lo + 1 \in 1..n /\ p - lo + 1 \in 1..Len(f)
                  /\ m1[s][p] = f[p - lo + 1]
    BY <2>1, <2>2, Constants, Zenon
  <2>7. ASSUME NEW s \in Procs, NEW p \in Pages, m1[s][p] # NoFrame,
               NEW u \in Procs, NEW q \in Pages, m1[u][q] = m1[s][p]
        PROVE  u = s /\ q = p
    <3>1. CASE m1[s][p] = m[s][p] /\ m1[u][q] = m[u][q]
      BY <2>7, <3>1 DEF Apart
    <3>2. CASE m1[s][p] = m[s][p] /\ m1[u][q] # m[u][q]
      BY <2>a, <2>6, <2>7, <3>2
    <3>3. CASE m1[s][p] # m[s][p] /\ m1[u][q] = m[u][q]
      <4>1. p - lo + 1 \in 1..Len(f) /\ m[u][q] = f[p - lo + 1]
        BY <2>6, <2>7, <3>3, Zenon
      <4> QED BY <2>a, <4>1, Zenon
    <3>4. CASE m1[s][p] # m[s][p] /\ m1[u][q] # m[u][q]
      <4>1. /\ s = t /\ u = t /\ p \in Nat /\ q \in Nat
            /\ p - lo + 1 \in 1..Len(f) /\ q - lo + 1 \in 1..Len(f)
            /\ f[p - lo + 1] = f[q - lo + 1]
        BY <2>6, <2>7, <3>4, Zenon
      <4>2. p - lo + 1 = q - lo + 1
        BY <2>a, <4>1, Zenon
      <4> QED BY <4>1, <4>2
    <3> QED BY <3>1, <3>2, <3>3, <3>4, Zenon
  <2>8. ASSUME NEW s \in Procs, r[s] # NoFrame, NEW u \in Procs
        PROVE  (r[u] = r[s] => u = s) /\ \A p \in Pages : m1[u][p] # r[s]
    BY <2>a, <2>6, <2>8 DEF Apart
  <2>9. ASSUME NEW i \in 1..Len(g)
        PROVE  /\ \A j \in 1..Len(g) : g[i] = g[j] => i = j
               /\ \A u \in Procs : r[u] # g[i] /\ \A p \in Pages : m1[u][p] # g[i]
    <3>1. i + k \in 1..Len(f) /\ g[i] = f[i + k]
      BY <2>4, Zenon
    <3>2. ASSUME NEW j \in 1..Len(g), g[i] = g[j] PROVE i = j
      <4>1. j + k \in 1..Len(f) /\ f[i + k] = f[j + k]
        BY <2>4, <3>2, Zenon
      <4>2. i + k = j + k
        BY <2>a, <3>1, <4>1, Zenon
      <4> QED BY <4>2
    <3>3. ASSUME NEW u \in Procs PROVE r[u] # g[i]
      BY <2>a, <3>1, Zenon
    <3>4. ASSUME NEW u \in Procs, NEW p \in Pages, m1[u][p] = g[i] PROVE FALSE
      <4>1. CASE m1[u][p] = m[u][p]
        <5>1. m[u][p] = f[i + k]
          BY <3>1, <3>4, <4>1, Zenon
        <5> QED BY <2>a, <3>1, <5>1, Zenon
      <4>2. CASE m1[u][p] # m[u][p]
        <5>1. /\ p \in Nat /\ p - lo + 1 \in 1..n /\ p - lo + 1 \in 1..Len(f)
              /\ f[p - lo + 1] = f[i + k]
          BY <2>6, <3>1, <3>4, <4>2, Zenon
        <5>2. p - lo + 1 = i + k
          BY <2>a, <3>1, <5>1, Zenon
        <5> QED BY <2>1, <2>5, <5>1, <5>2
      <4> QED BY <4>1, <4>2, Zenon
    <3> QED BY <3>2, <3>3, <3>4, Zenon
  <2>10. Apart(m1, g, r)
    BY <2>7, <2>8, <2>9, Zenon DEF Apart
  <2> QED BY <2>1, <2>2, <2>10, Zenon DEF m1
\* No frame is lost but those that are dropped.
<1>complete.
    ASSUME NEW m \in Tables, NEW f \in Seq(Frames), NEW r, NEW c, Complete(m, f, r, c),
           NEW t \in Procs, NEW lo \in Nat, NEW hi \in Int,
           NEW mm, NEW g, NEW d, NEW n \in Nat, NEW k \in Nat,
           Taking(m[t], f, lo, hi, mm, g, d, n, k)
    PROVE  Complete([m EXCEPT ![t] = mm], g, r, c \cup d)
  <2> USE <1>complete
  <2> DEFINE m1 == [m EXCEPT ![t] = mm]
  <2>1. \A s \in Procs : m1[s] = IF s = t THEN mm ELSE m[s]
    BY Zenon DEF Tables
  <2>2. /\ \A p \in Pages : m[t][p] = NoFrame \/ mm[p] = m[t][p]
        /\ \A i \in 1..n : lo + i - 1 \in Pages /\ mm[lo + i - 1] = f[i]
        /\ \A i \in 1..Len(f) : i \in 1..n \/ f[i] \in d \/ \E j \in 1..Len(g) : g[j] = f[i]
    BY Zenon DEF Taking
  <2>3. NoFrame \notin Frames
    BY Constants, Zenon
  <2> HIDE DEF m1
  <2>4. ASSUME NEW x \in Frames, NEW s \in Procs, NEW p \in Pages, m[s][p] = x
        PROVE  m1[s][p] = x
    BY <2>1, <2>2, <2>3, <2>4, Zenon
  <2>5. ASSUME NEW x \in Frames, NEW i \in 1..Len(f), f[i] = x
        PROVE  \/ \E s \in Procs, p \in Pages : m1[s][p] = x
               \/ \E j \in 1..Len(g) : g[j] = x
               \/ x \in d
    <3>1. CASE i \in 1..n
      <4>1. lo + i - 1 \in Pages /\ mm[lo + i - 1] = x
        BY <2>2, <2>5, <3>1, Zenon
      <4>2. PICK q \in Pages : mm[q] = x
        BY <4>1, Zenon
      <4>3. m1[t][q] = x
        BY <2>1, <4>2, Zenon
      <4> QED BY <4>3, Zenon
    <3>2. CASE i \notin 1..n
      BY <2>2, <2>5, <3>2, Zenon
    <3> QED BY <3>1, <3>2, Zenon
  <2>6. Complete(m1, g, r, c \cup d)
    <3> SUFFICES ASSUME NEW x \in Frames
                 PROVE  \/ \E s \in Procs, p \in Pages : m1[s][p] = x
                        \/ \E s \in Procs : r[s] = x
                        \/ \E i \in 1..Len(g) : g[i] = x
                        \/ x \in c \cup d
      BY Zenon DEF Complete
    <3> QED BY <2>4, <2>5, Zenon DEF Complete
  <2> QED BY <2>6, Zenon DEF m1
<1> SUFFICES ASSUME NEW m \in Tables, NEW f \in Seq(Frames), NEW r \in Tops, NEW t \in Procs,
                    NEW lo \in Nat, NEW hi \in Int,
                    Apart(m, f, r), \A p \in lo..hi : p \in Pages
             PROVE  Mapping(m, f, r, t, lo, hi, [m EXCEPT ![t] = Mapped(m[t], f, lo, hi)],
                            MapFree(m[t], f, lo, hi), MapOk(m[t], f, lo, hi),
                            MapDrops(m[t], f, lo, hi), MapStrays(m[t], f, lo, hi))
  OBVIOUS
<1> DEFINE mm == Mapped(m[t], f, lo, hi)
           m1 == [m EXCEPT ![t] = mm]
           g == MapFree(m[t], f, lo, hi)
           ok == MapOk(m[t], f, lo, hi)
           d == MapDrops(m[t], f, lo, hi)
           left == MapStrays(m[t], f, lo, hi)
<1>0. m[t] \in PageTables /\ NoFrame \notin Frames
  BY Constants, Zenon DEF Tables, PageTables
<1>1. PICK n, k \in Nat : /\ Taking(m[t], f, lo, hi, mm, g, d, n, k)
                          /\ \A p \in Pages : mm[p] = m[t][p] \/ ok \/ p \in left
                          /\ ok => Filled(m[t], f, lo, hi, mm, g, n, k)
  BY <1>0, <1>effect, Zenon
<1>2. \A s \in Procs : m1[s] = IF s = t THEN mm ELSE m[s]
  BY Zenon DEF Tables
<1> HIDE DEF mm, g, ok, d, left
<1>3. m1 \in Tables /\ g \in Seq(Frames) /\ Apart(m1, g, r)
  BY <1>1, <1>apart, Zenon
<1>4. \A c : Complete(m, f, r, c) => Complete(m1, g, r, c \cup d)
  BY <1>1, <1>complete, Zenon
<1>5. \A p \in Pages : \/ p \in lo..hi /\ m[t][p] = NoFrame /\ mm[p] \in Frames
                       \/ mm[p] = m[t][p]
  BY <1>1, Zenon DEF Taking
<1>6. ok => /\ \A p \in Pages : p \in lo..hi => mm[p] # NoFrame /\ m[t][p] = NoFrame
            /\ lo <= hi => Len(g) = Len(f) - (hi + 1 - lo)
  BY <1>1, Zenon DEF Filled
<1> HIDE DEF m1
<1>7. Mapping(m, f, r, t, lo, hi, m1, g, ok, d, left)
  <2>1. \A s \in Procs, p \in Pages : m[s][p] # NoFrame => m1[s][p] # NoFrame
    BY <1>0, <1>2, <1>5, Zenon
  <2>2. \A p \in Pages : p \notin lo..hi => m1[t][p] = m[t][p]
    BY <1>2, <1>5, Zenon
  <2>3. /\ \A s \in Procs : s # t => m1[s] = m[s]
        /\ \A p \in Pages : m1[t][p] = m[t][p] \/ ok \/ p \in left
        /\ ok => \A p \in Pages : p \in lo..hi => m1[t][p] # NoFrame /\ m[t][p] = NoFrame
    BY <1>1, <1>2, <1>6, Zenon
  <2> QED BY <1>3, <1>4, <1>6, <2>1, <2>2, <2>3, Zenon DEF Mapping
<1> QED BY <1>7, Zenon DEF m1, mm, g, ok, d, left

(***************************************************************************)
(* unmap_range                                                             *)
(***************************************************************************)

\* mm and g are m and f after n pages from lo on have been unmapped: their
\* frames are at the head of the free list, the last one first.
Giving(m, f, lo, hi, mm, g, n) ==
    /\ mm \in PageTables /\ g \in Seq(Frames) /\ Len(g) = n + Len(f)
    /\ \A p \in Pages : \/ /\ p \in lo..hi /\ p \in lo..(lo + n - 1)
                           /\ m[p] # NoFrame /\ mm[p] = NoFrame
                        \/ p \notin lo..(lo + n - 1) /\ mm[p] = m[p]
    /\ \A i \in 1..n : lo + n - i \in Pages /\ lo + n - i \in lo..(lo + n - 1)
                       /\ g[i] = m[lo + n - i]
    /\ \A i \in 1..Len(f) : g[n + i] = f[i]

Emptied(lo, hi, mm) == \A p \in lo..hi : mm[p] = NoFrame

\* The same of an unmap_range.
Unmaps(m, f, r, t, lo, hi, m1, g, ok) ==
    /\ m1 \in Tables /\ g \in Seq(Frames) /\ Apart(m1, g, r)
    /\ \A s \in Procs : s # t => m1[s] = m[s]
    /\ \A p \in Pages : p \notin lo..hi => m1[t][p] = m[t][p]
    /\ \A p \in Pages : m1[t][p] = NoFrame \/ m1[t][p] = m[t][p]
    /\ ok => \A p \in lo..hi : m1[t][p] = NoFrame
    /\ \A c : Complete(m, f, r, c) => Complete(m1, g, r, c)

LEMMA UnmapTable ==
    \A m \in Tables, f \in Seq(Frames), r \in Tops, t \in Procs, lo \in Nat, hi \in Int :
        Apart(m, f, r) /\ (\A p \in lo..hi : p \in Pages) =>
            Unmaps(m, f, r, t, lo, hi, [m EXCEPT ![t] = Unmapping(m[t], f, lo, hi).map],
                   Unmapping(m[t], f, lo, hi).free, Unmapping(m[t], f, lo, hi).ok)
<1>stop.
    ASSUME NEW m, NEW lo \in Nat, NEW hi \in Nat, lo <= hi
    PROVE  /\ UnmapStop(m, lo, hi) \in lo..(hi + 1)
           /\ \A p \in lo..(UnmapStop(m, lo, hi) - 1) : m[p] # NoFrame
           /\ UnmapOk(m, lo, hi) => UnmapStop(m, lo, hi) = hi + 1
  <2> USE <1>stop
  <2> DEFINE absent == {p \in lo..hi : m[p] = NoFrame}
  <2>1. CASE absent = {}
    BY <2>1 DEF UnmapStop
  <2>2. CASE absent # {}
    <3>1. absent \in SUBSET Nat
      OBVIOUS
    <3>2. Least(absent) \in absent /\ \A y \in absent : Least(absent) <= y
      <4> HIDE DEF absent
      <4> QED BY <2>2, <3>1, LeastFacts, Zenon
    <3>3. UnmapStop(m, lo, hi) = Least(absent)
      BY <2>2, Zenon DEF UnmapStop
    <3>4. Least(absent) \in lo..hi /\ m[Least(absent)] = NoFrame
      BY <3>2, Zenon
    <3>5. ASSUME NEW p \in lo..(Least(absent) - 1) PROVE m[p] # NoFrame
      <4>1. p \in lo..hi /\ ~(Least(absent) <= p)
        BY <3>4
      <4> QED BY <3>2, <4>1, Zenon
    <3> HIDE DEF absent
    <3>6. Least(absent) \in lo..(hi + 1) /\ ~UnmapOk(m, lo, hi)
      BY <3>4 DEF UnmapOk
    <3> QED BY <3>3, <3>5, <3>6, Zenon
  <2> QED BY <2>1, <2>2, Zenon
<1>effect.
    ASSUME NEW m \in PageTables, NEW f \in Seq(Frames), NEW lo \in Nat, NEW hi \in Int,
           \A p \in lo..hi : p \in Pages
    PROVE  \E n \in Nat :
              /\ Giving(m, f, lo, hi, Unmapped(m, lo, hi), UnmapFree(m, f, lo, hi), n)
              /\ UnmapOk(m, lo, hi) => Emptied(lo, hi, Unmapped(m, lo, hi))
  <2> USE <1>effect
  <2>0. Len(f) \in Nat /\ NoFrame \notin Frames /\ Pages \subseteq Nat /\ DOMAIN m = Pages
    BY Constants DEF PageTables
  <2>1. CASE hi < lo
    <3>1. UnmapStop(m, lo, hi) = hi + 1
      BY <2>1 DEF UnmapStop
    <3>2. Unmapped(m, lo, hi) = m
      BY <2>0, <2>1, <3>1 DEF Unmapped, PageTables
    <3>3. UnmapFree(m, f, lo, hi) = f
      BY <2>1, Zenon DEF UnmapFree
    <3>4. Giving(m, f, lo, hi, m, f, 0)
      BY <2>0 DEF Giving
    <3>5. Emptied(lo, hi, m)
      BY <2>1 DEF Emptied
    <3> QED BY <3>2, <3>3, <3>4, <3>5, Zenon
  <2>2. CASE lo <= hi
    <3> DEFINE st == UnmapStop(m, lo, hi)
               n == st - lo
               mm == Unmapped(m, lo, hi)
               w == [i \in 1..n |-> m[lo + i - 1]]
               v == [i \in 1..Len(w) |-> w[Len(w) + 1 - i]]
               g == UnmapFree(m, f, lo, hi)
    <3>0. hi \in Nat
      BY <2>2
    <3>1. /\ st \in lo..(hi + 1) /\ \A p \in lo..(st - 1) : m[p] # NoFrame
          /\ UnmapOk(m, lo, hi) => st = hi + 1
      BY <2>2, <3>0, <1>stop, Zenon
    <3>2. mm = [p \in Pages |-> IF p \in lo..(st - 1) THEN NoFrame ELSE m[p]]
      BY <2>0, Zenon DEF Unmapped
    <3>3. g = v \o f
      <4>1. ~(hi < lo)
        BY <2>2
      <4>2. g = Dealloc(f, w)
        BY <4>1, Zenon DEF UnmapFree
      <4> HIDE DEF g, w
      <4> QED BY <4>2, Zenon DEF Dealloc
    <3> HIDE DEF st, mm, g
    <3>4. n \in Nat /\ st - 1 = lo + n - 1 /\ lo + n - 1 <= hi
      BY <3>0, <3>1
    <3> HIDE DEF n
    <3>5. \A i \in 1..n : lo + i - 1 \in lo..(lo + n - 1)
      BY <3>4
    <3>6. \A p \in lo..(lo + n - 1) : p \in lo..hi /\ p \in Pages /\ m[p] \in Frames
      <4>1. \A p \in lo..(lo + n - 1) : p \in lo..hi
        BY <3>0, <3>4
      <4> QED BY <3>1, <3>4, <4>1, Zenon DEF PageTables
    <3>7. w \in Seq(Frames) /\ Len(w) = n
      <4>1. w \in [1..n -> Frames]
        BY <3>5, <3>6, Zenon
      <4> HIDE DEF w
      <4> QED BY <3>4, <4>1
    <3>8. v = [i \in 1..n |-> m[lo + n - i]]
      <4>1. \A i \in 1..n : n + 1 - i \in 1..n /\ lo + (n + 1 - i) - 1 = lo + n - i
        BY <3>4
      <4>2. \A i \in 1..n : w[n + 1 - i] = m[lo + n - i]
        BY <4>1, Zenon
      <4> HIDE DEF w
      <4> QED BY <3>7, <4>2, Zenon
    <3> HIDE DEF w, v
    <3>9. \A i \in 1..n : lo + n - i \in lo..(lo + n - 1)
      BY <3>4
    <3>10. v \in Seq(Frames) /\ Len(v) = n /\ \A i \in 1..n : v[i] = m[lo + n - i]
      <4>1. v \in [1..n -> Frames]
        BY <3>6, <3>8, <3>9, Zenon
      <4> QED BY <3>4, <3>8, <4>1
    <3>11. /\ g \in Seq(Frames) /\ Len(g) = n + Len(f)
           /\ \A i \in 1..(n + Len(f)) : g[i] = IF i <= n THEN v[i] ELSE f[i - n]
      BY <3>3, <3>10
    <3>12. /\ \A i \in 1..n : g[i] = m[lo + n - i]
           /\ \A i \in 1..Len(f) : g[n + i] = f[i]
      <4>1. \A i \in 1..n : i \in 1..(n + Len(f)) /\ i <= n
        BY <2>0, <3>4
      <4>2. \A i \in 1..n : g[i] = v[i]
        BY <3>11, <4>1, Zenon
      <4>3. ASSUME NEW i \in 1..Len(f) PROVE g[n + i] = f[i]
        <5> DEFINE k == n + i
        <5>1. k \in 1..(n + Len(f)) /\ ~(k <= n) /\ k - n = i
          BY <2>0, <3>4, <4>3
        <5> HIDE DEF k
        <5>2. g[k] = f[k - n]
          BY <3>11, <5>1, Zenon
        <5> QED BY <5>1, <5>2, Zenon DEF k
      <4> QED BY <3>10, <4>2, <4>3, Zenon
    <3>13. /\ mm \in PageTables
           /\ \A p \in Pages : mm[p] = IF p \in lo..(lo + n - 1) THEN NoFrame ELSE m[p]
      BY <3>2, <3>4, Zenon DEF PageTables
    <3>14. Giving(m, f, lo, hi, mm, g, n)
      <4>1. \A p \in Pages : \/ /\ p \in lo..hi /\ p \in lo..(lo + n - 1)
                                /\ m[p] # NoFrame /\ mm[p] = NoFrame
                             \/ p \notin lo..(lo + n - 1) /\ mm[p] = m[p]
        BY <2>0, <3>6, <3>13, Zenon
      <4>2. \A i \in 1..n : lo + n - i \in Pages /\ lo + n - i \in lo..(lo + n - 1)
                            /\ g[i] = m[lo + n - i]
        BY <3>6, <3>9, <3>12, Zenon
      <4> QED BY <3>11, <3>12, <3>13, <4>1, <4>2, Zenon DEF Giving
    <3>15. UnmapOk(m, lo, hi) => Emptied(lo, hi, mm)
      <4>1. UnmapOk(m, lo, hi) => lo + n - 1 = hi
        BY <3>0, <3>1, <3>4
      <4> QED BY <3>13, <4>1, Zenon DEF Emptied
    <3> QED BY <3>4, <3>14, <3>15, Zenon DEF mm, g
  <2> QED BY <2>1, <2>2
\* Unmapping pages of table t keeps every frame to one use.
<1>apart.
    ASSUME NEW m \in Tables, NEW f \in Seq(Frames), NEW r \in Tops, Apart(m, f, r),
           NEW t \in Procs, NEW lo \in Nat, NEW hi \in Int,
           NEW mm, NEW g, NEW n \in Nat, Giving(m[t], f, lo, hi, mm, g, n)
    PROVE  /\ [m EXCEPT ![t] = mm] \in Tables /\ g \in Seq(Frames)
           /\ Apart([m EXCEPT ![t] = mm], g, r)
  <2> USE <1>apart
  <2> DEFINE m1 == [m EXCEPT ![t] = mm]
  <2>1. /\ mm \in PageTables /\ g \in Seq(Frames) /\ Len(g) = n + Len(f)
        /\ \A p \in Pages : mm[p] = NoFrame \/ (p \notin lo..(lo + n - 1) /\ mm[p] = m[t][p])
        /\ \A i \in 1..n : lo + n - i \in Pages /\ lo + n - i \in lo..(lo + n - 1)
                           /\ g[i] = m[t][lo + n - i]
        /\ \A i \in 1..Len(f) : g[n + i] = f[i]
    BY Zenon DEF Giving
  <2>2. m1 \in Tables /\ \A s \in Procs : m1[s] = IF s = t THEN mm ELSE m[s]
    BY <2>1, Zenon DEF Tables, PageTables
  <2>3. Len(f) \in Nat /\ \A i \in 1..Len(g) : g[i] \in Frames
    BY <2>1
  <2>4. /\ \A i, j \in 1..Len(f) : f[i] = f[j] => i = j
        /\ \A i \in 1..Len(f), u \in Procs : r[u] # f[i]
        /\ \A i \in 1..Len(f), u \in Procs, p \in Pages : m[u][p] # f[i]
    BY Zenon DEF Apart
  <2>5. /\ \A s \in Procs, p \in Pages : m[s][p] # NoFrame =>
              \A u \in Procs, q \in Pages : m[u][q] = m[s][p] => u = s /\ q = p
        /\ \A s \in Procs : r[s] # NoFrame =>
              \A u \in Procs : (r[u] = r[s] => u = s) /\ \A p \in Pages : m[u][p] # r[s]
    BY Zenon DEF Apart
  <2>6. NoFrame \notin Frames
    BY Constants, Zenon
  <2> HIDE DEF m1
  <2>7. ASSUME NEW s \in Procs, NEW p \in Pages, m1[s][p] # NoFrame
        PROVE  m1[s][p] = m[s][p] /\ ~(s = t /\ p \in lo..(lo + n - 1))
    BY <2>1, <2>2, <2>7, Zenon
  <2>8. ASSUME NEW s \in Procs, NEW p \in Pages, m1[s][p] # NoFrame,
               NEW u \in Procs, NEW q \in Pages, m1[u][q] = m1[s][p]
        PROVE  u = s /\ q = p
    BY <2>5, <2>7, <2>8
  <2>9. ASSUME NEW s \in Procs, r[s] # NoFrame, NEW u \in Procs
        PROVE  (r[u] = r[s] => u = s) /\ \A p \in Pages : m1[u][p] # r[s]
    BY <2>5, <2>7, <2>9
  \* A place of the free list is one of the new ones or one of the old ones.
  <2>10. ASSUME NEW i \in 1..Len(g)
         PROVE  i \in 1..n \/ (i - n \in 1..Len(f) /\ g[i] = f[i - n])
    <3>1. CASE i <= n
      BY <3>1
    <3>2. CASE i > n
      <4>1. i - n \in 1..Len(f) /\ n + (i - n) = i
        BY <2>1, <2>3, <3>2
      <4> QED BY <2>1, <4>1, Zenon
    <3> QED BY <3>1, <3>2
  <2>11. ASSUME NEW i \in 1..Len(g), NEW j \in 1..Len(g), g[i] = g[j] PROVE i = j
    <3>1. CASE i \in 1..n /\ j \in 1..n
      <4>1. /\ lo + n - i \in Pages /\ lo + n - j \in Pages
            /\ m[t][lo + n - i] = m[t][lo + n - j] /\ m[t][lo + n - i] # NoFrame
        BY <2>1, <2>3, <2>6, <2>11, <3>1, Zenon
      <4>2. lo + n - i = lo + n - j
        BY <2>5, <4>1
      <4> QED BY <4>2
    <3>2. CASE i \notin 1..n /\ j \notin 1..n
      <4>1. i - n \in 1..Len(f) /\ j - n \in 1..Len(f) /\ f[i - n] = f[j - n]
        BY <2>10, <2>11, <3>2, Zenon
      <4>2. i - n = j - n
        BY <2>4, <4>1, Zenon
      <4> QED BY <4>2
    <3>3. CASE i \in 1..n /\ j \notin 1..n
      <4>1. j - n \in 1..Len(f) /\ lo + n - i \in Pages /\ m[t][lo + n - i] = f[j - n]
        BY <2>1, <2>10, <2>11, <3>3, Zenon
      <4> QED BY <2>4, <4>1, Zenon
    <3>4. CASE i \notin 1..n /\ j \in 1..n
      <4>1. i - n \in 1..Len(f) /\ lo + n - j \in Pages /\ m[t][lo + n - j] = f[i - n]
        BY <2>1, <2>10, <2>11, <3>4, Zenon
      <4> QED BY <2>4, <4>1, Zenon
    <3> QED BY <3>1, <3>2, <3>3, <3>4, Zenon
  <2>12. ASSUME NEW i \in 1..Len(g), NEW u \in Procs
         PROVE  r[u] # g[i] /\ \A p \in Pages : m1[u][p] # g[i]
    <3>0. g[i] # NoFrame
      BY <2>3, <2>6, Zenon
    <3>1. CASE i \in 1..n
      <4>1. /\ lo + n - i \in Pages /\ lo + n - i \in lo..(lo + n - 1)
            /\ g[i] = m[t][lo + n - i] /\ m[t][lo + n - i] # NoFrame
        BY <2>1, <3>0, <3>1, Zenon
      <4>2. r[u] # g[i]
        <5>1. r[u] # NoFrame => \A p \in Pages : m[t][p] # r[u]
          BY <2>5, Zenon
        <5> QED BY <3>0, <4>1, <5>1, Zenon
      <4>3. ASSUME NEW p \in Pages, m1[u][p] = g[i] PROVE FALSE
        <5>1. m[u][p] = m[t][lo + n - i] /\ ~(u = t /\ p \in lo..(lo + n - 1))
          BY <2>7, <3>0, <4>1, <4>3, Zenon
        <5> QED BY <2>5, <4>1, <5>1
      <4> QED BY <4>2, <4>3, Zenon
    <3>2. CASE i \notin 1..n
      <4>1. i - n \in 1..Len(f) /\ g[i] = f[i - n]
        BY <2>10, <3>2, Zenon
      <4> QED BY <2>4, <2>7, <3>0, <4>1
    <3> QED BY <3>1, <3>2, Zenon
  <2>13. Apart(m1, g, r)
    BY <2>8, <2>9, <2>11, <2>12, Zenon DEF Apart
  <2> QED BY <2>1, <2>2, <2>13, Zenon DEF m1
\* Unmapping loses no frame.
<1>complete.
    ASSUME NEW m \in Tables, NEW f \in Seq(Frames), NEW r, NEW c, Complete(m, f, r, c),
           NEW t \in Procs, NEW lo \in Nat, NEW hi \in Int,
           NEW mm, NEW g, NEW n \in Nat, Giving(m[t], f, lo, hi, mm, g, n)
    PROVE  Complete([m EXCEPT ![t] = mm], g, r, c)
  <2> USE <1>complete
  <2> DEFINE m1 == [m EXCEPT ![t] = mm]
  <2>1. \A s \in Procs : m1[s] = IF s = t THEN mm ELSE m[s]
    BY Zenon DEF Tables
  <2>2. /\ Len(g) = n + Len(f)
        /\ \A p \in Pages : p \in lo..(lo + n - 1) \/ mm[p] = m[t][p]
        /\ \A i \in 1..n : g[i] = m[t][lo + n - i]
        /\ \A i \in 1..Len(f) : g[n + i] = f[i]
    BY Zenon DEF Giving
  <2>3. Len(f) \in Nat /\ Pages \subseteq Nat
    BY Constants
  <2> HIDE DEF m1
  <2>4. ASSUME NEW s \in Procs, NEW p \in Pages
        PROVE  m1[s][p] = m[s][p] \/ \E i \in 1..Len(g) : g[i] = m[s][p]
    <3>1. CASE s # t \/ p \notin lo..(lo + n - 1)
      BY <2>1, <2>2, <3>1, Zenon
    <3>2. CASE s = t /\ p \in lo..(lo + n - 1)
      <4>1. p \in Nat
        BY <2>3, Zenon
      <4>2. lo + n - p \in 1..n /\ lo + n - (lo + n - p) = p
        BY <3>2, <4>1
      <4>3. lo + n - p \in 1..Len(g)
        BY <2>2, <2>3, <4>1, <4>2
      <4>4. g[lo + n - p] = m[s][p]
        BY <2>2, <3>2, <4>2, Zenon
      <4> QED BY <4>3, <4>4, Zenon
    <3> QED BY <3>1, <3>2, Zenon
  <2>5. ASSUME NEW i \in 1..Len(f) PROVE \E j \in 1..Len(g) : g[j] = f[i]
    <3>1. n + i \in 1..Len(g)
      BY <2>2, <2>3
    <3> QED BY <2>2, <3>1, Zenon
  <2>6. Complete(m1, g, r, c)
    <3> SUFFICES ASSUME NEW x \in Frames
                 PROVE  \/ \E s \in Procs, p \in Pages : m1[s][p] = x
                        \/ \E s \in Procs : r[s] = x
                        \/ \E i \in 1..Len(g) : g[i] = x
                        \/ x \in c
      BY Zenon DEF Complete
    <3>1. CASE \E s \in Procs, p \in Pages : m[s][p] = x
      <4>1. PICK s \in Procs, p \in Pages : m[s][p] = x
        BY <3>1, Zenon
      <4>2. m1[s][p] = m[s][p] \/ \E i \in 1..Len(g) : g[i] = m[s][p]
        BY <2>4, Zenon
      <4> QED BY <4>1, <4>2, Zenon
    <3>2. CASE \E i \in 1..Len(f) : f[i] = x
      BY <2>5, <3>2, Zenon
    <3> QED BY <3>1, <3>2, Zenon DEF Complete
  <2> QED BY <2>6, Zenon DEF m1
<1> SUFFICES ASSUME NEW m \in Tables, NEW f \in Seq(Frames), NEW r \in Tops, NEW t \in Procs,
                    NEW lo \in Nat, NEW hi \in Int,
                    Apart(m, f, r), \A p \in lo..hi : p \in Pages
             PROVE  Unmaps(m, f, r, t, lo, hi, [m EXCEPT ![t] = Unmapping(m[t], f, lo, hi).map],
                           Unmapping(m[t], f, lo, hi).free, Unmapping(m[t], f, lo, hi).ok)
  OBVIOUS
<1> DEFINE mm == Unmapped(m[t], lo, hi)
           m1 == [m EXCEPT ![t] = mm]
           g == UnmapFree(m[t], f, lo, hi)
           ok == UnmapOk(m[t], lo, hi)
<1>0. m[t] \in PageTables
  BY Zenon DEF Tables, PageTables
<1>1. PICK n \in Nat : Giving(m[t], f, lo, hi, mm, g, n) /\ (ok => Emptied(lo, hi, mm))
  BY <1>0, <1>effect, Zenon
<1>2. \A s \in Procs : m1[s] = IF s = t THEN mm ELSE m[s]
  BY Zenon DEF Tables
<1>3. /\ Unmapping(m[t], f, lo, hi).map = mm /\ Unmapping(m[t], f, lo, hi).free = g
      /\ Unmapping(m[t], f, lo, hi).ok = ok
  BY Zenon DEF Unmapping
<1> HIDE DEF mm, g, ok
<1>4. m1 \in Tables /\ g \in Seq(Frames) /\ Apart(m1, g, r)
  BY <1>1, <1>apart, Zenon
<1>5. \A c : Complete(m, f, r, c) => Complete(m1, g, r, c)
  BY <1>1, <1>complete, Zenon
<1>6. \A p \in Pages : (p \in lo..hi /\ mm[p] = NoFrame) \/ mm[p] = m[t][p]
  BY <1>1, Zenon DEF Giving
<1>7. ok => \A p \in lo..hi : mm[p] = NoFrame
  BY <1>1, Zenon DEF Emptied
<1> HIDE DEF m1
<1>8. Unmaps(m, f, r, t, lo, hi, m1, g, ok)
  BY <1>2, <1>4, <1>5, <1>6, <1>7, Zenon DEF Unmaps
<1> QED BY <1>3, <1>8, Zenon DEF m1

(***************************************************************************)
(* The frame of a top table                                                *)
(***************************************************************************)

\* clone_level_4 takes the next frame.
LEMMA TopTaken ==
    ASSUME NEW m \in Tables, NEW f \in Seq(Frames), NEW r \in Tops, Apart(m, f, r),
           NEW t \in Procs, r[t] = NoFrame, Len(f) > 0
    PROVE  /\ Tail(f) \in Seq(Frames) /\ Len(Tail(f)) = Len(f) - 1
           /\ Head(f) \in Frames /\ [r EXCEPT ![t] = Head(f)] \in Tops
           /\ Apart(m, Tail(f), [r EXCEPT ![t] = Head(f)])
           /\ \A c : Complete(m, f, r, c) => Complete(m, Tail(f), [r EXCEPT ![t] = Head(f)], c)
<1> DEFINE g == Tail(f)
           x == Head(f)
           r1 == [r EXCEPT ![t] = x]
<1>1. f # << >> /\ Len(f) \in Nat
  OBVIOUS
<1>2. /\ g \in Seq(Frames) /\ Len(g) = Len(f) - 1 /\ x = f[1] /\ x \in Frames
      /\ \A i \in 1..Len(g) : g[i] = f[i + 1]
  BY <1>1
<1>3. r1 \in Tops /\ \A s \in Procs : r1[s] = IF s = t THEN x ELSE r[s]
  BY <1>2, Zenon DEF Tops
<1>4. /\ \A i, j \in 1..Len(f) : f[i] = f[j] => i = j
      /\ \A i \in 1..Len(f), u \in Procs : r[u] # f[i]
      /\ \A i \in 1..Len(f), u \in Procs, p \in Pages : m[u][p] # f[i]
  BY Zenon DEF Apart
<1>5. \A s \in Procs : r[s] # NoFrame =>
            \A u \in Procs : (r[u] = r[s] => u = s) /\ \A p \in Pages : m[u][p] # r[s]
  BY Zenon DEF Apart
<1>6. 1 \in 1..Len(f) /\ \A i \in 1..Len(g) : i + 1 \in 1..Len(f) /\ i + 1 # 1
  BY <1>1, <1>2
<1> HIDE DEF g, x, r1
<1>7. ASSUME NEW s \in Procs, r1[s] # NoFrame, NEW u \in Procs
      PROVE  (r1[u] = r1[s] => u = s) /\ \A p \in Pages : m[u][p] # r1[s]
  BY <1>2, <1>3, <1>4, <1>5, <1>6, <1>7
<1>8. ASSUME NEW i \in 1..Len(g), NEW j \in 1..Len(g), g[i] = g[j] PROVE i = j
  <2>1. i + 1 = j + 1
    BY <1>2, <1>4, <1>6, <1>8, Zenon
  <2> QED BY <2>1
<1>9. ASSUME NEW i \in 1..Len(g), NEW u \in Procs
      PROVE  r1[u] # g[i] /\ \A p \in Pages : m[u][p] # g[i]
  BY <1>2, <1>3, <1>4, <1>6
<1>10. Apart(m, g, r1)
  BY <1>7, <1>8, <1>9, Zenon DEF Apart
<1>11. ASSUME NEW c, Complete(m, f, r, c) PROVE Complete(m, g, r1, c)
  <2>1. ASSUME NEW i \in 1..Len(f) PROVE f[i] = r1[t] \/ \E j \in 1..Len(g) : g[j] = f[i]
    <3>1. CASE i = 1
      BY <1>2, <1>3, <3>1, Zenon
    <3>2. CASE i # 1
      <4>1. i - 1 \in 1..Len(g) /\ i - 1 + 1 = i
        BY <1>1, <1>2, <3>2
      <4>2. g[i - 1] = f[i]
        BY <1>2, <4>1, Zenon
      <4> QED BY <4>1, <4>2, Zenon
    <3> QED BY <3>1, <3>2, Zenon
  <2>2. \A s \in Procs : r[s] = NoFrame \/ r1[s] = r[s]
    BY <1>3, Zenon
  <2> SUFFICES ASSUME NEW y \in Frames
               PROVE  \/ \E s \in Procs, p \in Pages : m[s][p] = y
                      \/ \E s \in Procs : r1[s] = y
                      \/ \E i \in 1..Len(g) : g[i] = y
                      \/ y \in c
    BY Zenon DEF Complete
  <2>3. y # NoFrame
    BY Constants, Zenon
  <2>4. CASE \E s \in Procs : r[s] = y
    BY <2>2, <2>3, <2>4, Zenon
  <2>5. CASE \E i \in 1..Len(f) : f[i] = y
    BY <2>1, <2>5, Zenon
  <2> QED BY <1>11, <2>4, <2>5, Zenon DEF Complete
<1> QED BY <1>2, <1>3, <1>10, <1>11, Zenon DEF g, x, r1

\* The last step of clean_up gives it back.
LEMMA TopGiven ==
    ASSUME NEW m \in Tables, NEW f \in Seq(Frames), NEW r \in Tops, Apart(m, f, r),
           NEW t \in Procs, r[t] # NoFrame
    PROVE  /\ Dealloc(f, <<r[t]>>) \in Seq(Frames) /\ [r EXCEPT ![t] = NoFrame] \in Tops
           /\ Apart(m, Dealloc(f, <<r[t]>>), [r EXCEPT ![t] = NoFrame])
           /\ \A c : Complete(m, f, r, c) =>
                     Complete(m, Dealloc(f, <<r[t]>>), [r EXCEPT ![t] = NoFrame], c)
<1> DEFINE x == r[t]
           g == Dealloc(f, <<x>>)
           r1 == [r EXCEPT ![t] = NoFrame]
<1>1. x \in Frames /\ Len(f) \in Nat /\ NoFrame \notin Frames
  BY Constants DEF Tops
<1>2. g = <<x>> \o f
  <2>1. [i \in 1..Len(<<x>>) |-> <<x>>[Len(<<x>>) + 1 - i]] = <<x>>
    OBVIOUS
  <2> QED BY <2>1, Zenon DEF Dealloc
<1> HIDE DEF g, x
<1>3. /\ g \in Seq(Frames) /\ Len(g) = 1 + Len(f)
      /\ \A i \in 1..(1 + Len(f)) : g[i] = IF i <= 1 THEN <<x>>[i] ELSE f[i - 1]
  <2>1. <<x>> \in Seq(Frames) /\ Len(<<x>>) = 1
    BY <1>1
  <2> QED BY <1>2, <2>1
<1>4. /\ 1 \in 1..Len(g) /\ g[1] = x
      /\ \A i \in 1..Len(g) : i # 1 => i - 1 \in 1..Len(f) /\ g[i] = f[i - 1]
      /\ \A i \in 1..Len(f) : i + 1 \in 1..Len(g) /\ g[i + 1] = f[i]
  <2>1. 1 \in 1..(1 + Len(f)) /\ <<x>>[1] = x
    BY <1>1
  <2>2. \A i \in 1..(1 + Len(f)) : i # 1 => i - 1 \in 1..Len(f) /\ ~(i <= 1)
    BY <1>1
  <2>3. \A i \in 1..Len(f) : i + 1 \in 1..(1 + Len(f)) /\ ~(i + 1 <= 1) /\ i + 1 - 1 = i
    BY <1>1
  <2> QED BY <1>3, <2>1, <2>2, <2>3
<1>5. r1 \in Tops /\ \A s \in Procs : r1[s] = IF s = t THEN NoFrame ELSE r[s]
  BY Zenon DEF Tops
<1>6. /\ \A i, j \in 1..Len(f) : f[i] = f[j] => i = j
      /\ \A i \in 1..Len(f), u \in Procs : r[u] # f[i]
      /\ \A i \in 1..Len(f), u \in Procs, p \in Pages : m[u][p] # f[i]
  BY Zenon DEF Apart
<1>7. \A s \in Procs : r[s] # NoFrame =>
            \A u \in Procs : (r[u] = r[s] => u = s) /\ \A p \in Pages : m[u][p] # r[s]
  BY Zenon DEF Apart
<1>8. x = r[t]
  BY Zenon DEF x
<1> HIDE DEF r1
<1>9. ASSUME NEW s \in Procs, r1[s] # NoFrame, NEW u \in Procs
      PROVE  (r1[u] = r1[s] => u = s) /\ \A p \in Pages : m[u][p] # r1[s]
  BY <1>5, <1>7, <1>9
<1>10. ASSUME NEW i \in 1..Len(g), NEW j \in 1..Len(g), g[i] = g[j] PROVE i = j
  <2>1. CASE i # 1 /\ j # 1
    <3>0. i - 1 \in 1..Len(f) /\ j - 1 \in 1..Len(f) /\ f[i - 1] = f[j - 1]
      BY <1>4, <1>10, <2>1, Zenon
    <3>1. i - 1 = j - 1
      BY <1>6, <3>0, Zenon
    <3> QED BY <3>1
  <2>2. CASE i = 1 /\ j # 1
    <3>1. j - 1 \in 1..Len(f) /\ r[t] = f[j - 1]
      BY <1>4, <1>8, <1>10, <2>2, Zenon
    <3> QED BY <1>6, <3>1, Zenon
  <2>3. CASE i # 1 /\ j = 1
    <3>1. i - 1 \in 1..Len(f) /\ r[t] = f[i - 1]
      BY <1>4, <1>8, <1>10, <2>3, Zenon
    <3> QED BY <1>6, <3>1, Zenon
  <2> QED BY <2>1, <2>2, <2>3, Zenon
<1>11. ASSUME NEW i \in 1..Len(g), NEW u \in Procs
       PROVE  r1[u] # g[i] /\ \A p \in Pages : m[u][p] # g[i]
  <2>1. CASE i = 1
    BY <1>1, <1>4, <1>5, <1>7, <1>8, <2>1
  <2>2. CASE i # 1
    <3>1. i - 1 \in 1..Len(f) /\ g[i] = f[i - 1]
      BY <1>4, <2>2, Zenon
    <3>2. \A j \in 1..Len(f) : f[j] # NoFrame
      BY <1>1
    <3>3. g[i] # NoFrame
      BY <3>1, <3>2, Zenon
    <3>4. r[u] # f[i - 1] /\ \A p \in Pages : m[u][p] # f[i - 1]
      BY <1>6, <3>1, Zenon
    <3>5. r1[u] = NoFrame \/ r1[u] = r[u]
      BY <1>5, Zenon
    <3> QED BY <3>1, <3>3, <3>4, <3>5, Zenon
  <2> QED BY <2>1, <2>2, Zenon
<1>12. Apart(m, g, r1)
  <2>1. \A s \in Procs, p \in Pages : m[s][p] # NoFrame =>
            \A u \in Procs, q \in Pages : m[u][q] = m[s][p] => u = s /\ q = p
    BY Zenon DEF Apart
  <2> QED BY <2>1, <1>9, <1>10, <1>11, Zenon DEF Apart
<1>13. ASSUME NEW c, Complete(m, f, r, c) PROVE Complete(m, g, r1, c)
  <2>1. \A i \in 1..Len(f) : \E j \in 1..Len(g) : g[j] = f[i]
    BY <1>4, Zenon
  <2>2. \A s \in Procs : r1[s] = r[s] \/ \E j \in 1..Len(g) : g[j] = r[s]
    BY <1>4, <1>5, <1>8, Zenon
  <2> SUFFICES ASSUME NEW y \in Frames
               PROVE  \/ \E s \in Procs, p \in Pages : m[s][p] = y
                      \/ \E s \in Procs : r1[s] = y
                      \/ \E j \in 1..Len(g) : g[j] = y
                      \/ y \in c
    BY Zenon DEF Complete
  <2>3. \/ \E s \in Procs, p \in Pages : m[s][p] = y
        \/ \E s \in Procs : r[s] = y
        \/ \E i \in 1..Len(f) : f[i] = y
        \/ y \in c
    BY <1>13, Zenon DEF Complete
  <2> QED BY <2>1, <2>2, <2>3, Zenon
<1> QED BY <1>3, <1>5, <1>12, <1>13, Zenon DEF g, x, r1

(***************************************************************************)
(* The inductive invariant                                                 *)
(***************************************************************************)

\* The types of the variables that TypeOK leaves open.
MoreTypes ==
    /\ children \in [Procs -> Nat]
    /\ code \in [Procs -> BOOLEAN]
    /\ strays \in [Procs -> SUBSET Int]
    /\ last \in [Procs -> Nat]

\* The process that forks lives, and there is a pid for the child.
ForkAlive ==
    forking # NoFork =>
        /\ forking.parent \in Procs /\ forking.offset \in Nat
        /\ Alive(forking.parent) /\ nextPid <= MaxPid

\* Nothing belongs to a process that has not been made.
Fresh ==
    \A t \in Procs :
        /\ t >= nextPid => map[t] = Blank /\ p4[t] = NoFrame /\ table[t] = 0
        /\ table[t] < nextPid

\* Every stack reaches up to the top of its slot, so the last page of a slot
\* is mapped when a stack is in it.
StackTops ==
    \A p \in Procs : Alive(p) =>
        start[p] + usage[p] = Slot(start[p]) * STACK_MAX_PAGES + STACK_MAX_PAGES

Used(t) == \E q \in Procs : table[q] = t

\* What may be mapped in a table that somebody uses.
Kept(t, page) ==
    \/ page \in strays[t] \/ page = BssPage \/ page \in CodeStart..CodeEnd
    \/ page \in HeapStart..(BehindPage(end[t]) - 1)
    \/ \E q \in Procs : table[q] = t /\ page \in StackOf(q)

\* No frame is out of sight.  A table in use maps stacks of its users, the
\* code, the heap and what failed calls have left; one that is not in use maps
\* only what clean_up leaves.  The code info is with the process that was
\* spawned.
Tidy ==
    state = "ok" =>
        /\ Complete(map, free, p4, dropped)
        /\ \A t \in Procs, page \in Pages : map[t][page] # NoFrame =>
              (Used(t) => Kept(t, page)) /\ (~Used(t) => Left(t, page))
        /\ \A t \in Procs : ~Used(t) => p4[t] = NoFrame
        /\ \A p \in Procs : code[p] <=> table[p] = p

IInv ==
    /\ TypeOK /\ MoreTypes /\ ForkAlive /\ Fresh /\ StackTops
    /\ Apart(map, free, p4) /\ StacksApart /\ SharedMapped /\ Tidy

(***************************************************************************)
(* Stacks and their slots                                                  *)
(***************************************************************************)

LEMMA SlotOfStack ==
    ASSUME NEW s \in StackPages, NEW u \in Nat \ {0},
           s + u = Slot(s) * STACK_MAX_PAGES + STACK_MAX_PAGES
    PROVE  /\ u <= STACK_MAX_PAGES /\ s + u <= Slots * STACK_MAX_PAGES
           /\ \A page \in s..(s + u - 1) : page \in StackPages /\ Slot(page) = Slot(s)
           /\ s + u - 1 \in s..(s + u - 1)
<1> DEFINE M == STACK_MAX_PAGES
           k == s \div M
<1>1. M \in Nat \ {0} /\ s \in Nat /\ s < Slots * M /\ Slots \in Nat
  BY Constants DEF StackPages
<1>2. k \in Nat /\ k * M <= s /\ s < k * M + M /\ s + u = k * M + M
  BY <1>1, DivFacts, Zenon DEF Slot
<1> HIDE DEF M, k
<1>3. k < Slots
  BY <1>1, <1>2
<1>4. k * M + M <= Slots * M
  <2>1. (k + 1) * M <= Slots * M
    BY <1>1, <1>2, <1>3
  <2>2. (k + 1) * M = k * M + M
    BY <1>1, <1>2
  <2> QED BY <2>1, <2>2, Zenon
<1>5. k * M \in Nat /\ Slots * M \in Nat
  BY <1>1, <1>2
<1>6. u <= M /\ s + u <= Slots * M /\ s + u - 1 \in s..(s + u - 1)
  BY <1>1, <1>2, <1>4, <1>5
<1>7. ASSUME NEW page \in s..(s + u - 1) PROVE page \in StackPages /\ page \div M = k
  <2>1. page \in Nat /\ k * M <= page /\ page < k * M + M /\ page < Slots * M
    BY <1>1, <1>2, <1>5, <1>6
  <2>2. page \div M = k
    BY <1>1, <1>2, <2>1, DivIs
  <2>3. page \in 0..(Slots * M - 1)
    BY <1>5, <2>1
  <2> QED BY <2>2, <2>3, Zenon DEF StackPages, M
<1> QED BY <1>6, <1>7, Zenon DEF Slot, M, k

LEMMA StackFacts ==
    ASSUME TypeOK, StackTops, NEW p \in Procs, Alive(p)
    PROVE  /\ table[p] \in Procs /\ start[p] \in StackPages /\ usage[p] \in Nat \ {0}
           /\ start[p] \in Nat /\ start[p] + usage[p] - 1 \in Nat
           /\ start[p] + usage[p] = Slot(start[p]) * STACK_MAX_PAGES + STACK_MAX_PAGES
           /\ \A page \in StackOf(p) : page \in StackPages /\ Slot(page) = Slot(start[p])
           /\ start[p] + usage[p] - 1 \in StackOf(p)
<1>1. table[p] \in Procs
  BY DEF TypeOK, Alive, Procs
<1>2. start[p] \in StackPages /\ usage[p] \in Nat \ {0} /\ start[p] \in Nat
  BY Constants DEF TypeOK, StackPages
<1>3. start[p] + usage[p] = Slot(start[p]) * STACK_MAX_PAGES + STACK_MAX_PAGES
  BY Zenon DEF StackTops
<1>4. start[p] + usage[p] - 1 \in Nat
  BY <1>2
<1> QED BY <1>1, <1>2, <1>3, <1>4, SlotOfStack, Zenon DEF StackOf

\* Stacks are not disturbed when pages are mapped.
LEMMA StacksKept ==
    ASSUME TypeOK, StackTops, StacksApart, UNCHANGED <<table, start, usage>>,
           \A s \in Procs, p \in Pages : map[s][p] # NoFrame => map'[s][p] # NoFrame
    PROVE  StackTops' /\ StacksApart'
<1>1. StackTops'
  BY Zenon DEF StackTops, Alive, Slot
<1>2. ASSUME NEW p \in Procs, Alive(p), NEW page \in StackOf(p)
      PROVE  map'[table[p]][page] # NoFrame /\ Slot(page) = Slot(start[p])
  BY <1>2, StackFacts, Constants, Zenon DEF StacksApart
<1>3. \A p \in Procs : StackOf(p)' = StackOf(p) /\ Alive(p)' = Alive(p)
  BY Zenon DEF StackOf, Alive
<1> QED BY <1>1, <1>2, <1>3, Zenon DEF StacksApart, Slot

\* The pages of the heap up to an end that brk accepts.
LEMMA EndPageFacts ==
    ASSUME NEW e \in 0..(HEAP_PAGES * PAGE_SIZE)
    PROVE  /\ EndPage(e) \in Nat /\ HeapStart <= EndPage(e) /\ EndPage(e) <= HeapStart + HEAP_PAGES
           /\ \A p \in HeapStart..EndPage(e) : p \in Pages
           /\ BehindPage(e) \in Nat /\ HeapStart <= BehindPage(e)
           /\ \A p \in HeapStart..(BehindPage(e) - 1) : p \in Pages
<1>1. /\ PAGE_SIZE \in Nat \ {0} /\ HEAP_PAGES \in Nat /\ HeapStart \in Nat
      /\ HEAP_PAGES * PAGE_SIZE \in Nat
      /\ \A p \in Nat : p <= HeapStart + HEAP_PAGES => p \in Pages
  BY Constants, Zenon
<1>2. e \in Nat /\ e <= HEAP_PAGES * PAGE_SIZE
  BY <1>1
<1>3. /\ e \div PAGE_SIZE \in Nat /\ (e \div PAGE_SIZE) * PAGE_SIZE <= e
  BY <1>1, <1>2, DivFacts, Zenon
<1>4. e \div PAGE_SIZE <= HEAP_PAGES
  <2>1. (HEAP_PAGES * PAGE_SIZE) \div PAGE_SIZE = HEAP_PAGES
    BY <1>1, DivIs
  <2> QED BY <1>1, <1>2, <2>1, DivMono, Zenon
<1>5. /\ EndPage(e) \in Nat /\ HeapStart <= EndPage(e) /\ EndPage(e) <= HeapStart + HEAP_PAGES
  BY <1>1, <1>3, <1>4 DEF EndPage
<1>6. BehindPage(e) = HeapStart \/ BehindPage(e) = EndPage(e) + 1
  BY Zenon DEF BehindPage
<1>7. \A p \in HeapStart..EndPage(e) : p \in Pages
  BY <1>1, <1>5
<1>8. BehindPage(e) \in Nat /\ HeapStart <= BehindPage(e)
  BY <1>1, <1>5, <1>6
<1>9. \A p \in HeapStart..(BehindPage(e) - 1) : p \in Pages
  BY <1>1, <1>5, <1>6, <1>7
<1> QED BY <1>5, <1>7, <1>8, <1>9, Zenon

\* Nor is what a family shares.
LEMMA SharedKept ==
    ASSUME TypeOK, SharedMapped, UNCHANGED <<table, p4, end>>,
           \A s \in Procs, p \in Pages : map[s][p] # NoFrame => map'[s][p] # NoFrame
    PROVE  SharedMapped'
<1> SUFFICES ASSUME NEW p \in Procs, Alive(p)
             PROVE  /\ p4[table[p]] # NoFrame
                    /\ \A page \in CodeStart..CodeEnd : map'[table[p]][page] # NoFrame
                    /\ end[table[p]] # 0 =>
                          \A page \in HeapStart..EndPage(end[table[p]]) :
                              map'[table[p]][page] # NoFrame
  BY Zenon DEF SharedMapped, Alive, EndPage
<1>1. table[p] \in Procs /\ end[table[p]] \in 0..(HEAP_PAGES * PAGE_SIZE)
  BY DEF TypeOK, Alive, Procs
<1>2. \A page \in HeapStart..EndPage(end[table[p]]) : page \in Pages
  BY <1>1, EndPageFacts, Zenon
<1>3. CodeStart..CodeEnd \subseteq Pages
  BY Constants, Zenon
<1> QED BY <1>1, <1>2, <1>3, Zenon DEF SharedMapped

(***************************************************************************)
(* The steps                                                               *)
(***************************************************************************)

LEMMA Typed ==
    ASSUME IInv
    PROVE  /\ map \in Tables /\ free \in Seq(Frames) /\ p4 \in Tops /\ Apart(map, free, p4)
           /\ TypeOK /\ StackTops /\ StacksApart /\ SharedMapped
  BY Zenon DEF IInv, TypeOK, Tables, Tops

\* The table a live process uses is a process's, with a heap of its own.
LEMMA TableOf ==
    ASSUME IInv, NEW u \in Procs, Alive(u)
    PROVE  table[u] \in Procs /\ end[table[u]] \in 0..(HEAP_PAGES * PAGE_SIZE)
<1>1. table[u] \in 0..MaxPid /\ MaxPid \in Nat /\ table[u] # 0
  BY Constants, Zenon DEF IInv, TypeOK, Alive
<1>2. table[u] \in Procs
  BY <1>1 DEF Procs
<1> QED BY <1>2, Zenon DEF IInv, TypeOK

LEMMA SameMemory ==
    ASSUME IInv, UNCHANGED <<free, map, p4, table, start, usage, end, nextPid, state>>
    PROVE  /\ TypeOK' /\ Fresh' /\ StackTops' /\ Apart(map', free', p4')
           /\ StacksApart' /\ SharedMapped'
<1>1. TypeOK'
  BY Zenon DEF IInv, TypeOK, Alive
<1>2. Fresh'
  BY Zenon DEF IInv, Fresh
<1>3. Apart(map', free', p4')
  BY Zenon DEF IInv
<1>4. StackTops' /\ StacksApart'
  BY Typed, StacksKept, Zenon
<1>5. SharedMapped'
  BY Typed, SharedKept, Zenon
<1> QED BY <1>1, <1>2, <1>3, <1>4, <1>5, Zenon

LEMMA ApartPrimed == Apart(map', free', p4') => Apart(map, free, p4)'
  BY Zenon DEF Apart

LEMMA CompletePrimed ==
    Complete(map', free', p4', dropped') => Complete(map, free, p4, dropped)'
  BY Zenon DEF Complete

LEMMA StraysTyped ==
    ASSUME NEW m, NEW f, NEW lo \in Nat, NEW hi \in Int PROVE MapStrays(m, f, lo, hi) \in SUBSET Int
  BY DEF MapStrays

LEMMA TidySame ==
    ASSUME IInv, UNCHANGED <<free, map, p4, table, start, usage, end, code, state, lostVars>>
    PROVE  Tidy'
<1>1. UNCHANGED <<free, map, p4, table, start, usage, end, code, state, dropped, strays, last>>
  BY Zenon DEF lostVars
<1>2. \A s \in Procs : Used(s)' <=> Used(s)
  BY <1>1, Zenon DEF Used
<1>3. \A s \in Procs, x \in Pages : Left(s, x)' <=> Left(s, x)
  BY <1>1, Zenon DEF Left
<1>4. \A s \in Procs, x \in Pages : Kept(s, x)' <=> Kept(s, x)
  BY <1>1, Zenon DEF Kept, StackOf, BehindPage, EndPage
<1>5. Complete(map, free, p4, dropped) => Complete(map, free, p4, dropped)'
  BY <1>1, CompletePrimed, Zenon
<1>6. Tidy
  BY Zenon DEF IInv
<1>7. ASSUME state = "ok"
      PROVE  \A t \in Procs, page \in Pages : map'[t][page] # NoFrame =>
                (Used(t)' => Kept(t, page)') /\ (~Used(t)' => Left(t, page)')
  <2>1. ASSUME NEW t \in Procs, NEW page \in Pages, map'[t][page] # NoFrame
        PROVE  (Used(t)' => Kept(t, page)') /\ (~Used(t)' => Left(t, page)')
    <3>1. (Used(t) => Kept(t, page)) /\ (~Used(t) => Left(t, page))
      BY <1>1, <1>6, <1>7, <2>1, Zenon DEF Tidy
    <3> QED BY <1>2, <1>3, <1>4, <3>1, Zenon
  <2> QED BY <2>1, Zenon
<1>8. ASSUME state = "ok"
      PROVE  /\ \A t \in Procs : ~Used(t)' => p4'[t] = NoFrame
             /\ \A s \in Procs : code'[s] <=> table'[s] = s
  BY <1>1, <1>2, <1>6, <1>8, Zenon DEF Tidy
<1>9. state = "ok" => Complete(map, free, p4, dropped)'
  BY <1>5, <1>6, Zenon DEF Tidy
<1> QED BY <1>1, <1>7, <1>8, <1>9, Zenon DEF Tidy

\* What may be mapped stays so when stacks, users and strays are added.
LEMMA KeptGrows ==
    ASSUME end' = end,
           \A s \in Procs : strays[s] \subseteq strays'[s],
           \A q \in Procs : Alive(q) => table'[q] = table[q] /\ StackOf(q) \subseteq StackOf(q)'
    PROVE  \A s \in Procs, x \in Pages : Kept(s, x) => Kept(s, x)'
<1> SUFFICES ASSUME NEW s \in Procs, NEW x \in Pages, Kept(s, x) PROVE Kept(s, x)'
  BY Zenon
<1>1. BehindPage(end[s])' = BehindPage(end[s])
  BY Zenon DEF BehindPage, EndPage
<1>2. s # 0
  BY Constants, Zenon
<1>3. ASSUME NEW q \in Procs, table[q] = s, x \in StackOf(q) PROVE Kept(s, x)'
  <2>1. table'[q] = s /\ x \in StackOf(q)'
    BY <1>2, <1>3, Zenon DEF Alive
  <2> QED BY <2>1, Zenon DEF Kept
<1>4. ASSUME ~(\E q \in Procs : table[q] = s /\ x \in StackOf(q)) PROVE Kept(s, x)'
  BY <1>1, <1>4, Zenon DEF Kept
<1> QED BY <1>3, <1>4, Zenon

\* Mapping more pages that may be mapped, in a table in use, loses no frame.
LEMMA TidyMapped ==
    ASSUME IInv, state = "ok", NEW t \in Procs, Used(t), UNCHANGED <<p4, last>>,
           Complete(map, free, p4, dropped) => Complete(map', free', p4, dropped'),
           \A s \in Procs : s # t => map'[s] = map[s],
           \A s \in Procs : strays[s] \subseteq strays'[s],
           \A s \in Procs : Used(s)' <=> Used(s),
           \A q \in Procs : code'[q] <=> table'[q] = q,
           \A s \in Procs, x \in Pages : Kept(s, x) => Kept(s, x)',
           \A x \in Pages : map'[t][x] # NoFrame => map[t][x] # NoFrame \/ Kept(t, x)'
    PROVE  Tidy'
<1>1. /\ Complete(map, free, p4, dropped)
      /\ \A s \in Procs, x \in Pages : map[s][x] # NoFrame =>
            (Used(s) => Kept(s, x)) /\ (~Used(s) => Left(s, x))
      /\ \A s \in Procs : ~Used(s) => p4[s] = NoFrame
  BY Zenon DEF IInv, Tidy
<1>2. \A s \in Procs, x \in Pages : Left(s, x) => Left(s, x)'
  BY Zenon DEF Left
<1>3. Complete(map, free, p4, dropped)'
  BY <1>1, CompletePrimed, Zenon
<1>4. ASSUME NEW s \in Procs, NEW x \in Pages, map'[s][x] # NoFrame
      PROVE  (Used(s)' => Kept(s, x)') /\ (~Used(s)' => Left(s, x)')
  <2>1. CASE s # t
    <3>1. map[s][x] # NoFrame
      BY <1>4, <2>1, Zenon
    <3> QED BY <1>1, <1>2, <3>1, Zenon
  <2>2. CASE s = t
    <3>1. CASE map[t][x] # NoFrame
      BY <1>1, <2>2, <3>1, Zenon
    <3>2. CASE map[t][x] = NoFrame
      BY <1>4, <2>2, <3>2, Zenon
    <3> QED BY <3>1, <3>2, Zenon
  <2> QED BY <2>1, <2>2, Zenon
<1>5. \A s \in Procs : ~Used(s)' => p4'[s] = NoFrame
  BY <1>1, Zenon
<1> QED BY <1>3, <1>4, <1>5, Zenon DEF Tidy

LEMMA ForkBeginsInv ==
    ASSUME IInv, NEW p \in Procs, ForkBegins(p) PROVE IInv'
<1>1. /\ Alive(p) /\ nextPid <= MaxPid /\ forking' = [parent |-> p, offset |-> children[p]]
      /\ UNCHANGED <<free, map, p4, table, start, usage, children, end, code, nextPid, state,
                     lostVars>>
  BY Zenon DEF ForkBegins
<1>2. MoreTypes' /\ Tidy'
  BY <1>1, TidySame, Zenon DEF IInv, MoreTypes, lostVars
<1>3. ForkAlive'
  BY <1>1, Zenon DEF IInv, MoreTypes, ForkAlive, Alive
<1> QED BY <1>1, <1>2, <1>3, SameMemory, ApartPrimed, Zenon DEF IInv

\* What the search of Stack::fork maps.
LEMMA ForkMapping ==
    ASSUME IInv, state = "ok", forking # NoFork, InSlots, ForkTakes, p4' = p4
    PROVE  /\ forking.parent \in Procs /\ Alive(forking.parent) /\ ForkTable \in Procs
           /\ nextPid \in Procs /\ nextPid <= MaxPid
           /\ ChildStart \in StackPages /\ ChildEnd \in Nat
           /\ Slot(ChildStart) = Slot(start[forking.parent]) - forking.offset
           /\ ChildStart + usage[forking.parent]
                  = Slot(ChildStart) * STACK_MAX_PAGES + STACK_MAX_PAGES
           /\ Mapping(map, free, p4, ForkTable, ChildStart, ChildEnd, map', free', ForkFits,
                      MapDrops(map[ForkTable], free, ChildStart, ChildEnd),
                      MapStrays(map[ForkTable], free, ChildStart, ChildEnd))
<1> DEFINE q == forking.parent
           o == forking.offset
           M == STACK_MAX_PAGES
           k == Slot(start[q])
           c == ChildStart
<1>1. q \in Procs /\ o \in Nat /\ Alive(q) /\ nextPid <= MaxPid
  BY Zenon DEF IInv, ForkAlive
<1>2. nextPid \in Procs
  BY <1>1, Constants DEF IInv, TypeOK, Procs
<1>3. /\ ForkTable \in Procs /\ start[q] \in StackPages /\ usage[q] \in Nat \ {0}
      /\ start[q] \in Nat /\ start[q] + usage[q] = k * M + M
  BY <1>1, Typed, StackFacts, Zenon DEF ForkTable
<1>4. M \in Nat \ {0} /\ start[q] < Slots * M /\ Slots * M \in Nat
  BY <1>3, Constants DEF StackPages
<1>5. k \in Nat /\ k * M <= start[q] /\ start[q] < k * M + M
  BY <1>3, <1>4, DivFacts, Zenon DEF Slot
<1>6. c = start[q] - o * M /\ c >= 0
  BY Zenon DEF ChildStart, InSlots
<1>7. o * M \in Nat
  BY <1>1, <1>4
<1>8. c \in Nat /\ c <= start[q]
  BY <1>3, <1>6, <1>7
<1>9. c \in StackPages
  BY <1>4, <1>8, <1>3 DEF StackPages
<1> HIDE DEF M, k, c, o
<1>10. (k - o) * M = k * M - o * M
  BY <1>1, <1>4, <1>5
<1>11. k * M \in Nat /\ k - o \in Int /\ (k - o) * M \in Int
  BY <1>1, <1>4, <1>5, <1>10, <1>7
<1>12. (k - o) * M <= c /\ c < (k - o) * M + M
  BY <1>3, <1>4, <1>5, <1>6, <1>7, <1>10, <1>11
<1>13. c \div M = k - o
  BY <1>4, <1>8, <1>11, <1>12, DivIs, Zenon
<1>14. c + usage[q] = (k - o) * M + M
  <2> DEFINE X == o * M
             Y == k * M
             Z == (k - o) * M
  <2>1. /\ X \in Nat /\ Y \in Nat /\ Z = Y - X /\ c = start[q] - X
        /\ start[q] + usage[q] = Y + M
    BY <1>3, <1>6, <1>7, <1>10, <1>11, Zenon
  <2> HIDE DEF X, Y, Z
  <2>2. c + usage[q] = Z + M
    BY <1>3, <1>4, <2>1
  <2> QED BY <2>2, Zenon DEF Z
<1>15. Slot(c) = k - o
  BY <1>13, Zenon DEF Slot, M
<1>16. ChildEnd = c + usage[q] - 1 /\ ChildEnd \in Nat
  BY <1>3, <1>8 DEF ChildEnd, c
<1>17. \A page \in c..ChildEnd : page \in Pages
  <2>1. c + usage[q] = Slot(c) * STACK_MAX_PAGES + STACK_MAX_PAGES
    BY <1>14, <1>15, Zenon DEF M
  <2>2. \A page \in c..(c + usage[q] - 1) : page \in StackPages
    BY <1>3, <1>9, <2>1, SlotOfStack, Zenon
  <2> QED BY <1>16, <2>2, Constants, Zenon
<1>18. Mapping(map, free, p4, ForkTable, c, ChildEnd,
               [map EXCEPT ![ForkTable] = Mapped(map[ForkTable], free, c, ChildEnd)],
               MapFree(map[ForkTable], free, c, ChildEnd),
               MapOk(map[ForkTable], free, c, ChildEnd),
               MapDrops(map[ForkTable], free, c, ChildEnd),
               MapStrays(map[ForkTable], free, c, ChildEnd))
  <2>1. ChildEnd \in Int
    BY <1>16
  <2> QED BY <1>3, <1>8, <1>17, <2>1, Typed, MapTable, Zenon
<1>19. Mapping(map, free, p4, ForkTable, c, ChildEnd, map', free', ForkFits,
               MapDrops(map[ForkTable], free, c, ChildEnd),
               MapStrays(map[ForkTable], free, c, ChildEnd))
  BY <1>18, Zenon DEF ForkTakes, ForkFits, c
<1> QED BY <1>1, <1>2, <1>3, <1>9, <1>14, <1>15, <1>16, <1>19, Zenon DEF c, k, o, M

\* A living process uses a table that was made.
LEMMA TableMade ==
    ASSUME IInv, NEW p \in Procs, Alive(p)
    PROVE  table[p] \in Procs /\ table[p] < nextPid /\ p < nextPid
<1>1. table[p] \in Procs
  BY Typed, StackFacts, Zenon
<1>2. table[p] < nextPid /\ ~(p >= nextPid)
  BY Zenon DEF IInv, Fresh, Alive
<1>3. p \in Nat /\ nextPid \in Nat
  BY Constants DEF IInv, TypeOK
<1> QED BY <1>1, <1>2, <1>3

\* Mapping in a table that is in use leaves the unmade processes alone.
LEMMA FreshKept ==
    ASSUME IInv, UNCHANGED <<p4, table, nextPid>>, NEW t \in Procs, t < nextPid,
           \A s \in Procs : s # t => map'[s] = map[s]
    PROVE  Fresh'
<1>1. \A s \in Procs : s >= nextPid => s # t
  <2>1. nextPid \in 1..(MaxPid + 1) /\ MaxPid \in Nat /\ t \in Nat
    BY Constants, Zenon DEF IInv, TypeOK
  <2> QED BY <2>1
<1> QED BY <1>1, Zenon DEF IInv, Fresh

(***************************************************************************)
(* Forks, page faults on the stack, and brk                                *)
(***************************************************************************)

\* The search loses no frame that ForkTakes does not record.
LEMMA ForkLosses ==
    ASSUME IInv, state = "ok", forking # NoFork, InSlots, ForkTakes, p4' = p4,
           NEW t \in Procs, t = ForkTable
    PROVE  /\ Complete(map, free, p4, dropped) => Complete(map', free', p4, dropped')
           /\ strays' \in [Procs -> SUBSET Int] /\ last' = last
           /\ \A s \in Procs : strays[s] \subseteq strays'[s]
           /\ \A x \in Pages : map'[t][x] = map[t][x] \/ ForkFits \/ x \in strays'[t]
<1> DEFINE d == MapDrops(map[t], free, ChildStart, ChildEnd)
           l == MapStrays(map[t], free, ChildStart, ChildEnd)
<1>1. /\ dropped' = dropped \cup d /\ strays' = [strays EXCEPT ![t] = @ \cup l] /\ last' = last
  BY Zenon DEF ForkTakes
<1>2. Mapping(map, free, p4, t, ChildStart, ChildEnd, map', free', ForkFits, d, l)
  BY ForkMapping, Zenon
<1>3. ChildStart \in Nat /\ ChildEnd \in Int
  BY ForkMapping, Constants, NatIsInt, Zenon
<1>4. l \in SUBSET Int
  BY <1>3, StraysTyped, Zenon
<1> HIDE DEF d, l
<1>5. /\ \A c : Complete(map, free, p4, c) => Complete(map', free', p4, c \cup d)
      /\ \A x \in Pages : map'[t][x] = map[t][x] \/ ForkFits \/ x \in l
  BY <1>2, Zenon DEF Mapping
<1>6. strays \in [Procs -> SUBSET Int]
  BY Zenon DEF IInv, MoreTypes
<1>7. \A s \in Procs : strays'[s] = IF s = t THEN strays[t] \cup l ELSE strays[s]
  BY <1>1, <1>6, Zenon
<1>8. strays' \in [Procs -> SUBSET Int]
  <2>1. strays[t] \cup l \in SUBSET Int
    BY <1>4, <1>6, Zenon
  <2> QED BY <1>1, <1>6, <2>1, Zenon
<1> QED BY <1>1, <1>5, <1>7, <1>8, Zenon

LEMMA ForkRetriesInv == ASSUME IInv, ForkRetries PROVE IInv'
<1>1. /\ state = "ok" /\ forking # NoFork /\ InSlots /\ ForkTakes
      /\ ~ForkFits /\ UNCHANGED <<p4, table, start, usage, children, end, code, nextPid>>
      /\ \/ state' = "oom" /\ forking' = forking
         \/ forking' = [forking EXCEPT !.offset = @ + 1] /\ state' = state
  BY Zenon DEF ForkRetries
<1>2. /\ forking.parent \in Procs /\ Alive(forking.parent) /\ ForkTable \in Procs
      /\ Mapping(map, free, p4, ForkTable, ChildStart, ChildEnd, map', free', ForkFits,
                 MapDrops(map[ForkTable], free, ChildStart, ChildEnd),
                 MapStrays(map[ForkTable], free, ChildStart, ChildEnd))
  BY <1>1, ForkMapping, Zenon
<1>3. /\ map' \in Tables /\ free' \in Seq(Frames) /\ Apart(map', free', p4)
      /\ \A s \in Procs, p \in Pages : map[s][p] # NoFrame => map'[s][p] # NoFrame
      /\ \A s \in Procs : s # ForkTable => map'[s] = map[s]
  BY <1>2, Zenon DEF Mapping
<1>4. StackTops' /\ StacksApart' /\ SharedMapped'
  BY <1>1, <1>3, Typed, StacksKept, SharedKept, Zenon
<1>5. TypeOK'
  BY <1>1, <1>3, Zenon DEF IInv, TypeOK, Tables, Alive
<1>6. Fresh'
  BY <1>1, <1>2, <1>3, TableMade, FreshKept, Zenon DEF ForkTable
<1>7. ForkAlive'
  <2>1. /\ forking.parent \in Procs /\ forking.offset \in Nat
        /\ Alive(forking.parent) /\ nextPid <= MaxPid
    BY <1>1, Zenon DEF IInv, ForkAlive
  <2>2. CASE forking' = forking
    BY <1>1, <2>1, <2>2, Zenon DEF ForkAlive, Alive
  <2>3. CASE forking' = [forking EXCEPT !.offset = @ + 1]
    BY <1>1, <2>1, <2>3 DEF ForkAlive, Alive
  <2> QED BY <1>1, <2>2, <2>3, Zenon
<1>8. MoreTypes' /\ Tidy'
  <2>1. PICK t \in Procs : t = ForkTable
    BY <1>2, Zenon
  <2>2. /\ Complete(map, free, p4, dropped) => Complete(map', free', p4, dropped')
        /\ strays' \in [Procs -> SUBSET Int] /\ last' = last
        /\ \A s \in Procs : strays[s] \subseteq strays'[s]
        /\ \A x \in Pages : map'[t][x] = map[t][x] \/ x \in strays'[t]
    BY <1>1, <2>1, ForkLosses, Zenon
  <2>3. \A s \in Procs : (Used(s)' <=> Used(s)) /\ StackOf(s)' = StackOf(s)
    BY <1>1, Zenon DEF Used, StackOf
  <2>4. \A s \in Procs, x \in Pages : Kept(s, x) => Kept(s, x)'
    BY <1>1, <2>2, <2>3, KeptGrows, Zenon
  <2>5. \A x \in Pages : map'[t][x] # NoFrame => map[t][x] # NoFrame \/ Kept(t, x)'
    BY <2>2, Zenon DEF Kept
  <2>6. Used(t) /\ \A s \in Procs : s # t => map'[s] = map[s]
    BY <1>2, <1>3, <2>1, Zenon DEF Used, ForkTable
  <2>7. \A q \in Procs : code'[q] <=> table'[q] = q
    BY <1>1, Zenon DEF IInv, Tidy
  <2>8. Tidy'
    BY <1>1, <2>2, <2>3, <2>4, <2>5, <2>6, <2>7, TidyMapped, Zenon
  <2> QED BY <1>1, <2>2, <2>8, Zenon DEF IInv, MoreTypes
<1>9. Apart(map, free, p4)'
  BY <1>1, <1>3, ApartPrimed, Zenon
<1> QED BY <1>4, <1>5, <1>6, <1>7, <1>8, <1>9, Zenon DEF IInv

\* The child's stack is in a slot of its own.
LEMMA ForkMapsInv ==
    ASSUME IInv, NEW p \in Procs, ForkMaps(p) PROVE IInv'
<1> DEFINE q == forking.parent
           t == ForkTable
           c == ChildStart
<1>1. /\ state = "ok" /\ forking # NoFork /\ p = nextPid /\ InSlots /\ ForkFits /\ ForkTakes
      /\ table' = [table EXCEPT ![p] = t] /\ start' = [start EXCEPT ![p] = c]
      /\ usage' = [usage EXCEPT ![p] = usage[q]]
      /\ children' = [children EXCEPT ![q] = @ + 1]
      /\ nextPid' = nextPid + 1 /\ forking' = NoFork /\ UNCHANGED <<p4, end, code, state>>
  BY Zenon DEF ForkMaps
<1>2. /\ q \in Procs /\ Alive(q) /\ t \in Procs /\ nextPid <= MaxPid
      /\ c \in StackPages /\ ChildEnd \in Nat
      /\ c + usage[q] = Slot(c) * STACK_MAX_PAGES + STACK_MAX_PAGES
      /\ Mapping(map, free, p4, t, c, ChildEnd, map', free', ForkFits,
                 MapDrops(map[t], free, c, ChildEnd), MapStrays(map[t], free, c, ChildEnd))
  BY <1>1, ForkMapping, Zenon
<1>3. /\ map' \in Tables /\ free' \in Seq(Frames) /\ Apart(map', free', p4)
      /\ \A s \in Procs, page \in Pages : map[s][page] # NoFrame => map'[s][page] # NoFrame
      /\ \A s \in Procs : s # t => map'[s] = map[s]
      /\ \A page \in Pages : page \notin c..ChildEnd => map'[t][page] = map[t][page]
  BY <1>2, Zenon DEF Mapping
<1>4. /\ \A page \in Pages : page \in c..ChildEnd => map'[t][page] # NoFrame
      /\ \A page \in Pages : page \in c..ChildEnd => map[t][page] = NoFrame
  BY <1>1, <1>2, Zenon DEF Mapping
<1>5. /\ table \in [Procs -> 0..MaxPid] /\ start \in [Procs -> StackPages]
      /\ usage \in [Procs -> 0..STACK_MAX_PAGES] /\ nextPid \in Nat
      /\ table[p] = 0 /\ t = table[q] /\ t < nextPid /\ q < nextPid
      /\ \A s \in Procs : Alive(s) <=> usage[s] > 0
  <2>1. nextPid \in Nat /\ nextPid >= nextPid /\ t = table[q]
    BY DEF IInv, TypeOK, ForkTable
  <2>2. table[p] = 0
    BY <1>1, <2>1, Zenon DEF IInv, Fresh
  <2>3. t < nextPid /\ q < nextPid
    BY <1>2, <2>1, TableMade, Zenon
  <2> QED BY <2>1, <2>2, <2>3, Zenon DEF IInv, TypeOK
<1>6. usage[q] \in Nat \ {0} /\ ChildEnd = c + usage[q] - 1 /\ c \in Nat
  BY <1>2, Typed, StackFacts, Constants, Zenon DEF ChildEnd, StackPages
<1> HIDE DEF q, t, c
<1>7. \A s \in Procs :
          /\ table'[s] = IF s = p THEN t ELSE table[s]
          /\ start'[s] = IF s = p THEN c ELSE start[s]
          /\ usage'[s] = IF s = p THEN usage[q] ELSE usage[s]
  BY <1>1, <1>5, Zenon
<1>8. /\ t # 0 /\ p # q /\ t # p
  <2>1. p = nextPid /\ t < nextPid /\ q < nextPid /\ nextPid \in Nat
    BY <1>1, <1>5, Zenon
  <2>2. t \in Nat \ {0} /\ q \in Nat
    BY <1>2, Constants, Zenon
  <2> QED BY <2>1, <2>2
<1>9. TypeOK'
  <2>1. t \in 0..MaxPid /\ nextPid + 1 \in 1..(MaxPid + 1)
    BY <1>2, <1>5, Constants DEF Procs
  <2>2. \A s \in Procs : Alive(s)' <=> usage'[s] > 0
    BY <1>5, <1>6, <1>7, <1>8 DEF Alive
  <2> QED BY <1>1, <1>2, <1>3, <1>5, <2>1, <2>2, Zenon DEF IInv, TypeOK, Tables
<1>10. \A page \in c..(c + usage[q] - 1) : page \in StackPages /\ Slot(page) = Slot(c)
  BY <1>2, <1>6, SlotOfStack, Zenon
<1>11. \A s \in Procs : s # p => (Alive(s)' = Alive(s) /\ StackOf(s)' = StackOf(s))
  BY <1>7, Zenon DEF Alive, StackOf
<1>12. Alive(p)' /\ StackOf(p)' = c..ChildEnd
  BY <1>6, <1>7, <1>8, Zenon DEF Alive, StackOf
<1>13. StackTops'
  BY <1>2, <1>7, <1>11, Zenon DEF IInv, StackTops, Slot
<1>14. ASSUME NEW s \in Procs, table[s] = t PROVE Slot(start[s]) # Slot(c)
  <2>1. Alive(s)
    BY <1>8, <1>14, Zenon DEF Alive
  <2> DEFINE e == start[s] + usage[s] - 1
  <2>2. e \in StackOf(s) /\ map[t][e] # NoFrame
    BY <1>14, <2>1, Typed, StackFacts, Zenon DEF StacksApart
  <2>3. e \in Pages
    BY <2>1, <2>2, Typed, StackFacts, Constants, Zenon
  <2>4. /\ start[s] + usage[s] = Slot(start[s]) * STACK_MAX_PAGES + STACK_MAX_PAGES
        /\ start[s] \in Nat /\ usage[s] \in Nat
    BY <2>1, Typed, StackFacts, Zenon
  <2>5. Slot(start[s]) = Slot(c) => e = ChildEnd
    <3> SUFFICES ASSUME Slot(start[s]) = Slot(c) PROVE e = ChildEnd
      BY Zenon
    <3>1. c + usage[q] = Slot(c) * STACK_MAX_PAGES + STACK_MAX_PAGES
      BY <1>2, Zenon
    <3>2. start[s] + usage[s] = c + usage[q]
      BY <2>4, <3>1, Zenon
    <3>3. start[s] + usage[s] - 1 = c + usage[q] - 1
      <4>1. start[s] \in Nat /\ usage[s] \in Nat /\ c \in Nat /\ usage[q] \in Nat
        BY <1>6, <2>4, Zenon
      <4> QED BY <3>2, <4>1
    <3> QED BY <1>6, <3>3, Zenon
  <2>6. ChildEnd \in c..ChildEnd
    BY <1>6
  <2> HIDE DEF e
  <2> QED BY <1>4, <2>2, <2>3, <2>5, <2>6, Zenon
<1>15. StacksApart'
  <2> SUFFICES ASSUME NEW s \in Procs, Alive(s)'
               PROVE  /\ \A page \in StackOf(s)' :
                            map'[table'[s]][page] # NoFrame /\ Slot(page) = Slot(start'[s])
                      /\ \A u \in Procs : table'[u] = table'[s] /\ u # s =>
                            Slot(start'[u]) # Slot(start'[s])
    BY Zenon DEF StacksApart, Slot
  <2>1. CASE s = p
    <3>1. \A page \in StackOf(s)' :
              map'[table'[s]][page] # NoFrame /\ Slot(page) = Slot(start'[s])
      BY <1>4, <1>6, <1>7, <1>10, <1>12, <2>1, Constants, Zenon
    <3>2. \A u \in Procs : table'[u] = table'[s] /\ u # s => Slot(start'[u]) # Slot(start'[s])
      BY <1>7, <1>14, <2>1, Zenon
    <3> QED BY <3>1, <3>2, Zenon
  <2>2. CASE s # p
    <3>1. Alive(s) /\ StackOf(s)' = StackOf(s) /\ table'[s] = table[s] /\ start'[s] = start[s]
      BY <1>7, <1>11, <2>2, Zenon
    <3>2. \A page \in StackOf(s) : page \in Pages /\ Slot(page) = Slot(start[s])
      BY <3>1, Typed, StackFacts, Constants, Zenon
    <3>3. table[s] \in Procs /\ \A page \in StackOf(s) : map[table[s]][page] # NoFrame
      BY <3>1, Typed, StackFacts, Zenon DEF StacksApart
    <3>4. \A page \in StackOf(s) : map'[table[s]][page] # NoFrame
      BY <1>3, <3>2, <3>3, Zenon
    <3>5. \A u \in Procs : table'[u] = table'[s] /\ u # s => Slot(start'[u]) # Slot(start'[s])
      <4> SUFFICES ASSUME NEW u \in Procs, table'[u] = table'[s], u # s
                   PROVE  Slot(start'[u]) # Slot(start'[s])
        BY Zenon
      <4>1. CASE u = p
        BY <1>7, <1>14, <3>1, <4>1, Zenon
      <4>2. CASE u # p
        BY <1>7, <3>1, <4>2, Typed, Zenon DEF StacksApart
      <4> QED BY <4>1, <4>2, Zenon
    <3> QED BY <3>1, <3>2, <3>4, <3>5, Zenon
  <2> QED BY <2>1, <2>2, Zenon
<1>16. SharedMapped'
  <2>1. \A s \in Procs : Alive(s)' => \E u \in Procs : Alive(u) /\ table'[s] = table[u]
    BY <1>2, <1>5, <1>7, <1>11, Zenon DEF q, t
  <2> SUFFICES ASSUME NEW u \in Procs, Alive(u)
               PROVE  /\ p4[table[u]] # NoFrame
                      /\ \A page \in CodeStart..CodeEnd : map'[table[u]][page] # NoFrame
                      /\ end[table[u]] # 0 =>
                            \A page \in HeapStart..EndPage(end[table[u]]) :
                                map'[table[u]][page] # NoFrame
    BY <1>1, <2>1 DEF SharedMapped, EndPage
  <2>2. table[u] \in Procs /\ end[table[u]] \in 0..(HEAP_PAGES * PAGE_SIZE)
    BY TableOf, Zenon
  <2>3. \A page \in HeapStart..EndPage(end[table[u]]) : page \in Pages
    BY <2>2, EndPageFacts, Zenon
  <2>4. CodeStart..CodeEnd \subseteq Pages
    BY Constants, Zenon
  <2> QED BY <1>3, <2>2, <2>3, <2>4, Typed, Zenon DEF SharedMapped
<1>17. Fresh'
  <2> SUFFICES ASSUME NEW s \in Procs
               PROVE  /\ s >= nextPid' => map'[s] = Blank /\ p4[s] = NoFrame /\ table'[s] = 0
                      /\ table'[s] < nextPid'
    BY <1>1, Zenon DEF Fresh
  <2>1. /\ s >= nextPid => map[s] = Blank /\ p4[s] = NoFrame /\ table[s] = 0
        /\ table[s] < nextPid /\ table[s] \in Nat /\ s \in Nat /\ t \in Nat
    <3>1. /\ s >= nextPid => map[s] = Blank /\ p4[s] = NoFrame /\ table[s] = 0
          /\ table[s] < nextPid /\ table[s] \in 0..MaxPid
      BY Zenon DEF IInv, Fresh, TypeOK
    <3>2. s \in Nat /\ t \in Nat /\ MaxPid \in Nat
      BY <1>2, <1>5, Constants, Zenon
    <3> QED BY <3>1, <3>2
  <2>2. s >= nextPid' => s >= nextPid /\ s # p /\ s # t
    BY <1>1, <1>5, <2>1
  <2>3. table'[s] < nextPid'
    <3>1. (table'[s] = t \/ table'[s] = table[s]) /\ t < nextPid /\ table[s] < nextPid
      BY <1>5, <1>7, <2>1, Zenon
    <3>2. nextPid' = nextPid + 1 /\ nextPid \in Nat /\ t \in Nat /\ table[s] \in Nat
      BY <1>1, <1>5, <2>1, Zenon
    <3> QED BY <3>1, <3>2
  <2> QED BY <1>3, <1>7, <2>1, <2>2, <2>3, Zenon
<1>18. MoreTypes' /\ Tidy' /\ ForkAlive'
  <2>1. PICK u \in Procs : u = t
    BY <1>2, Zenon
  <2>2. /\ Complete(map, free, p4, dropped) => Complete(map', free', p4, dropped')
        /\ strays' \in [Procs -> SUBSET Int] /\ last' = last
        /\ \A s \in Procs : strays[s] \subseteq strays'[s]
    BY <1>1, <2>1, ForkLosses, Zenon DEF t
  <2>3. \A s \in Procs : Alive(s) => table'[s] = table[s] /\ StackOf(s) \subseteq StackOf(s)'
    <3>1. ~Alive(p)
      BY <1>5, Zenon DEF Alive
    <3> QED BY <1>7, <1>11, <3>1, Zenon
  <2>4. \A s \in Procs, x \in Pages : Kept(s, x) => Kept(s, x)'
    BY <1>1, <2>2, <2>3, KeptGrows, Zenon
  <2>5. \A x \in Pages : map'[u][x] # NoFrame => map[u][x] # NoFrame \/ Kept(u, x)'
    <3>1. table'[p] = u
      BY <1>7, <2>1, Zenon
    <3>2. \A x \in c..ChildEnd : Kept(u, x)'
      BY <1>12, <3>1, Zenon DEF Kept
    <3> QED BY <1>3, <2>1, <3>2, Zenon
  <2>6. Used(u) /\ \A s \in Procs : s # u => map'[s] = map[s]
    BY <1>2, <1>3, <1>5, <2>1, Zenon DEF Used
  <2>7. \A s \in Procs : Used(s)' <=> Used(s)
    <3>1. \A s \in Procs : s # 0
      BY Constants, Zenon
    <3> QED BY <1>2, <1>5, <1>7, <3>1, Zenon DEF Used
  <2>8. \A s \in Procs : code'[s] <=> table'[s] = s
    <3>1. \A s \in Procs : code[s] <=> table[s] = s
      BY <1>1, Zenon DEF IInv, Tidy
    <3>2. p # 0
      BY Constants, Zenon
    <3> QED BY <1>1, <1>5, <1>7, <1>8, <3>1, <3>2, Zenon
  <2>9. Tidy'
    BY <1>1, <2>2, <2>4, <2>5, <2>6, <2>7, <2>8, TidyMapped, Zenon
  <2>10. MoreTypes' /\ ForkAlive'
    <3>1. children' \in [Procs -> Nat]
      BY <1>1, <1>2 DEF IInv, MoreTypes
    <3> QED BY <1>1, <2>2, <3>1, Zenon DEF IInv, MoreTypes, ForkAlive
  <2> QED BY <2>9, <2>10, Zenon
<1>19. Apart(map, free, p4)'
  BY <1>1, <1>3, ApartPrimed, Zenon
<1> QED BY <1>9, <1>13, <1>15, <1>16, <1>17, <1>18, <1>19, Zenon DEF IInv

\* A stack grows within its slot, or the machine stops.
LEMMA PageFaultInv ==
    ASSUME IInv, NEW p \in Procs, NEW page \in StackPages, PageFault(p, page) PROVE IInv'
<1> DEFINE t == table[p]
           hi == start[p] - 1
           ok == MapOk(map[t], free, page, hi)
<1>1. /\ Idle /\ Alive(p) /\ Slot(page) = Slot(start[p]) /\ page < start[p]
      /\ map' = [map EXCEPT ![t] = Mapped(map[t], free, page, hi)]
      /\ free' = MapFree(map[t], free, page, hi)
      /\ \/ ok /\ start' = [start EXCEPT ![p] = page]
               /\ usage' = [usage EXCEPT ![p] = @ + start[p] - page] /\ state' = state
         \/ ~ok /\ state' \in {"fault", "oom"} /\ UNCHANGED <<start, usage>>
      /\ UNCHANGED <<p4, table, children, end, code, nextPid, forking, lostVars>>
  BY Zenon DEF PageFault, GrowStack, OnStack
<1>2. /\ t \in Procs /\ start[p] \in StackPages /\ usage[p] \in Nat \ {0}
      /\ start[p] \in Nat /\ start[p] + usage[p] - 1 \in Nat
      /\ start[p] + usage[p] = Slot(start[p]) * STACK_MAX_PAGES + STACK_MAX_PAGES
      /\ \A x \in StackOf(p) : x \in StackPages /\ Slot(x) = Slot(start[p])
  BY <1>1, Typed, StackFacts, Zenon
<1>3. page \in Nat /\ hi \in Nat /\ \A x \in page..hi : x \in Pages
  BY <1>1, <1>2, StackBelow, Zenon
<1>4. Mapping(map, free, p4, t, page, hi, map', free', ok,
              MapDrops(map[t], free, page, hi), MapStrays(map[t], free, page, hi))
  <2>1. hi \in Int
    BY <1>3, NatIsInt, Zenon
  <2>2. Mapping(map, free, p4, t, page, hi, [map EXCEPT ![t] = Mapped(map[t], free, page, hi)],
                MapFree(map[t], free, page, hi), ok,
                MapDrops(map[t], free, page, hi), MapStrays(map[t], free, page, hi))
    <3> HIDE DEF t, hi
    <3> QED BY <1>2, <1>3, <2>1, Typed, MapTable, Zenon
  <2> QED BY <1>1, <2>2, Zenon
<1>5. /\ map' \in Tables /\ free' \in Seq(Frames) /\ Apart(map', free', p4)
      /\ \A s \in Procs, x \in Pages : map[s][x] # NoFrame => map'[s][x] # NoFrame
      /\ \A s \in Procs : s # t => map'[s] = map[s]
  BY <1>4, Zenon DEF Mapping
<1>6. /\ ok => \A x \in Pages : x \in page..hi => map'[t][x] # NoFrame
      /\ \A x \in Pages : x \notin page..hi => map'[t][x] = map[t][x]
      /\ \A c : Complete(map, free, p4, c) =>
                Complete(map', free', p4, c \cup MapDrops(map[t], free, page, hi))
  BY <1>4, Zenon DEF Mapping
<1>7. Fresh' /\ SharedMapped' /\ Apart(map, free, p4)' /\ MoreTypes' /\ ForkAlive'
  <2>1. Fresh'
    BY <1>1, <1>5, TableMade, FreshKept, Zenon
  <2>2. SharedMapped'
    BY <1>1, <1>5, Typed, SharedKept, Zenon
  <2>3. ForkAlive' /\ MoreTypes'
    BY <1>1, Zenon DEF IInv, ForkAlive, MoreTypes, Idle, lostVars
  <2> QED BY <1>1, <1>5, <2>1, <2>2, <2>3, ApartPrimed, Zenon
<1>10. ok => MapDrops(map[t], free, page, hi) = {}
  BY Zenon DEF MapDrops
<1> HIDE DEF ok
<1>8. CASE ~ok
  <2>1. state' \in {"fault", "oom"} /\ UNCHANGED <<start, usage>>
    BY <1>1, <1>8, Zenon
  <2>2. TypeOK'
    BY <1>1, <1>5, <2>1, Zenon DEF IInv, TypeOK, Tables, Alive
  <2>3. StackTops' /\ StacksApart'
    BY <1>1, <1>5, <2>1, Typed, StacksKept, Zenon
  <2>4. Tidy'
    BY <2>1, Zenon DEF Tidy
  <2> QED BY <1>7, <2>2, <2>3, <2>4, Zenon DEF IInv
<1>9. CASE ok
  <2> DEFINE u == usage[p] + start[p] - page
  <2>1. /\ start' = [start EXCEPT ![p] = page] /\ usage' = [usage EXCEPT ![p] = u]
        /\ state' = state
    BY <1>1, <1>9, Zenon
  <2>2. /\ u \in Nat \ {0} /\ page + u = start[p] + usage[p]
        /\ page + u = Slot(page) * STACK_MAX_PAGES + STACK_MAX_PAGES
    <3>1. page \in Nat /\ start[p] \in Nat /\ usage[p] \in Nat \ {0} /\ page < start[p]
      BY <1>1, <1>2, <1>3, Zenon
    <3>2. u \in Nat \ {0} /\ page + u = start[p] + usage[p]
      BY <3>1
    <3>3. start[p] + usage[p] = Slot(page) * STACK_MAX_PAGES + STACK_MAX_PAGES
      BY <1>1, <1>2, Zenon
    <3> HIDE DEF u
    <3> QED BY <3>2, <3>3, Zenon
  <2> HIDE DEF u
  <2>3. /\ u <= STACK_MAX_PAGES
        /\ \A x \in page..(page + u - 1) : x \in StackPages /\ Slot(x) = Slot(page)
    BY <2>2, SlotOfStack, Zenon
  <2>4. \A s \in Procs :
            /\ start'[s] = IF s = p THEN page ELSE start[s]
            /\ usage'[s] = IF s = p THEN u ELSE usage[s]
    BY <2>1, Zenon DEF IInv, TypeOK
  <2>5. TypeOK'
    <3>1. u \in 0..STACK_MAX_PAGES
      BY <2>2, <2>3, Constants
    <3>2. \A s \in Procs : Alive(s)' <=> usage'[s] > 0
      <4>1. \A s \in Procs : Alive(s) <=> usage[s] > 0
        BY Zenon DEF IInv, TypeOK
      <4>2. u > 0
        BY <2>2
      <4>3. table' = table
        BY <1>1, Zenon
      <4> QED BY <1>1, <2>4, <4>1, <4>2, <4>3, Zenon DEF Alive
    <3> QED BY <1>1, <1>5, <2>1, <3>1, <3>2, Zenon DEF IInv, TypeOK, Tables
  <2>6. \A s \in Procs :
            /\ Alive(s)' = Alive(s) /\ Slot(start'[s]) = Slot(start[s])
            /\ s # p => StackOf(s)' = StackOf(s)
    BY <1>1, <2>4, Zenon DEF Alive, StackOf
  <2>7. StackOf(p)' = page..(page + u - 1)
    BY <2>4, Zenon DEF StackOf
  <2>8. StackTops'
    <3>1. \A s \in Procs : Alive(s) =>
              start'[s] + usage'[s] = Slot(start'[s]) * STACK_MAX_PAGES + STACK_MAX_PAGES
      BY <2>2, <2>4, Zenon DEF IInv, StackTops
    <3> QED BY <2>6, <3>1, Zenon DEF StackTops, Slot
  <2>9. \A x \in page..(page + u - 1) : map'[t][x] # NoFrame
    <3> SUFFICES ASSUME NEW x \in page..(page + u - 1) PROVE map'[t][x] # NoFrame
      BY Zenon
    <3>1. x \in Pages /\ x \in Nat
      BY <2>3, Constants, Zenon
    <3>2. CASE x <= hi
      BY <1>3, <1>6, <1>9, <3>1, <3>2
    <3>3. CASE x > hi
      <4>1. x \in start[p]..(start[p] + usage[p] - 1)
        BY <1>2, <1>3, <2>2, <3>1, <3>3
      <4>2. map[t][x] # NoFrame
        BY <1>1, <4>1, Typed, Zenon DEF StacksApart, StackOf
      <4> QED BY <1>2, <1>5, <3>1, <4>2, Zenon
    <3> QED BY <1>3, <3>1, <3>2, <3>3
  <2>10. StacksApart'
    <3>1. ASSUME NEW s \in Procs, Alive(s), NEW x \in StackOf(s)'
          PROVE  map'[table[s]][x] # NoFrame /\ Slot(x) = Slot(start'[s])
      <4>1. CASE s = p
        BY <2>3, <2>4, <2>7, <2>9, <3>1, <4>1, Zenon
      <4>2. CASE s # p
        <5>1. x \in StackOf(s)
          BY <2>6, <3>1, <4>2, Zenon
        <5>2. x \in Pages /\ Slot(x) = Slot(start[s]) /\ table[s] \in Procs
          BY <3>1, <5>1, Typed, StackFacts, Constants, Zenon
        <5>3. map[table[s]][x] # NoFrame
          BY <3>1, <5>1, Typed, Zenon DEF StacksApart
        <5> QED BY <1>5, <2>6, <5>2, <5>3, Zenon
      <4> QED BY <4>1, <4>2, Zenon
    <3>2. ASSUME NEW s \in Procs, Alive(s), NEW v \in Procs, table[v] = table[s], v # s
          PROVE  Slot(start'[v]) # Slot(start'[s])
      BY <2>6, <3>2, Typed, Zenon DEF StacksApart
    <3>3. table' = table
      BY <1>1, Zenon
    <3> QED BY <2>6, <3>1, <3>2, <3>3, Zenon DEF StacksApart, Slot
  <2>11. Tidy'
    <3>0. /\ p4' = p4 /\ table' = table /\ code' = code /\ end' = end /\ state = "ok"
          /\ dropped' = dropped /\ strays' = strays /\ last' = last
      BY <1>1, <2>1, Zenon DEF lostVars, Idle
    <3>1. PICK v \in Procs : v = t
      BY <1>2, Zenon
    <3>2. \A x \in start[p]..(start[p] + usage[p] - 1) : x \in page..(page + u - 1)
      <4>1. start[p] \in Nat /\ usage[p] \in Nat /\ u \in Nat
        BY <1>2, <2>2, Zenon
      <4>2. page \in Nat /\ page < start[p]
        BY <1>1, <1>3, Zenon
      <4>3. page <= start[p]
        BY <4>1, <4>2
      <4>4. page + u = start[p] + usage[p]
        BY <2>2, Zenon
      <4> QED BY <4>1, <4>2, <4>3, <4>4, LongerInterval, Zenon
    <3>3. \A s \in Procs : StackOf(s) \subseteq StackOf(s)'
      <4>1. StackOf(p) \subseteq StackOf(p)'
        BY <2>7, <3>2, Zenon DEF StackOf
      <4> QED BY <2>6, <4>1, Zenon
    <3>4. \A x \in page..hi : x \in StackOf(p)'
      <4>1. \A x \in page..(start[p] - 1) : x \in page..(page + u - 1)
        <5>1. page \in Nat /\ start[p] \in Nat /\ usage[p] \in Nat /\ u \in Nat
          BY <1>2, <1>3, <2>2, Zenon
        <5>2. page + u = start[p] + usage[p]
          BY <2>2, Zenon
        <5> QED BY <5>1, <5>2, HeadPart, Zenon
      <4> QED BY <2>7, <4>1, Zenon
    <3>5. \A s \in Procs, x \in Pages : Kept(s, x) => Kept(s, x)'
      BY <3>0, <3>3, KeptGrows, Zenon
    <3>6. \A x \in Pages : map'[v][x] # NoFrame => map[v][x] # NoFrame \/ Kept(v, x)'
      <4>1. table'[p] = v
        BY <3>0, <3>1, Zenon
      <4>2. \A x \in page..hi : Kept(v, x)'
        BY <3>4, <4>1, Zenon DEF Kept
      <4> QED BY <1>6, <3>1, <4>2, Zenon
    <3>7. Complete(map, free, p4, dropped) => Complete(map', free', p4, dropped')
      <4>1. dropped \cup MapDrops(map[t], free, page, hi) = dropped'
        BY <1>9, <1>10, <3>0, Zenon
      <4> QED BY <1>6, <4>1, Zenon
    <3>8. /\ \A s \in Procs : Used(s)' <=> Used(s)
          /\ \A q \in Procs : code'[q] <=> table'[q] = q
      BY <3>0, Zenon DEF IInv, Tidy, Used
    <3>9. Used(v) /\ \A s \in Procs : s # v => map'[s] = map[s]
      BY <1>5, <3>1, Zenon DEF Used
    <3>10. \A s \in Procs : strays[s] \subseteq strays'[s]
      BY <3>0, Zenon
    <3> QED BY <3>0, <3>5, <3>6, <3>7, <3>8, <3>9, <3>10, TidyMapped, Zenon
  <2> QED BY <1>7, <2>5, <2>8, <2>10, <2>11, Zenon DEF IInv
<1> QED BY <1>8, <1>9, Zenon

\* brk keeps the heap mapped up to its end, and maps nothing else.
LEMMA BrkInv ==
    ASSUME IInv, NEW p \in Procs, NEW e \in Brks, Brk(p, e) PROVE IInv'
<1> DEFINE t == table[p]
           lo == BehindPage(end[t])
           hi == BehindPage(e) - 1
           ok == MapOk(map[t], free, lo, hi)
           d == MapDrops(map[t], free, lo, hi)
           l == MapStrays(map[t], free, lo, hi)
<1>1. /\ Idle /\ Alive(p)
      /\ UNCHANGED <<p4, table, start, usage, children, code, nextPid, forking, state, last>>
      /\ \/ e = end[t] /\ UNCHANGED <<free, map, end, dropped, strays>>
         \/ /\ map' = [map EXCEPT ![t] = Mapped(map[t], free, lo, hi)]
            /\ free' = MapFree(map[t], free, lo, hi)
            /\ end' = IF ok THEN [end EXCEPT ![t] = e] ELSE end
            /\ dropped' = dropped \cup d
            /\ strays' = [strays EXCEPT ![t] = @ \cup l \cup (hi + 1)..(lo - 1)]
  BY Zenon DEF Brk
<1>2. /\ t \in Procs /\ end[t] \in 0..(HEAP_PAGES * PAGE_SIZE) /\ e \in 0..(HEAP_PAGES * PAGE_SIZE)
  BY <1>1, Typed, StackFacts, VmConstants, Zenon DEF IInv, TypeOK
<1>3. /\ lo \in Nat /\ HeapStart <= lo /\ hi \in Int /\ \A x \in lo..hi : x \in Pages
      /\ HeapStart \in Nat
  <2>1. HeapStart \in Nat /\ lo \in Nat /\ HeapStart <= lo /\ BehindPage(e) \in Nat
    BY <1>2, EndPageFacts, Constants, Zenon
  <2>2. \A x \in HeapStart..(BehindPage(e) - 1) : x \in Pages
    BY <1>2, EndPageFacts, Zenon
  <2>3. hi \in Int /\ \A x \in lo..hi : x \in HeapStart..(BehindPage(e) - 1)
    <3> HIDE DEF lo
    <3> QED BY <2>1
  <2> QED BY <2>1, <2>2, <2>3, Zenon
<1>4. ForkAlive' /\ UNCHANGED <<children, code, last>>
  BY <1>1, Zenon DEF IInv, ForkAlive, Idle
<1>5. l \in SUBSET Int
  <2> HIDE DEF lo, hi, t
  <2> QED BY <1>3, StraysTyped, Zenon
<1> HIDE DEF ok, t, lo, hi, d, l
<1>6. CASE e = end[t] /\ UNCHANGED <<free, map, end, dropped, strays>>
  <2>1. Tidy'
    BY <1>1, <1>6, TidySame, Zenon DEF lostVars
  <2>2. MoreTypes'
    BY <1>4, <1>6, Zenon DEF IInv, MoreTypes
  <2> QED BY <1>1, <1>4, <1>6, <2>1, <2>2, SameMemory, ApartPrimed, Zenon DEF IInv
<1>7. CASE /\ map' = [map EXCEPT ![t] = Mapped(map[t], free, lo, hi)]
           /\ free' = MapFree(map[t], free, lo, hi)
           /\ end' = IF ok THEN [end EXCEPT ![t] = e] ELSE end
           /\ dropped' = dropped \cup d
           /\ strays' = [strays EXCEPT ![t] = @ \cup l \cup (hi + 1)..(lo - 1)]
  <2>1. Mapping(map, free, p4, t, lo, hi, map', free', ok, d, l)
    <3>1. Mapping(map, free, p4, t, lo, hi, [map EXCEPT ![t] = Mapped(map[t], free, lo, hi)],
                  MapFree(map[t], free, lo, hi), ok, d, l)
      BY <1>2, <1>3, Typed, MapTable, Zenon DEF ok, d, l
    <3> QED BY <1>7, <3>1, Zenon
  <2>2. /\ map' \in Tables /\ free' \in Seq(Frames) /\ Apart(map', free', p4)
        /\ \A s \in Procs, x \in Pages : map[s][x] # NoFrame => map'[s][x] # NoFrame
        /\ \A s \in Procs : s # t => map'[s] = map[s]
    BY <2>1, Zenon DEF Mapping
  <2>3. /\ ok => \A x \in Pages : x \in lo..hi => map'[t][x] # NoFrame
        /\ \A x \in Pages : x \notin lo..hi => map'[t][x] = map[t][x]
        /\ \A x \in Pages : map'[t][x] = map[t][x] \/ ok \/ x \in l
        /\ \A c : Complete(map, free, p4, c) => Complete(map', free', p4, c \cup d)
    BY <2>1, Zenon DEF Mapping
  <2>4. \A s \in Procs : end'[s] = IF ok /\ s = t THEN e ELSE end[s]
    BY <1>7, Zenon DEF IInv, TypeOK
  <2>5. TypeOK'
    <3>1. end' \in [Procs -> 0..(HEAP_PAGES * PAGE_SIZE)]
      BY <1>2, <1>7, Zenon DEF IInv, TypeOK
    <3> QED BY <1>1, <2>2, <3>1, Zenon DEF IInv, TypeOK, Tables, Alive
  <2>6. StackTops' /\ StacksApart'
    BY <1>1, <2>2, Typed, StacksKept, Zenon
  <2>7. Fresh'
    BY <1>1, <1>2, <2>2, TableMade, FreshKept, Zenon DEF t
  <2>8. SharedMapped'
    <3> SUFFICES ASSUME NEW s \in Procs, Alive(s)
                 PROVE  /\ p4[table[s]] # NoFrame
                        /\ \A x \in CodeStart..CodeEnd : map'[table[s]][x] # NoFrame
                        /\ end'[table[s]] # 0 =>
                              \A x \in HeapStart..EndPage(end'[table[s]]) :
                                  map'[table[s]][x] # NoFrame
      BY <1>1, Zenon DEF SharedMapped, Alive, EndPage
    <3>1. table[s] \in Procs /\ end[table[s]] \in 0..(HEAP_PAGES * PAGE_SIZE)
      BY TableOf, Zenon
    <3>2. \A x \in HeapStart..EndPage(end[table[s]]) : x \in Pages
      BY <3>1, EndPageFacts, Zenon
    <3>3. /\ p4[table[s]] # NoFrame /\ \A x \in CodeStart..CodeEnd : map'[table[s]][x] # NoFrame
      BY <2>2, <3>1, Typed, Constants, Zenon DEF SharedMapped
    <3>4. end[table[s]] # 0 =>
              \A x \in HeapStart..EndPage(end[table[s]]) : map'[table[s]][x] # NoFrame
      BY <2>2, <3>1, <3>2, Typed, Zenon DEF SharedMapped
    <3>5. CASE ~(ok /\ table[s] = t)
      BY <2>4, <3>1, <3>3, <3>4, <3>5, Zenon
    <3>6. CASE ok /\ table[s] = t
      <4> SUFFICES ASSUME e # 0, NEW x \in HeapStart..EndPage(e)
                   PROVE  map'[t][x] # NoFrame
        BY <2>4, <3>1, <3>3, <3>6, Zenon
      <4>1. x \in Pages /\ EndPage(e) \in Nat /\ hi = EndPage(e)
        BY <1>2, EndPageFacts DEF hi, BehindPage
      <4>2. x \in Nat /\ x <= hi /\ HeapStart <= x
        BY <1>3, <4>1
      <4>3. CASE x >= lo
        <5>1. x \in lo..hi
          BY <1>3, <4>1, <4>2, <4>3
        <5> QED BY <2>3, <3>6, <4>1, <5>1, Zenon
      <4>4. CASE x < lo
        <5>1. end[t] # 0 /\ lo = EndPage(end[t]) + 1 /\ EndPage(end[t]) \in Nat
          BY <1>2, <1>3, <4>2, <4>4, EndPageFacts DEF lo, BehindPage
        <5>2. x \in HeapStart..EndPage(end[t])
          BY <1>3, <4>2, <4>4, <5>1, NatIsInt, Between, Zenon
        <5> QED BY <3>4, <3>6, <5>1, <5>2, Zenon
      <4> QED BY <1>3, <4>2, <4>3, <4>4
    <3> QED BY <3>5, <3>6, Zenon
  <2>11. /\ strays \in [Procs -> SUBSET Int]
         /\ \A s \in Procs : strays'[s] = IF s = t THEN strays[t] \cup l \cup (hi + 1)..(lo - 1)
                                          ELSE strays[s]
    BY <1>7, Zenon DEF IInv, MoreTypes
  <2>12. MoreTypes'
    <3>1. (hi + 1)..(lo - 1) \in SUBSET Int
      BY <1>3
    <3>2. strays[t] \cup l \cup (hi + 1)..(lo - 1) \in SUBSET Int
      BY <1>2, <1>5, <2>11, <3>1, Zenon
    <3>3. strays' \in [Procs -> SUBSET Int]
      BY <1>2, <1>7, <2>11, <3>2, Zenon
    <3> QED BY <1>4, <3>3, Zenon DEF IInv, MoreTypes
  <2>9. Tidy'
    <3>0. PICK v \in Procs : v = t
      BY <1>2, Zenon
    <3>1. BehindPage(e) \in Nat /\ BehindPage(e) = hi + 1 /\ lo = BehindPage(end[v])
      BY <1>2, <3>0, EndPageFacts DEF lo, hi
    <3>2. \A s \in Procs : /\ strays[s] \subseteq strays'[s]
                           /\ StackOf(s)' = StackOf(s) /\ (Used(s)' <=> Used(s))
      BY <1>1, <2>11, Zenon DEF StackOf, Used
    <3>3. ASSUME NEW s \in Procs, NEW x \in Pages, Kept(s, x) PROVE Kept(s, x)'
      <4>1. CASE x \in HeapStart..(BehindPage(end[s]) - 1) /\ ok /\ s = v
        <5>1. BehindPage(end[s])' = BehindPage(e)
          BY <2>4, <3>0, <4>1, Zenon DEF BehindPage, EndPage
        <5>2. x \in HeapStart..(BehindPage(e) - 1) \/ x \in (hi + 1)..(lo - 1)
          BY <1>3, <3>1, <4>1
        <5>3. x \in (hi + 1)..(lo - 1) => x \in strays'[s]
          BY <2>11, <3>0, <4>1, Zenon
        <5> QED BY <5>1, <5>2, <5>3, Zenon DEF Kept
      <4>2. CASE x \in HeapStart..(BehindPage(end[s]) - 1) /\ ~(ok /\ s = v)
        <5>1. BehindPage(end[s])' = BehindPage(end[s])
          BY <2>4, <3>0, <4>2, Zenon DEF BehindPage, EndPage
        <5> QED BY <4>2, <5>1, Zenon DEF Kept
      <4>3. CASE x \notin HeapStart..(BehindPage(end[s]) - 1)
        <5>1. table' = table
          BY <1>1, Zenon
        <5> QED BY <3>2, <3>3, <4>3, <5>1, Zenon DEF Kept
      <4> QED BY <4>1, <4>2, <4>3, Zenon
    <3>4. ASSUME NEW x \in Pages, map'[v][x] # NoFrame PROVE map[v][x] # NoFrame \/ Kept(v, x)'
      <4>1. CASE ok /\ x \in lo..hi
        <5>1. BehindPage(end[v])' = BehindPage(e)
          BY <2>4, <3>0, <4>1, Zenon DEF BehindPage, EndPage
        <5>2. x \in HeapStart..(BehindPage(e) - 1)
          BY <1>3, <3>1, <4>1
        <5> QED BY <5>1, <5>2, Zenon DEF Kept
      <4>2. CASE ~ok
        <5>1. map'[v][x] = map[v][x] \/ x \in strays'[v]
          BY <2>3, <2>11, <3>0, <4>2, Zenon
        <5> QED BY <3>4, <5>1, Zenon DEF Kept
      <4>3. CASE x \notin lo..hi
        BY <2>3, <3>0, <3>4, <4>3, Zenon
      <4> QED BY <4>1, <4>2, <4>3, Zenon
    <3>5. state = "ok" /\ p4' = p4 /\ last' = last
      BY <1>1, Zenon DEF Idle
    <3>6. Complete(map, free, p4, dropped) => Complete(map', free', p4, dropped')
      BY <1>7, <2>3, Zenon
    <3>7. \A q \in Procs : code'[q] <=> table'[q] = q
      BY <1>1, <3>5, Zenon DEF IInv, Tidy
    <3>8. Used(v) /\ \A s \in Procs : s # v => map'[s] = map[s]
      BY <1>1, <2>2, <3>0, Zenon DEF Used, t
    <3> QED BY <3>2, <3>3, <3>4, <3>5, <3>6, <3>7, <3>8, TidyMapped, Zenon
  <2>10. Apart(map, free, p4)'
    BY <1>1, <2>2, ApartPrimed, Zenon
  <2> QED BY <1>4, <2>5, <2>6, <2>7, <2>8, <2>9, <2>10, <2>12, Zenon DEF IInv
<1> QED BY <1>1, <1>6, <1>7, Zenon DEF t, lo, hi, ok, d, l

(***************************************************************************)
(* The end of a process                                                    *)
(***************************************************************************)

\* The three parts of clean_up, one after the other.
HeapEnd(p) == IF end[table[p]] = 0 THEN HeapStart - 1 ELSE EndPage(end[table[p]])
HeldCodeEnd(p) == IF code[p] THEN CodeEnd ELSE CodeStart - 1
AfterStack(p) == StackCleaned(p)
AfterHeap(p) == HeapCleaned(p, AfterStack(p))
AfterCode(p) == CodeCleaned(p, AfterHeap(p))
With(t, was) == [map EXCEPT ![t] = was.map]

LEMMA WithFacts ==
    ASSUME IInv, NEW t \in Procs, NEW a, NEW b
    PROVE  With(t, a)[t] = a.map /\ [With(t, a) EXCEPT ![t] = b.map] = With(t, b)
  BY Zenon DEF IInv, TypeOK, With

LEMMA CleanUpSteps ==
    ASSUME IInv, NEW p \in Procs, Alive(p)
    PROVE  /\ Unmaps(map, free, p4, table[p], start[p], start[p] + usage[p] - 1,
                     With(table[p], AfterStack(p)), AfterStack(p).free, AfterStack(p).ok)
           /\ Unmaps(With(table[p], AfterStack(p)), AfterStack(p).free, p4, table[p],
                     HeapStart, HeapEnd(p),
                     With(table[p], AfterHeap(p)), AfterHeap(p).free, AfterHeap(p).ok)
           /\ Unmaps(With(table[p], AfterHeap(p)), AfterHeap(p).free, p4, table[p],
                     CodeStart, HeldCodeEnd(p),
                     With(table[p], AfterCode(p)), AfterCode(p).free, AfterCode(p).ok)
<1> DEFINE t == table[p]
           A == AfterStack(p)
           B == AfterHeap(p)
           C == AfterCode(p)
           h == start[p] + usage[p] - 1
<1>1. t \in Procs /\ start[p] \in Nat /\ h \in Int /\ \A x \in start[p]..h : x \in Pages
  BY Typed, StackFacts, Constants DEF StackOf
<1>2. A = Unmapping(map[t], free, start[p], h)
  BY Zenon DEF AfterStack, StackCleaned
<1>3. Unmaps(map, free, p4, t, start[p], h, [map EXCEPT ![t] = A.map], A.free, A.ok)
  BY <1>1, <1>2, Typed, UnmapTable, Zenon
<1>4. Unmaps(map, free, p4, t, start[p], h, With(t, A), A.free, A.ok)
  BY <1>3, Zenon DEF With
<1>5. With(t, A) \in Tables /\ A.free \in Seq(Frames) /\ Apart(With(t, A), A.free, p4)
  BY <1>4, Zenon DEF Unmaps
<1>6. end[t] \in 0..(HEAP_PAGES * PAGE_SIZE)
  BY <1>1, Zenon DEF IInv, TypeOK
<1>7. /\ HeapStart \in Nat /\ HeapEnd(p) \in Int /\ CodeStart \in Nat /\ HeldCodeEnd(p) \in Int
      /\ \A x \in HeapStart..HeapEnd(p) : x \in Pages
      /\ \A x \in CodeStart..HeldCodeEnd(p) : x \in Pages
  BY <1>6, Constants, EndPageFacts DEF HeapEnd, HeldCodeEnd
<1>8. B = Unmapping(A.map, A.free, HeapStart, HeapEnd(p))
  BY Zenon DEF AfterHeap, HeapCleaned, HeapEnd
<1>9. C = Unmapping(B.map, B.free, CodeStart, HeldCodeEnd(p))
  BY Zenon DEF AfterCode, CodeCleaned, HeldCodeEnd
<1> HIDE DEF t, A, B, C, h
<1>10. /\ With(t, A)[t] = A.map /\ [With(t, A) EXCEPT ![t] = B.map] = With(t, B)
       /\ With(t, B)[t] = B.map /\ [With(t, B) EXCEPT ![t] = C.map] = With(t, C)
  BY <1>1, WithFacts, Zenon
<1>11. p4 \in Tops
  BY Typed, Zenon
<1>12. Unmaps(With(t, A), A.free, p4, t, HeapStart, HeapEnd(p),
              [With(t, A) EXCEPT ![t] = Unmapping(With(t, A)[t], A.free, HeapStart, HeapEnd(p)).map],
              Unmapping(With(t, A)[t], A.free, HeapStart, HeapEnd(p)).free,
              Unmapping(With(t, A)[t], A.free, HeapStart, HeapEnd(p)).ok)
  BY <1>1, <1>5, <1>7, <1>11, UnmapTable, Zenon
<1>13. Unmaps(With(t, A), A.free, p4, t, HeapStart, HeapEnd(p), With(t, B), B.free, B.ok)
  BY <1>8, <1>10, <1>12, Zenon
<1>14. With(t, B) \in Tables /\ B.free \in Seq(Frames) /\ Apart(With(t, B), B.free, p4)
  BY <1>13, Zenon DEF Unmaps
<1>15. Unmaps(With(t, B), B.free, p4, t, CodeStart, HeldCodeEnd(p),
              [With(t, B) EXCEPT ![t] = Unmapping(With(t, B)[t], B.free, CodeStart, HeldCodeEnd(p)).map],
              Unmapping(With(t, B)[t], B.free, CodeStart, HeldCodeEnd(p)).free,
              Unmapping(With(t, B)[t], B.free, CodeStart, HeldCodeEnd(p)).ok)
  BY <1>1, <1>7, <1>11, <1>14, UnmapTable, Zenon
<1>16. Unmaps(With(t, B), B.free, p4, t, CodeStart, HeldCodeEnd(p), With(t, C), C.free, C.ok)
  BY <1>9, <1>10, <1>15, Zenon
<1> QED BY <1>4, <1>13, <1>16, Zenon DEF t, A, B, C, h

\* What clean_up leaves behind: every frame has one use still, and when
\* somebody else uses the table only the pages of p's stack are gone.
LEMMA CleanUpFacts ==
    ASSUME IInv, NEW p \in Procs, Alive(p), CleanUp(p)
    PROVE  /\ map' \in Tables /\ free' \in Seq(Frames) /\ p4' \in Tops
           /\ Apart(map', free', p4')
           /\ \A s \in Procs : s # table[p] => map'[s] = map[s] /\ p4'[s] = p4[s] /\ end'[s] = end[s]
           /\ end' \in [Procs -> 0..(HEAP_PAGES * PAGE_SIZE)]
           /\ ~LastUser(p) =>
                 /\ p4' = p4 /\ end' = end
                 /\ \A x \in Pages : x \notin StackOf(p) => map'[table[p]][x] = map[table[p]][x]
<1> DEFINE t == table[p]
           A == AfterStack(p)
           B == AfterHeap(p)
           C == AfterCode(p)
           h == start[p] + usage[p] - 1
           shared == A.ok /\ LastUser(p)
           top == shared /\ B.ok /\ C.ok
           done == IF ~shared THEN A ELSE IF ~B.ok THEN B ELSE C
<1>1. /\ map' = With(t, done)
      /\ free' = IF top THEN Dealloc(done.free, <<p4[t]>>) ELSE done.free
      /\ p4' = IF top THEN [p4 EXCEPT ![t] = NoFrame] ELSE p4
      /\ end' = IF shared THEN [end EXCEPT ![t] = 0] ELSE end
  BY Zenon DEF CleanUp, AfterStack, AfterHeap, AfterCode, With
<1>2. /\ Unmaps(map, free, p4, t, start[p], h, With(t, A), A.free, A.ok)
      /\ Unmaps(With(t, A), A.free, p4, t, HeapStart, HeapEnd(p), With(t, B), B.free, B.ok)
      /\ Unmaps(With(t, B), B.free, p4, t, CodeStart, HeldCodeEnd(p), With(t, C), C.free, C.ok)
  BY CleanUpSteps, Zenon
<1>3. t \in Procs /\ p4[t] # NoFrame /\ StackOf(p) = start[p]..h
  BY Typed, StackFacts, Zenon DEF SharedMapped, StackOf
<1> HIDE DEF t, A, B, C, h, shared, top
<1>4. done = A \/ done = B \/ done = C
  BY Zenon
<1>5. ASSUME NEW X \in {A, B, C}
      PROVE  With(t, X) \in Tables /\ X.free \in Seq(Frames) /\ Apart(With(t, X), X.free, p4)
  BY <1>2, <1>5, Zenon DEF Unmaps
<1>6. ~shared => done = A
  BY Zenon
<1> HIDE DEF done
<1>7. map' \in Tables /\ done.free \in Seq(Frames) /\ Apart(map', done.free, p4)
  BY <1>1, <1>4, <1>5, Zenon
<1>8. free' \in Seq(Frames) /\ p4' \in Tops /\ Apart(map', free', p4')
  <2>1. CASE top
    BY <1>1, <1>3, <1>7, <2>1, Typed, TopGiven, Zenon
  <2>2. CASE ~top
    BY <1>1, <1>7, <2>2, Typed, Zenon
  <2> QED BY <2>1, <2>2, Zenon
<1>9. \A s \in Procs : s # t => map'[s] = map[s] /\ p4'[s] = p4[s] /\ end'[s] = end[s]
  BY <1>1, Zenon DEF IInv, TypeOK, With
<1>10. end' \in [Procs -> 0..(HEAP_PAGES * PAGE_SIZE)]
  <2>1. 0 \in 0..(HEAP_PAGES * PAGE_SIZE)
    BY Constants
  <2> QED BY <1>1, <2>1, Zenon DEF IInv, TypeOK
<1>11. ASSUME ~LastUser(p)
       PROVE  /\ p4' = p4 /\ end' = end
              /\ \A x \in Pages : x \notin StackOf(p) => map'[t][x] = map[t][x]
  <2>1. ~shared /\ ~top
    BY <1>11, Zenon DEF shared, top
  <2>2. map' = With(t, A) /\ p4' = p4 /\ end' = end
    BY <1>1, <1>6, <2>1, Zenon
  <2>3. \A x \in Pages : x \notin start[p]..h => With(t, A)[t][x] = map[t][x]
    BY <1>2, Zenon DEF Unmaps
  <2> QED BY <1>3, <2>2, <2>3, Zenon
<1> QED BY <1>7, <1>8, <1>9, <1>10, <1>11, Zenon DEF t

\* What clean_up takes: the stack, and from the last user the heap and the code
\* that it holds.  No frame gets lost on the way.
LEMMA CleanUpTidy ==
    ASSUME IInv, NEW p \in Procs, Alive(p), CleanUp(p), state = "ok", NEW t \in Procs, t = table[p]
    PROVE  /\ Complete(map', free', p4', dropped)
           /\ \A x \in Pages : map'[t][x] # NoFrame => map[t][x] # NoFrame /\ x \notin StackOf(p)
           /\ LastUser(p) =>
                 /\ p4'[t] = NoFrame
                 /\ \A x \in Pages : map'[t][x] # NoFrame =>
                       /\ x \notin HeapStart..(BehindPage(end[t]) - 1)
                       /\ code[p] => x \notin CodeStart..CodeEnd
<1> DEFINE A == AfterStack(p)
           B == AfterHeap(p)
           C == AfterCode(p)
           h == start[p] + usage[p] - 1
           k == HeapEnd(p)
           e == HeldCodeEnd(p)
<1>1. Complete(map, free, p4, dropped)
  BY Zenon DEF IInv, Tidy
<1>3. /\ Unmaps(map, free, p4, t, start[p], h, With(t, A), A.free, A.ok)
      /\ Unmaps(With(t, A), A.free, p4, t, HeapStart, k, With(t, B), B.free, B.ok)
      /\ Unmaps(With(t, B), B.free, p4, t, CodeStart, e, With(t, C), C.free, C.ok)
  BY CleanUpSteps, Zenon
<1>4. /\ A = Unmapping(map[t], free, start[p], h)
      /\ B = Unmapping(A.map, A.free, HeapStart, k)
      /\ C = Unmapping(B.map, B.free, CodeStart, e)
  BY Zenon DEF AfterStack, StackCleaned, AfterHeap, HeapCleaned, HeapEnd, AfterCode, CodeCleaned,
              HeldCodeEnd
<1>5. /\ A.ok = UnmapOk(map[t], start[p], h)
      /\ B.ok = UnmapOk(A.map, HeapStart, k)
      /\ C.ok = UnmapOk(B.map, CodeStart, e)
  <2> HIDE DEF A, B, C, h, k, e
  <2> QED BY <1>4, Zenon DEF Unmapping
<1>6. StackOf(p) = start[p]..h /\ (e = CodeEnd \/ e = CodeStart - 1) /\ (code[p] => e = CodeEnd)
  BY Zenon DEF HeldCodeEnd, StackOf
<1>7. end[t] \in 0..(HEAP_PAGES * PAGE_SIZE)
  BY Zenon DEF IInv, TypeOK
<1>8. /\ k \in Int /\ k = BehindPage(end[t]) - 1
      /\ \A x \in HeapStart..k : x \in Pages
  BY <1>7, EndPageFacts, Constants DEF HeapEnd, BehindPage
<1>9. /\ \A x \in start[p]..h : x \in Pages /\ x < CodeStart /\ map[t][x] # NoFrame
      /\ start[p] \in Nat /\ h \in Int
  <2>1. \A x \in StackOf(p) : x \in StackPages /\ map[t][x] # NoFrame
    <3>1. \A x \in StackOf(p) : x \in StackPages
      BY Typed, StackFacts, Zenon
    <3>2. \A x \in StackOf(p) : map[table[p]][x] # NoFrame
      BY Typed, Zenon DEF StacksApart
    <3> QED BY <3>1, <3>2, Zenon
  <2>2. \A x \in StackPages : x \in Pages /\ x < CodeStart
    BY Constants DEF StackPages
  <2>3. start[p] \in Nat /\ h \in Int
    BY Typed, StackFacts
  <2>4. \A x \in start[p]..h : x \in StackOf(p)
    BY <1>6, Zenon
  <2> HIDE DEF h
  <2> QED BY <2>1, <2>2, <2>3, <2>4, Zenon
<1>10. /\ p4[t] # NoFrame /\ \A x \in CodeStart..CodeEnd : map[t][x] # NoFrame
       /\ \A x \in CodeStart..CodeEnd : x \in Pages
  BY Typed, Constants, Zenon DEF SharedMapped
<1>11. \A x \in HeapStart..k : map[t][x] # NoFrame
  <2>1. CASE end[t] = 0
    BY <2>1, Constants DEF HeapEnd
  <2>2. CASE end[t] # 0
    BY <2>2, Typed, Zenon DEF HeapEnd, SharedMapped
  <2> QED BY <2>1, <2>2, Zenon
<1>e. \A x \in CodeStart..e : x \in CodeStart..CodeEnd
  <2> HIDE DEF e
  <2>1. \A x \in CodeStart..(CodeStart - 1) : FALSE
    BY Constants
  <2> QED BY <1>6, <2>1, Zenon
<1> HIDE DEF A, B, C, h, k, e
<1>12. With(t, A)[t] = A.map /\ With(t, B)[t] = B.map /\ With(t, C)[t] = C.map
  BY WithFacts, Zenon
<1>13. /\ A.ok
       /\ \A x \in Pages : x \notin start[p]..h => A.map[x] = map[t][x]
       /\ \A x \in start[p]..h : A.map[x] = NoFrame
  <2>1. A.ok
    BY <1>5, <1>9, Zenon DEF UnmapOk
  <2>2. /\ \A x \in Pages : x \notin start[p]..h => With(t, A)[t][x] = map[t][x]
        /\ \A x \in start[p]..h : With(t, A)[t][x] = NoFrame
    BY <1>3, <2>1, Zenon DEF Unmaps
  <2> QED BY <1>12, <2>1, <2>2, Zenon
<1>14. /\ B.ok
       /\ \A x \in Pages : x \notin HeapStart..k => B.map[x] = A.map[x]
       /\ \A x \in HeapStart..k : B.map[x] = NoFrame
  <2>1. \A x \in HeapStart..k : x \notin start[p]..h
    BY <1>8, <1>9, Constants
  <2>2. \A x \in HeapStart..k : A.map[x] # NoFrame
    BY <1>8, <1>11, <1>13, <2>1, Zenon
  <2>3. B.ok
    BY <1>5, <2>2, Zenon DEF UnmapOk
  <2>4. /\ \A x \in Pages : x \notin HeapStart..k => With(t, B)[t][x] = With(t, A)[t][x]
        /\ \A x \in HeapStart..k : With(t, B)[t][x] = NoFrame
    BY <1>3, <2>3, Zenon DEF Unmaps
  <2> QED BY <1>12, <2>3, <2>4, Zenon
<1>15. /\ C.ok
       /\ \A x \in Pages : x \notin CodeStart..e => C.map[x] = B.map[x]
       /\ \A x \in CodeStart..e : C.map[x] = NoFrame
  <2>1. \A x \in CodeStart..CodeEnd : x \notin start[p]..h /\ x \notin HeapStart..k
    BY <1>8, <1>9, Constants
  <2>2. \A x \in CodeStart..CodeEnd : B.map[x] # NoFrame
    BY <1>10, <1>13, <1>14, <2>1, Zenon
  <2>3. C.ok
    BY <1>5, <1>e, <2>2, Zenon DEF UnmapOk
  <2>4. /\ \A x \in Pages : x \notin CodeStart..e => With(t, C)[t][x] = With(t, B)[t][x]
        /\ \A x \in CodeStart..e : With(t, C)[t][x] = NoFrame
    BY <1>3, <2>3, Zenon DEF Unmaps
  <2> QED BY <1>12, <2>3, <2>4, Zenon
<1>16. CASE ~LastUser(p)
  <2>1. map' = With(t, A) /\ free' = A.free /\ p4' = p4
    BY <1>16, Zenon DEF CleanUp, AfterStack, With, A
  <2>2. Complete(map', free', p4', dropped)
    BY <1>1, <1>3, <2>1, Zenon DEF Unmaps
  <2>3. \A x \in Pages : map'[t][x] # NoFrame => map[t][x] # NoFrame /\ x \notin StackOf(p)
    BY <1>6, <1>12, <1>13, <2>1, Zenon
  <2> QED BY <1>16, <2>2, <2>3, Zenon
<1>17. CASE LastUser(p)
  <2>1. /\ map' = With(t, C) /\ free' = Dealloc(C.free, <<p4[t]>>)
        /\ p4' = [p4 EXCEPT ![t] = NoFrame]
    BY <1>13, <1>14, <1>15, <1>17, Zenon
       DEF CleanUp, AfterStack, AfterHeap, AfterCode, With, A, B, C
  <2>2. ASSUME NEW x \in Pages, map'[t][x] # NoFrame
        PROVE  /\ map[t][x] # NoFrame /\ x \notin StackOf(p)
               /\ x \notin HeapStart..(BehindPage(end[t]) - 1)
               /\ code[p] => x \notin CodeStart..CodeEnd
    <3>1. C.map[x] # NoFrame
      BY <1>12, <2>1, <2>2, Zenon
    <3>2. x \notin CodeStart..e /\ B.map[x] # NoFrame
      BY <1>15, <3>1, Zenon
    <3>3. x \notin HeapStart..k /\ A.map[x] # NoFrame
      BY <1>14, <3>2, Zenon
    <3>4. x \notin start[p]..h /\ map[t][x] # NoFrame
      BY <1>13, <3>3, Zenon
    <3> QED BY <1>6, <1>8, <3>2, <3>3, <3>4, Zenon
  <2>3. /\ With(t, C) \in Tables /\ C.free \in Seq(Frames) /\ Apart(With(t, C), C.free, p4)
        /\ Complete(With(t, C), C.free, p4, dropped)
    BY <1>1, <1>3, Zenon DEF Unmaps
  <2>4. p4 \in Tops
    BY Typed, Zenon
  <2>5. p4'[t] = NoFrame
    BY <2>1, <2>4, Zenon DEF Tops
  <2>6. Complete(map', free', p4', dropped)
    BY <1>10, <2>1, <2>3, <2>4, TopGiven, Zenon
  <2> QED BY <2>2, <2>5, <2>6, Zenon
<1> QED BY <1>16, <1>17, Zenon

LEMMA ExitInv == ASSUME IInv, NEW p \in Procs, Exit(p) PROVE IInv'
<1> DEFINE t == table[p]
<1>1. /\ state = "ok" /\ forking = NoFork /\ Alive(p) /\ CleanUp(p)
      /\ table' = [table EXCEPT ![p] = 0] /\ start' = [start EXCEPT ![p] = 0]
      /\ usage' = [usage EXCEPT ![p] = 0] /\ code' = [code EXCEPT ![p] = FALSE]
      /\ UNCHANGED <<children, nextPid, forking, state>>
  BY Zenon DEF Exit, Idle
<1>l. /\ last' = (IF LastUser(p) THEN [last EXCEPT ![t] = p] ELSE last)
      /\ dropped' = dropped /\ strays' = strays
  BY <1>1, Zenon DEF CleanUp
<1>2. /\ map' \in Tables /\ free' \in Seq(Frames) /\ p4' \in Tops
      /\ Apart(map', free', p4')
      /\ \A s \in Procs : s # t => map'[s] = map[s] /\ p4'[s] = p4[s] /\ end'[s] = end[s]
      /\ end' \in [Procs -> 0..(HEAP_PAGES * PAGE_SIZE)]
      /\ ~LastUser(p) => /\ p4' = p4 /\ end' = end
                         /\ \A x \in Pages : x \notin StackOf(p) => map'[t][x] = map[t][x]
  BY <1>1, CleanUpFacts, Zenon
<1>3. /\ table \in [Procs -> 0..MaxPid] /\ start \in [Procs -> StackPages]
      /\ usage \in [Procs -> 0..STACK_MAX_PAGES] /\ nextPid \in 1..(MaxPid + 1)
      /\ \A s \in Procs : Alive(s) <=> usage[s] > 0
  BY Zenon DEF IInv, TypeOK
<1>4. t \in Procs /\ t < nextPid /\ nextPid \in Nat
  BY <1>1, <1>3, TableMade, Constants
<1>5. \A s \in Procs : /\ table'[s] = IF s = p THEN 0 ELSE table[s]
                       /\ start'[s] = IF s = p THEN 0 ELSE start[s]
                       /\ usage'[s] = IF s = p THEN 0 ELSE usage[s]
  BY <1>1, <1>3, Zenon
<1>6. \A s \in Procs : Alive(s)' <=> (s # p /\ Alive(s))
  BY <1>5, Zenon DEF Alive
<1>7. \A s \in Procs : s # p => StackOf(s)' = StackOf(s)
  BY <1>5, Zenon DEF StackOf
<1>8. \A s \in Procs : s # p /\ table[s] = t => ~LastUser(p)
  BY Zenon DEF LastUser, Users
<1> HIDE DEF t
<1>9. TypeOK'
  <2>1. 0 \in StackPages /\ 0 \in 0..STACK_MAX_PAGES /\ 0 \in 0..MaxPid
    BY Constants DEF StackPages
  <2>2. \A s \in Procs : Alive(s)' <=> usage'[s] > 0
    BY <1>3, <1>5, <1>6
  <2> QED BY <1>1, <1>2, <1>3, <2>1, <2>2, Zenon DEF IInv, TypeOK, Tables, Tops
<1>10. StackTops'
  BY <1>5, <1>6, Zenon DEF IInv, StackTops, Slot
<1>11. StacksApart'
  <2> SUFFICES ASSUME NEW s \in Procs, s # p, Alive(s)
               PROVE  /\ \A page \in StackOf(s) :
                            map'[table[s]][page] # NoFrame /\ Slot(page) = Slot(start[s])
                      /\ \A u \in Procs : table'[u] = table[s] /\ u # s =>
                            Slot(start'[u]) # Slot(start[s])
    BY <1>5, <1>6, <1>7 DEF StacksApart, Slot
  <2>1. /\ table[s] \in Procs /\ table[s] # 0
        /\ \A page \in StackOf(s) : page \in Pages /\ Slot(page) = Slot(start[s])
    BY Typed, StackFacts, Constants, Zenon DEF Alive
  <2>2. \A page \in StackOf(s) : map[table[s]][page] # NoFrame
    BY Typed, Zenon DEF StacksApart
  <2>3. ASSUME NEW u \in Procs, table'[u] = table[s], u # s
        PROVE  Slot(start'[u]) # Slot(start[s])
    <3>1. u # p
      BY <1>5, <2>1, <2>3, Zenon
    <3>2. table[u] = table[s] /\ start'[u] = start[u]
      BY <1>5, <2>3, <3>1, Zenon
    <3> QED BY <2>3, <3>2, Typed, Zenon DEF StacksApart
  <2>4. CASE table[s] = t
    <3>1. Slot(start[s]) # Slot(start[p])
      BY <1>1, <2>4, Typed, Zenon DEF StacksApart, t
    <3>2. \A page \in StackOf(p) : Slot(page) = Slot(start[p])
      BY <1>1, Typed, StackFacts, Zenon
    <3>3. \A page \in StackOf(s) : map'[table[s]][page] # NoFrame
      BY <1>2, <1>8, <2>1, <2>2, <2>4, <3>1, <3>2
    <3> QED BY <2>1, <2>3, <3>3, Zenon
  <2>5. CASE table[s] # t
    <3>1. map'[table[s]] = map[table[s]]
      BY <1>2, <2>1, <2>5, Zenon
    <3> QED BY <2>1, <2>2, <2>3, <3>1, Zenon
  <2> QED BY <2>4, <2>5, Zenon
<1>12. SharedMapped'
  <2> SUFFICES ASSUME NEW s \in Procs, s # p, Alive(s)
               PROVE  /\ p4'[table[s]] # NoFrame
                      /\ \A page \in CodeStart..CodeEnd : map'[table[s]][page] # NoFrame
                      /\ end'[table[s]] # 0 =>
                            \A page \in HeapStart..EndPage(end'[table[s]]) :
                                map'[table[s]][page] # NoFrame
    BY <1>5, <1>6 DEF SharedMapped, EndPage
  <2>1. table[s] \in Procs /\ end[table[s]] \in 0..(HEAP_PAGES * PAGE_SIZE)
    BY Typed, StackFacts, Zenon DEF TypeOK
  <2>2. /\ p4[table[s]] # NoFrame
        /\ \A page \in CodeStart..CodeEnd : map[table[s]][page] # NoFrame
        /\ end[table[s]] # 0 => \A page \in HeapStart..EndPage(end[table[s]]) :
                                    map[table[s]][page] # NoFrame
    BY Typed, Zenon DEF SharedMapped
  <2>3. CASE table[s] # t
    BY <1>2, <2>1, <2>2, <2>3, Zenon
  <2>4. CASE table[s] = t
    <3>1. \A page \in StackOf(p) : page < CodeStart
      BY <1>1, Typed, StackFacts, Constants DEF StackPages
    <3>2. \A page \in CodeStart..CodeEnd : page \in Pages /\ page \notin StackOf(p)
      BY <3>1, Constants
    <3>3. \A page \in HeapStart..EndPage(end[t]) : page \in Pages /\ page \notin StackOf(p)
      BY <2>1, <2>4, <3>1, EndPageFacts, Constants
    <3> QED BY <1>2, <1>8, <2>2, <2>4, <3>2, <3>3, Zenon
  <2> QED BY <2>3, <2>4, Zenon
<1>13. Fresh'
  <2> SUFFICES ASSUME NEW s \in Procs
               PROVE  /\ s >= nextPid => map'[s] = Blank /\ p4'[s] = NoFrame /\ table'[s] = 0
                      /\ table'[s] < nextPid
    BY <1>1, Zenon DEF Fresh
  <2>1. /\ s >= nextPid => map[s] = Blank /\ p4[s] = NoFrame /\ table[s] = 0
        /\ table[s] < nextPid /\ s \in Nat
    BY Constants, Zenon DEF IInv, Fresh
  <2>2. s >= nextPid => s # t
    BY <1>4, <2>1
  <2>3. 0 < nextPid
    BY <1>3
  <2> QED BY <1>2, <1>5, <2>1, <2>2, <2>3, Zenon
<1>14. MoreTypes' /\ ForkAlive'
  <2>1. last' \in [Procs -> Nat]
    BY <1>4, <1>l, Constants, Zenon DEF IInv, MoreTypes
  <2> QED BY <1>1, <1>l, <2>1, Zenon DEF IInv, MoreTypes, ForkAlive
<1>15. Tidy'
  <2>0. PICK v \in Procs : v = t
    BY <1>4, Zenon
  <2>1. /\ Complete(map', free', p4', dropped)
        /\ \A x \in Pages : map'[v][x] # NoFrame => map[v][x] # NoFrame /\ x \notin StackOf(p)
        /\ LastUser(p) =>
              /\ p4'[v] = NoFrame
              /\ \A x \in Pages : map'[v][x] # NoFrame =>
                    /\ x \notin HeapStart..(BehindPage(end[v]) - 1)
                    /\ code[p] => x \notin CodeStart..CodeEnd
    BY <1>1, <2>0, CleanUpTidy, Zenon DEF t
  <2>2. /\ \A s \in Procs, x \in Pages : map[s][x] # NoFrame =>
              (Used(s) => Kept(s, x)) /\ (~Used(s) => Left(s, x))
        /\ \A s \in Procs : ~Used(s) => p4[s] = NoFrame
        /\ \A q \in Procs : code[q] <=> table[q] = q
    BY <1>1, Zenon DEF IInv, Tidy
  <2>3. p # 0 /\ v # 0 /\ table[p] = v
    BY <2>0, Constants, Zenon DEF t
  <2>4. \A q \in Procs : code'[q] <=> table'[q] = q
    <3>1. code \in [Procs -> BOOLEAN]
      BY Zenon DEF IInv, MoreTypes
    <3>2. ~code'[p] /\ \A q \in Procs : q # p => (code'[q] <=> code[q])
      BY <1>1, <3>1, Zenon
    <3> QED BY <1>5, <2>2, <2>3, <3>2, Zenon
  <2>5. \A s \in Procs : s # v => (Used(s)' <=> Used(s))
    <3>1. \A s \in Procs : s # 0
      BY Constants, Zenon
    <3> QED BY <1>5, <2>3, <3>1, Zenon DEF Used
  <2>6. LastUser(p) => ~Used(v)'
    <3> SUFFICES ASSUME LastUser(p), NEW q \in Procs, table'[q] = v PROVE FALSE
      BY Zenon DEF Used
    <3>1. q # p /\ table[q] = v
      BY <1>5, <2>3, Zenon
    <3> QED BY <1>8, <2>0, <3>1, Zenon
  <2>7. ~LastUser(p) => Used(v) /\ Used(v)'
    <3> SUFFICES ASSUME ~LastUser(p) PROVE Used(v) /\ Used(v)'
      BY Zenon
    <3>1. PICK q \in Procs : q # p /\ table[q] = v
      BY <2>3, Zenon DEF LastUser, Users
    <3> QED BY <1>5, <3>1, Zenon DEF Used
  <2>8. ASSUME NEW s \in Procs, NEW x \in Pages, Kept(s, x), ~(s = v /\ x \in StackOf(p)),
               s = v => ~LastUser(p)
        PROVE  Kept(s, x)'
    <3>1. end'[s] = end[s]
      BY <1>2, <2>0, <2>8, Zenon
    <3>2. BehindPage(end[s])' = BehindPage(end[s])
      BY <3>1, Zenon DEF BehindPage, EndPage
    <3>3. ASSUME NEW q \in Procs, table[q] = s, x \in StackOf(q) PROVE Kept(s, x)'
      <4>1. q # p
        BY <2>3, <2>8, <3>3, Zenon
      <4>2. table'[q] = s /\ x \in StackOf(q)'
        BY <1>5, <1>7, <3>3, <4>1, Zenon
      <4> QED BY <4>2, Zenon DEF Kept
    <3>4. ASSUME ~(\E q \in Procs : table[q] = s /\ x \in StackOf(q)) PROVE Kept(s, x)'
      BY <1>l, <2>8, <3>2, <3>4, Zenon DEF Kept
    <3> QED BY <3>3, <3>4, Zenon
  <2>9. ASSUME NEW s \in Procs, NEW x \in Pages, map'[s][x] # NoFrame
        PROVE  (Used(s)' => Kept(s, x)') /\ (~Used(s)' => Left(s, x)')
    <3>1. CASE s # v
      <4>1. map[s][x] # NoFrame
        BY <1>2, <2>0, <2>9, <3>1, Zenon
      <4>2. last'[s] = last[s]
        BY <1>l, <2>0, <3>1, Zenon DEF IInv, MoreTypes
      <4>3. Left(s, x) => Left(s, x)'
        BY <1>l, <4>2, Zenon DEF Left
      <4> QED BY <2>2, <2>5, <2>8, <3>1, <4>1, <4>3, Zenon
    <3>2. CASE s = v /\ ~LastUser(p)
      BY <2>1, <2>2, <2>7, <2>8, <2>9, <3>2, Zenon
    <3>3. CASE s = v /\ LastUser(p)
      <4>1. Used(v)
        BY <2>3, Zenon DEF Used
      <4>2. /\ Kept(v, x) /\ x \notin StackOf(p) /\ x \notin HeapStart..(BehindPage(end[v]) - 1)
            /\ code[p] => x \notin CodeStart..CodeEnd
        BY <2>1, <2>2, <2>9, <3>3, <4>1, Zenon
      <4>3. \A q \in Procs : table[q] = v => q = p
        BY <1>8, <2>0, <3>3, Zenon
      <4>4. x \in strays[v] \/ x = BssPage \/ (x \in CodeStart..CodeEnd /\ ~code[p])
        BY <4>2, <4>3, Zenon DEF Kept
      <4>5. last'[v] = p /\ (~code[p] => v # p)
        BY <1>l, <2>0, <2>2, <2>3, <3>3, Zenon DEF IInv, MoreTypes
      <4>6. Left(v, x)'
        BY <1>l, <4>4, <4>5, Zenon DEF Left
      <4> QED BY <2>6, <3>3, <4>6, Zenon
    <3> QED BY <3>1, <3>2, <3>3, Zenon
  <2>10. ASSUME NEW s \in Procs, ~Used(s)' PROVE p4'[s] = NoFrame
    BY <1>2, <2>0, <2>1, <2>2, <2>5, <2>7, <2>10, Zenon
  <2>11. Complete(map, free, p4, dropped)'
    BY <1>l, <2>1, CompletePrimed, Zenon
  <2> QED BY <2>4, <2>9, <2>10, <2>11, Zenon DEF Tidy
<1>16. Apart(map, free, p4)'
  BY <1>2, ApartPrimed, Zenon
<1> QED BY <1>9, <1>10, <1>11, <1>12, <1>13, <1>14, <1>15, <1>16, Zenon DEF IInv

\* What a new process gets: a top table, the code, maybe the page behind .bss, and
\* one page of stack.
LEMMA SpawnFacts ==
    ASSUME IInv, NEW p \in Procs, NEW extra \in {0, 1}, Spawn(p, extra),
           ~(Len(free) < 1 + CodePages + extra + STACK_DEF_PAGE),
           NEW top, top = Slots * STACK_MAX_PAGES - STACK_DEF_PAGE,
           NEW ce \in Int, ce = CodeEnd + extra
    PROVE  /\ map' \in Tables /\ free' \in Seq(Frames) /\ p4' \in Tops
           /\ Apart(map', free', p4') /\ p4'[p] # NoFrame
           /\ Complete(map, free, p4, dropped) => Complete(map', free', p4', dropped)
           /\ \A s \in Procs : s # p => map'[s] = map[s] /\ p4'[s] = p4[s]
           /\ \A x \in Pages : map'[p][x] # NoFrame <=> (x = top \/ x \in CodeStart..ce)
<1> DEFINE f1 == Tail(free)
           r1 == [p4 EXCEPT ![p] = Head(free)]
           code1 == Mapped(Blank, f1, CodeStart, ce)
           rest == MapFree(Blank, f1, CodeStart, ce)
           m2 == [map EXCEPT ![p] = code1]
<1>1. /\ p = nextPid /\ p4' = r1
      /\ map' = [map EXCEPT ![p] = Mapped(code1, rest, top, top + STACK_DEF_PAGE - 1)]
      /\ free' = MapFree(code1, rest, top, top + STACK_DEF_PAGE - 1)
  BY Zenon DEF Spawn
<1>e. /\ ce \in Nat /\ CodeStart <= ce /\ CodeStart \in Nat
      /\ ce + 1 - CodeStart = CodePages + extra /\ extra \in Nat
      /\ \A x \in CodeStart..ce : x \in Pages
  <2>1. extra \in Nat /\ extra <= 1
    OBVIOUS
  <2>2. ce \in Nat /\ CodeStart <= ce /\ ce + 1 - CodeStart = CodePages + extra /\ ce < HeapStart
    BY <2>1, Constants
  <2>3. \A x \in CodeStart..ce : x \in Nat /\ x <= HeapStart + HEAP_PAGES
    BY <2>2, Constants
  <2> QED BY <2>1, <2>2, <2>3, Constants, Zenon
<1>2. map[p] = Blank /\ p4[p] = NoFrame /\ p \in Nat
  BY <1>1, Constants DEF IInv, Fresh
<1>3. /\ STACK_DEF_PAGE = 1 /\ top \in StackPages /\ top \in Nat /\ top < CodeStart
      /\ top + STACK_DEF_PAGE - 1 = top /\ top \in Pages
  BY Constants DEF STACK_DEF_PAGE, StackPages
<1>4. Len(free) \in Nat /\ Len(free) > 0 /\ Len(free) >= 2 + CodePages + extra
  BY <1>3, <1>e, Typed, Constants
<1>5. /\ f1 \in Seq(Frames) /\ Len(f1) = Len(free) - 1
      /\ Head(free) \in Frames /\ r1 \in Tops
      /\ Apart(map, f1, r1)
      /\ \A c : Complete(map, free, p4, c) => Complete(map, f1, r1, c)
  BY <1>2, <1>4, Typed, TopTaken, Zenon
<1>6. r1[p] = Head(free) /\ \A s \in Procs : s # p => r1[s] = p4[s]
  BY Typed, Zenon DEF Tops
<1>7. MapOk(Blank, f1, CodeStart, ce)
  <2>1. \A x \in CodeStart..ce : Blank[x] = NoFrame
    BY <1>e, Zenon DEF Blank
  <2>2. ce + 1 - CodeStart <= Len(f1)
    BY <1>4, <1>5, <1>e, Constants
  <2> QED BY <1>5, <1>e, <2>1, <2>2, MapAll, Zenon
<1> HIDE DEF f1, r1
<1>8. Mapping(map, f1, r1, p, CodeStart, ce, m2, rest, MapOk(Blank, f1, CodeStart, ce),
              MapDrops(Blank, f1, CodeStart, ce), MapStrays(Blank, f1, CodeStart, ce))
  <2>1. Mapping(map, f1, r1, p, CodeStart, ce,
                [map EXCEPT ![p] = Mapped(map[p], f1, CodeStart, ce)],
                MapFree(map[p], f1, CodeStart, ce), MapOk(map[p], f1, CodeStart, ce),
                MapDrops(map[p], f1, CodeStart, ce), MapStrays(map[p], f1, CodeStart, ce))
    BY <1>5, <1>e, Typed, NatIsInt, MapTable, Zenon
  <2> QED BY <1>2, <2>1, Zenon
<1>9. m2[p] = code1
  BY Typed, Zenon DEF Tables
<1> HIDE DEF code1, rest
<1>10. [m2 EXCEPT ![p] = Mapped(m2[p], rest, top, top)] = map' /\ free' = MapFree(m2[p], rest, top, top)
  BY <1>1, <1>3, <1>9, Typed, Zenon DEF Tables
<1> HIDE DEF m2
<1>11. /\ m2 \in Tables /\ rest \in Seq(Frames) /\ Apart(m2, rest, r1)
       /\ \A c : Complete(map, f1, r1, c) => Complete(m2, rest, r1, c)
       /\ \A s \in Procs : s # p => m2[s] = map[s]
       /\ \A x \in Pages : x \notin CodeStart..ce => m2[p][x] = map[p][x]
       /\ \A x \in Pages : x \in CodeStart..ce => m2[p][x] # NoFrame
       /\ Len(rest) = Len(f1) - (ce + 1 - CodeStart)
  <2> DEFINE D == MapDrops(Blank, f1, CodeStart, ce)
  <2>1. D = {}
    BY <1>7, Zenon DEF MapDrops
  <2>2. \A c : Complete(map, f1, r1, c) => Complete(m2, rest, r1, c \cup D)
    BY <1>8, Zenon DEF Mapping
  <2> HIDE DEF D
  <2>3. ASSUME NEW c, Complete(map, f1, r1, c) PROVE Complete(m2, rest, r1, c)
    <3>1. c \cup D = c
      BY <2>1, Zenon
    <3>2. Complete(m2, rest, r1, c \cup D)
      BY <2>2, <2>3, Zenon
    <3> QED BY <3>1, <3>2, Zenon
  <2> QED BY <1>7, <1>8, <1>e, <2>3, Zenon DEF Mapping
<1>12. /\ \A x \in Pages : map[p][x] = NoFrame
       /\ top \notin CodeStart..ce
  <2>1. \A x \in Pages : map[p][x] = NoFrame
    BY <1>2, Zenon DEF Blank
  <2>2. top \notin CodeStart..ce
    BY <1>3, <1>e
  <2> QED BY <2>1, <2>2, Zenon
<1>13. MapOk(m2[p], rest, top, top)
  <2>1. \A x \in top..top : m2[p][x] = NoFrame
    BY <1>3, <1>11, <1>12, NatIsInt, Point, Zenon
  <2>2. top + 1 - top <= Len(rest)
    <3>1. Len(rest) = Len(f1) - (ce + 1 - CodeStart) /\ Len(f1) = Len(free) - 1
      BY <1>5, <1>11, Zenon
    <3>2. CodePages \in Nat
      BY Constants, Zenon
    <3> QED BY <1>3, <1>4, <1>e, <3>1, <3>2
  <2>3. top <= top
    BY <1>3
  <2> DEFINE mp == m2[p]
  <2>4. \A x \in top..top : mp[x] = NoFrame
    BY <2>1, Zenon
  <2> HIDE DEF mp
  <2>5. MapOk(mp, rest, top, top)
    BY <1>3, <1>11, <2>2, <2>3, <2>4, MapAll, Zenon
  <2> QED BY <2>5, Zenon DEF mp
<1>14. Mapping(m2, rest, r1, p, top, top, map', free', MapOk(m2[p], rest, top, top),
               MapDrops(m2[p], rest, top, top), MapStrays(m2[p], rest, top, top))
  <2>1. \A x \in top..top : x \in Pages
    BY <1>3
  <2>2. Mapping(m2, rest, r1, p, top, top, [m2 EXCEPT ![p] = Mapped(m2[p], rest, top, top)],
                MapFree(m2[p], rest, top, top), MapOk(m2[p], rest, top, top),
                MapDrops(m2[p], rest, top, top), MapStrays(m2[p], rest, top, top))
    BY <1>3, <1>5, <1>11, <2>1, NatIsInt, MapTable, Zenon
  <2> QED BY <1>10, <2>2, Zenon
<1>15. /\ map' \in Tables /\ free' \in Seq(Frames) /\ Apart(map', free', r1)
       /\ \A c : Complete(m2, rest, r1, c) => Complete(map', free', r1, c)
       /\ \A s \in Procs : s # p => map'[s] = m2[s]
       /\ \A x \in Pages : x \notin top..top => map'[p][x] = m2[p][x]
       /\ \A x \in Pages : x \in top..top => map'[p][x] # NoFrame
  <2> DEFINE D == MapDrops(m2[p], rest, top, top)
  <2>1. D = {}
    BY <1>13, Zenon DEF MapDrops
  <2>2. \A c : Complete(m2, rest, r1, c) => Complete(map', free', r1, c \cup D)
    BY <1>14, Zenon DEF Mapping
  <2> HIDE DEF D
  <2>3. ASSUME NEW c, Complete(m2, rest, r1, c) PROVE Complete(map', free', r1, c)
    <3>1. c \cup D = c
      BY <2>1, Zenon
    <3>2. Complete(map', free', r1, c \cup D)
      BY <2>2, <2>3, Zenon
    <3> QED BY <3>1, <3>2, Zenon
  <2> QED BY <1>13, <1>14, <2>3, Zenon DEF Mapping
<1>16. \A x \in Pages : x \in top..top <=> x = top
  BY <1>3, Constants
<1>17. \A x \in Pages : map'[p][x] # NoFrame <=> (x = top \/ x \in CodeStart..ce)
  BY <1>11, <1>12, <1>15, <1>16, Zenon
<1>18. p4'[p] # NoFrame /\ \A s \in Procs : s # p => p4'[s] = p4[s]
  BY <1>1, <1>5, <1>6, Constants, Zenon
<1>19. /\ Apart(map', free', p4')
       /\ Complete(map, free, p4, dropped) => Complete(map', free', p4', dropped)
  BY <1>1, <1>5, <1>11, <1>15, Zenon
<1>20. \A s \in Procs : s # p => map'[s] = map[s]
  BY <1>11, <1>15, Zenon
<1> QED BY <1>1, <1>5, <1>15, <1>17, <1>18, <1>19, <1>20, Zenon

\* Without frames for a process the machine stops.
LEMMA SpawnFails ==
    ASSUME IInv, NEW p \in Procs, NEW extra \in {0, 1}, Spawn(p, extra),
           Len(free) < 1 + CodePages + extra + STACK_DEF_PAGE
    PROVE  IInv'
<1>1. /\ p = nextPid /\ nextPid' = nextPid + 1 /\ state' = "oom" /\ forking = NoFork
      /\ UNCHANGED <<free, map, p4, table, start, usage, end, code, children, forking, lostVars>>
  BY Zenon DEF Spawn, Idle
<1>2. nextPid \in Nat /\ nextPid' \in 1..(MaxPid + 1)
  BY <1>1, Constants
<1>3. TypeOK'
  BY <1>1, <1>2, Zenon DEF IInv, TypeOK, Alive
<1>4. Fresh'
  <2> SUFFICES ASSUME NEW s \in Procs
               PROVE  /\ s >= nextPid' => map[s] = Blank /\ p4[s] = NoFrame /\ table[s] = 0
                      /\ table[s] < nextPid'
    BY <1>1, Zenon DEF Fresh
  <2>1. s \in Nat /\ table[s] \in Nat
    BY Constants DEF IInv, TypeOK
  <2>2. s >= nextPid' => s >= nextPid
    BY <1>1, <1>2, <2>1
  <2>3. table[s] < nextPid => table[s] < nextPid'
    BY <1>1, <1>2, <2>1
  <2> QED BY <2>2, <2>3, Zenon DEF IInv, Fresh
<1>5. StackTops' /\ StacksApart'
  BY <1>1, Typed, StacksKept, Zenon
<1>6. SharedMapped'
  BY <1>1, Typed, SharedKept, Zenon
<1>7. MoreTypes' /\ ForkAlive' /\ Tidy' /\ Apart(map, free, p4)'
  BY <1>1, ApartPrimed, Zenon DEF IInv, MoreTypes, ForkAlive, Tidy, lostVars
<1> QED BY <1>3, <1>4, <1>5, <1>6, <1>7, Zenon DEF IInv

LEMMA SpawnInv ==
    ASSUME IInv, NEW p \in Procs, NEW extra \in {0, 1}, Spawn(p, extra) PROVE IInv'
<1> SUFFICES ASSUME ~(Len(free) < 1 + CodePages + extra + STACK_DEF_PAGE) PROVE IInv'
  BY SpawnFails, Zenon
<1> DEFINE top == Slots * STACK_MAX_PAGES - STACK_DEF_PAGE
           ce == CodeEnd + extra
<1>1. /\ p = nextPid /\ nextPid' = nextPid + 1 /\ state = "ok" /\ forking = NoFork
      /\ table' = [table EXCEPT ![p] = p] /\ start' = [start EXCEPT ![p] = top]
      /\ usage' = [usage EXCEPT ![p] = STACK_DEF_PAGE] /\ end' = [end EXCEPT ![p] = 0]
      /\ code' = [code EXCEPT ![p] = TRUE]
      /\ UNCHANGED <<children, forking, dropped, strays, last, state>>
  BY Zenon DEF Spawn, Idle, lostVars
<1>2. /\ map' \in Tables /\ free' \in Seq(Frames) /\ p4' \in Tops
      /\ Apart(map', free', p4') /\ p4'[p] # NoFrame
      /\ Complete(map, free, p4, dropped) => Complete(map', free', p4', dropped)
      /\ \A s \in Procs : s # p => map'[s] = map[s] /\ p4'[s] = p4[s]
      /\ \A x \in Pages : map'[p][x] # NoFrame <=> (x = top \/ x \in CodeStart..ce)
  <2>1. ce \in Int /\ ce = CodeEnd + extra
    BY Constants
  <2>2. top = Slots * STACK_MAX_PAGES - STACK_DEF_PAGE
    BY Zenon
  <2> HIDE DEF ce, top
  <2> QED BY <2>1, <2>2, SpawnFacts
<1>e. /\ \A x \in CodeStart..CodeEnd : x \in CodeStart..ce /\ x \in Pages
      /\ \A x \in CodeStart..ce : x \in CodeStart..CodeEnd \/ x = BssPage
  BY Constants
<1>3. /\ table \in [Procs -> 0..MaxPid] /\ start \in [Procs -> StackPages]
      /\ usage \in [Procs -> 0..STACK_MAX_PAGES]
      /\ end \in [Procs -> 0..(HEAP_PAGES * PAGE_SIZE)] /\ code \in [Procs -> BOOLEAN]
      /\ \A s \in Procs : Alive(s) <=> usage[s] > 0
  BY Zenon DEF IInv, TypeOK, MoreTypes
<1>4. p \in Nat \ {0} /\ p <= MaxPid /\ nextPid \in Nat /\ nextPid' \in 1..(MaxPid + 1)
  BY <1>1, Constants
<1>5. ASSUME NEW s \in Procs
      PROVE  table[s] # p /\ table[s] < nextPid /\ table[s] \in Nat /\ s \in Nat
  <2>1. table[s] < nextPid /\ table[s] \in Nat /\ s \in Nat
    <3>1. table[s] < nextPid
      BY Zenon DEF IInv, Fresh
    <3>2. table[s] \in 0..MaxPid /\ MaxPid \in Nat /\ s \in Nat
      BY <1>3, Constants, Zenon
    <3> QED BY <3>1, <3>2
  <2> QED BY <1>1, <2>1
<1>6. ~Alive(p)
  <2>1. p >= nextPid => table[p] = 0
    BY Zenon DEF IInv, Fresh
  <2> QED BY <1>1, <1>4, <2>1 DEF Alive
<1>7. \A s \in Procs : /\ table'[s] = IF s = p THEN p ELSE table[s]
                       /\ start'[s] = IF s = p THEN top ELSE start[s]
                       /\ usage'[s] = IF s = p THEN 1 ELSE usage[s]
                       /\ end'[s] = IF s = p THEN 0 ELSE end[s]
                       /\ code'[s] = IF s = p THEN TRUE ELSE code[s]
  BY <1>1, <1>3, Zenon DEF STACK_DEF_PAGE
<1>8. \A s \in Procs : /\ Alive(s)' <=> (s = p \/ Alive(s))
                       /\ s # p => StackOf(s)' = StackOf(s)
  BY <1>4, <1>7, Zenon DEF Alive, StackOf
<1>9. /\ top \in StackPages /\ top \in Nat /\ top \in Pages
      /\ Slot(top) * STACK_MAX_PAGES + STACK_MAX_PAGES = top + 1
  <2> DEFINE M == STACK_MAX_PAGES
             X == (Slots - 1) * M
  <2>1. M \in Nat \ {0} /\ Slots \in Nat \ {0} /\ Slots * M \in Nat \ {0} /\ top = Slots * M - 1
    BY Constants, Zenon DEF STACK_DEF_PAGE
  <2> HIDE DEF M
  <2>2. X + M = Slots * M /\ X \in Nat /\ Slots - 1 \in Int
    BY <2>1
  <2>3. top \in Nat /\ (Slots - 1) * M <= top /\ top < (Slots - 1) * M + M
    <3> HIDE DEF top
    <3>1. top \in Nat /\ X <= top /\ top < X + M
      <4> HIDE DEF X
      <4> QED BY <2>1, <2>2
    <3> QED BY <3>1, Zenon
  <2>4. top \div M = Slots - 1
    BY <2>1, <2>2, <2>3, DivIs, Zenon
  <2>5. Slot(top) * M + M = top + 1
    BY <2>1, <2>2, <2>4 DEF Slot, M
  <2>6. top \in StackPages
    BY <2>1, <2>3 DEF StackPages, M
  <2> QED BY <2>3, <2>5, <2>6, Constants, Zenon DEF M
<1> HIDE DEF top, ce
<1>10. \A x : x \in StackOf(p)' <=> x = top
  <2>1. StackOf(p)' = top..(top + 1 - 1)
    BY <1>7, Zenon DEF StackOf
  <2> QED BY <1>9, <2>1
<1>11. TypeOK'
  <2>1. p \in 0..MaxPid /\ 1 \in 0..STACK_MAX_PAGES /\ STACK_DEF_PAGE = 1
        /\ 0 \in 0..(HEAP_PAGES * PAGE_SIZE)
    BY <1>4, Constants DEF STACK_DEF_PAGE
  <2>2. ASSUME NEW s \in Procs PROVE Alive(s)' <=> usage'[s] > 0
    <3>1. CASE s = p
      <4>1. Alive(s)' /\ usage'[s] = 1
        BY <1>7, <1>8, <3>1, Zenon
      <4> QED BY <4>1
    <3>2. CASE s # p
      BY <1>3, <1>7, <1>8, <3>2, Zenon
    <3> QED BY <3>1, <3>2, Zenon
  <2> QED BY <1>1, <1>2, <1>3, <1>4, <1>9, <2>1, <2>2, Zenon DEF IInv, TypeOK, Tables, Tops
<1>12. StackTops'
  BY <1>7, <1>8, <1>9, Zenon DEF IInv, StackTops, Slot
<1>13. StacksApart'
  <2> SUFFICES ASSUME NEW s \in Procs, Alive(s)'
               PROVE  /\ \A page \in StackOf(s)' :
                            map'[table'[s]][page] # NoFrame /\ Slot(page) = Slot(start'[s])
                      /\ \A u \in Procs : table'[u] = table'[s] /\ u # s =>
                            Slot(start'[u]) # Slot(start'[s])
    BY Zenon DEF StacksApart, Slot
  <2>1. CASE s = p
    <3>1. table'[p] = p /\ start'[p] = top /\ map'[p][top] # NoFrame
      BY <1>2, <1>7, <1>9, Zenon
    <3>2. \A u \in Procs : u # p => table'[u] # p
      BY <1>5, <1>7, Zenon
    <3> QED BY <1>10, <2>1, <3>1, <3>2, Zenon
  <2>2. CASE s # p
    <3>1. Alive(s) /\ StackOf(s)' = StackOf(s) /\ table[s] # p
      BY <1>5, <1>8, <2>2, Zenon
    <3>2. table[s] \in Procs
      BY <3>1, Typed, StackFacts, Zenon
    <3>3. \A page \in StackOf(s) : map'[table[s]][page] # NoFrame /\ Slot(page) = Slot(start[s])
      BY <1>2, <3>1, <3>2, Typed DEF StacksApart
    <3>4. ASSUME NEW u \in Procs, table'[u] = table[s], u # s
          PROVE  Slot(start'[u]) # Slot(start[s])
      <4>1. u # p
        BY <1>7, <3>1, <3>4, Zenon
      <4>2. table[u] = table[s] /\ start'[u] = start[u]
        BY <1>7, <3>4, <4>1, Zenon
      <4> QED BY <3>1, <3>4, <4>2, Typed, Zenon DEF StacksApart
    <3> QED BY <1>7, <2>2, <3>1, <3>3, <3>4, Zenon
  <2> QED BY <2>1, <2>2, Zenon
<1>14. SharedMapped'
  <2> SUFFICES ASSUME NEW s \in Procs, Alive(s)'
               PROVE  /\ p4'[table'[s]] # NoFrame
                      /\ \A page \in CodeStart..CodeEnd : map'[table'[s]][page] # NoFrame
                      /\ end'[table'[s]] # 0 =>
                            \A page \in HeapStart..EndPage(end'[table'[s]]) :
                                map'[table'[s]][page] # NoFrame
    BY Zenon DEF SharedMapped, EndPage
  <2>1. CASE s = p
    BY <1>2, <1>7, <1>e, <2>1, Zenon
  <2>2. CASE s # p
    <3>1. Alive(s) /\ table'[s] = table[s] /\ table[s] # p
      BY <1>5, <1>7, <1>8, <2>2, Zenon
    <3>2. table[s] \in Procs
      BY <3>1, Typed, StackFacts, Zenon
    <3>3. /\ map'[table[s]] = map[table[s]] /\ p4'[table[s]] = p4[table[s]]
          /\ end'[table[s]] = end[table[s]]
      BY <1>2, <1>7, <3>1, <3>2, Zenon
    <3> QED BY <3>1, <3>3, Typed, Zenon DEF SharedMapped
  <2> QED BY <2>1, <2>2, Zenon
<1>15. Fresh'
  <2> SUFFICES ASSUME NEW s \in Procs
               PROVE  /\ s >= nextPid' => map'[s] = Blank /\ p4'[s] = NoFrame /\ table'[s] = 0
                      /\ table'[s] < nextPid'
    BY Zenon DEF Fresh
  <2>1. s >= nextPid' => s >= nextPid /\ s # p
    BY <1>1, <1>4, <1>5
  <2>2. table'[s] < nextPid'
    BY <1>1, <1>4, <1>5, <1>7
  <2> QED BY <1>2, <1>7, <2>1, <2>2, Zenon DEF IInv, Fresh
<1>16. MoreTypes' /\ ForkAlive'
  BY <1>1, Zenon DEF IInv, MoreTypes, ForkAlive
<1>17. Tidy'
  <2>1. /\ Complete(map, free, p4, dropped)
        /\ \A s \in Procs, x \in Pages : map[s][x] # NoFrame =>
              (Used(s) => Kept(s, x)) /\ (~Used(s) => Left(s, x))
        /\ \A s \in Procs : ~Used(s) => p4[s] = NoFrame
        /\ \A q \in Procs : code[q] <=> table[q] = q
    BY <1>1, Zenon DEF IInv, Tidy
  <2>2. Complete(map, free, p4, dropped)'
    BY <1>1, <1>2, <2>1, CompletePrimed, Zenon
  <2>3. Used(p)' /\ table[p] = 0
    BY <1>6, <1>7, Zenon DEF Used, Alive
  <2>4. ASSUME NEW s \in Procs, s # p PROVE Used(s)' <=> Used(s)
    <3>1. s # 0
      BY Constants, Zenon
    <3> QED BY <1>7, <2>3, <2>4, <3>1, Zenon DEF Used
  <2>5. ASSUME NEW x \in Pages, map'[p][x] # NoFrame PROVE Kept(p, x)'
    <3>1. CASE x = top
      <4>1. x \in StackOf(p)' /\ table'[p] = p
        BY <1>7, <1>10, <3>1, Zenon
      <4> QED BY <4>1, Zenon DEF Kept
    <3>2. CASE x \in CodeStart..ce
      BY <1>e, <3>2, Zenon DEF Kept
    <3> QED BY <1>2, <2>5, <3>1, <3>2, Zenon
  <2>6. ASSUME NEW s \in Procs, s # p, NEW x \in Pages, Kept(s, x) PROVE Kept(s, x)'
    <3>1. BehindPage(end[s])' = BehindPage(end[s])
      BY <1>7, <2>6, Zenon DEF BehindPage, EndPage
    <3>2. ASSUME NEW q \in Procs, table[q] = s, x \in StackOf(q) PROVE Kept(s, x)'
      <4>1. q # p
        BY <2>3, <3>2, Constants, Zenon
      <4>2. table'[q] = s /\ x \in StackOf(q)'
        BY <1>7, <1>8, <3>2, <4>1, Zenon
      <4> QED BY <4>2, Zenon DEF Kept
    <3>3. ASSUME ~(\E q \in Procs : table[q] = s /\ x \in StackOf(q)) PROVE Kept(s, x)'
      BY <1>1, <2>6, <3>1, <3>3, Zenon DEF Kept
    <3> QED BY <3>2, <3>3, Zenon
  <2>7. \A s \in Procs, x \in Pages : Left(s, x) => Left(s, x)'
    BY <1>1, Zenon DEF Left
  <2>8. ASSUME NEW s \in Procs, NEW x \in Pages, map'[s][x] # NoFrame
        PROVE  (Used(s)' => Kept(s, x)') /\ (~Used(s)' => Left(s, x)')
    <3>1. CASE s = p
      BY <2>3, <2>5, <2>8, <3>1, Zenon
    <3>2. CASE s # p
      <4>1. map[s][x] # NoFrame
        BY <1>2, <2>8, <3>2, Zenon
      <4> QED BY <2>1, <2>4, <2>6, <2>7, <3>2, <4>1, Zenon
    <3> QED BY <3>1, <3>2, Zenon
  <2>9. ASSUME NEW s \in Procs, ~Used(s)' PROVE p4'[s] = NoFrame
    <3>1. s # p
      BY <2>3, <2>9, Zenon
    <3> QED BY <1>2, <2>1, <2>4, <2>9, <3>1, Zenon
  <2>10. \A q \in Procs : code'[q] <=> table'[q] = q
    BY <1>7, <2>1, Zenon
  <2> QED BY <2>2, <2>8, <2>9, <2>10, Zenon DEF Tidy
<1>18. Apart(map, free, p4)'
  BY <1>2, ApartPrimed, Zenon
<1> QED BY <1>11, <1>12, <1>13, <1>14, <1>15, <1>16, <1>17, <1>18, Zenon DEF IInv

LEMMA InitInv == Init => IInv
<1> SUFFICES ASSUME Init PROVE IInv
  BY Zenon
<1>1. /\ free = [i \in Frames |-> i] /\ map = [t \in Procs |-> Blank]
      /\ p4 = [t \in Procs |-> NoFrame] /\ table = [p \in Procs |-> 0]
      /\ start = [p \in Procs |-> 0] /\ usage = [p \in Procs |-> 0]
      /\ children = [p \in Procs |-> 0] /\ end = [t \in Procs |-> 0]
      /\ code = [p \in Procs |-> FALSE] /\ nextPid = 1 /\ forking = NoFork
      /\ state = "ok"
      /\ dropped = {} /\ strays = [s \in Procs |-> {}] /\ last = [s \in Procs |-> 0]
  BY Zenon DEF Init
<1>2. Frames = 1..NumFrames /\ NumFrames \in Nat
  BY Constants, Zenon DEF Frames
<1>3. free \in Seq(Frames) /\ Len(free) = NumFrames /\ \A i \in 1..Len(free) : free[i] = i
  BY <1>1, <1>2
<1>4. \A p \in Procs : ~Alive(p)
  BY <1>1, Zenon DEF Alive
<1>5. \A s \in Procs, x \in Pages : map[s][x] = NoFrame
  BY <1>1, Zenon DEF Blank
<1>6. TypeOK
  <2>1. map \in [Procs -> [Pages -> Frames \cup {NoFrame}]]
    BY <1>1, Zenon DEF Blank
  <2>2. /\ p4 \in [Procs -> Frames \cup {NoFrame}] /\ table \in [Procs -> 0..MaxPid]
        /\ start \in [Procs -> StackPages] /\ usage \in [Procs -> 0..STACK_MAX_PAGES]
        /\ end \in [Procs -> 0..(HEAP_PAGES * PAGE_SIZE)] /\ nextPid \in 1..(MaxPid + 1)
    BY <1>1, Constants DEF StackPages
  <2>3. \A p \in Procs : Alive(p) <=> usage[p] > 0
    BY <1>1, <1>4
  <2> QED BY <1>1, <1>3, <2>1, <2>2, <2>3, Zenon DEF TypeOK
<1>7. MoreTypes /\ ForkAlive
  <2>1. strays \in [Procs -> SUBSET Int]
    BY <1>1, Zenon
  <2>2. 0 \in Nat
    OBVIOUS
  <2>3. last \in [Procs -> Nat]
    BY <1>1, <2>2, Zenon
  <2> QED BY <1>1, <2>1, <2>2, <2>3, Zenon DEF MoreTypes, ForkAlive
<1>8. Fresh
  BY <1>1 DEF Fresh
<1>9. StackTops /\ StacksApart /\ SharedMapped
  BY <1>4, Zenon DEF StackTops, StacksApart, SharedMapped
<1>10. Apart(map, free, p4)
  <2>1. \A i \in 1..Len(free) : free[i] \in Frames /\ free[i] # NoFrame
    BY <1>2, <1>3, Constants, Zenon
  <2>2. \A s \in Procs : p4[s] = NoFrame
    BY <1>1, Zenon
  <2>3. \A i, j \in 1..Len(free) : free[i] = free[j] => i = j
    BY <1>3, Zenon
  <2> QED BY <1>5, <2>1, <2>2, <2>3, Zenon DEF Apart
<1>11. Tidy
  <2>1. Complete(map, free, p4, dropped)
    BY <1>2, <1>3, Zenon DEF Complete
  <2>2. \A q \in Procs : p4[q] = NoFrame /\ (code[q] <=> table[q] = q)
    BY <1>1, Constants, Zenon
  <2> QED BY <1>5, <2>1, <2>2, Zenon DEF Tidy
<1> QED BY <1>6, <1>7, <1>8, <1>9, <1>10, <1>11, Zenon DEF IInv

LEMMA StutterInv == ASSUME IInv, UNCHANGED vars PROVE IInv'
<1>1. UNCHANGED <<free, map, p4, table, start, usage, children, end, code, nextPid, forking,
                  state, lostVars>>
  BY Zenon DEF vars
<1>2. /\ TypeOK' /\ Fresh' /\ StackTops' /\ Apart(map', free', p4')
      /\ StacksApart' /\ SharedMapped'
  BY <1>1, SameMemory, Zenon
<1>3. MoreTypes' /\ ForkAlive'
  BY <1>1, Zenon DEF IInv, MoreTypes, ForkAlive, Alive, lostVars
<1>4. Tidy'
  BY <1>1, TidySame, Zenon
<1> QED BY <1>2, <1>3, <1>4, ApartPrimed, Zenon DEF IInv

LEMMA NextInv == IInv /\ [Next]_vars => IInv'
<1> SUFFICES ASSUME IInv, [Next]_vars PROVE IInv'
  BY Zenon
<1>1. ASSUME NEW p \in Procs, NEW extra \in {0, 1}, Spawn(p, extra) PROVE IInv'
  BY <1>1, SpawnInv, Zenon
<1>2. ASSUME NEW p \in Procs, ForkBegins(p) PROVE IInv'
  BY <1>2, ForkBeginsInv, Zenon
<1>3. ASSUME NEW p \in Procs, ForkMaps(p) PROVE IInv'
  BY <1>3, ForkMapsInv, Zenon
<1>4. ASSUME ForkRetries PROVE IInv'
  BY <1>4, ForkRetriesInv, Zenon
<1>5. ASSUME NEW p \in Procs, NEW page \in StackPages, PageFault(p, page) PROVE IInv'
  BY <1>5, PageFaultInv, Zenon
<1>6. ASSUME NEW p \in Procs, NEW e \in Brks, Brk(p, e) PROVE IInv'
  BY <1>6, BrkInv, Zenon
<1>7. ASSUME NEW p \in Procs, Exit(p) PROVE IInv'
  BY <1>7, ExitInv, Zenon
<1>8. ASSUME UNCHANGED vars PROVE IInv'
  BY <1>8, StutterInv, Zenon
<1> QED BY <1>1, <1>2, <1>3, <1>4, <1>5, <1>6, <1>7, <1>8, Zenon DEF Next, Stopped, AllGone

\* The inductive invariant holds in every state.
THEOREM Invariance == Spec => []IInv
  BY InitInv, NextInv, PTL DEF Spec

(***************************************************************************)
(* What follows                                                            *)
(***************************************************************************)

\* Tables, stacks and heaps stay within their bounds, and a process has a stack
\* exactly while it is alive.
THEOREM TypeCorrect == Spec => []TypeOK
<1>1. IInv => TypeOK
  BY Zenon DEF IInv
<1> QED BY <1>1, Invariance, PTL

\* For every number of frames and processes: a frame is one page of one
\* table, or one top table, or once in the free list.  map_range,
\* unmap_range, clone_level_4 and the two panicking paths keep it so.
THEOREM OneUsePerFrame == Spec => []FramesApart
<1>1. IInv => FramesApart
  BY Zenon DEF IInv, Apart, FramesApart
<1> QED BY <1>1, Invariance, PTL

\* The stacks that Stack::fork finds for a family, and grow_stack extends,
\* stay mapped and in slots of their own.
THEOREM StacksKeepApart == Spec => []StacksApart
<1>1. IInv => StacksApart
  BY Zenon DEF IInv
<1> QED BY <1>1, Invariance, PTL

\* clean_up by one member of a family takes nothing that the others use.
THEOREM FamilyKeepsMemory == Spec => []SharedMapped
<1>1. IInv => SharedMapped
  BY Zenon DEF IInv
<1> QED BY <1>1, Invariance, PTL

\* Frames are lost in four ways only, for every number of processes, frames and
\* pages and every order of spawns, forks, growth, brk and exits: dropped by a
\* map_range that meets a mapped page; left mapped by a map_range that fails or a
\* brk that lowers the end; in the page that load_segment maps behind .bss; and in
\* the code of a family whose last member was forked.  clean_up returns the rest.
THEOREM FramesComeBack == Spec => []NoFrameLost
<1>1. ASSUME IInv PROVE NoFrameLost
  <2> DEFINE Lost(f) == \E t \in Procs, page \in Pages :
                            Users(t) = {} /\ map[t][page] = f /\ Left(t, page)
  <2> SUFFICES ASSUME state = "ok", NEW f \in Frames
               PROVE  \/ InUse(f) \/ (\E i \in 1..Len(free) : free[i] = f) \/ f \in dropped
                      \/ Lost(f)
    BY Zenon DEF NoFrameLost
  <2>1. /\ \/ \E t \in Procs, x \in Pages : map[t][x] = f
           \/ \E t \in Procs : p4[t] = f
           \/ \E i \in 1..Len(free) : free[i] = f
           \/ f \in dropped
        /\ \A t \in Procs, x \in Pages : map[t][x] # NoFrame => (~Used(t) => Left(t, x))
        /\ \A t \in Procs : ~Used(t) => p4[t] = NoFrame
    BY <1>1, Zenon DEF IInv, Tidy, Complete
  <2>2. f # NoFrame
    BY Constants, Zenon
  <2>3. \A t \in Procs : Used(t) <=> Users(t) # {}
    BY Zenon DEF Users, Used
  <2>4. ASSUME NEW t \in Procs, NEW x \in Pages, map[t][x] = f PROVE InUse(f) \/ Lost(f)
    <3>1. CASE Used(t)
      BY <2>3, <2>4, <3>1, Zenon DEF InUse
    <3>2. CASE ~Used(t)
      BY <2>1, <2>2, <2>3, <2>4, <3>2, Zenon
    <3> QED BY <3>1, <3>2, Zenon
  <2>5. ASSUME NEW t \in Procs, p4[t] = f PROVE InUse(f)
    <3>1. Used(t)
      BY <2>1, <2>2, <2>5, Zenon
    <3> QED BY <2>3, <2>5, <3>1, Zenon DEF InUse
  <2> HIDE DEF Lost
  <2> QED BY <2>1, <2>4, <2>5, Zenon
<1>2. IInv => NoFrameLost
  BY <1>1, Zenon
<1> QED BY <1>2, Invariance, PTL
=============================================================================
