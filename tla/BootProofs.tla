----------------------------- MODULE BootProofs -----------------------------
(***************************************************************************)
(* From the firmware to the running kernel, for every size of a page, of   *)
(* the segments, of the memory and of the lists: the kernel is in memory   *)
(* as its headers describe it, its allocator gets every frame that is      *)
(* unused and no other, and window, stack and heap are mapped as promised. *)
(***************************************************************************)
EXTENDS Boot, WellFoundedInduction, TLAPS

(***************************************************************************)
(* The inductive invariant of load_elf                                     *)
(***************************************************************************)

\* The pages of segment k.
First(k) == PageOf(segs[k].vaddr)
LastOfFile(k) == PageOf(segs[k].vaddr + segs[k].file - 1)
LastOfBss(k) == PageOf(segs[k].vaddr + segs[k].mem)
LastOfRange(k) == PageOf(segs[k].vaddr + segs[k].mem - 1)
HasBss(k) == segs[k].mem > segs[k].file
LastMapped(k) == IF HasBss(k) THEN LastOfBss(k) ELSE LastOfFile(k)

\* What belongs at an address.
Byte(addr) ==
    IF addr < segs[1].file THEN <<1, addr>>
    ELSE IF addr >= segs[2].vaddr /\ addr - segs[2].vaddr < segs[2].file
         THEN <<2, addr - segs[2].vaddr>> ELSE Zero

\* The pages are mapped in order, without a gap and with the right contents,
\* and the loops are within the segment.
Loaded ==
    /\ DOMAIN image = 0..(page - 1)
    /\ \A p \in 0..(page - 1) : \A i \in 0..(PAGE - 1) : image[p][i] = Byte(p * PAGE + i)

Place ==
    /\ cur \in 1..2 /\ page \in Nat
    /\ \/ phase = "file" /\ First(cur) <= page /\ page <= LastOfFile(cur) + 1
       \/ phase = "bss" /\ HasBss(cur) /\ LastOfFile(cur) < page /\ page <= LastOfBss(cur) + 1
       \/ phase = "done" /\ cur = 2 /\ page = LastMapped(cur) + 1

Returned ==
    LET n == IF phase = "done" THEN 2 ELSE cur - 1
    IN  /\ ranges \in Seq(SUBSET Int) /\ Len(ranges) = n
        /\ \A k \in 1..n : ranges[k] = First(k)..LastOfRange(k)

ElfInv ==
    /\ segs \in Programs /\ segs[2].mem > 0
    /\ Place /\ Loaded /\ Returned

(***************************************************************************)
(* The inductive invariant of the boot                                     *)
(***************************************************************************)

LoaderStages == {"config", "kernel", "apps", "mmap", "window", "elf", "stack", "free", "exit"}
KernelStages == {"entry", "heap", "run"}

\* The frames that nobody needs.
Unused == {f \in Memory \ Firmware : use[f] = "nothing"}

\* What is allocated is in use and the other way round, until the kernel has
\* the unused frames.
FramesKnown ==
    /\ stage \in LoaderStages =>
           /\ usable = {}
           /\ taken \cap Firmware = {}
           /\ \A f \in Memory : f \in taken <=> use[f] # "nothing"
    /\ stage \in KernelStages => usable = Unused
    /\ usable = {} \/ usable = Unused

\* The kernel's file is one run of frames until it is freed.
FileStages == {"apps", "mmap", "window", "elf", "stack", "free"}
FileFrames == {f \in Memory : use[f] = "file"}

FileKept ==
    /\ stage \in {"config", "kernel"} => FileFrames = {}
    /\ stage \in FileStages => \E s \in Nat : FileFrames = s..(s + LoadPages(KernelSize) - 1)

Uses == {"config", "file", "app", "mmap", "table", "image", "stack", "heap"}

BootTypes ==
    /\ stage \in LoaderStages \cup KernelStages \cup {"panic"}
    /\ ram \in Nat \ {0}
    /\ taken \subseteq Memory
    /\ use \in [Memory -> Uses \cup {"nothing"}]
    /\ stage \notin {"config", "panic"} => conf.size \in Nat /\ conf.grow \in Nat

WindowMapped ==
    stage \in {"elf", "stack", "free", "exit", "entry", "heap", "run"} =>
        window = 0..(MaxFrame \div HUGE)
StackMapped ==
    stage \in {"free", "exit", "entry", "heap", "run"} => stack = StackPages \/ StackPages = {}

\* The frames, and what is mapped outside of the kernel's image.
Frames == BootTypes /\ FramesKnown /\ FileKept
Mapped == WindowMapped /\ StackMapped

BootInv == ElfInv /\ Frames /\ Mapped

(***************************************************************************)
(* Pages and segments                                                      *)
(***************************************************************************)

LEMMA PageFacts ==
    ASSUME NEW a \in Nat
    PROVE  PageOf(a) \in Nat /\ PageOf(a) * PAGE <= a /\ a < PageOf(a) * PAGE + PAGE
  BY ElfConstants DEF PageOf

LEMMA PageIs ==
    ASSUME NEW a \in Nat, NEW k \in Int, k * PAGE <= a, a < k * PAGE + PAGE
    PROVE  PageOf(a) = k
  BY ElfConstants DEF PageOf

LEMMA Offset ==
    ASSUME NEW a \in Nat
    PROVE  a % PAGE \in 0..(PAGE - 1) /\ a % PAGE = a - PageOf(a) * PAGE
  BY ElfConstants DEF PageOf

LEMMA PageMono ==
    ASSUME NEW a \in Nat, NEW b \in Nat, a <= b
    PROVE  PageOf(a) <= PageOf(b)
  BY ElfConstants DEF PageOf

\* The first page boundary at or behind an address, and its page.
LEMMA Aligned ==
    ASSUME NEW a \in Nat
    PROVE  LET k == PageOf(a + PAGE - 1)
           IN  /\ k \in Nat /\ AlignUp(a) = k * PAGE /\ PageOf(AlignUp(a)) = k
               /\ k * PAGE \in Nat /\ a <= k * PAGE /\ k * PAGE < a + PAGE
<1> DEFINE k == PageOf(a + PAGE - 1)
           m == k * PAGE
<1>1. PAGE \in Nat \ {0} /\ a + PAGE - 1 \in Nat
  BY ElfConstants
<1>2. k \in Nat /\ k * PAGE <= a + PAGE - 1 /\ a + PAGE - 1 < k * PAGE + PAGE
  BY <1>1, PageFacts
<1>3. m \in Nat /\ AlignUp(a) = m
  BY <1>1, <1>2 DEF AlignUp
<1>4. a <= m /\ m < a + PAGE /\ k * PAGE <= m /\ m < k * PAGE + PAGE
  BY <1>1, <1>2, <1>3
<1>5. PageOf(m) = k
  <2> HIDE DEF k, m
  <2> QED BY <1>2, <1>3, <1>4, PageIs
<1> QED BY <1>2, <1>3, <1>4, <1>5

LEMMA Segments ==
    ASSUME segs \in Programs, segs[2].mem > 0
    PROVE  /\ Len(segs) = 2 /\ DOMAIN segs = 1..2
           /\ segs[1].vaddr = 0 /\ segs[1].file \in Nat \ {0} /\ segs[1].mem = segs[1].file
           /\ segs[2].vaddr = AlignUp(segs[1].file)
           /\ segs[2].file \in Nat /\ segs[2].mem \in Nat \ {0} /\ segs[2].file <= segs[2].mem
<1>1. PICK f \in 1..MaxFile, g \in 0..MaxFile, b \in 0..MaxBss :
          segs = <<Segment(0, f, f), Segment(AlignUp(f), g, g + b)>>
  BY DEF Programs
<1>2. /\ segs[1].vaddr = 0 /\ segs[1].file = f /\ segs[1].mem = f
      /\ segs[2].vaddr = AlignUp(f) /\ segs[2].file = g /\ segs[2].mem = g + b
      /\ Len(segs) = 2 /\ DOMAIN segs = 1..2
  BY <1>1 DEF Segment
<1> QED BY <1>2, ElfConstants

\* The second segment begins behind the last page of the first.
LEMMA SecondFollows ==
    ASSUME segs \in Programs, segs[2].mem > 0
    PROVE  /\ First(1) = 0 /\ First(2) \in Nat \ {0}
           /\ First(2) * PAGE \in Nat /\ segs[2].vaddr = First(2) * PAGE
           /\ segs[1].file <= First(2) * PAGE
           /\ LastOfFile(1) = First(2) - 1 /\ LastOfRange(1) = First(2) - 1
<1> DEFINE F == segs[1].file
           k == PageOf(F + PAGE - 1)
           m == k * PAGE
<1>1. F \in Nat \ {0} /\ segs[1].mem = F /\ segs[1].vaddr = 0 /\ segs[2].vaddr = AlignUp(F)
  BY Segments
<1> HIDE DEF F
<1>2. /\ k \in Nat /\ AlignUp(F) = m /\ PageOf(AlignUp(F)) = k
      /\ m \in Nat /\ F <= m /\ m < F + PAGE
  BY <1>1, Aligned
<1>3. PAGE \in Nat \ {0}
  BY ElfConstants
<1>4. First(2) = k
  BY <1>1, <1>2 DEF First
<1>5. First(1) = 0
  BY <1>1, <1>3, PageIs DEF First
<1>6. k # 0
  <2>1. 0 * PAGE = 0
    BY <1>3
  <2>2. m # 0
    BY <1>1, <1>2
  <2> HIDE DEF k
  <2> QED BY <2>1, <2>2
<1>7. PageOf(F - 1) = k - 1
  <2>1. (k - 1) * PAGE = m - PAGE
    BY <1>2, <1>3
  <2>2. F - 1 \in Nat /\ k - 1 \in Int /\ m - PAGE <= F - 1 /\ F - 1 < m - PAGE + PAGE
    BY <1>1, <1>2, <1>3
  <2> HIDE DEF k, m
  <2>3. (k - 1) * PAGE <= F - 1 /\ F - 1 < (k - 1) * PAGE + PAGE
    BY <2>1, <2>2
  <2> QED BY <2>2, <2>3, PageIs
<1>8. segs[1].vaddr + segs[1].file - 1 = F - 1 /\ segs[1].vaddr + segs[1].mem - 1 = F - 1
  BY <1>1 DEF F
<1>9. LastOfFile(1) = k - 1 /\ LastOfRange(1) = k - 1
  BY <1>7, <1>8 DEF LastOfFile, LastOfRange
<1> HIDE DEF k
<1> QED BY <1>1, <1>2, <1>4, <1>5, <1>6, <1>9 DEF F

\* The pages of .bss follow those of the file; they may go one page further
\* than the range that load_segment returns.
LEMMA BssFollows ==
    ASSUME segs \in Programs, segs[2].mem > 0
    PROVE  LET stop == segs[2].vaddr + segs[2].mem
           IN  /\ LastOfFile(2) \in Nat /\ LastOfBss(2) \in Nat /\ LastOfRange(2) \in Nat
               /\ First(2) - 1 <= LastOfFile(2) /\ First(2) <= LastOfRange(2)
               /\ PageOf(AlignUp(segs[2].vaddr + segs[2].file)) = LastOfFile(2) + 1
               /\ segs[2].vaddr + segs[2].file <= (LastOfFile(2) + 1) * PAGE
               /\ HasBss(2) => LastOfFile(2) <= LastOfBss(2)
               /\ ~HasBss(2) => LastOfRange(2) = LastOfFile(2)
               /\ LastOfBss(2) = IF stop % PAGE = 0 THEN LastOfRange(2) + 1 ELSE LastOfRange(2)
<1> DEFINE v == segs[2].vaddr
           g == segs[2].file
           m == segs[2].mem
           V == First(2)
           L == LastOfFile(2)
           lp == L * PAGE
           R == LastOfRange(2)
           rp == R * PAGE
<1>1. /\ v \in Nat /\ g \in Nat /\ m \in Nat \ {0} /\ g <= m /\ V \in Nat \ {0}
      /\ V * PAGE = v /\ PAGE \in Nat \ {0}
  BY Segments, SecondFollows, ElfConstants
<1>2. v > 0 /\ v + g - 1 \in Nat /\ v + m - 1 \in Nat /\ v + m \in Nat /\ v + g \in Nat
  BY <1>1
<1>3. L = PageOf(v + g - 1) /\ R = PageOf(v + m - 1) /\ LastOfBss(2) = PageOf(v + m)
  BY DEF LastOfFile, LastOfRange, LastOfBss
<1>4. HasBss(2) <=> m > g
  BY DEF HasBss
<1> HIDE DEF v, g, m, V, L, R
<1>5. /\ L \in Nat /\ lp <= v + g - 1 /\ v + g - 1 < lp + PAGE
      /\ R \in Nat /\ rp <= v + m - 1 /\ v + m - 1 < rp + PAGE
  BY <1>2, <1>3, PageFacts
<1>6. lp \in Nat /\ (L + 1) * PAGE = lp + PAGE /\ rp \in Nat /\ (R + 1) * PAGE = rp + PAGE
  BY <1>1, <1>5
<1> HIDE DEF lp, rp
<1>7. PageOf(v) = V
  BY <1>1, PageIs
<1>8. V - 1 <= L
  <2>1. PageOf(v - 1) = V - 1
    <3>1. (V - 1) * PAGE = v - PAGE
      BY <1>1
    <3>2. (V - 1) * PAGE <= v - 1 /\ v - 1 < (V - 1) * PAGE + PAGE /\ v - 1 \in Nat
      BY <1>1, <1>2, <3>1
    <3> QED BY <1>1, <3>2, PageIs
  <2> QED BY <1>1, <1>2, <1>3, <2>1, PageMono
<1>9. V <= R
  BY <1>1, <1>2, <1>3, <1>7, PageMono
<1>10. PageOf(AlignUp(v + g)) = L + 1
  <2>1. v + g + PAGE - 1 \in Nat /\ lp + PAGE <= v + g + PAGE - 1
        /\ v + g + PAGE - 1 < lp + PAGE + PAGE /\ L + 1 \in Int
    BY <1>1, <1>2, <1>5, <1>6
  <2>2. PageOf(v + g + PAGE - 1) = L + 1
    BY <1>6, <2>1, PageIs
  <2> QED BY <1>2, <2>2, Aligned
<1>11. v + g <= (L + 1) * PAGE
  BY <1>1, <1>5, <1>6
<1>12. LastOfBss(2) \in Nat /\ (m > g => L <= LastOfBss(2))
  BY <1>1, <1>2, <1>3, PageFacts, PageMono
<1>13. m = g => R = L
  BY <1>3
<1>14. LastOfBss(2) = IF (v + m) % PAGE = 0 THEN R + 1 ELSE R
  <2>1. CASE v + m = rp + PAGE
    <3>1. PageOf(v + m) = R + 1
      <4>1. (R + 1) * PAGE <= v + m /\ v + m < (R + 1) * PAGE + PAGE /\ R + 1 \in Int
        BY <1>1, <1>5, <1>6, <2>1
      <4> QED BY <1>2, <4>1, PageIs
    <3>2. (v + m) % PAGE = 0
      BY <1>2, <1>6, <2>1, <3>1, Offset
    <3> QED BY <1>3, <3>1, <3>2
  <2>2. CASE v + m < rp + PAGE
    <3>1. PageOf(v + m) = R
      <4>1. R * PAGE <= v + m /\ v + m < R * PAGE + PAGE
        BY <1>1, <1>2, <1>5, <1>6, <2>2 DEF rp
      <4> QED BY <1>2, <1>5, <4>1, PageIs
    <3>2. (v + m) % PAGE # 0
      <4> DEFINE x == (v + m) % PAGE
      <4>1. x = (v + m) - PageOf(v + m) * PAGE
        BY <1>2, Offset
      <4> HIDE DEF x
      <4>2. x = (v + m) - rp
        BY <3>1, <4>1 DEF rp
      <4>3. x # 0
        BY <1>1, <1>2, <1>5, <1>6, <4>2
      <4> QED BY <4>3 DEF x
    <3> QED BY <1>3, <3>1, <3>2
  <2> QED BY <1>1, <1>2, <1>5, <1>6, <2>1, <2>2
<1> QED BY <1>1, <1>4, <1>5, <1>8, <1>9, <1>10, <1>11, <1>12, <1>13, <1>14 DEF v, g, m, V, L, R

(***************************************************************************)
(* load_elf                                                                *)
(***************************************************************************)

\* The file's last page is the one before the next segment or .bss.
LEMMA FilePlace ==
    ASSUME ElfInv, phase = "file"
    PROVE  /\ cur \in 1..2 /\ page \in Nat /\ First(cur) <= page /\ page <= LastOfFile(cur) + 1
           /\ First(cur) \in Nat /\ LastOfFile(cur) \in Int
           /\ StartPage = First(cur) /\ FileEnd = LastOfFile(cur) /\ RangeEnd = LastOfRange(cur)
           /\ (Seg.mem > Seg.file) <=> HasBss(cur)
<1>1. /\ cur \in 1..2 /\ page \in Nat /\ First(cur) <= page /\ page <= LastOfFile(cur) + 1
  BY DEF ElfInv, Place
<1>2. \A k \in 1..2 : First(k) \in Nat /\ LastOfFile(k) \in Int
  BY SecondFollows, BssFollows DEF ElfInv
<1> QED BY <1>1, <1>2
        DEF StartPage, FileEnd, RangeEnd, Seg, First, LastOfFile, LastOfRange, HasBss

\* Mapping the next page with what belongs there keeps the image loaded.
LEMMA PageMapped ==
    ASSUME ElfInv, NEW bytes, MapPage(bytes), page' = page + 1, UNCHANGED segs,
           \A i \in 0..(PAGE - 1) : bytes[i] = Byte(page * PAGE + i)
    PROVE  Loaded'
<1>1. page \in Nat /\ DOMAIN image = 0..(page - 1)
      /\ \A p \in 0..(page - 1) : \A i \in 0..(PAGE - 1) : image[p][i] = Byte(p * PAGE + i)
  BY DEF ElfInv, Place, Loaded
<1>2. DOMAIN image \cup {page} = 0..(page' - 1)
  BY <1>1
<1>3. /\ DOMAIN image' = 0..(page' - 1)
      /\ \A p \in 0..(page' - 1) : image'[p] = IF p = page THEN bytes ELSE image[p]
  BY <1>2 DEF MapPage
<1>4. \A a : Byte(a)' = Byte(a)
  BY DEF Byte, Zero
<1>5. ASSUME NEW p \in 0..(page' - 1), NEW i \in 0..(PAGE - 1)
      PROVE  image'[p][i] = Byte(p * PAGE + i)
  <2>1. CASE p = page
    BY <1>3, <2>1
  <2>2. CASE p # page
    BY <1>1, <1>3, <2>2
  <2> QED BY <2>1, <2>2
<1> QED BY <1>3, <1>4, <1>5 DEF Loaded

LEMMA LoadFilePageInv == ASSUME ElfInv, LoadFilePage PROVE ElfInv'
<1>1. /\ phase = "file" /\ page <= LastOfFile(cur) /\ cur \in 1..2 /\ page \in Nat
      /\ First(cur) <= page /\ First(cur) \in Nat /\ LastOfFile(cur) \in Int
      /\ MapPage(FilePage((page - First(cur)) * PAGE)) /\ page' = page + 1
      /\ UNCHANGED <<segs, cur, phase, ranges>>
  BY FilePlace DEF LoadFilePage, AtFilePage
<1>2. PAGE \in Nat \ {0} /\ page * PAGE \in Nat
  BY <1>1, ElfConstants
<1> DEFINE off == (page - First(cur)) * PAGE
           pp == page * PAGE
<1>3. ASSUME NEW i \in 0..(PAGE - 1)
      PROVE  FilePage(off)[i] = Byte(pp + i)
  <2>1. FilePage(off)[i] = IF off + i < segs[cur].file THEN <<cur, off + i>> ELSE Zero
    BY <1>3 DEF FilePage, Seg
  <2>2. CASE cur = 1
    <3>1. page <= First(2) - 1 /\ First(1) = 0 /\ First(2) \in Nat
          /\ segs[2].vaddr = First(2) * PAGE /\ First(2) * PAGE \in Nat
      BY <1>1, <2>2, SecondFollows DEF ElfInv
    <3>2. off = pp
      BY <1>1, <2>2, <3>1
    <3>3. pp + i < First(2) * PAGE
      <4>1. pp + PAGE = (page + 1) * PAGE /\ (page + 1) * PAGE <= First(2) * PAGE
        BY <1>1, <1>2, <3>1
      <4> QED BY <1>2, <1>3, <3>1, <4>1
    <3>4. ~(pp + i >= segs[2].vaddr)
      BY <1>2, <1>3, <3>1, <3>3
    <3> HIDE DEF off, pp
    <3> QED BY <2>1, <2>2, <3>2, <3>4 DEF Byte
  <2>3. CASE cur = 2
    <3>1. /\ First(2) <= page /\ First(2) \in Nat /\ segs[2].vaddr = First(2) * PAGE
          /\ First(2) * PAGE \in Nat /\ segs[1].file <= First(2) * PAGE
          /\ segs[1].file \in Nat
      BY <1>1, <2>3, SecondFollows, Segments, Zenon DEF ElfInv
    <3>2. off = pp - segs[2].vaddr
      BY <1>1, <1>2, <2>3, <3>1
    <3>3. First(2) * PAGE <= pp
      BY <1>1, <1>2, <3>1
    <3> HIDE DEF off, pp
    <3>4. ~(pp + i < segs[1].file) /\ pp + i >= segs[2].vaddr /\ off + i = (pp + i) - segs[2].vaddr
      BY <1>2, <1>3, <3>1, <3>2, <3>3 DEF pp
    <3> QED BY <2>1, <2>3, <3>4, Zenon DEF Byte
  <2> QED BY <1>1, <2>2, <2>3
<1>4. Loaded'
  BY <1>1, <1>3, PageMapped, Zenon
<1>5. Place'
  BY <1>1 DEF Place, First, LastOfFile
<1>6. Returned'
  BY <1>1, Zenon DEF ElfInv, Returned, First, LastOfRange
<1> QED BY <1>1, <1>4, <1>5, <1>6 DEF ElfInv

LEMMA EnterBssInv == ASSUME ElfInv, EnterBss PROVE ElfInv'
<1>1. /\ phase = "file" /\ page > LastOfFile(cur) /\ HasBss(cur) /\ phase' = "bss"
      /\ page' = PageOf(AlignUp(segs[cur].vaddr + segs[cur].file))
      /\ UNCHANGED <<segs, cur, image, ranges>>
  BY FilePlace DEF EnterBss, BssStart, Seg
<1>2. /\ cur \in 1..2 /\ page \in Nat /\ page <= LastOfFile(cur) + 1 /\ LastOfFile(cur) \in Int
  BY <1>1, FilePlace
<1>3. ~HasBss(1)
  BY Segments DEF ElfInv, HasBss
<1>4. cur = 2
  BY <1>1, <1>2, <1>3
<1>5. /\ page' = LastOfFile(2) + 1 /\ LastOfFile(2) <= LastOfBss(2) /\ LastOfBss(2) \in Nat
  BY <1>1, <1>4, BssFollows DEF ElfInv
<1>6. page' = page
  <2>1. /\ page \in Nat /\ page > LastOfFile(2) /\ page <= LastOfFile(2) + 1
        /\ LastOfFile(2) \in Int /\ page' = LastOfFile(2) + 1
    BY <1>1, <1>2, <1>4, <1>5, Zenon
  <2> QED BY <2>1
<1>7. Place'
  BY <1>1, <1>2, <1>4, <1>5, <1>6 DEF Place, HasBss, LastOfFile, LastOfBss
<1>8. Loaded'
  BY <1>1, <1>6, Zenon DEF ElfInv, Loaded, Byte, Zero
<1>9. Returned'
  BY <1>1, Zenon DEF ElfInv, Returned, First, LastOfRange
<1> QED BY <1>1, <1>7, <1>8, <1>9 DEF ElfInv

\* .bss is in the second segment.
LEMMA BssPlace ==
    ASSUME ElfInv, phase = "bss"
    PROVE  /\ cur = 2 /\ page \in Nat /\ HasBss(2) /\ LastOfFile(2) < page /\ page <= LastOfBss(2) + 1
           /\ LastOfFile(2) \in Nat /\ LastOfBss(2) \in Nat
           /\ BssEnd = LastOfBss(2) /\ StartPage = First(2) /\ RangeEnd = LastOfRange(2)
<1>1. ~HasBss(1)
  BY Segments DEF ElfInv, HasBss
<1>2. /\ cur \in 1..2 /\ page \in Nat /\ HasBss(cur)
      /\ LastOfFile(cur) < page /\ page <= LastOfBss(cur) + 1
  BY DEF ElfInv, Place
<1>3. cur = 2
  BY <1>1, <1>2
<1>4. LastOfFile(2) \in Nat /\ LastOfBss(2) \in Nat
  BY BssFollows DEF ElfInv
<1> QED BY <1>2, <1>3, <1>4
        DEF BssEnd, StartPage, RangeEnd, Seg, LastOfBss, First, LastOfRange

LEMMA LoadBssPageInv == ASSUME ElfInv, LoadBssPage PROVE ElfInv'
<1>1. /\ phase = "bss" /\ page <= LastOfBss(2) /\ page' = page + 1
      /\ MapPage([i \in 0..(PAGE - 1) |-> Zero]) /\ UNCHANGED <<segs, cur, phase, ranges>>
  BY BssPlace DEF LoadBssPage, AtBssPage
<1>2. /\ cur = 2 /\ page \in Nat /\ LastOfFile(2) < page /\ LastOfFile(2) \in Nat
      /\ LastOfBss(2) \in Nat /\ HasBss(2)
  BY <1>1, BssPlace, Zenon
<1>3. /\ segs[1].file \in Nat /\ segs[2].file \in Nat /\ segs[2].vaddr \in Nat
      /\ segs[1].file <= segs[2].vaddr
      /\ segs[2].vaddr + segs[2].file <= (LastOfFile(2) + 1) * PAGE
  BY Segments, SecondFollows, BssFollows DEF ElfInv
<1> DEFINE pp == page * PAGE
<1>4. PAGE \in Nat \ {0} /\ pp \in Nat /\ (LastOfFile(2) + 1) * PAGE <= pp
  BY <1>2, ElfConstants
<1> HIDE DEF pp
<1>5. ASSUME NEW i \in 0..(PAGE - 1) PROVE Byte(pp + i) = Zero
  <2>1. /\ ~(pp + i < segs[1].file) /\ ~((pp + i) - segs[2].vaddr < segs[2].file)
    <3>1. segs[2].vaddr + segs[2].file <= pp
      <4> DEFINE q == (LastOfFile(2) + 1) * PAGE
      <4>1. q \in Nat
        BY <1>2, <1>4
      <4> HIDE DEF q
      <4> QED BY <1>3, <1>4, <4>1 DEF q
    <3> QED BY <1>3, <1>4, <1>5, <3>1
  <2> QED BY <2>1, Zenon DEF Byte
<1>6. Loaded'
  BY <1>1, <1>5, PageMapped, Zenon DEF pp
<1>7. Place'
  BY <1>1, <1>2 DEF Place, HasBss, LastOfFile, LastOfBss
<1>8. Returned'
  BY <1>1 DEF ElfInv, Returned, First, LastOfRange
<1> QED BY <1>1, <1>6, <1>7, <1>8, Zenon DEF ElfInv

LEMMA FinishSegmentInv == ASSUME ElfInv, FinishSegment PROVE ElfInv'
<1>1. /\ ranges' = Append(ranges, StartPage..RangeEnd) /\ UNCHANGED <<segs, image>>
      /\ IF cur < Len(segs)
         THEN cur' = cur + 1 /\ page' = PageOf(segs[cur + 1].vaddr) /\ phase' = "file"
         ELSE phase' = "done" /\ UNCHANGED <<cur, page>>
      /\ \/ phase = "file" /\ page > FileEnd /\ Seg.mem = Seg.file
         \/ phase = "bss" /\ page > BssEnd
  BY DEF FinishSegment
<1>2. /\ Len(segs) = 2 /\ \A k \in 1..2 : segs[k].mem \in Nat /\ segs[k].file \in Nat
      /\ segs[1].mem = segs[1].file
  BY Segments DEF ElfInv
<1>3. /\ First(2) \in Nat \ {0} /\ First(1) = 0 /\ LastOfFile(1) = First(2) - 1
      /\ LastOfRange(1) = First(2) - 1 /\ LastOfRange(2) \in Nat
  BY SecondFollows, BssFollows, Zenon DEF ElfInv
<1>4. /\ phase \in {"file", "bss"} /\ cur \in 1..2 /\ page = LastMapped(cur) + 1
      /\ StartPage = First(cur) /\ RangeEnd = LastOfRange(cur) /\ page \in Nat
      /\ cur = 1 => page = LastOfFile(1) + 1
  <2>1. CASE phase = "file" /\ page > FileEnd /\ Seg.mem = Seg.file
    <3>1. ~HasBss(cur)
      BY <1>2, <2>1, FilePlace DEF Seg, HasBss
    <3> QED BY <2>1, <3>1, FilePlace DEF LastMapped
  <2>2. CASE phase = "bss" /\ page > BssEnd
    BY <2>2, BssPlace DEF LastMapped
  <2> QED BY <1>1, <2>1, <2>2
<1>5. /\ ranges \in Seq(SUBSET Int) /\ Len(ranges) = cur - 1
      /\ \A k \in 1..(cur - 1) : ranges[k] = First(k)..LastOfRange(k)
  BY <1>4, Zenon DEF ElfInv, Returned
<1>6. /\ ranges' \in Seq(SUBSET Int) /\ Len(ranges') = cur
      /\ \A k \in 1..cur : ranges'[k] = First(k)..LastOfRange(k)
  BY <1>1, <1>4, <1>5
<1>7. page' = page
  <2>1. CASE cur = 1
    BY <1>1, <1>2, <1>3, <1>4, <2>1 DEF First
  <2>2. CASE cur = 2
    BY <1>1, <1>2, <2>2
  <2> QED BY <1>4, <2>1, <2>2
<1>8. Loaded'
  BY <1>1, <1>7, Zenon DEF ElfInv, Loaded, Byte, Zero
<1>9. (cur = 1 /\ cur' = 2 /\ phase' = "file") \/ (cur = 2 /\ cur' = 2 /\ phase' = "done")
  BY <1>1, <1>2, <1>4
<1>10. Returned'
  BY <1>1, <1>6, <1>9 DEF Returned, First, LastOfRange
<1>11. Place'
  <2>1. CASE cur = 1 /\ cur' = 2 /\ phase' = "file"
    <3>1. First(2)' = First(2) /\ LastOfFile(2)' = LastOfFile(2)
      BY <1>1, Zenon DEF First, LastOfFile
    <3>2. First(2) - 1 <= LastOfFile(2) /\ LastOfFile(2) \in Nat
      BY BssFollows DEF ElfInv
    <3>3. page' = First(2)
      BY <1>3, <1>4, <1>7, <2>1
    <3> QED BY <1>3, <2>1, <3>1, <3>2, <3>3 DEF Place
  <2>2. CASE cur = 2 /\ cur' = 2 /\ phase' = "done"
    BY <1>1, <1>4, <1>7, <2>2, Zenon DEF Place, LastMapped, HasBss, LastOfBss, LastOfFile
  <2> QED BY <1>9, <2>1, <2>2, Zenon
<1> QED BY <1>1, <1>8, <1>10, <1>11 DEF ElfInv

LEMMA ElfInit == ASSUME Init PROVE ElfInv
<1>1. segs \in Programs /\ segs[2].mem > 0 /\ cur = 1 /\ page = First(1) /\ phase = "file"
      /\ image = << >> /\ ranges = << >>
  BY DEF Init, First
<1>2. First(1) = 0 /\ First(2) \in Nat \ {0} /\ LastOfFile(1) = First(2) - 1
  BY <1>1, SecondFollows, Zenon
<1>3. Place
  BY <1>1, <1>2 DEF Place
<1>4. Loaded
  BY <1>1, <1>2 DEF Loaded
<1>5. Returned
  BY <1>1 DEF Returned
<1> QED BY <1>1, <1>3, <1>4, <1>5, Zenon DEF ElfInv

LEMMA ElfUnchanged == ASSUME ElfInv, UNCHANGED vars PROVE ElfInv'
  BY Zenon DEF ElfInv, vars, Place, Loaded, Returned, First, LastOfFile, LastOfBss, LastOfRange,
         HasBss, LastMapped, Byte, Zero

(***************************************************************************)
(* What load_elf leaves                                                    *)
(***************************************************************************)

\* All of the program's addresses are mapped.
LEMMA AddressMapped ==
    ASSUME ElfInv, phase = "done", NEW a \in Nat, PageOf(a) <= LastMapped(2)
    PROVE  PageOf(a) \in DOMAIN image /\ ByteAt(a) = Byte(a)
<1>1. page = LastMapped(2) + 1 /\ page \in Nat
  BY DEF ElfInv, Place
<1>2. PageOf(a) \in Nat /\ PageOf(a) * PAGE \in Nat /\ PAGE \in Nat
  BY PageFacts, ElfConstants
<1>3. LastMapped(2) \in Int
  BY BssFollows DEF ElfInv, LastMapped
<1>4. PageOf(a) \in 0..(page - 1)
  BY <1>1, <1>2, <1>3
<1>5. a % PAGE \in 0..(PAGE - 1) /\ PageOf(a) * PAGE + (a % PAGE) = a
  <2> DEFINE m == PageOf(a) * PAGE
  <2>1. a % PAGE \in 0..(PAGE - 1) /\ a % PAGE = a - m /\ m \in Nat
    BY Offset, <1>2
  <2> HIDE DEF m
  <2>2. m + (a % PAGE) = a
    BY <2>1
  <2> QED BY <2>1, <2>2, Zenon DEF m
<1> QED BY <1>4, <1>5, Zenon DEF ElfInv, Loaded, ByteAt

\* The pages that are mapped go as far as the ranges do.
LEMMA RangesMapped ==
    ASSUME ElfInv
    PROVE  /\ LastOfRange(2) \in Nat /\ LastMapped(2) \in Nat /\ LastOfRange(2) <= LastMapped(2)
           /\ First(1) = 0 /\ LastOfRange(1) = First(2) - 1
           /\ First(2) \in Nat /\ First(2) <= LastOfRange(2)
           /\ LastMapped(2) = IF HasBss(2) /\ (segs[2].vaddr + segs[2].mem) % PAGE = 0
                              THEN LastOfRange(2) + 1 ELSE LastOfRange(2)
  BY SecondFollows, BssFollows DEF ElfInv, LastMapped

LEMMA ImageLoadedInv == ElfInv => ImageLoaded
<1> SUFFICES ASSUME ElfInv, phase = "done", NEW k \in DOMAIN segs, NEW i \in 0..(segs[k].mem - 1)
             PROVE  /\ PageOf(segs[k].vaddr + i) \in DOMAIN image
                    /\ ByteAt(segs[k].vaddr + i) = IF i < segs[k].file THEN <<k, i>> ELSE Zero
  BY Zenon DEF ImageLoaded
<1>1. /\ k \in 1..2 /\ segs[1].vaddr = 0 /\ segs[1].file \in Nat /\ segs[1].mem = segs[1].file
      /\ segs[2].vaddr \in Nat /\ segs[1].file <= segs[2].vaddr
      /\ segs[2].file \in Nat /\ segs[2].mem \in Nat
  BY Segments, SecondFollows, Zenon DEF ElfInv
<1>2. CASE k = 1
  <2>1. i \in Nat /\ segs[1].file - 1 \in Nat /\ i <= segs[1].file - 1 /\ segs[1].vaddr + i = i
    BY <1>1, <1>2
  <2>2. PageOf(i) <= PageOf(segs[1].file - 1) /\ PageOf(i) \in Nat
    BY <2>1, PageMono, PageFacts, Zenon
  <2>3. PageOf(segs[1].file - 1) = LastOfRange(1)
    BY <1>1, <2>1 DEF LastOfRange
  <2>4. PageOf(i) <= LastMapped(2)
    BY <2>2, <2>3, RangesMapped
  <2>5. Byte(i) = <<1, i>>
    BY <1>1, <2>1 DEF Byte
  <2> QED BY <1>1, <1>2, <2>1, <2>4, <2>5, AddressMapped
<1>3. CASE k = 2
  <2> DEFINE a == segs[2].vaddr + i
             z == segs[2].vaddr + segs[2].mem - 1
  <2>1. i \in Nat /\ a \in Nat /\ z \in Nat /\ a <= z
    BY <1>1, <1>3
  <2>2. PageOf(a) <= PageOf(z) /\ PageOf(a) \in Nat
    BY <2>1, PageMono, PageFacts, Zenon
  <2>3. PageOf(z) = LastOfRange(2)
    BY Zenon DEF LastOfRange
  <2>4. PageOf(a) <= LastMapped(2)
    BY <2>2, <2>3, RangesMapped
  <2>5. ~(a < segs[1].file) /\ a >= segs[2].vaddr /\ a - segs[2].vaddr = i
    BY <1>1, <2>1
  <2>6. Byte(a) = IF i < segs[2].file THEN <<2, i>> ELSE Zero
    <3> HIDE DEF a
    <3> QED BY <2>5, Zenon DEF Byte
  <2>7. PageOf(a) \in DOMAIN image /\ ByteAt(a) = Byte(a)
    <3> HIDE DEF a
    <3> QED BY <2>1, <2>4, AddressMapped, Zenon
  <2> QED BY <1>3, <2>6, <2>7, Zenon
<1> QED BY <1>1, <1>2, <1>3

LEMMA ReturnedRanges ==
    ASSUME ElfInv
    PROVE  LET n == IF phase = "done" THEN 2 ELSE cur - 1
           IN  /\ DOMAIN ranges = 1..n
               /\ \A k \in 1..n : ranges[k] = First(k)..LastOfRange(k)
<1> DEFINE n == IF phase = "done" THEN 2 ELSE cur - 1
<1>1. /\ ranges \in Seq(SUBSET Int) /\ Len(ranges) = n
      /\ \A k \in 1..n : ranges[k] = First(k)..LastOfRange(k)
  BY Zenon DEF ElfInv, Returned
<1> HIDE DEF n
<1>2. DOMAIN ranges = 1..n
  BY <1>1
<1> QED BY <1>1, <1>2 DEF n

LEMMA RangesUnmappableInv == ElfInv => RangesUnmappable
<1> SUFFICES ASSUME ElfInv PROVE RangesUnmappable
  OBVIOUS
<1> DEFINE n == IF phase = "done" THEN 2 ELSE cur - 1
<1>1. /\ DOMAIN ranges = 1..n /\ DOMAIN image = 0..(page - 1) /\ page \in Nat
      /\ \A k \in 1..n : ranges[k] = First(k)..LastOfRange(k)
  BY ReturnedRanges, Zenon DEF ElfInv, Loaded, Place
<1>2. n \in {0, 1, 2} /\ (n = 1 => First(2) <= page) /\ (n = 2 => page = LastMapped(2) + 1)
  <2>1. First(2) \in Nat /\ LastOfFile(2) \in Nat /\ First(2) - 1 <= LastOfFile(2)
    BY RangesMapped, BssFollows, Zenon DEF ElfInv
  <2>2. CASE phase = "done"
    BY <2>2 DEF ElfInv, Place
  <2>3. CASE phase # "done"
    <3>1. cur \in 1..2 /\ n = cur - 1
      BY <2>3, Zenon DEF ElfInv, Place
    <3>2. ASSUME cur = 2 PROVE First(2) <= page
      BY <2>1, <2>3, <3>2 DEF ElfInv, Place
    <3> QED BY <3>1, <3>2
  <2> QED BY <2>2, <2>3, Zenon
<1> HIDE DEF n
<1>3. ASSUME NEW k \in DOMAIN ranges PROVE ranges[k] \subseteq DOMAIN image
  <2>1. CASE k = 1
    <3>1. (n = 1 \/ n = 2) /\ ranges[1] = 0..(First(2) - 1)
      BY <1>1, <1>2, <1>3, <2>1, RangesMapped
    <3> QED BY <1>1, <1>2, <2>1, <3>1, RangesMapped
  <2>2. CASE k = 2
    <3>1. n = 2 /\ ranges[2] = First(2)..LastOfRange(2)
      BY <1>1, <1>2, <1>3, <2>2
    <3> QED BY <1>1, <1>2, <2>2, <3>1, RangesMapped
  <2> QED BY <1>1, <1>2, <1>3, <2>1, <2>2
<1>4. ASSUME NEW k \in DOMAIN ranges, NEW l \in DOMAIN ranges, k # l
      PROVE  ranges[k] \cap ranges[l] = {}
  <2>1. n = 2 /\ ((k = 1 /\ l = 2) \/ (k = 2 /\ l = 1))
    BY <1>1, <1>2, <1>4
  <2>2. ranges[1] = 0..(First(2) - 1) /\ ranges[2] = First(2)..LastOfRange(2)
    BY <1>1, <2>1, RangesMapped, Zenon
  <2> QED BY <2>1, <2>2, RangesMapped
<1> QED BY <1>3, <1>4 DEF RangesUnmappable

LEMMA OneUnreturnedInv == ElfInv => OneUnreturned
<1> SUFFICES ASSUME ElfInv, phase = "done"
             PROVE  DOMAIN image \ UNION {ranges[k] : k \in DOMAIN ranges} =
                        IF HasBss(2) /\ (segs[2].vaddr + segs[2].mem) % PAGE = 0
                        THEN {LastOfBss(2)} ELSE {}
  <2>1. ElfInv => Len(segs) = 2
    BY Segments DEF ElfInv
  <2> QED BY <2>1, Zenon DEF OneUnreturned, HasBss, LastOfBss
<1>1. /\ DOMAIN ranges = 1..2 /\ DOMAIN image = 0..(page - 1)
      /\ ranges[1] = First(1)..LastOfRange(1) /\ ranges[2] = First(2)..LastOfRange(2)
      /\ page = LastMapped(2) + 1
  <2>1. DOMAIN ranges = 1..2 /\ \A k \in 1..2 : ranges[k] = First(k)..LastOfRange(k)
    BY ReturnedRanges, Zenon
  <2>2. DOMAIN image = 0..(page - 1) /\ page = LastMapped(2) + 1
    BY DEF ElfInv, Loaded, Place
  <2>3. 1 \in 1..2 /\ 2 \in 1..2
    OBVIOUS
  <2> QED BY <2>1, <2>2, <2>3, Zenon
<1>2. UNION {ranges[k] : k \in DOMAIN ranges} = ranges[1] \cup ranges[2]
  <2>1. DOMAIN ranges = {1, 2}
    BY <1>1
  <2> QED BY <2>1, Zenon
<1>3. ranges[1] \cup ranges[2] = 0..LastOfRange(2)
  BY <1>1, RangesMapped
<1>4. DOMAIN image = 0..LastMapped(2)
  BY <1>1, RangesMapped
<1>5. CASE HasBss(2) /\ (segs[2].vaddr + segs[2].mem) % PAGE = 0
  <2>1. LastMapped(2) = LastOfRange(2) + 1 /\ LastOfBss(2) = LastMapped(2)
    BY <1>5, RangesMapped, Zenon DEF LastMapped
  <2> QED BY <1>2, <1>3, <1>4, <1>5, <2>1, RangesMapped
<1>6. CASE ~(HasBss(2) /\ (segs[2].vaddr + segs[2].mem) % PAGE = 0)
  <2>1. LastMapped(2) = LastOfRange(2)
    BY <1>6, RangesMapped
  <2> QED BY <1>2, <1>3, <1>4, <1>6, <2>1, RangesMapped, Zenon
<1> QED BY <1>5, <1>6

(***************************************************************************)
(* Frames                                                                  *)
(***************************************************************************)

LEMMA MinFacts ==
    ASSUME NEW S \in SUBSET Nat, S # {}
    PROVE  Min(S) \in S /\ \A y \in S : Min(S) <= y
<1> DEFINE R == {ss \in Nat \X Nat : ss[1] < ss[2]}
<1>1. IsWellFoundedOn(R, Nat)
  BY NatLessThanWellFounded, Zenon DEF OpToRel
<1>2. \E x \in S : \A y \in S : ~ (<<y, x>> \in R)
  <2> HIDE DEF R
  <2> QED BY <1>1, WFMin, Zenon
<1>3. PICK x \in S : \A y \in S : ~ (<<y, x>> \in R)
  BY <1>2
<1>4. \A y \in S : x <= y
  <2>1. \A y \in S : <<y, x>> \in Nat \X Nat /\ <<y, x>>[1] = y /\ <<y, x>>[2] = x
    OBVIOUS
  <2>2. \A y \in S : ~ (y < x)
    BY <1>3, <2>1, Zenon
  <2> QED BY <2>2
<1> QED BY <1>4, Zenon DEF Min

\* n pages for what: a run of conventional frames, all of them taken.
Takes(n, what) ==
    \E s \in Nat : /\ s..(s + n - 1) \subseteq Conventional
                   /\ taken' = taken \cup s..(s + n - 1)
                   /\ use' = [f \in Memory |-> IF f \in s..(s + n - 1) THEN what ELSE use[f]]

\* allocate_pages gives such a run.
LEMMA Allocated ==
    ASSUME BootTypes, NEW n, NEW what, Allocate(n, what)
    PROVE  Takes(n, what)
<1>1. Memory \subseteq Nat
  BY DEF BootTypes, Memory
<1>2. Runs(n) \in SUBSET Nat /\ Runs(n) # {}
  BY <1>1, Zenon DEF Allocate, Runs
<1>3. Min(Runs(n)) \in Runs(n)
  BY <1>2, MinFacts
<1> DEFINE s == Min(Runs(n))
<1>4. s \in Nat /\ s..(s + n - 1) \subseteq Conventional
  <2> HIDE DEF s
  <2> QED BY <1>1, <1>3, Zenon DEF Runs, s
<1>5. /\ taken' = taken \cup s..(s + n - 1)
      /\ use' = [f \in Memory |-> IF f \in s..(s + n - 1) THEN what ELSE use[f]]
  BY Zenon DEF Allocate
<1> HIDE DEF s
<1> QED BY <1>4, <1>5, Zenon DEF Takes

LEMMA AllocateKnown ==
    ASSUME BootTypes, FramesKnown, stage \in LoaderStages, UNCHANGED <<ram, usable>>,
           NEW n, NEW what \in Uses, Allocate(n, what)
    PROVE  /\ Memory' = Memory /\ taken' \subseteq Memory /\ use' \in [Memory -> Uses \cup {"nothing"}]
           /\ usable' = {} /\ taken' \cap Firmware = {}
           /\ \A f \in Memory : f \in taken' <=> use'[f] # "nothing"
           /\ what # "file" => FileFrames' = FileFrames
           /\ (what = "file" /\ FileFrames = {}) => \E s \in Nat : FileFrames' = s..(s + n - 1)
<1>1. PICK s \in Nat : /\ s..(s + n - 1) \subseteq Conventional
                       /\ taken' = taken \cup s..(s + n - 1)
                       /\ use' = [f \in Memory |-> IF f \in s..(s + n - 1) THEN what ELSE use[f]]
  <2>1. Takes(n, what)
    BY Allocated, Zenon
  <2> QED BY <2>1, Zenon DEF Takes
<1> DEFINE got == s..(s + n - 1)
<1> HIDE DEF got
<1>2. /\ got \subseteq Conventional /\ taken' = taken \cup got
      /\ use' = [f \in Memory |-> IF f \in got THEN what ELSE use[f]]
  BY <1>1 DEF got
<1>3. got \subseteq Memory /\ got \cap Firmware = {} /\ got \cap taken = {}
  BY <1>2, Zenon DEF Conventional
<1>4. Memory' = Memory
  BY DEF Memory
<1>5. /\ usable = {} /\ taken \cap Firmware = {} /\ taken \subseteq Memory /\ use \in [Memory -> Uses \cup {"nothing"}]
      /\ \A f \in Memory : f \in taken <=> use[f] # "nothing"
  BY Zenon DEF FramesKnown, BootTypes
<1>6. \A f \in Memory : use'[f] = IF f \in got THEN what ELSE use[f]
  BY <1>2, Zenon
<1>7. use' \in [Memory -> Uses \cup {"nothing"}]
  BY <1>2, <1>5
<1>8. \A f \in Memory : f \in taken' <=> use'[f] # "nothing"
  <2>1. what # "nothing"
    BY DEF Uses
  <2> QED BY <1>2, <1>5, <1>6, <2>1, Zenon
<1>9. what # "file" => FileFrames' = FileFrames
  <2> SUFFICES ASSUME what # "file" PROVE FileFrames' = FileFrames
    OBVIOUS
  <2>1. \A f \in got : use[f] # "file"
    <3>1. "nothing" # "file"
      OBVIOUS
    <3> QED BY <1>3, <1>5, <3>1, Zenon
  <2> QED BY <1>3, <1>4, <1>6, <2>1, Zenon DEF FileFrames
<1>10. (what = "file" /\ FileFrames = {}) => FileFrames' = got
  BY <1>3, <1>4, <1>6, Zenon DEF FileFrames
<1> QED BY <1>2, <1>3, <1>4, <1>5, <1>7, <1>8, <1>9, <1>10, Zenon DEF got

(***************************************************************************)
(* The steps of the boot                                                   *)
(***************************************************************************)

\* A step of the loader that allocates, and one that does not.
LEMMA AllocateStep ==
    ASSUME Frames, stage \in LoaderStages, stage' \in LoaderStages, UNCHANGED <<ram, usable, segs>>,
           stage' \in FileStages => stage \in FileStages,
           stage' \in {"config", "kernel"} => stage \in {"config", "kernel"},
           stage' # "config" => conf'.size \in Nat /\ conf'.grow \in Nat,
           NEW n, NEW what \in Uses \ {"file"}, Allocate(n, what)
    PROVE  Frames'
<1>1. /\ Memory' = Memory /\ taken' \subseteq Memory /\ use' \in [Memory -> Uses \cup {"nothing"}]
      /\ usable' = {} /\ taken' \cap Firmware = {}
      /\ \A f \in Memory : f \in taken' <=> use'[f] # "nothing"
      /\ FileFrames' = FileFrames
  BY AllocateKnown DEF Frames
<1>2. BootTypes'
  BY <1>1, Zenon DEF Frames, BootTypes
<1>3. stage' \notin KernelStages
  BY DEF LoaderStages, KernelStages
<1>4. FramesKnown'
  BY <1>1, <1>3, Zenon DEF FramesKnown
<1>5. FileKept'
  <2>1. KernelSize' = KernelSize
    BY DEF KernelSize
  <2>2. LoadPages(KernelSize)' = LoadPages(KernelSize)
    BY <2>1 DEF LoadPages
  <2> QED BY <1>1, <2>2, Zenon DEF Frames, FileKept
<1> QED BY <1>2, <1>4, <1>5, Zenon DEF Frames

LEMMA QuietStep ==
    ASSUME Frames, stage \in LoaderStages, stage' \in LoaderStages,
           UNCHANGED <<ram, usable, segs, taken, use>>,
           stage' \in FileStages => stage \in FileStages,
           stage' \in {"config", "kernel"} => stage \in {"config", "kernel"},
           stage' # "config" => conf'.size \in Nat /\ conf'.grow \in Nat
    PROVE  Frames'
<1>1. Memory' = Memory
  BY DEF Memory
<1>2. BootTypes'
  BY <1>1, Zenon DEF Frames, BootTypes
<1>3. stage' \notin KernelStages
  BY DEF LoaderStages, KernelStages
<1>4. FramesKnown'
  BY <1>1, <1>3, Zenon DEF Frames, FramesKnown
<1>5. FileKept'
  <2>1. KernelSize' = KernelSize
    BY DEF KernelSize
  <2>2. LoadPages(KernelSize)' = LoadPages(KernelSize)
    BY <2>1 DEF LoadPages
  <2>3. FileFrames' = FileFrames
    BY <1>1 DEF FileFrames
  <2> QED BY <2>2, <2>3, Zenon DEF Frames, FileKept
<1> QED BY <1>2, <1>4, <1>5, Zenon DEF Frames

LEMMA MappedBefore ==
    ASSUME stage' \in {"config", "kernel", "apps", "mmap", "window", "panic"}
    PROVE  Mapped'
  BY DEF Mapped, WindowMapped, StackMapped

LEMMA WindowSame == ASSUME UNCHANGED ram PROVE MaxFrame' = MaxFrame
  BY DEF MaxFrame

LEMMA LoadConfigInv == ASSUME BootInv, LoadConfig PROVE BootInv'
<1>1. /\ stage = "config" /\ stage' = "kernel" /\ Allocate(LoadPages(1), "config")
      /\ conf'.size \in Nat /\ conf'.grow \in Nat /\ UNCHANGED <<vars, ram, usable>>
  BY ConfNumbers DEF LoadConfig
<1>2. UNCHANGED <<ram, usable, segs>> /\ Frames
  BY <1>1 DEF vars, BootInv
<1>3. /\ stage \in LoaderStages /\ stage' \in LoaderStages /\ stage' \notin FileStages
      /\ stage \in {"config", "kernel"} /\ "config" \in Uses \ {"file"}
  BY <1>1 DEF LoaderStages, FileStages, Uses
<1>4. Frames'
  BY <1>1, <1>2, <1>3, AllocateStep, Zenon
<1>5. ElfInv'
  BY <1>1, ElfUnchanged DEF BootInv
<1> QED BY <1>1, <1>4, <1>5, MappedBefore, Zenon DEF BootInv

LEMMA KernelPages ==
    ASSUME ElfInv
    PROVE  KernelSize \in Nat /\ LoadPages(KernelSize) \in Nat \ {0}
<1>1. KernelSize \in Nat
  <2>1. segs \in Programs /\ segs[2].mem > 0
    BY Zenon DEF ElfInv
  <2>2. Len(segs) = 2 /\ segs[2].file \in Nat
    BY <2>1, Segments, Zenon
  <2>3. segs[2].vaddr \in Nat
    BY <2>1, SecondFollows, Zenon
  <2> QED BY <2>2, <2>3 DEF KernelSize
<1> QED BY <1>1, ElfConstants DEF LoadPages

LEMMA LoadKernelInv == ASSUME BootInv, LoadKernel PROVE BootInv'
<1>1. /\ stage = "kernel" /\ stage' \in {"apps", "mmap"} /\ Allocate(LoadPages(KernelSize), "file")
      /\ UNCHANGED <<vars, ram, conf, usable>>
  BY Zenon DEF LoadKernel
<1>2. UNCHANGED segs /\ KernelSize' = KernelSize
  BY <1>1 DEF vars, KernelSize
<1>3. /\ Memory' = Memory /\ taken' \subseteq Memory /\ use' \in [Memory -> Uses \cup {"nothing"}]
      /\ usable' = {} /\ taken' \cap Firmware = {}
      /\ \A f \in Memory : f \in taken' <=> use'[f] # "nothing"
      /\ \E s \in Nat : FileFrames' = s..(s + LoadPages(KernelSize) - 1)
  <2>1. FileFrames = {} /\ stage \in LoaderStages /\ "file" \in Uses
    BY <1>1 DEF BootInv, Frames, FileKept, LoaderStages, Uses
  <2>2. BootTypes /\ FramesKnown /\ UNCHANGED <<ram, usable>>
    BY <1>1 DEF BootInv, Frames
  <2> DEFINE n == LoadPages(KernelSize)
  <2> HIDE DEF n
  <2>3. Allocate(n, "file")
    BY <1>1, Zenon DEF n
  <2> QED BY <2>1, <2>2, <2>3, AllocateKnown, Zenon DEF n
<1>4. BootTypes'
  BY <1>1, <1>3, Zenon DEF BootInv, Frames, BootTypes, LoaderStages
<1>5. FramesKnown'
  BY <1>1, <1>3, Zenon DEF FramesKnown, KernelStages
<1>6. FileKept'
  BY <1>1, <1>2, <1>3 DEF FileKept, LoadPages
<1>7. ElfInv'
  BY <1>1, ElfUnchanged DEF BootInv
<1> QED BY <1>1, <1>4, <1>5, <1>6, <1>7, MappedBefore DEF BootInv, Frames

LEMMA SkipEntryInv == ASSUME BootInv, SkipEntry \/ AppsLoaded PROVE BootInv'
<1>1. /\ stage = "apps" /\ stage' \in {"apps", "mmap"}
      /\ UNCHANGED <<vars, ram, conf, taken, use, usable>>
  BY DEF SkipEntry, AppsLoaded
<1>2. UNCHANGED <<ram, usable, segs, taken, use>> /\ Frames
  BY <1>1, Zenon DEF vars, BootInv
<1>3. /\ stage \in LoaderStages /\ stage' \in LoaderStages /\ stage \in FileStages
      /\ stage' \notin {"config", "kernel"} /\ conf'.size \in Nat /\ conf'.grow \in Nat
  BY <1>1 DEF LoaderStages, FileStages, BootInv, Frames, BootTypes
<1>4. Frames'
  BY <1>2, <1>3, QuietStep, Zenon
<1>5. ElfInv'
  BY <1>1, ElfUnchanged, Zenon DEF BootInv
<1> QED BY <1>1, <1>4, <1>5, MappedBefore, Zenon DEF BootInv

LEMMA LoadAppInv == ASSUME BootInv, LoadApp PROVE BootInv'
<1>1. /\ stage = "apps" /\ stage' = "apps" /\ Allocate(LoadPages(Entry.size), "app")
      /\ UNCHANGED <<vars, ram, conf, usable>>
  BY DEF LoadApp
<1>2. UNCHANGED <<ram, usable, segs>> /\ Frames
  BY <1>1, Zenon DEF vars, BootInv
<1>3. /\ stage \in LoaderStages /\ stage' \in LoaderStages /\ stage \in FileStages
      /\ stage' \notin {"config", "kernel"} /\ conf'.size \in Nat /\ conf'.grow \in Nat
      /\ "app" \in Uses \ {"file"}
  BY <1>1 DEF LoaderStages, FileStages, BootInv, Frames, BootTypes, Uses
<1>4. Frames'
  BY <1>1, <1>2, <1>3, AllocateStep, Zenon
<1>5. ElfInv'
  BY <1>1, ElfUnchanged DEF BootInv
<1> QED BY <1>1, <1>4, <1>5, MappedBefore, Zenon DEF BootInv

LEMMA LoadMemoryMapInv == ASSUME BootInv, LoadMemoryMap PROVE BootInv'
<1>1. /\ stage = "mmap" /\ stage' = "window" /\ Allocate(1, "mmap")
      /\ UNCHANGED <<vars, ram, conf, usable>>
  BY DEF LoadMemoryMap
<1>2. UNCHANGED <<ram, usable, segs>> /\ Frames
  BY <1>1, Zenon DEF vars, BootInv
<1>3. /\ stage \in LoaderStages /\ stage' \in LoaderStages /\ stage \in FileStages
      /\ stage' \notin {"config", "kernel"} /\ conf'.size \in Nat /\ conf'.grow \in Nat
      /\ "mmap" \in Uses \ {"file"}
  BY <1>1 DEF LoaderStages, FileStages, BootInv, Frames, BootTypes, Uses
<1>4. Frames'
  BY <1>1, <1>2, <1>3, AllocateStep, Zenon
<1>5. ElfInv'
  BY <1>1, ElfUnchanged DEF BootInv
<1> QED BY <1>1, <1>4, <1>5, MappedBefore, Zenon DEF BootInv

LEMMA NewTableInv == ASSUME BootInv, NewTable PROVE BootInv'
<1>1. /\ stage \in {"window", "elf", "stack"} /\ stage' = stage /\ Allocate(1, "table")
      /\ UNCHANGED <<vars, ram, conf, usable, window, stack, heap>>
  BY DEF NewTable
<1>2. UNCHANGED <<ram, usable, segs>> /\ Frames
  BY <1>1, Zenon DEF vars, BootInv
<1>3. /\ stage \in LoaderStages /\ stage' \in LoaderStages /\ stage \in FileStages
      /\ stage' \notin {"config", "kernel"} /\ conf'.size \in Nat /\ conf'.grow \in Nat
      /\ "table" \in Uses \ {"file"}
  BY <1>1 DEF LoaderStages, FileStages, BootInv, Frames, BootTypes, Uses
<1>4. Frames'
  BY <1>1, <1>2, <1>3, AllocateStep, Zenon
<1>5. ElfInv'
  BY <1>1, ElfUnchanged, Zenon DEF BootInv
<1>6. Mapped'
  BY <1>1, WindowSame, Zenon DEF BootInv, Mapped, WindowMapped, StackMapped
<1> QED BY <1>4, <1>5, <1>6, Zenon DEF BootInv

LEMMA MapPhysicalMemoryInv == ASSUME BootInv, MapPhysicalMemory PROVE BootInv'
<1>1. /\ stage = "window" /\ stage' = "elf" /\ window' = 0..(MaxFrame \div HUGE)
      /\ UNCHANGED <<vars, ram, conf, taken, use, usable, stack, heap>>
  BY DEF MapPhysicalMemory
<1>2. UNCHANGED <<ram, usable, segs, taken, use>> /\ Frames
  BY <1>1, Zenon DEF vars, BootInv
<1>3. /\ stage \in LoaderStages /\ stage' \in LoaderStages /\ stage \in FileStages
      /\ stage' \notin {"config", "kernel"} /\ conf'.size \in Nat /\ conf'.grow \in Nat
  BY <1>1 DEF LoaderStages, FileStages, BootInv, Frames, BootTypes
<1>4. Frames'
  BY <1>2, <1>3, QuietStep, Zenon
<1>5. ElfInv'
  BY <1>1, ElfUnchanged, Zenon DEF BootInv
<1>6. Mapped'
  BY <1>1, WindowSame DEF Mapped, WindowMapped, StackMapped
<1> QED BY <1>4, <1>5, <1>6 DEF BootInv

LEMMA LoadElfStepInv == ASSUME BootInv, LoadElfStep PROVE BootInv'
<1>1. /\ stage = "elf" /\ stage' \in {"elf", "stack", "free"}
      /\ stage' = "free" => StackPages = {}
      /\ \/ (LoadFilePage \/ LoadBssPage) /\ Allocate(1, "image")
         \/ (EnterBss \/ FinishSegment) /\ UNCHANGED <<taken, use>>
      /\ UNCHANGED <<ram, conf, window, stack, usable, heap>>
  BY DEF LoadElfStep
<1>2. ElfInv'
  BY <1>1, LoadFilePageInv, LoadBssPageInv, EnterBssInv, FinishSegmentInv, Zenon DEF BootInv
<1>3. UNCHANGED segs
  BY <1>1 DEF LoadFilePage, LoadBssPage, EnterBss, FinishSegment
<1>4. UNCHANGED <<ram, usable, segs>> /\ Frames
  BY <1>1, <1>3, Zenon DEF BootInv
<1>5. /\ stage \in LoaderStages /\ stage' \in LoaderStages /\ stage \in FileStages
      /\ stage' \notin {"config", "kernel"} /\ conf'.size \in Nat /\ conf'.grow \in Nat
      /\ "image" \in Uses \ {"file"}
  BY <1>1, Zenon DEF LoaderStages, FileStages, BootInv, Frames, BootTypes, Uses
<1>6. Frames'
  <2>1. CASE Allocate(1, "image")
    BY <1>4, <1>5, <2>1, AllocateStep, Zenon
  <2>2. CASE UNCHANGED <<taken, use>>
    <3>1. UNCHANGED <<ram, usable, segs, taken, use>>
      BY <1>4, <2>2, Zenon
    <3> QED BY <1>4, <1>5, <3>1, QuietStep, Zenon
  <2> QED BY <1>1, <2>1, <2>2, Zenon
<1>7. StackPages' = StackPages
  BY <1>1, Zenon DEF StackPages
<1>8. Mapped'
  BY <1>1, <1>7, WindowSame, Zenon DEF BootInv, Mapped, WindowMapped, StackMapped
<1> QED BY <1>2, <1>6, <1>8, Zenon DEF BootInv

LEMMA MapStackPageInv == ASSUME BootInv, MapStackPage PROVE BootInv'
<1>1. /\ stage = "stack" /\ stage' = IF stack' = StackPages THEN "free" ELSE "stack"
      /\ Allocate(1, "stack") /\ UNCHANGED <<vars, ram, conf, usable, window, heap>>
  BY Zenon DEF MapStackPage
<1>2. UNCHANGED <<ram, usable, segs>> /\ Frames
  BY <1>1, Zenon DEF vars, BootInv
<1>3. /\ stage \in LoaderStages /\ stage' \in LoaderStages /\ stage \in FileStages
      /\ stage' \notin {"config", "kernel"} /\ conf'.size \in Nat /\ conf'.grow \in Nat
      /\ "stack" \in Uses \ {"file"}
  BY <1>1 DEF LoaderStages, FileStages, BootInv, Frames, BootTypes, Uses
<1>4. Frames'
  BY <1>1, <1>2, <1>3, AllocateStep, Zenon
<1>5. ElfInv'
  BY <1>1, ElfUnchanged, Zenon DEF BootInv
<1>6. StackPages' = StackPages
  BY <1>1, Zenon DEF StackPages
<1>7. Mapped'
  BY <1>1, <1>6, WindowSame, Zenon DEF BootInv, Mapped, WindowMapped, StackMapped
<1> QED BY <1>4, <1>5, <1>7 DEF BootInv

\* free_elf frees the frames of the file, all of them and no other.
LEMMA FreeElfInv == ASSUME BootInv, FreeElf PROVE BootInv'
<1> DEFINE n == LoadPages(KernelSize)
<1>1. /\ stage = "free" /\ stage' = "exit"
      /\ taken' = taken \ Min(FileFrames)..(Min(FileFrames) + n - 1)
      /\ use' = [f \in Memory |-> IF use[f] = "file" THEN "nothing" ELSE use[f]]
      /\ UNCHANGED <<vars, ram, conf, usable, window, stack, heap>>
  BY DEF FreeElf, FileFrames, FreePages, LoadPages
<1>2. n \in Nat \ {0}
  BY KernelPages, Zenon DEF BootInv
<1> HIDE DEF n
<1>3. PICK s \in Nat : FileFrames = s..(s + n - 1)
  BY <1>1 DEF BootInv, Frames, FileKept, FileStages, n
<1>4. Min(FileFrames) = s
  <2>1. FileFrames \in SUBSET Nat /\ s \in FileFrames /\ \A y \in FileFrames : s <= y
    BY <1>2, <1>3
  <2>2. Min(FileFrames) \in FileFrames /\ Min(FileFrames) <= s
    BY <2>1, MinFacts
  <2> DEFINE low == Min(FileFrames)
  <2> HIDE DEF low
  <2>3. low \in FileFrames /\ low <= s
    BY <2>2 DEF low
  <2>4. low = s
    BY <2>1, <2>3
  <2> QED BY <2>4 DEF low
<1>5. taken' = taken \ FileFrames
  BY <1>1, <1>3, <1>4, Zenon
<1>6. Memory' = Memory
  BY <1>1, Zenon DEF Memory
<1>7. /\ usable = {} /\ taken \cap Firmware = {} /\ taken \subseteq Memory
      /\ use \in [Memory -> Uses \cup {"nothing"}]
      /\ \A f \in Memory : f \in taken <=> use[f] # "nothing"
  BY <1>1, Zenon DEF BootInv, Frames, FramesKnown, BootTypes, LoaderStages
<1>8. \A f \in Memory : use'[f] = IF f \in FileFrames THEN "nothing" ELSE use[f]
  BY <1>1 DEF FileFrames
<1>9. \A f \in Memory : f \in taken' <=> use'[f] # "nothing"
  BY <1>5, <1>7, <1>8, Zenon
<1>10. BootTypes'
  <2>1. taken' \subseteq Memory' /\ use' \in [Memory' -> Uses \cup {"nothing"}]
    BY <1>1, <1>5, <1>6, <1>7, Zenon
  <2> QED BY <1>1, <2>1, Zenon DEF BootInv, Frames, BootTypes, LoaderStages
<1>11. FramesKnown'
  <2>1. usable' = {} /\ taken' \cap Firmware = {}
    BY <1>1, <1>5, <1>7, Zenon
  <2> QED BY <1>1, <1>6, <1>9, <2>1, Zenon DEF FramesKnown, KernelStages
<1>12. FileKept'
  BY <1>1, Zenon DEF FileKept, FileStages
<1>13. StackPages' = StackPages
  BY <1>1, Zenon DEF StackPages
<1>14. Mapped'
  BY <1>1, <1>13, WindowSame, Zenon DEF BootInv, Mapped, WindowMapped, StackMapped
<1>15. ElfInv'
  BY <1>1, ElfUnchanged, Zenon DEF BootInv
<1> QED BY <1>10, <1>11, <1>12, <1>14, <1>15, Zenon DEF BootInv, Frames

LEMMA ExitBootServicesInv == ASSUME BootInv, ExitBootServices PROVE BootInv'
<1>1. /\ stage = "exit" /\ stage' = "entry" /\ Allocate(1, "mmap")
      /\ usable' = Memory \ (Firmware \cup taken')
      /\ UNCHANGED <<vars, ram, conf, window, stack, heap>>
  BY Zenon DEF ExitBootServices, HandedOver
<1>2. Memory \subseteq Nat /\ BootTypes /\ FramesKnown
  BY DEF BootInv, Frames, BootTypes, Memory
<1>3. PICK s \in Nat : /\ s..(s + 1 - 1) \subseteq Conventional
                       /\ taken' = taken \cup s..(s + 1 - 1)
                       /\ use' = [f \in Memory |-> IF f \in s..(s + 1 - 1) THEN "mmap" ELSE use[f]]
  <2>1. Takes(1, "mmap")
    BY <1>1, <1>2, Allocated, Zenon
  <2> QED BY <2>1, Zenon DEF Takes
<1> DEFINE got == s..(s + 1 - 1)
<1> HIDE DEF got
<1>4. /\ got \subseteq Memory /\ taken' = taken \cup got
      /\ use' = [f \in Memory |-> IF f \in got THEN "mmap" ELSE use[f]]
  BY <1>3, Zenon DEF got, Conventional
<1>5. /\ taken \subseteq Memory /\ use \in [Memory -> Uses \cup {"nothing"}]
      /\ \A f \in Memory : f \in taken <=> use[f] # "nothing"
  BY <1>1, <1>2 DEF FramesKnown, BootTypes, LoaderStages
<1>6. Memory' = Memory
  BY <1>1 DEF Memory
<1>7. \A f \in Memory : use'[f] = IF f \in got THEN "mmap" ELSE use[f]
  BY <1>4
<1>8. \A f \in Memory : f \in taken' <=> use'[f] # "nothing"
  <2>1. "mmap" # "nothing"
    OBVIOUS
  <2> QED BY <1>4, <1>5, <1>7, <2>1, Zenon
<1>9. usable' = Unused'
  BY <1>1, <1>6, <1>8, Zenon DEF Unused
<1>10. FramesKnown'
  BY <1>1, <1>9 DEF FramesKnown, LoaderStages
<1>11. BootTypes'
  <2>1. taken' \subseteq Memory' /\ use' \in [Memory' -> Uses \cup {"nothing"}]
    <3>1. "mmap" \in Uses
      BY DEF Uses
    <3> QED BY <1>4, <1>5, <1>6, <3>1, Zenon
  <2> QED BY <1>1, <1>2, <2>1, Zenon DEF BootTypes, KernelStages
<1>12. FileKept'
  BY <1>1, Zenon DEF FileKept, FileStages
<1>13. StackPages' = StackPages
  BY <1>1, Zenon DEF StackPages
<1>14. Mapped'
  BY <1>1, <1>13, WindowSame, Zenon DEF BootInv, Mapped, WindowMapped, StackMapped
<1>15. ElfInv'
  BY <1>1, ElfUnchanged, Zenon DEF BootInv
<1> QED BY <1>10, <1>11, <1>12, <1>14, <1>15, Zenon DEF BootInv, Frames

LEMMA KernelAllocated ==
    ASSUME Memory \subseteq Nat, use \in [Memory -> Uses \cup {"nothing"}], usable = Unused,
           UNCHANGED ram, NEW what \in Uses, KernelAllocate(what)
    PROVE  usable' = Unused' /\ use' \in [Memory -> Uses \cup {"nothing"}]
<1> DEFINE x == Min(usable)
<1>1. usable \in SUBSET Nat /\ usable # {} /\ usable \subseteq Memory
  BY Zenon DEF KernelAllocate, Unused
<1>2. x \in usable
  BY <1>1, MinFacts
<1>3. usable' = usable \ {x} /\ use' = [use EXCEPT ![x] = what]
  BY DEF KernelAllocate
<1> HIDE DEF x
<1>4. Memory' = Memory /\ what # "nothing"
  BY DEF Memory, Uses
<1>5. \A f \in Memory : use'[f] = IF f = x THEN what ELSE use[f]
  BY <1>3
<1>6. usable' = Unused'
  BY <1>1, <1>2, <1>3, <1>4, <1>5, Zenon DEF Unused
<1>7. use' \in [Memory -> Uses \cup {"nothing"}]
  BY <1>1, <1>2, <1>3, Zenon
<1> QED BY <1>6, <1>7, Zenon

LEMMA MapHeapPageInv == ASSUME BootInv, MapHeapPage PROVE BootInv'
<1>1. /\ stage = "heap" /\ stage' \in KernelStages
      /\ \E what \in Uses : KernelAllocate(what)
      /\ UNCHANGED <<vars, ram, conf, taken, window, stack>>
  <2>1. "table" \in Uses /\ "heap" \in Uses
    BY Zenon DEF Uses
  <2> QED BY <2>1 DEF MapHeapPage, KernelStages
<1>2. /\ Memory \subseteq Nat /\ use \in [Memory -> Uses \cup {"nothing"}] /\ usable = Unused
  BY <1>1 DEF BootInv, Frames, FramesKnown, BootTypes, Memory, KernelStages
<1>3. usable' = Unused' /\ use' \in [Memory -> Uses \cup {"nothing"}]
  BY <1>1, <1>2, KernelAllocated, Zenon
<1>4. Memory' = Memory
  BY <1>1, Zenon DEF Memory
<1>5. FramesKnown'
  BY <1>1, <1>3, Zenon DEF FramesKnown, LoaderStages, KernelStages
<1>6. BootTypes'
  BY <1>1, <1>3, <1>4, Zenon DEF BootInv, Frames, BootTypes, KernelStages
<1>7. FileKept'
  BY <1>1, Zenon DEF FileKept, FileStages, KernelStages
<1>8. StackPages' = StackPages
  BY <1>1, Zenon DEF StackPages
<1>9. Mapped'
  BY <1>1, <1>8, WindowSame, Zenon
     DEF BootInv, Mapped, WindowMapped, StackMapped, KernelStages
<1>10. ElfInv'
  BY <1>1, ElfUnchanged, Zenon DEF BootInv
<1> QED BY <1>5, <1>6, <1>7, <1>9, <1>10, Zenon DEF BootInv, Frames

LEMMA JumpToEntryInv == ASSUME BootInv, JumpToEntry PROVE BootInv'
<1>1. /\ stage = "entry" /\ stage' \in {"heap", "panic"}
      /\ UNCHANGED <<vars, ram, conf, taken, use, window, stack, usable>>
  BY Zenon DEF JumpToEntry
<1>2. Memory' = Memory
  BY <1>1, Zenon DEF Memory
<1>3. BootTypes'
  BY <1>1, <1>2, Zenon DEF BootInv, Frames, BootTypes, KernelStages
<1>4. usable = Unused /\ Unused' = Unused
  BY <1>1, <1>2, Zenon DEF BootInv, Frames, FramesKnown, Unused, KernelStages
<1>5. FramesKnown'
  BY <1>1, <1>4, Zenon DEF FramesKnown, LoaderStages
<1>6. FileKept'
  BY <1>1, Zenon DEF FileKept, FileStages
<1>7. StackPages' = StackPages
  BY <1>1, Zenon DEF StackPages
<1>8. Mapped'
  BY <1>1, <1>7, WindowSame, Zenon DEF BootInv, Mapped, WindowMapped, StackMapped
<1>9. ElfInv'
  BY <1>1, ElfUnchanged, Zenon DEF BootInv
<1> QED BY <1>3, <1>5, <1>6, <1>8, <1>9, Zenon DEF BootInv, Frames

LEMMA PanicInv == ASSUME BootInv, Panic PROVE BootInv'
<1>1. stage' = "panic" /\ UNCHANGED <<vars, ram, conf, taken, use, usable>>
  BY Zenon DEF Panic
<1>2. Memory' = Memory
  BY <1>1, Zenon DEF Memory
<1>3. BootTypes'
  BY <1>1, <1>2, Zenon DEF BootInv, Frames, BootTypes, FramesKnown, LoaderStages
<1>4. FramesKnown'
  BY <1>1, <1>2, Zenon DEF BootInv, Frames, FramesKnown, Unused, LoaderStages, KernelStages
<1>5. FileKept'
  BY <1>1, Zenon DEF FileKept, FileStages
<1>6. ElfInv'
  BY <1>1, ElfUnchanged, Zenon DEF BootInv
<1> QED BY <1>1, <1>3, <1>4, <1>5, <1>6, MappedBefore, Zenon DEF BootInv, Frames

LEMMA BootUnchanged == ASSUME BootInv, UNCHANGED allVars PROVE BootInv'
<1>1. UNCHANGED vars /\ UNCHANGED segs
      /\ UNCHANGED <<stage, ram, conf, taken, use, window, stack, usable, heap>>
  BY Zenon DEF allVars, vars, boot
<1>2. Memory' = Memory
  BY <1>1, Zenon DEF Memory
<1>3. KernelSize' = KernelSize /\ FileFrames' = FileFrames
  BY <1>1, <1>2, Zenon DEF KernelSize, FileFrames
<1>4. Frames'
  BY <1>1, <1>2, <1>3, Zenon
     DEF BootInv, Frames, BootTypes, FramesKnown, Unused, FileKept, LoadPages
<1>5. Mapped'
  BY <1>1, WindowSame, Zenon DEF BootInv, Mapped, WindowMapped, StackMapped, StackPages
<1> QED BY <1>1, <1>4, <1>5, ElfUnchanged, Zenon DEF BootInv

LEMMA BootStart == ASSUME BootInit PROVE BootInv
<1>1. /\ Init /\ stage = "config" /\ ram \in RamSizes
      /\ taken = {} /\ use = [f \in Memory |-> "nothing"] /\ usable = {}
  BY DEF BootInit
<1>2. ElfInv
  BY <1>1, ElfInit, Zenon
<1>3. \A f \in Memory : use[f] = "nothing"
  BY <1>1, Zenon
<1>4. BootTypes
  BY <1>1, BootConstants, Zenon DEF BootTypes, LoaderStages
<1>5. FramesKnown
  BY <1>1, <1>3, Zenon DEF FramesKnown, KernelStages
<1>6. FileKept
  <2>1. FileFrames = {}
    BY <1>3, Zenon DEF FileFrames
  <2> QED BY <1>1, <2>1, Zenon DEF FileKept, FileStages
<1>7. Mapped
  BY <1>1 DEF Mapped, WindowMapped, StackMapped
<1> QED BY <1>2, <1>4, <1>5, <1>6, <1>7, Zenon DEF BootInv, Frames

\* Every step of the boot keeps its inductive invariant.
THEOREM BootInvariance == BootSpec => []BootInv
<1>1. BootInit => BootInv
  BY BootStart
<1>2. BootInv /\ [BootNext]_allVars => BootInv'
  <2> SUFFICES ASSUME BootInv, [BootNext]_allVars PROVE BootInv'
    OBVIOUS
  <2>1. CASE LoadConfig \/ LoadKernel \/ SkipEntry \/ LoadApp \/ AppsLoaded
    BY <2>1, LoadConfigInv, LoadKernelInv, SkipEntryInv, LoadAppInv, Zenon
  <2>2. CASE LoadMemoryMap \/ NewTable \/ MapPhysicalMemory \/ LoadElfStep
    BY <2>2, LoadMemoryMapInv, NewTableInv, MapPhysicalMemoryInv, LoadElfStepInv, Zenon
  <2>3. CASE MapStackPage \/ FreeElf \/ ExitBootServices \/ JumpToEntry \/ MapHeapPage \/ Panic
    BY <2>3, MapStackPageInv, FreeElfInv, ExitBootServicesInv, JumpToEntryInv, MapHeapPageInv,
       PanicInv, Zenon
  <2>4. CASE Booted \/ UNCHANGED allVars
    BY <2>4, BootUnchanged DEF Booted
  <2> QED BY <2>1, <2>2, <2>3, <2>4, Zenon DEF BootNext
<1> QED BY <1>1, <1>2, PTL DEF BootSpec

(***************************************************************************)
(* What the boot promises                                                  *)
(***************************************************************************)

\* load_elf leaves the bytes of the file and the zeroes of .bss at their
\* addresses, for every size of a page and of the segments.
THEOREM KernelImage == BootSpec => []ImageLoaded
<1>1. BootInv => ImageLoaded
  BY ImageLoadedInv, Zenon DEF BootInv
<1> QED BY <1>1, BootInvariance, PTL

\* The page ranges that load_elf returns are mapped and disjoint, so that
\* clean_up can unmap them.
THEOREM KernelRanges == BootSpec => []RangesUnmappable
<1>1. BootInv => RangesUnmappable
  BY RangesUnmappableInv DEF BootInv
<1> QED BY <1>1, BootInvariance, PTL

\* load_elf maps one page more than it returns exactly when .bss ends on a
\* page boundary.
THEOREM UnreturnedPage == BootSpec => []OneUnreturned
<1>1. BootInv => OneUnreturned
  BY OneUnreturnedInv DEF BootInv
<1> QED BY <1>1, BootInvariance, PTL

\* The frames that BootInfoFrameAllocator gets from the memory map hold nothing.
THEOREM AllocatorSound == BootSpec => []UsableUnused
<1>1. BootInv => UsableUnused
  BY Zenon DEF BootInv, Frames, FramesKnown, Unused, UsableUnused
<1> QED BY <1>1, BootInvariance, PTL

\* Every frame that holds nothing comes to the kernel, those of free_elf included.
THEOREM AllocatorComplete == BootSpec => []NothingLost
<1>1. BootInv => NothingLost
  BY DEF BootInv, Frames, FramesKnown, Unused, NothingLost, KernelStages
<1> QED BY <1>1, BootInvariance, PTL

LEMMA DivMono ==
    ASSUME NEW a \in Nat, NEW b \in Nat, NEW h \in Nat \ {0}, a <= b
    PROVE  a \div h \in 0..(b \div h)
  OBVIOUS

LEMMA MaxFrameFacts ==
    ASSUME ram \in Nat
    PROVE  MaxFrame \in Nat /\ ram <= MaxFrame /\ MMIO_END <= MaxFrame
<1> DEFINE S == {ram, MMIO_END}
<1>1. \E x \in S : \A y \in S : x >= y
  <2>1. ram >= MMIO_END \/ MMIO_END >= ram
    BY BootConstants
  <2> QED BY <2>1, BootConstants
<1>2. Max(S) \in S /\ \A y \in S : Max(S) >= y
  <2> HIDE DEF S
  <2> QED BY <1>1, Zenon DEF Max
<1>3. MaxFrame \in {ram, MMIO_END} /\ MaxFrame >= ram /\ MaxFrame >= MMIO_END
  BY <1>2, Zenon DEF MaxFrame
<1> QED BY <1>3, BootConstants, Zenon

\* The window at physical_memory_offset covers all memory and the I/O APIC.
THEOREM WindowComplete == BootSpec => []WindowCovers
<1>1. BootInv => WindowCovers
  <2> SUFFICES ASSUME BootInv, stage = "run", NEW f \in Memory \cup {IoApic}
               PROVE  f \div HUGE \in window
    BY Zenon DEF WindowCovers
  <2>1. ram \in Nat \ {0} /\ window = 0..(MaxFrame \div HUGE)
    BY DEF BootInv, Frames, BootTypes, Mapped, WindowMapped
  <2>2. MaxFrame \in Nat /\ f \in Nat /\ f <= MaxFrame
    BY <2>1, MaxFrameFacts, BootConstants DEF Memory
  <2> QED BY <2>1, <2>2, DivMono, BootConstants, Zenon
<1> QED BY <1>1, BootInvariance, PTL

\* Whatever boot.conf says, the kernel enters with its stack pointer on a
\* mapped page, unless both sizes are 0; and the shipped boot.conf maps the
\* pages that Stack::kstack assumes.
THEOREM StackMappedForKernel == BootSpec => []StackReady
<1>1. BootInv => StackReady
  <2> SUFFICES ASSUME BootInv, stage = "entry" PROVE StackReady
    BY Zenon DEF StackReady
  <2>1. (stack = StackPages \/ StackPages = {}) /\ conf.size \in Nat /\ conf.grow \in Nat
    BY Zenon DEF BootInv, Frames, BootTypes, Mapped, StackMapped
  <2>2. FirstPush \in StackPages \/ (conf.size = 0 /\ conf.grow = 0)
    BY <2>1 DEF StackPages, FirstPush
  <2>3. conf.size = 0 /\ conf.grow = 0 => ~(conf.grow = KSTACK_DEF_PAGE)
    BY BootConstants
  <2>4. conf.size = STACK_MAX_PAGES /\ conf.grow = KSTACK_DEF_PAGE =>
            StackPages = (STACK_MAX_PAGES - KSTACK_DEF_PAGE)..(STACK_MAX_PAGES - 1)
    BY <2>1, BootConstants DEF StackPages
  <2> QED BY <2>1, <2>2, <2>3, <2>4, Zenon DEF StackReady
<1> QED BY <1>1, BootInvariance, PTL
=============================================================================
