---------------------------- MODULE ConsoleProofs ----------------------------
(***************************************************************************)
(* What is typed is what is read, for every size of the UART and of the    *)
(* input buffer and every number of keys and of processes, until a key is  *)
(* dropped or a process is killed whose program still runs.                *)
(***************************************************************************)
EXTENDS Console, FiniteSetTheorems, WellFoundedInduction, TLAPS

(***************************************************************************)
(* The inductive invariant                                                 *)
(***************************************************************************)

Busy == {"reading", "key", "line"}
Living == Busy \cup {"spawned", "waiting"}
Places == Living \cup {"none", "exited", "queued", "woken"}

Symbols == Keys \cup {NoKey}

ConsoleTypes ==
    /\ typed \in Seq(Keys) /\ fifo \in Seq(Keys) /\ INPUT_BUF \in Seq(Keys)
    /\ pc \in [Procs -> Places] /\ child \in [Procs -> Procs \cup {0}]
    /\ key \in [Procs -> Symbols]
    /\ line \in [Procs -> Seq(Symbols)] /\ lines \in Seq(Seq(Symbols))

\* p reads or acts on a line, or will do so before anybody else has ended.
Turn(p) == pc[p] \in Busy \/ (pc[p] = "spawned" /\ child[p] \notin Alive)

\* Nobody but D has the turn, and nobody else holds keys.
OneActive(D) ==
    /\ \A p \in Procs : Turn(p) => p = D
    /\ \A p \in Procs : p # D => key[p] = NoKey /\ line[p] = << >>
    /\ key[D] # NoKey <=> pc[D] = "key"
    /\ pc[D] \notin Busy => line[D] = << >>

\* Who waits, waits for one that lives, and nobody else does.
Chain ==
    /\ \A p \in Procs : pc[p] = "waiting" => child[p] \in Alive
    /\ \A p \in Procs : pc[p] = "spawned" => child[p] \in Procs /\ pc[child[p]] # "none"
    /\ \A p, q \in Procs : /\ pc[p] \in {"spawned", "waiting"} /\ pc[q] \in {"spawned", "waiting"}
                           /\ child[p] = child[q]
                           => p = q

\* The keys that have left the buffer, and those that read_line is done with.
Taken(D) == IF pc[D] = "key" THEN 1 ELSE 0
Done(D) == Len(typed) - Len(fifo) - Len(INPUT_BUF) - Taken(D)

\* The key in hand, the buffer and the UART are the rest of what was typed.
RestInOrder(D) ==
    /\ pc[D] = "key" => key[D] = typed[Done(D) + 1]
    /\ \A i \in 1..Len(INPUT_BUF) : INPUT_BUF[i] = typed[Done(D) + Taken(D) + i]
    /\ \A i \in 1..Len(fifo) : fifo[i] = typed[Done(D) + Taken(D) + Len(INPUT_BUF) + i]

TextRead(D) ==
    Text(SubSeq(typed, 1, Done(D))) =
        [done |-> lines, open |-> IF pc[D] \in {"reading", "key"} THEN line[D] ELSE << >>]

\* What has been typed, as seen from D.
KeysAt(D) == Done(D) \in Nat /\ (~lost => RestInOrder(D) /\ TextRead(D))

ReaderAt(D) == OneActive(D) /\ KeysAt(D)

ConsoleInv == ConsoleTypes /\ (~orphaned => Chain /\ \E D \in Procs : ReaderAt(D))

(***************************************************************************)
(* The text of a sequence of keys                                          *)
(***************************************************************************)

LEMMA LeastOf ==
    ASSUME NEW S \in SUBSET Nat, S # {}
    PROVE  \E x \in S : \A y \in S : x <= y
<1> DEFINE R == {ss \in Nat \X Nat : ss[1] < ss[2]}
<1>1. IsWellFoundedOn(R, Nat)
  BY NatLessThanWellFounded, Zenon DEF OpToRel
<1>2. \E x \in S : \A y \in S : ~ (<<y, x>> \in R)
  <2> HIDE DEF R
  <2> QED BY <1>1, WFMin, Zenon
<1>3. PICK x \in S : \A y \in S : ~ (<<y, x>> \in R)
  BY <1>2
<1>4. \A y \in S : x <= y
  <2>1. \A y \in S : <<y, x>> \in Nat \X Nat /\ <<y, x>>[1] = y /\ <<y, x>>[2] = x
    OBVIOUS
  <2>2. \A y \in S : ~ (y < x)
    BY <1>3, <2>1, Zenon
  <2> QED BY <2>2
<1> QED BY <1>4

NoText == [done |-> << >>, open |-> << >>]

\* f has the text of the first n of the keys, up to m of them.
TextOf(f, keys, m) == f = [n \in 0..m |-> IF n = 0 THEN NoText ELSE Edit(f[n - 1], keys[n])]

LEMMA TextExists ==
    ASSUME NEW keys, NEW m \in Nat
    PROVE  \E f : TextOf(f, keys, m)
<1> DEFINE Bad == {n \in Nat : ~ \E f : TextOf(f, keys, n)}
<1>1. SUFFICES ASSUME Bad # {} PROVE FALSE
  BY Zenon
<1>2. PICK n \in Bad : \A k \in Bad : n <= k
  <2>1. Bad \in SUBSET Nat
    OBVIOUS
  <2> HIDE DEF Bad
  <2> QED BY <1>1, <2>1, LeastOf
<1>3. n \in Nat /\ ~ \E f : TextOf(f, keys, n)
  OBVIOUS
<1>4. n # 0
  <2>1. TextOf([k \in 0..0 |-> NoText], keys, 0)
    BY DEF TextOf
  <2> QED BY <1>3, <2>1
<1>5. n - 1 \in Nat /\ n - 1 \notin Bad
  <2>1. n - 1 \in Nat /\ ~ (n <= n - 1)
    BY <1>3, <1>4
  <2> HIDE DEF Bad
  <2> QED BY <1>2, <2>1
<1>6. PICK f : TextOf(f, keys, n - 1)
  BY <1>5
<1> DEFINE g == [k \in 0..n |-> IF k = n THEN Edit(f[n - 1], keys[n]) ELSE f[k]]
<1>7. \A k \in 0..(n - 1) : f[k] = IF k = 0 THEN NoText ELSE Edit(f[k - 1], keys[k])
  BY <1>6, Zenon DEF TextOf
<1>8. \A k \in 0..n : g[k] = IF k = 0 THEN NoText ELSE Edit(g[k - 1], keys[k])
  <2> TAKE k \in 0..n
  <2>1. CASE k = n
    <3>1. g[n] = Edit(f[n - 1], keys[n]) /\ g[n - 1] = f[n - 1]
      BY <1>3, <1>4
    <3> HIDE DEF g
    <3> QED BY <1>4, <2>1, <3>1, Zenon
  <2>2. CASE k = 0
    <3>1. 0 \in 0..(n - 1) /\ g[0] = f[0]
      BY <1>3, <1>4
    <3> HIDE DEF g
    <3> QED BY <1>7, <2>2, <3>1, Zenon
  <2>3. CASE k # n /\ k # 0
    <3>1. k \in 0..(n - 1) /\ g[k] = f[k] /\ g[k - 1] = f[k - 1]
      BY <1>3, <1>4, <2>3
    <3> HIDE DEF g
    <3> QED BY <1>7, <2>3, <3>1, Zenon
  <2> QED BY <2>1, <2>2, <2>3
<1>9. TextOf(g, keys, n)
  <2>1. g = [k \in 0..n |-> g[k]]
    OBVIOUS
  <2> HIDE DEF g
  <2> QED BY <1>8, <2>1, Zenon DEF TextOf
<1> QED BY <1>3, <1>9, Zenon

\* The text of a prefix depends on that prefix only.
LEMMA TextAgrees ==
    ASSUME NEW f, NEW g, NEW s, NEW t, NEW m \in Nat, NEW l \in Nat, TextOf(f, s, m), TextOf(g, t, l),
           NEW n \in Nat, n <= m, n <= l, \A i \in 1..n : s[i] = t[i]
    PROVE  f[n] = g[n]
<1> DEFINE Bad == {i \in 0..n : f[i] # g[i]}
<1>1. SUFFICES ASSUME Bad # {} PROVE FALSE
  <2>1. n \in 0..n
    OBVIOUS
  <2> QED BY <2>1, Zenon
<1>2. PICK k \in Bad : \A i \in Bad : k <= i
  <2>1. Bad \in SUBSET Nat
    OBVIOUS
  <2> HIDE DEF Bad
  <2> QED BY <1>1, <2>1, LeastOf
<1>3. /\ k \in 0..n /\ f[k] # g[k] /\ k \in 0..m /\ k \in 0..l
  OBVIOUS
<1>4. /\ f[k] = IF k = 0 THEN NoText ELSE Edit(f[k - 1], s[k])
      /\ g[k] = IF k = 0 THEN NoText ELSE Edit(g[k - 1], t[k])
  <2>1. \A i \in 0..m : f[i] = IF i = 0 THEN NoText ELSE Edit(f[i - 1], s[i])
    BY Zenon DEF TextOf
  <2>2. \A i \in 0..l : g[i] = IF i = 0 THEN NoText ELSE Edit(g[i - 1], t[i])
    BY Zenon DEF TextOf
  <2> QED BY <1>3, <2>1, <2>2, Zenon
<1>5. k # 0
  BY <1>3, <1>4, Zenon
<1>6. k - 1 \in 0..n /\ k \in 1..n /\ ~ (k <= k - 1)
  BY <1>3, <1>5
<1>7. f[k - 1] = g[k - 1]
  <2>1. k - 1 \notin Bad
    <3> HIDE DEF Bad
    <3> QED BY <1>2, <1>6, Zenon
  <2> QED BY <1>6, <2>1, Zenon
<1>8. s[k] = t[k]
  BY <1>6
<1> QED BY <1>3, <1>4, <1>5, <1>7, <1>8, Zenon

LEMMA TextIs ==
    ASSUME NEW keys, Len(keys) \in Nat
    PROVE  \E f : TextOf(f, keys, Len(keys)) /\ Text(keys) = f[Len(keys)]
<1> DEFINE h == CHOOSE f : TextOf(f, keys, Len(keys))
<1>1. Text(keys) = h[Len(keys)]
  BY Zenon DEF Text, TextOf, NoText
<1>2. TextOf(h, keys, Len(keys))
  BY TextExists, Zenon
<1> HIDE DEF h
<1> QED BY <1>1, <1>2

LEMMA TextEmpty == Text(<< >>) = NoText
<1>1. Len(<< >>) = 0
  OBVIOUS
<1>2. PICK f : TextOf(f, << >>, 0) /\ Text(<< >>) = f[0]
  BY <1>1, TextIs, Zenon
<1>3. \A n \in 0..0 : f[n] = IF n = 0 THEN NoText ELSE Edit(f[n - 1], << >>[n])
  BY <1>2, Zenon DEF TextOf
<1>4. 0 \in 0..0
  OBVIOUS
<1> QED BY <1>2, <1>3, <1>4, Zenon

\* One key more is one edit more.
LEMMA TextStep ==
    ASSUME NEW s \in Seq(Keys), NEW n \in Nat, n < Len(s)
    PROVE  Text(SubSeq(s, 1, n + 1)) = Edit(Text(SubSeq(s, 1, n)), s[n + 1])
<1> DEFINE a == SubSeq(s, 1, n)
           b == SubSeq(s, 1, n + 1)
<1>1. Len(a) = n /\ Len(b) = n + 1 /\ b[n + 1] = s[n + 1] /\ \A i \in 1..n : a[i] = b[i]
  OBVIOUS
<1> HIDE DEF a, b
<1>2. PICK f : TextOf(f, a, n) /\ Text(a) = f[n]
  BY <1>1, TextIs
<1>3. PICK g : TextOf(g, b, n + 1) /\ Text(b) = g[n + 1]
  BY <1>1, TextIs
<1>4. f[n] = g[n]
  <2>1. n + 1 \in Nat /\ n <= n /\ n <= n + 1
    OBVIOUS
  <2>2. TextOf(f, a, n) /\ TextOf(g, b, n + 1) /\ \A i \in 1..n : a[i] = b[i]
    BY <1>1, <1>2, <1>3
  <2> QED BY <2>1, <2>2, TextAgrees
<1>5. g[n + 1] = Edit(g[n], b[n + 1])
  <2>1. \A i \in 0..(n + 1) : g[i] = IF i = 0 THEN NoText ELSE Edit(g[i - 1], b[i])
    BY <1>3, Zenon DEF TextOf
  <2>2. n + 1 \in 0..(n + 1) /\ n + 1 # 0 /\ (n + 1) - 1 = n
    OBVIOUS
  <2> QED BY <2>1, <2>2, Zenon
<1>6. Text(b) = Edit(Text(a), s[n + 1])
  BY <1>1, <1>2, <1>3, <1>4, <1>5, Zenon
<1> QED BY <1>6 DEF a, b

(***************************************************************************)
(* The types                                                               *)
(***************************************************************************)

LEMMA ProcFacts == 1 \in Procs /\ Procs \subseteq Nat \ {0} /\ 0 \notin Procs
<1>1. Nested \in Nat \ {0} /\ MaxKeys \in Nat /\ MaxProcs \in Nat
  BY ConsoleConstants
<1>2. MaxKeys \div 2 \in Nat
  BY <1>1
<1>3. Nested + (MaxKeys \div 2) <= MaxProcs
  BY ConsoleConstants
<1> DEFINE h == MaxKeys \div 2
<1> HIDE DEF h
<1>4. h \in Nat /\ Nested + h <= MaxProcs
  BY <1>2, <1>3 DEF h
<1>5. 1 <= MaxProcs
  BY <1>1, <1>4
<1> QED BY <1>1, <1>5 DEF Procs

LEMMA KeyAppended ==
    ASSUME NEW s \in Seq(Keys), NEW k \in Keys
    PROVE  Append(s, k) \in Seq(Keys)
OBVIOUS

LEMMA LineAppended ==
    ASSUME NEW s \in Seq(Seq(Symbols)), NEW l \in Seq(Symbols)
    PROVE  Append(s, l) \in Seq(Seq(Symbols))
OBVIOUS

LEMMA SymbolAppended ==
    ASSUME NEW s \in Seq(Symbols), NEW k \in Symbols
    PROVE  Append(s, k) \in Seq(Symbols)
OBVIOUS

LEMMA KeyTaken ==
    ASSUME NEW s \in Seq(Keys), s # << >>
    PROVE  Tail(s) \in Seq(Keys) /\ Head(s) \in Keys
OBVIOUS

LEMMA AliveIs ==
    ASSUME NEW p \in Procs
    PROVE  p \in Alive <=> pc[p] \in Living
BY Zenon DEF Alive, Living, Busy

LEMMA ErasedFacts ==
    ASSUME NEW l \in Seq(Symbols)
    PROVE  Erased(l) \in Seq(Symbols)
BY DEF Erased

\* What the end of q does to each process.
LEMMA AfterFacts ==
    ASSUME ConsoleTypes, NEW q \in Procs, pc[q] # "none"
    PROVE  /\ After(q) \in [Procs -> Places]
           /\ After(q)[q] \in {"exited", "queued"}
           /\ \A p \in Procs : After(q)[p] \in {"spawned", "waiting"} => pc[p] = After(q)[p] /\ p # q
           /\ \A p \in Procs : After(q)[p] = "waiting" => child[p] # q
           /\ \A p \in Procs : p # q /\ pc[p] \in Living => After(q)[p] \in Living
           /\ \A p \in Procs : After(q)[p] \in Living => pc[p] \in Living
           /\ \A p \in Procs : After(q)[p] = "none" => pc[p] = "none"
           /\ \A p \in Procs : After(q)[p] \in Busy =>
                  p # q /\ (pc[p] = After(q)[p] \/ (pc[p] = "waiting" /\ child[p] = q))
           /\ \A p \in Procs : After(q)[p] \in {"key", "line"} => pc[p] = After(q)[p]
           /\ \A p \in Procs : p # q /\ pc[p] \in Busy => After(q)[p] = pc[p]
<1> DEFINE a == After(q)
<1>1. \A p \in Procs : a[p] = IF p = q THEN IF pc[q] \in {"waiting", "queued"} THEN "queued" ELSE "exited"
                              ELSE IF child[p] = q /\ pc[p] = "waiting" THEN "reading"
                              ELSE IF child[p] = q /\ pc[p] = "queued" THEN "woken"
                              ELSE pc[p]
  BY Zenon DEF After
<1>2. a = [p \in Procs |-> a[p]]
  BY Zenon DEF After
<1> HIDE DEF a
<1>3. a[q] \in {"exited", "queued"}
  BY <1>1, Zenon
<1>4. \A p \in Procs : pc[p] \in Places
  BY Zenon DEF ConsoleTypes
<1>5. ASSUME NEW p \in Procs
      PROVE  /\ a[p] \in Places
             /\ a[p] \in {"spawned", "waiting"} => pc[p] = a[p] /\ p # q
             /\ a[p] = "waiting" => child[p] # q
             /\ p # q /\ pc[p] \in Living => a[p] \in Living
             /\ a[p] \in Living => pc[p] \in Living
             /\ a[p] = "none" => pc[p] = "none"
             /\ a[p] \in Busy => p # q /\ (pc[p] = a[p] \/ (pc[p] = "waiting" /\ child[p] = q))
             /\ a[p] \in {"key", "line"} => pc[p] = a[p]
             /\ p # q /\ pc[p] \in Busy => a[p] = pc[p]
  <2>1. CASE p = q
    BY <1>3, <2>1 DEF Places, Living, Busy
  <2>2. CASE p # q /\ child[p] = q /\ pc[p] = "waiting"
    <3>1. a[p] = "reading"
      BY <1>1, <2>2, Zenon
    <3> QED BY <2>2, <3>1 DEF Places, Living, Busy
  <2>3. CASE p # q /\ child[p] = q /\ pc[p] = "queued"
    <3>1. a[p] = "woken"
      BY <1>1, <2>3
    <3> QED BY <2>3, <3>1 DEF Places, Living, Busy
  <2>4. CASE p # q /\ ~(child[p] = q /\ pc[p] = "waiting") /\ ~(child[p] = q /\ pc[p] = "queued")
    <3>1. a[p] = pc[p]
      BY <1>1, <2>4, Zenon
    <3> QED BY <1>4, <2>4, <3>1 DEF Places, Living, Busy
  <2> QED BY <2>1, <2>2, <2>3, <2>4, Zenon
<1>6. a \in [Procs -> Places]
  BY <1>2, <1>5, Zenon
<1> QED BY <1>3, <1>5, <1>6, Zenon DEF a

LEMMA UartTypes ==
    ASSUME ConsoleTypes, (\E k \in Keys : Press(k)) \/ Timeout \/ Receive
    PROVE  ConsoleTypes'
<1>1. UNCHANGED users
  BY Zenon DEF Press, Timeout, Receive
<1>2. UNCHANGED <<pc, key, line, child, lines>>
  BY <1>1 DEF users
<1>3. typed \in Seq(Keys) /\ fifo \in Seq(Keys) /\ INPUT_BUF \in Seq(Keys)
  BY Zenon DEF ConsoleTypes
<1>4. typed' \in Seq(Keys) /\ fifo' \in Seq(Keys) /\ INPUT_BUF' \in Seq(Keys)
  <2>1. ASSUME NEW k \in Keys, Press(k) PROVE typed' \in Seq(Keys) /\ fifo' \in Seq(Keys) /\ INPUT_BUF' \in Seq(Keys)
    <3>1. typed' = Append(typed, k) /\ (fifo' = Append(fifo, k) \/ fifo' = fifo) /\ INPUT_BUF' = INPUT_BUF
      BY <2>1, Zenon DEF Press
    <3> QED BY <1>3, <3>1, KeyAppended, Zenon
  <2>2. CASE Timeout
    BY <1>3, <2>2, Zenon DEF Timeout
  <2>3. CASE Receive
    <3>1. /\ fifo # << >> /\ typed' = typed /\ fifo' = Tail(fifo)
          /\ INPUT_BUF' = Append(INPUT_BUF, Head(fifo)) \/ INPUT_BUF' = INPUT_BUF
      BY <2>3, Zenon DEF Receive, push_key
    <3> QED BY <1>3, <3>1, KeyAppended, KeyTaken, Zenon
  <2> QED BY <2>1, <2>2, <2>3
<1> QED BY <1>2, <1>4, Zenon DEF ConsoleTypes

LEMMA HandTypes ==
    ASSUME ConsoleTypes, NEW p \in Procs, (SysRead(p) /\ INPUT_BUF # << >>) \/ HandleKey(p)
    PROVE  ConsoleTypes'
<1>1. /\ pc \in [Procs -> Places] /\ key \in [Procs -> Symbols] /\ line \in [Procs -> Seq(Symbols)]
      /\ INPUT_BUF \in Seq(Keys) /\ lines \in Seq(Seq(Symbols)) /\ line[p] \in Seq(Symbols)
      /\ "reading" \in Places /\ "key" \in Places /\ "line" \in Places
  BY Zenon DEF ConsoleTypes, Places, Living, Busy
<1>2. CASE SysRead(p) /\ INPUT_BUF # << >>
  <2>1. /\ key' = [key EXCEPT ![p] = Head(INPUT_BUF)] /\ INPUT_BUF' = Tail(INPUT_BUF)
        /\ pc' = [pc EXCEPT ![p] = "key"] /\ UNCHANGED <<typed, fifo, line, child, lines>>
    BY <1>2, Zenon DEF SysRead
  <2>2. Head(INPUT_BUF) \in Keys /\ INPUT_BUF' \in Seq(Keys)
    BY <1>1, <1>2, <2>1
  <2>3. key' \in [Procs -> Symbols] /\ pc' \in [Procs -> Places]
    BY <1>1, <2>1, <2>2, Zenon DEF Symbols
  <2> QED BY <2>1, <2>2, <2>3, Zenon DEF ConsoleTypes
<1>3. CASE HandleKey(p)
  <2>1. /\ pc[p] = "key" /\ key' = [key EXCEPT ![p] = NoKey]
        /\ UNCHANGED <<typed, uart, prog, child, orphaned, machine>>
    BY <1>3, Zenon DEF HandleKey
  <2>2. UNCHANGED <<typed, fifo, INPUT_BUF, child>>
    BY <2>1 DEF uart
  <2>3. key' \in [Procs -> Symbols]
    BY <1>1, <2>1, Zenon DEF Symbols
  <2>4. pc' \in [Procs -> Places] /\ (lines' = lines \/ lines' = Append(lines, line[p]))
    BY <1>1, <1>3, Zenon DEF HandleKey
  <2>5. lines' \in Seq(Seq(Symbols))
    BY <1>1, <2>4, LineAppended, Zenon
  <2>6. \/ line' = line
        \/ line' = [line EXCEPT ![p] = Erased(line[p])]
        \/ line' = [line EXCEPT ![p] = Append(line[p], key[p])]
    BY <1>3, Zenon DEF HandleKey
  <2>7. line' \in [Procs -> Seq(Symbols)]
    <3>1. Erased(line[p]) \in Seq(Symbols)
      BY <1>1, ErasedFacts
    <3>2. key[p] \in Symbols
      BY <1>1, Zenon
    <3>3. Append(line[p], key[p]) \in Seq(Symbols)
      BY <1>1, <3>2, SymbolAppended, Zenon
    <3>4. \A l \in Seq(Symbols) : [line EXCEPT ![p] = l] \in [Procs -> Seq(Symbols)]
      BY <1>1, Zenon
    <3> QED BY <1>1, <2>6, <3>1, <3>3, <3>4, Zenon
  <2> QED BY <2>2, <2>3, <2>4, <2>5, <2>7, Zenon DEF ConsoleTypes
<1> QED BY <1>2, <1>3

LEMMA LineTypes ==
    ASSUME ConsoleTypes, NEW p \in Procs,
           \/ Exit(p) \/ WaitPid(p) \/ Answer(p)
           \/ (\E q \in Procs : Kill(p, q)) \/ (\E program \in {"sh", "fact"} : Spawn(p, program))
    PROVE  ConsoleTypes'
<1>1. /\ pc \in [Procs -> Places] /\ key \in [Procs -> Symbols] /\ line \in [Procs -> Seq(Symbols)]
      /\ child \in [Procs -> Procs \cup {0}]
      /\ "reading" \in Places /\ "waiting" \in Places /\ "spawned" \in Places
  BY Zenon DEF ConsoleTypes, Places, Living, Busy
<1>2. << >> \in Seq(Symbols)
  OBVIOUS
<1>3. UNCHANGED <<typed, uart, lines>>
  BY Zenon DEF Exit, WaitPid, Answer, Kill, Spawn, Gone
<1>4. UNCHANGED <<typed, fifo, INPUT_BUF, lines>>
  BY <1>3 DEF uart
<1>5. CASE Exit(p)
  <2>1. pc[p] # "none" /\ pc' = After(p)
    BY <1>5 DEF Exit
  <2>2. pc' \in [Procs -> Places]
    BY <2>1, AfterFacts
  <2>3. /\ key' = [key EXCEPT ![p] = NoKey] /\ child' = child /\ line' = [line EXCEPT ![p] = << >>]
    BY <1>5, Zenon DEF Exit, Gone
  <2>4. key' \in [Procs -> Symbols] /\ line' \in [Procs -> Seq(Symbols)]
    BY <1>1, <1>2, <2>3, Zenon DEF Symbols
  <2> QED BY <1>1, <1>4, <2>2, <2>3, <2>4, Zenon DEF ConsoleTypes
<1>6. ASSUME NEW q \in Procs, Kill(p, q) PROVE ConsoleTypes'
  <2>1. pc[q] # "none" /\ pc' = [After(q) EXCEPT ![p] = "reading"]
    BY <1>6, Zenon DEF Kill
  <2>2. pc' \in [Procs -> Places]
    <3>1. After(q) \in [Procs -> Places]
      BY <2>1, AfterFacts
    <3> QED BY <1>1, <2>1, <3>1, Zenon
  <2>3. /\ key' = [key EXCEPT ![q] = NoKey] /\ child' = child
        /\ line' = [line EXCEPT ![p] = << >>, ![q] = << >>]
    BY <1>6, Zenon DEF Kill, Gone
  <2>4. key' \in [Procs -> Symbols]
    BY <1>1, <2>3, Zenon DEF Symbols
  <2>5. line' \in [Procs -> Seq(Symbols)]
    BY <1>1, <1>2, <2>3, Zenon
  <2> QED BY <1>1, <1>4, <2>2, <2>3, <2>4, <2>5, Zenon DEF ConsoleTypes
<1>7. CASE WaitPid(p)
  BY <1>1, <1>4, <1>7, Zenon DEF WaitPid, ConsoleTypes
<1>8. CASE Answer(p)
  <2>1. pc' = [pc EXCEPT ![p] = "reading"] /\ line' = [line EXCEPT ![p] = << >>] /\ UNCHANGED <<key, child>>
    BY <1>8, Zenon DEF Answer
  <2>2. pc' \in [Procs -> Places] /\ line' \in [Procs -> Seq(Symbols)]
    BY <1>1, <1>2, <2>1, Zenon
  <2> QED BY <1>1, <1>4, <2>1, <2>2, Zenon DEF ConsoleTypes
<1>9. ASSUME NEW program \in {"sh", "fact"}, Spawn(p, program) PROVE ConsoleTypes'
  <2>1. PICK c \in Procs : /\ pc' = [pc EXCEPT ![p] = "spawned", ![c] = "reading"]
                           /\ child' = [child EXCEPT ![p] = c]
    BY <1>9, Zenon DEF Spawn
  <2>2. line' = [line EXCEPT ![p] = << >>] /\ key' = key
    BY <1>9, Zenon DEF Spawn
  <2>3. pc' \in [Procs -> Places] /\ child' \in [Procs -> Procs \cup {0}]
    BY <1>1, <2>1, Zenon
  <2>4. line' \in [Procs -> Seq(Symbols)]
    BY <1>1, <1>2, <2>2, Zenon
  <2> QED BY <1>1, <1>4, <2>2, <2>3, <2>4, Zenon DEF ConsoleTypes
<1> QED BY <1>5, <1>6, <1>7, <1>8, <1>9

(***************************************************************************)
(* Whose turn it is                                                        *)
(***************************************************************************)

\* At most one process has a key in hand.
LEMMA HandCount ==
    ASSUME NEW h \in [Procs -> Symbols], NEW D \in Procs, \A p \in Procs : p # D => h[p] = NoKey
    PROVE  Cardinality({p \in Procs : h[p] # NoKey}) = IF h[D] # NoKey THEN 1 ELSE 0
<1>1. CASE h[D] # NoKey
  <2>1. {p \in Procs : h[p] # NoKey} = {D}
    BY <1>1, Zenon
  <2> QED BY <1>1, <2>1, FS_Singleton, Zenon
<1>2. CASE h[D] = NoKey
  <2>1. {p \in Procs : h[p] # NoKey} = {}
    BY <1>2, Zenon
  <2> QED BY <1>2, <2>1, FS_EmptySet
<1> QED BY <1>1, <1>2

\* A step of the one that has the turn, which keeps it.
LEMMA BusyMoves ==
    ASSUME ConsoleTypes, Chain, NEW D \in Procs, OneActive(D), pc[D] \in Busy, NEW x \in Busy,
           pc' = [pc EXCEPT ![D] = x], UNCHANGED child
    PROVE  /\ Chain' /\ \A p \in Procs : Turn(p)' => p = D
           /\ pc'[D] = x /\ \A p \in Procs : p # D => pc'[p] = pc[p]
<1>1. pc \in [Procs -> Places]
  BY Zenon DEF ConsoleTypes
<1>2. pc'[D] = x /\ \A p \in Procs : p # D => pc'[p] = pc[p]
  BY <1>1, Zenon
<1>3. \A p \in Procs : pc'[p] \in Living <=> pc[p] \in Living
  BY <1>2, Zenon DEF Living
<1>4. Alive' = Alive
  BY <1>3, Zenon DEF Alive, Living, Busy
<1>5. pc[D] \notin {"spawned", "waiting", "none"} /\ x \notin {"spawned", "waiting", "none"}
  BY Zenon DEF Busy
<1>6. \A p \in Procs : /\ pc'[p] = "waiting" <=> pc[p] = "waiting"
                       /\ pc'[p] = "spawned" <=> pc[p] = "spawned"
                       /\ pc'[p] = "none" <=> pc[p] = "none"
  BY <1>2, <1>5, Zenon
<1>7. Chain'
  BY <1>4, <1>6, Zenon DEF Chain
<1>8. ASSUME NEW p \in Procs, Turn(p)', p # D PROVE FALSE
  <2>1. pc'[p] = pc[p] /\ child'[p] = child[p]
    BY <1>2, <1>8, Zenon
  <2>2. Turn(p)
    BY <1>4, <1>8, <2>1, Zenon DEF Turn
  <2> QED BY <1>8, <2>2, Zenon DEF OneActive
<1> QED BY <1>2, <1>7, <1>8, Zenon

\* The dead are not waited for, and a process that is killed by another one
\* has a living program.
LEMMA KilledIsDead ==
    ASSUME ConsoleTypes, Chain, NEW D \in Procs, OneActive(D), NEW q \in Procs, q # D,
           child[q] \notin Alive
    PROVE  /\ q \notin Alive
           /\ \A p \in Procs : pc[p] = "waiting" => child[p] # q
<1>1. pc[q] \notin Busy /\ pc[q] # "spawned"
  BY Zenon DEF OneActive, Turn
<1>2. pc[q] # "waiting"
  BY Zenon DEF Chain
<1>3. q \notin Alive
  BY <1>1, <1>2, AliveIs, Zenon DEF Living
<1> QED BY <1>3, Zenon DEF Chain

\* The turn goes to the one that waits for D, or will wait.
LEMMA ExitTurn ==
    ASSUME ConsoleTypes, Chain, NEW D \in Procs, OneActive(D), pc[D] = "line",
           pc' = After(D), UNCHANGED child
    PROVE  /\ Chain'
           /\ \E E \in Procs : \A p \in Procs : Turn(p)' => p = E
           /\ \A p \in Procs : pc'[p] \notin {"key", "line"}
<1>1. pc[D] # "none"
  OBVIOUS
<1>2. /\ pc'[D] \in {"exited", "queued"}
      /\ \A p \in Procs : pc'[p] \in {"spawned", "waiting"} => pc[p] = pc'[p] /\ p # D
      /\ \A p \in Procs : pc'[p] = "waiting" => child[p] # D
      /\ \A p \in Procs : p # D /\ pc[p] \in Living => pc'[p] \in Living
      /\ \A p \in Procs : pc'[p] = "none" => pc[p] = "none"
      /\ \A p \in Procs : pc'[p] \in Busy =>
             p # D /\ (pc[p] = pc'[p] \/ (pc[p] = "waiting" /\ child[p] = D))
      /\ \A p \in Procs : pc'[p] \in {"key", "line"} => pc[p] = pc'[p]
  BY <1>1, AfterFacts
<1>3. \A p \in Procs : p # D => pc[p] \notin Busy
  BY Zenon DEF OneActive, Turn
<1>4. ASSUME NEW p \in Procs, p \in Alive, p # D PROVE p \in Alive'
  <2>1. pc'[p] \in Living
    BY <1>2, <1>4, AliveIs, Zenon
  <2> QED BY <2>1, Zenon DEF Alive, Living, Busy
<1>5. Chain'
  <2>1. ASSUME NEW p \in Procs, pc'[p] = "waiting" PROVE child'[p] \in Alive'
    <3>1. pc[p] = "waiting" /\ child[p] # D
      BY <1>2, <2>1, Zenon
    <3>2. child[p] \in Alive /\ child[p] \in Procs
      BY <3>1, Zenon DEF Chain, Alive
    <3> QED BY <1>4, <3>1, <3>2, Zenon
  <2>2. ASSUME NEW p \in Procs, pc'[p] = "spawned" PROVE child'[p] \in Procs /\ pc'[child'[p]] # "none"
    <3>1. pc[p] = "spawned"
      BY <1>2, <2>2, Zenon
    <3>2. child[p] \in Procs /\ pc[child[p]] # "none"
      BY <3>1, Zenon DEF Chain
    <3> QED BY <1>2, <3>2, Zenon
  <2>3. \A p \in Procs : pc'[p] \in {"spawned", "waiting"} => pc[p] \in {"spawned", "waiting"}
    BY <1>2, Zenon
  <2>4. \A p, q \in Procs : /\ pc'[p] \in {"spawned", "waiting"} /\ pc'[q] \in {"spawned", "waiting"}
                            /\ child'[p] = child'[q]
                            => p = q
    BY <2>3, Zenon DEF Chain
  <2> QED BY <2>1, <2>2, <2>4, Zenon DEF Chain
<1>6. ASSUME NEW p \in Procs, Turn(p)' PROVE pc[p] \in {"spawned", "waiting"} /\ child[p] = D
  <2>1. CASE pc'[p] \in Busy
    <3>1. p # D /\ (pc[p] = pc'[p] \/ (pc[p] = "waiting" /\ child[p] = D))
      BY <1>2, <2>1, Zenon
    <3> QED BY <1>3, <2>1, <3>1, Zenon
  <2>2. CASE pc'[p] = "spawned" /\ child'[p] \notin Alive'
    <3>1. pc[p] = "spawned" /\ p # D
      BY <1>2, <2>2, Zenon
    <3>2. child[p] \in Alive
      BY <3>1, Zenon DEF OneActive, Turn
    <3>3. child[p] \in Procs
      BY <3>1, Zenon DEF Chain
    <3> QED BY <1>4, <2>2, <3>1, <3>2, <3>3, Zenon
  <2> QED BY <1>6, <2>1, <2>2, Zenon DEF Turn
<1>7. \E E \in Procs : \A p \in Procs : Turn(p)' => p = E
  <2>1. CASE \A p \in Procs : ~Turn(p)'
    BY <2>1, Zenon
  <2>2. CASE ~ \A p \in Procs : ~Turn(p)'
    <3>1. PICK E \in Procs : Turn(E)'
      BY <2>2, Zenon
    <3>2. \A p \in Procs : Turn(p)' => p = E
      BY <1>6, <3>1, Zenon DEF Chain
    <3> QED BY <3>2, Zenon
  <2> QED BY <2>1, <2>2, Zenon
<1>8. \A p \in Procs : pc'[p] \notin {"key", "line"}
  <2>1. \A p \in Procs : p # D => pc[p] \notin {"key", "line"}
    BY <1>3, Zenon DEF Busy
  <2>2. pc'[D] \notin {"key", "line"}
    BY <1>2, Zenon
  <2> QED BY <1>2, <2>1, <2>2, Zenon
<1> QED BY <1>5, <1>7, <1>8, Zenon

\* The turn goes to the new process.
LEMMA SpawnTurn ==
    ASSUME ConsoleTypes, Chain, NEW D \in Procs, OneActive(D), pc[D] = "line",
           NEW c \in Procs, pc[c] = "none",
           pc' = [pc EXCEPT ![D] = "spawned", ![c] = "reading"], child' = [child EXCEPT ![D] = c]
    PROVE  Chain' /\ pc'[c] = "reading" /\ \A p \in Procs : Turn(p)' => p = c
<1>1. /\ pc \in [Procs -> Places] /\ child \in [Procs -> Procs \cup {0}] /\ c # D
  BY DEF ConsoleTypes
<1>2. /\ pc'[D] = "spawned" /\ pc'[c] = "reading" /\ \A p \in Procs \ {D, c} : pc'[p] = pc[p]
      /\ child'[D] = c /\ \A p \in Procs : p # D => child'[p] = child[p]
  BY <1>1
<1>3. ASSUME NEW p \in Procs PROVE p \in Alive' <=> (p \in Alive \/ p = c)
  <2>1. p \in Alive' <=> pc'[p] \in Living
    BY Zenon DEF Alive, Living, Busy
  <2>2. "line" \in Living /\ "spawned" \in Living /\ "reading" \in Living
    BY Zenon DEF Living, Busy
  <2> QED BY <1>2, <2>1, <2>2, AliveIs, Zenon
<1>4. \A p \in Procs : child[p] = c => pc[p] \notin {"spawned", "waiting"}
  <2>1. "none" \notin Living
    BY DEF Living, Busy
  <2>2. c \notin Alive
    BY <2>1, AliveIs, Zenon
  <2> QED BY <2>2, Zenon DEF Chain
<1>5. Chain'
  <2>1. ASSUME NEW p \in Procs, pc'[p] = "waiting" PROVE child'[p] \in Alive'
    <3>1. p # D /\ p # c /\ pc[p] = "waiting"
      BY <1>2, <2>1
    <3>2. child[p] \in Alive /\ child[p] \in Procs
      BY <3>1, Zenon DEF Chain, Alive
    <3> QED BY <1>2, <1>3, <3>1, <3>2, Zenon
  <2>2. ASSUME NEW p \in Procs, pc'[p] = "spawned" PROVE child'[p] \in Procs /\ pc'[child'[p]] # "none"
    <3>1. CASE p = D
      BY <1>2, <3>1
    <3>2. CASE p # D
      <4>1. p # c /\ pc[p] = "spawned"
        BY <1>2, <2>2, <3>2
      <4>2. child[p] \in Procs /\ pc[child[p]] # "none" /\ child'[p] = child[p]
        BY <1>2, <3>2, <4>1, Zenon DEF Chain
      <4>3. pc'[child[p]] # "none"
        BY <1>2, <4>2, Zenon
      <4> QED BY <4>2, <4>3, Zenon
    <3> QED BY <3>1, <3>2
  <2>3. ASSUME NEW p \in Procs, pc'[p] \in {"spawned", "waiting"}
        PROVE  p = D \/ (p # c /\ pc[p] \in {"spawned", "waiting"} /\ child'[p] = child[p])
    BY <1>2, <2>3
  <2>4. ASSUME NEW p \in Procs, NEW q \in Procs, pc'[p] \in {"spawned", "waiting"},
               pc'[q] \in {"spawned", "waiting"}, child'[p] = child'[q]
        PROVE  p = q
    <3>1. CASE p = D /\ q # D
      <4>1. pc[q] \in {"spawned", "waiting"} /\ child'[q] = child[q]
        BY <2>3, <2>4, <3>1, Zenon
      <4>2. child[q] = c
        BY <1>2, <2>4, <3>1, <4>1, Zenon
      <4> QED BY <1>4, <4>1, <4>2, Zenon
    <3>2. CASE p # D /\ q = D
      <4>1. pc[p] \in {"spawned", "waiting"} /\ child'[p] = child[p]
        BY <2>3, <2>4, <3>2, Zenon
      <4>2. child[p] = c
        BY <1>2, <2>4, <3>2, <4>1, Zenon
      <4> QED BY <1>4, <4>1, <4>2, Zenon
    <3>3. CASE p # D /\ q # D
      <4>1. /\ pc[p] \in {"spawned", "waiting"} /\ pc[q] \in {"spawned", "waiting"}
            /\ child[p] = child[q]
        BY <2>3, <2>4, <3>3, Zenon
      <4> QED BY <4>1, Zenon DEF Chain
    <3> QED BY <3>1, <3>2, <3>3
  <2> QED BY <2>1, <2>2, <2>4, Zenon DEF Chain
<1>6. ASSUME NEW p \in Procs, Turn(p)' PROVE p = c
  <2>1. CASE p = D
    <3>1. pc'[p] \notin Busy
      BY <1>2, <2>1 DEF Busy
    <3>2. child'[p] \in Alive'
      BY <1>2, <1>3, <2>1, Zenon
    <3> QED BY <1>6, <3>1, <3>2, Zenon DEF Turn
  <2>2. CASE p # D /\ p # c
    <3>1. pc'[p] = pc[p] /\ child'[p] = child[p] /\ ~Turn(p)
      BY <1>2, <2>2, Zenon DEF OneActive
    <3>2. pc[p] = "spawned" /\ child[p] \notin Alive'
      BY <1>6, <3>1, Zenon DEF Turn
    <3>3. child[p] \in Procs
      BY <3>2, Zenon DEF Chain
    <3> QED BY <1>3, <3>1, <3>2, <3>3, Zenon DEF Turn
  <2> QED BY <2>1, <2>2
<1> QED BY <1>2, <1>5, <1>6, Zenon

\* Who waits has no turn; who finds its program dead keeps it.
LEMMA WaitPidTurn ==
    ASSUME ConsoleTypes, Chain, NEW D \in Procs, OneActive(D), NEW p \in Procs, WaitPid(p)
    PROVE  /\ Chain' /\ \A q \in Procs : Turn(q)' => q = D
           /\ \A q \in Procs : q # p => pc'[q] = pc[q]
           /\ pc'[p] = "waiting" \/ (pc'[p] = "reading" /\ p = D)
<1>1. /\ pc[p] = "spawned" /\ child' = child
      /\ pc' = [pc EXCEPT ![p] = IF child[p] \in Alive THEN "waiting" ELSE "reading"]
  BY Zenon DEF WaitPid
<1>2. pc \in [Procs -> Places]
  BY Zenon DEF ConsoleTypes
<1>3. /\ pc'[p] = IF child[p] \in Alive THEN "waiting" ELSE "reading"
      /\ \A q \in Procs : q # p => pc'[q] = pc[q]
  BY <1>1, <1>2, Zenon
<1>4. pc'[p] \in Living /\ pc[p] \in Living
  BY <1>1, <1>3, Zenon DEF Living, Busy
<1>5. Alive' = Alive
  <2>1. \A q \in Procs : pc'[q] \in Living <=> pc[q] \in Living
    BY <1>3, <1>4, Zenon
  <2> QED BY <2>1, Zenon DEF Alive, Living, Busy
<1>6. pc'[p] = "waiting" \/ (pc'[p] = "reading" /\ p = D)
  BY <1>1, <1>3, Zenon DEF OneActive, Turn
<1>7. Chain'
  <2>1. ASSUME NEW q \in Procs, pc'[q] = "waiting" PROVE child[q] \in Alive
    <3>1. CASE q = p
      BY <1>3, <2>1, <3>1
    <3>2. CASE q # p
      BY <1>3, <2>1, <3>2, Zenon DEF Chain
    <3> QED BY <3>1, <3>2
  <2>2. \A q \in Procs : pc'[q] = "spawned" => pc[q] = "spawned"
    BY <1>3
  <2>3. \A q \in Procs : pc'[q] = "none" => pc[q] = "none"
    BY <1>3
  <2>4. \A q \in Procs : pc'[q] \in {"spawned", "waiting"} => pc[q] \in {"spawned", "waiting"}
    BY <1>1, <1>3, Zenon
  <2>5. \A q \in Procs : pc'[q] = "spawned" => child[q] \in Procs /\ pc'[child[q]] # "none"
    BY <2>2, <2>3, Zenon DEF Chain
  <2>6. \A q, r \in Procs : /\ pc'[q] \in {"spawned", "waiting"} /\ pc'[r] \in {"spawned", "waiting"}
                            /\ child[q] = child[r]
                            => q = r
    BY <2>4, Zenon DEF Chain
  <2> QED BY <1>1, <1>5, <2>1, <2>5, <2>6, Zenon DEF Chain
<1>8. ASSUME NEW q \in Procs, Turn(q)' PROVE q = D
  <2>1. CASE q = p
    <3>1. "waiting" \notin Busy /\ "waiting" # "spawned"
      BY DEF Busy
    <3> QED BY <1>6, <1>8, <2>1, <3>1, Zenon DEF Turn
  <2>2. CASE q # p
    <3>1. pc'[q] = pc[q] /\ child'[q] = child[q]
      BY <1>1, <1>3, <2>2, Zenon
    <3>2. Turn(q)
      BY <1>5, <1>8, <3>1, Zenon DEF Turn
    <3> QED BY <3>2, Zenon DEF OneActive
  <2> QED BY <2>1, <2>2
<1> QED BY <1>3, <1>6, <1>7, <1>8, Zenon

(***************************************************************************)
(* The keys                                                                *)
(***************************************************************************)

LEMMA DoneFacts ==
    ASSUME ConsoleTypes, NEW D \in Procs, KeysAt(D)
    PROVE  /\ Len(typed) \in Nat /\ Len(fifo) \in Nat /\ Len(INPUT_BUF) \in Nat
           /\ Taken(D) \in 0..1 /\ Done(D) \in Nat
           /\ Done(D) + Taken(D) + Len(INPUT_BUF) + Len(fifo) = Len(typed)
<1>1. Len(typed) \in Nat /\ Len(fifo) \in Nat /\ Len(INPUT_BUF) \in Nat
  BY DEF ConsoleTypes
<1>2. Taken(D) \in 0..1
  BY DEF Taken
<1>3. Done(D) \in Nat
  BY Zenon DEF KeysAt
<1>4. Done(D) + Taken(D) + Len(INPUT_BUF) + Len(fifo) = Len(typed)
  BY <1>1, <1>2 DEF Done
<1> QED BY <1>1, <1>2, <1>3, <1>4, Zenon

LEMMA PressKeys ==
    ASSUME ConsoleTypes, NEW D \in Procs, KeysAt(D), NEW k \in Keys, Press(k)
    PROVE  KeysAt(D)'
<1> DEFINE n == Done(D)
           t == Taken(D)
           b == Len(INPUT_BUF)
           u == Len(fifo)
           l == Len(typed)
<1>1. /\ typed' = Append(typed, k) /\ UNCHANGED users /\ INPUT_BUF' = INPUT_BUF
      /\ (fifo' = Append(fifo, k) /\ lost' = lost) \/ (fifo' = fifo /\ lost' = TRUE)
  BY Zenon DEF Press
<1>2. UNCHANGED <<pc, key, line, lines>>
  BY <1>1 DEF users
<1>3. /\ l \in Nat /\ u \in Nat /\ b \in Nat /\ t \in 0..1 /\ n \in Nat /\ n + t + b + u = l
  BY DoneFacts
<1>4. typed \in Seq(Keys) /\ fifo \in Seq(Keys)
  BY Zenon DEF ConsoleTypes
<1>5. Len(typed') = l + 1 /\ typed' \in Seq(Keys) /\ typed'[l + 1] = k /\ \A i \in 1..l : typed'[i] = typed[i]
  BY <1>1, <1>4
<1>6. Taken(D)' = t
  BY <1>2 DEF Taken
<1>7. CASE fifo' = fifo /\ lost' = TRUE
  <2>1. Done(D)' = (l + 1) - u - b - t
    BY <1>1, <1>5, <1>6, <1>7 DEF Done
  <2> HIDE DEF n, t, b, u, l
  <2>2. Done(D)' \in Nat
    BY <1>3, <2>1
  <2> QED BY <1>7, <2>2 DEF KeysAt
<1>8. CASE fifo' = Append(fifo, k) /\ lost' = lost
  <2>1. Len(fifo') = u + 1 /\ fifo'[u + 1] = k /\ \A i \in 1..u : fifo'[i] = fifo[i]
    BY <1>4, <1>8
  <2>2. Done(D)' = n
    <3>1. Done(D)' = (l + 1) - (u + 1) - b - t
      BY <1>1, <1>5, <1>6, <2>1 DEF Done
    <3> HIDE DEF n, t, b, u, l
    <3> QED BY <1>3, <3>1
  <2>3. ASSUME ~lost' PROVE RestInOrder(D)' /\ TextRead(D)'
    <3>1. RestInOrder(D) /\ TextRead(D)
      BY <1>8, <2>3 DEF KeysAt
    <3>2. /\ pc[D] = "key" => key[D] = typed[n + 1]
          /\ \A i \in 1..b : INPUT_BUF[i] = typed[n + t + i]
          /\ \A i \in 1..u : fifo[i] = typed[n + t + b + i]
      BY <3>1 DEF RestInOrder
    <3>3. pc[D] = "key" => t = 1
      BY DEF Taken
    <3>4. SubSeq(typed', 1, n) = SubSeq(typed, 1, n)
      <4> HIDE DEF n
      <4>1. n <= l
        BY <1>3
      <4> QED BY <1>3, <1>4, <1>5, <4>1
    <3>5. TextRead(D)'
      BY <1>2, <2>2, <3>1, <3>4, Zenon DEF TextRead
    <3> HIDE DEF n, t, b, u, l
    <3>6. pc[D] = "key" => key[D] = typed'[n + 1]
      BY <1>3, <1>5, <3>2, <3>3
    <3>7. \A i \in 1..b : INPUT_BUF[i] = typed'[n + t + i]
      BY <1>3, <1>5, <3>2
    <3>8. \A i \in 1..(u + 1) : fifo'[i] = typed'[n + t + b + i]
      <4> TAKE i \in 1..(u + 1)
      <4>1. CASE i = u + 1
        <5>1. n + t + b + i = l + 1
          BY <1>3, <4>1
        <5> QED BY <1>5, <2>1, <4>1, <5>1
      <4>2. CASE i # u + 1
        <5>1. i \in 1..u /\ n + t + b + i \in 1..l
          BY <1>3, <4>2
        <5> QED BY <1>5, <2>1, <3>2, <5>1
      <4> QED BY <4>1, <4>2
    <3>9. RestInOrder(D)'
      BY <1>1, <1>2, <1>6, <2>1, <2>2, <3>6, <3>7, <3>8, Zenon DEF RestInOrder, b, u
    <3> QED BY <3>5, <3>9
  <2> HIDE DEF n
  <2> QED BY <1>3, <2>2, <2>3 DEF KeysAt
<1> QED BY <1>1, <1>7, <1>8, Zenon

LEMMA ReceiveKeys ==
    ASSUME ConsoleTypes, NEW D \in Procs, KeysAt(D), Receive
    PROVE  KeysAt(D)'
<1> DEFINE n == Done(D)
           t == Taken(D)
           b == Len(INPUT_BUF)
           u == Len(fifo)
           l == Len(typed)
<1>1. /\ fifo # << >> /\ push_key(Head(fifo)) /\ fifo' = Tail(fifo) /\ typed' = typed /\ UNCHANGED users
  BY Zenon DEF Receive
<1>2. UNCHANGED <<pc, key, line, lines>>
  BY <1>1 DEF users
<1>3. /\ l \in Nat /\ u \in Nat /\ b \in Nat /\ t \in 0..1 /\ n \in Nat /\ n + t + b + u = l
  BY DoneFacts
<1>4. /\ u > 0 /\ Len(fifo') = u - 1 /\ Head(fifo) = fifo[1] /\ Head(fifo) \in Keys
      /\ \A i \in 1..(u - 1) : fifo'[i] = fifo[i + 1]
  BY <1>1 DEF ConsoleTypes
<1>5. Taken(D)' = t
  BY <1>2 DEF Taken
<1>6. CASE INPUT_BUF' = Append(INPUT_BUF, Head(fifo)) /\ UNCHANGED lost
  <2>1. /\ Len(INPUT_BUF') = b + 1 /\ INPUT_BUF'[b + 1] = Head(fifo)
        /\ \A i \in 1..b : INPUT_BUF'[i] = INPUT_BUF[i]
    BY <1>4, <1>6 DEF ConsoleTypes
  <2>2. Done(D)' = n
    <3>1. Done(D)' = l - (u - 1) - (b + 1) - t
      BY <1>1, <1>4, <1>5, <2>1 DEF Done
    <3> HIDE DEF n, t, b, u, l
    <3> QED BY <1>3, <3>1
  <2>3. ASSUME ~lost' PROVE RestInOrder(D)' /\ TextRead(D)'
    <3>1. RestInOrder(D) /\ TextRead(D)
      BY <1>6, <2>3 DEF KeysAt
    <3>2. TextRead(D)'
      BY <1>1, <1>2, <2>2, <3>1 DEF TextRead
    <3>3. /\ pc[D] = "key" => key[D] = typed[n + 1]
          /\ \A i \in 1..b : INPUT_BUF[i] = typed[n + t + i]
          /\ \A i \in 1..u : fifo[i] = typed[n + t + b + i]
      BY <3>1 DEF RestInOrder
    <3> HIDE DEF n, t, b, u, l
    <3>4. \A i \in 1..(b + 1) : INPUT_BUF'[i] = typed[n + t + i]
      <4> TAKE i \in 1..(b + 1)
      <4>1. CASE i = b + 1
        <5>1. n + t + i = n + t + b + 1 /\ 1 \in 1..u
          BY <1>3, <1>4, <4>1
        <5>2. fifo[1] = typed[n + t + b + 1]
          BY <3>3, <5>1
        <5> QED BY <1>4, <2>1, <4>1, <5>1, <5>2, Zenon
      <4>2. CASE i # b + 1
        <5>1. i \in 1..b
          BY <1>3, <4>2
        <5> QED BY <2>1, <3>3, <5>1
      <4> QED BY <4>1, <4>2
    <3>5. \A i \in 1..(u - 1) : fifo'[i] = typed[n + t + (b + 1) + i]
      <4> TAKE i \in 1..(u - 1)
      <4>1. i + 1 \in 1..u /\ n + t + b + (i + 1) = n + t + (b + 1) + i
        BY <1>3
      <4>2. fifo[i + 1] = typed[n + t + b + (i + 1)]
        BY <3>3, <4>1, Zenon
      <4> QED BY <1>4, <4>1, <4>2
    <3>6. RestInOrder(D)'
      BY <1>1, <1>2, <1>4, <1>5, <2>1, <2>2, <3>3, <3>4, <3>5, Zenon DEF RestInOrder
    <3> QED BY <3>2, <3>6
  <2> HIDE DEF n
  <2> QED BY <1>3, <2>2, <2>3 DEF KeysAt
<1>7. CASE lost' = TRUE /\ UNCHANGED INPUT_BUF
  <2>1. Done(D)' = l - (u - 1) - b - t
    BY <1>1, <1>4, <1>5, <1>7 DEF Done
  <2> HIDE DEF n, t, b, u, l
  <2>2. Done(D)' \in Nat
    BY <1>3, <2>1
  <2> QED BY <1>7, <2>2 DEF KeysAt
<1> QED BY <1>1, <1>6, <1>7, Zenon DEF push_key

LEMMA SysReadInv ==
    ASSUME ConsoleTypes, Chain, NEW D \in Procs, ReaderAt(D), SysRead(D), INPUT_BUF # << >>
    PROVE  Chain' /\ ReaderAt(D)'
<1> DEFINE n == Done(D)
           b == Len(INPUT_BUF)
           u == Len(fifo)
           l == Len(typed)
           k == Head(INPUT_BUF)
<1>1. /\ pc[D] = "reading" /\ key' = [key EXCEPT ![D] = k] /\ INPUT_BUF' = Tail(INPUT_BUF)
      /\ pc' = [pc EXCEPT ![D] = "key"] /\ UNCHANGED <<typed, fifo, lost, line, child, lines>>
  BY Zenon DEF SysRead
<1>2. OneActive(D) /\ KeysAt(D)
  BY Zenon DEF ReaderAt
<1>3. /\ l \in Nat /\ u \in Nat /\ b \in Nat /\ n \in Nat /\ n + b + u = l /\ Taken(D) = 0
  <2>1. Taken(D) = 0
    BY <1>1 DEF Taken
  <2> QED BY <1>2, <2>1, DoneFacts
<1>4. /\ b > 0 /\ Len(INPUT_BUF') = b - 1 /\ k = INPUT_BUF[1] /\ k \in Keys
      /\ \A i \in 1..(b - 1) : INPUT_BUF'[i] = INPUT_BUF[i + 1]
  BY <1>1 DEF ConsoleTypes
<1>5. k # NoKey
  BY <1>4, Zenon DEF Keys, Commands, NoKey
<1>6. key'[D] = k /\ \A p \in Procs : p # D => key'[p] = key[p]
  BY <1>1, Zenon DEF ConsoleTypes
<1>7. Chain' /\ (\A p \in Procs : Turn(p)' => p = D) /\ pc'[D] = "key"
  <2>1. "reading" \in Busy /\ "key" \in Busy
    BY DEF Busy
  <2> QED BY <1>1, <1>2, <2>1, BusyMoves, Zenon
<1>8. OneActive(D)'
  <2>1. pc'[D] \in Busy
    BY <1>7 DEF Busy
  <2> HIDE DEF k
  <2> QED BY <1>1, <1>2, <1>5, <1>6, <1>7, <2>1, Zenon DEF OneActive
<1>9. Taken(D)' = 1
  BY <1>7 DEF Taken
<1>10. Done(D)' = n
  <2>1. Done(D)' = l - u - (b - 1) - 1
    BY <1>1, <1>4, <1>9 DEF Done
  <2> HIDE DEF n, b, u, l
  <2> QED BY <1>3, <2>1
<1>11. ASSUME ~lost' PROVE RestInOrder(D)' /\ TextRead(D)'
  <2>1. RestInOrder(D) /\ TextRead(D)
    BY <1>1, <1>2, <1>11, Zenon DEF KeysAt
  <2>2. TextRead(D)'
    BY <1>1, <1>7, <1>10, <2>1, Zenon DEF TextRead
  <2>3. /\ \A i \in 1..b : INPUT_BUF[i] = typed[n + 0 + i]
        /\ \A i \in 1..u : fifo[i] = typed[n + 0 + b + i]
    BY <1>3, <2>1, Zenon DEF RestInOrder
  <2> HIDE DEF n, b, u, l, k
  <2>4. k = typed[n + 1]
    <3>1. 1 \in 1..b /\ n + 0 + 1 = n + 1
      BY <1>3, <1>4
    <3> QED BY <1>4, <2>3, <3>1
  <2>5. \A i \in 1..(b - 1) : INPUT_BUF'[i] = typed[n + 1 + i]
    <3> TAKE i \in 1..(b - 1)
    <3>1. i + 1 \in 1..b /\ n + 0 + (i + 1) = n + 1 + i
      BY <1>3
    <3>2. INPUT_BUF[i + 1] = typed[n + 0 + (i + 1)]
      BY <2>3, <3>1
    <3> QED BY <1>4, <3>1, <3>2
  <2>6. \A i \in 1..u : fifo[i] = typed[n + 1 + (b - 1) + i]
    <3> TAKE i \in 1..u
    <3>1. n + 0 + b + i = n + 1 + (b - 1) + i
      BY <1>3
    <3> QED BY <2>3, <3>1
  <2>7. RestInOrder(D)'
    BY <1>1, <1>4, <1>6, <1>7, <1>9, <1>10, <2>4, <2>5, <2>6, Zenon DEF RestInOrder, u
  <2> QED BY <2>2, <2>7
<1>12. KeysAt(D)'
  <2> HIDE DEF n
  <2> QED BY <1>3, <1>10, <1>11 DEF KeysAt
<1> QED BY <1>7, <1>8, <1>12, Zenon DEF ReaderAt

\* The three cases of the match, and what each does to the text.
LEMMA HandleKeyText ==
    ASSUME ConsoleTypes, NEW D \in Procs, HandleKey(D)
    PROVE  \E x \in {"line", "reading"} :
               /\ pc' = [pc EXCEPT ![D] = x]
               /\ Edit([done |-> lines, open |-> line[D]], key[D]) =
                      [done |-> lines', open |-> IF x = "reading" THEN line'[D] ELSE << >>]
<1>1. line \in [Procs -> Seq(Symbols)]
  BY Zenon DEF ConsoleTypes
<1>2. \/ /\ key[D] = "enter" /\ lines' = Append(lines, line[D])
         /\ pc' = [pc EXCEPT ![D] = "line"] /\ UNCHANGED line
      \/ /\ key[D] = "backspace" /\ line' = [line EXCEPT ![D] = Erased(@)]
         /\ pc' = [pc EXCEPT ![D] = "reading"] /\ UNCHANGED lines
      \/ /\ key[D] \notin {"enter", "backspace"} /\ line' = [line EXCEPT ![D] = Append(@, key[D])]
         /\ pc' = [pc EXCEPT ![D] = "reading"] /\ UNCHANGED lines
  BY Zenon DEF HandleKey
<1>3. CASE /\ key[D] = "enter" /\ lines' = Append(lines, line[D])
           /\ pc' = [pc EXCEPT ![D] = "line"] /\ UNCHANGED line
  <2>1. Edit([done |-> lines, open |-> line[D]], key[D]) = [done |-> lines', open |-> << >>]
    BY <1>3 DEF Edit
  <2>2. "line" # "reading"
    OBVIOUS
  <2> QED BY <1>3, <2>1, <2>2, Zenon
<1>4. CASE /\ key[D] = "backspace" /\ line' = [line EXCEPT ![D] = Erased(@)]
           /\ pc' = [pc EXCEPT ![D] = "reading"] /\ UNCHANGED lines
  <2>1. line'[D] = Erased(line[D])
    BY <1>1, <1>4, Zenon
  <2>2. Edit([done |-> lines, open |-> line[D]], key[D]) = [done |-> lines, open |-> Erased(line[D])]
    BY <1>4, Zenon DEF Edit, Erased
  <2> QED BY <1>4, <2>1, <2>2, Zenon
<1>5. CASE /\ key[D] \notin {"enter", "backspace"} /\ line' = [line EXCEPT ![D] = Append(@, key[D])]
           /\ pc' = [pc EXCEPT ![D] = "reading"] /\ UNCHANGED lines
  <2>1. line'[D] = Append(line[D], key[D])
    BY <1>1, <1>5, Zenon
  <2>2. Edit([done |-> lines, open |-> line[D]], key[D]) = [done |-> lines, open |-> Append(line[D], key[D])]
    BY <1>5, Zenon DEF Edit
  <2> QED BY <1>5, <2>1, <2>2, Zenon
<1> QED BY <1>2, <1>3, <1>4, <1>5, Zenon

LEMMA HandleKeyInv ==
    ASSUME ConsoleTypes, Chain, NEW D \in Procs, ReaderAt(D), HandleKey(D)
    PROVE  Chain' /\ ReaderAt(D)'
<1> DEFINE n == Done(D)
           b == Len(INPUT_BUF)
           u == Len(fifo)
           l == Len(typed)
<1>1. /\ pc[D] = "key" /\ key' = [key EXCEPT ![D] = NoKey]
      /\ UNCHANGED <<typed, uart, prog, child, orphaned, machine>>
  BY Zenon DEF HandleKey
<1>2. UNCHANGED <<typed, fifo, INPUT_BUF, lost, child>>
  BY <1>1 DEF uart
<1>3. OneActive(D) /\ KeysAt(D)
  BY Zenon DEF ReaderAt
<1>4. /\ l \in Nat /\ u \in Nat /\ b \in Nat /\ n \in Nat /\ n + 1 + b + u = l /\ Taken(D) = 1
  <2>1. Taken(D) = 1
    BY <1>1 DEF Taken
  <2> QED BY <1>3, <2>1, DoneFacts
<1>5. PICK x \in {"line", "reading"} :
          /\ pc' = [pc EXCEPT ![D] = x]
          /\ Edit([done |-> lines, open |-> line[D]], key[D]) =
                 [done |-> lines', open |-> IF x = "reading" THEN line'[D] ELSE << >>]
  BY HandleKeyText
<1>6. x \in Busy /\ x # "key" /\ pc[D] \in Busy
  BY <1>1, <1>5 DEF Busy
<1>7. /\ Chain' /\ (\A p \in Procs : Turn(p)' => p = D)
      /\ pc'[D] = x /\ \A p \in Procs : p # D => pc'[p] = pc[p]
  BY <1>2, <1>3, <1>5, <1>6, BusyMoves, Zenon
<1>8. key'[D] = NoKey /\ \A p \in Procs : p # D => key'[p] = key[p]
  BY <1>1, Zenon DEF ConsoleTypes
<1>9. \A p \in Procs : p # D => line'[p] = line[p]
  <2>1. \/ line' = line
        \/ line' = [line EXCEPT ![D] = Erased(line[D])]
        \/ line' = [line EXCEPT ![D] = Append(line[D], key[D])]
    BY Zenon DEF HandleKey
  <2> QED BY <2>1, Zenon DEF ConsoleTypes
<1>10. OneActive(D)'
  BY <1>3, <1>6, <1>7, <1>8, <1>9, Zenon DEF OneActive
<1>11. Taken(D)' = 0
  BY <1>6, <1>7 DEF Taken
<1>12. Done(D)' = n + 1
  <2>1. Done(D)' = l - u - b - 0
    BY <1>2, <1>11 DEF Done
  <2> HIDE DEF n, b, u, l
  <2> QED BY <1>4, <2>1
<1>13. ASSUME ~lost' PROVE RestInOrder(D)' /\ TextRead(D)'
  <2>1. RestInOrder(D) /\ TextRead(D)
    BY <1>2, <1>3, <1>13, Zenon DEF KeysAt
  <2>2. key[D] = typed[n + 1] /\ typed \in Seq(Keys) /\ n < l
    <3>1. n < l
      <4> HIDE DEF n, b, u, l
      <4> QED BY <1>4
    <3> QED BY <1>1, <2>1, <3>1 DEF RestInOrder, ConsoleTypes
  <2>3. Text(SubSeq(typed, 1, n)) = [done |-> lines, open |-> line[D]]
    BY <1>1, <2>1, Zenon DEF TextRead
  <2> DEFINE open == IF x = "reading" THEN line'[D] ELSE << >>
  <2>4. Text(SubSeq(typed, 1, n + 1)) = [done |-> lines', open |-> open]
    <3> HIDE DEF n
    <3> QED BY <1>4, <1>5, <2>2, <2>3, TextStep, Zenon
  <2>5. TextRead(D)'
    <3>1. open = IF pc'[D] \in {"reading", "key"} THEN line'[D] ELSE << >>
      BY <1>6, <1>7, Zenon
    <3> HIDE DEF n, open
    <3> QED BY <1>2, <1>12, <2>4, <3>1, Zenon DEF TextRead
  <2>6. /\ \A i \in 1..b : INPUT_BUF[i] = typed[n + 1 + i]
        /\ \A i \in 1..u : fifo[i] = typed[n + 1 + b + i]
    BY <1>4, <2>1 DEF RestInOrder
  <2>7. /\ \A i \in 1..b : INPUT_BUF[i] = typed[(n + 1) + 0 + i]
        /\ \A i \in 1..u : fifo[i] = typed[(n + 1) + 0 + b + i]
    <3>1. n \in Nat
      BY <1>4, Zenon
    <3>2. (n + 1) + 0 = n + 1
      <4> HIDE DEF n
      <4> QED BY <3>1
    <3> QED BY <2>6, <3>2
  <2>8. pc'[D] # "key"
    BY <1>6, <1>7
  <2>9. RestInOrder(D)'
    BY <1>2, <1>11, <1>12, <2>7, <2>8, Zenon DEF RestInOrder
  <2> QED BY <2>5, <2>9
<1>14. KeysAt(D)'
  <2> HIDE DEF n
  <2>1. n + 1 \in Nat
    BY <1>4
  <2> QED BY <1>12, <1>13, <2>1, Zenon DEF KeysAt
<1> QED BY <1>7, <1>10, <1>14, Zenon DEF ReaderAt

(***************************************************************************)
(* The end of a line                                                       *)
(***************************************************************************)

\* No key moves, none is in hand, and no line is begun: the turn of D may pass
\* to E.
LEMMA KeysPass ==
    ASSUME NEW D \in Procs, KeysAt(D), NEW E \in Procs,
           UNCHANGED <<typed, uart, lines>>,
           pc[D] \notin {"reading", "key"}, pc'[E] # "key", line'[E] = << >>
    PROVE  KeysAt(E)'
<1>1. UNCHANGED <<typed, fifo, INPUT_BUF, lost, lines>>
  BY DEF uart
<1>2. pc[D] # "key"
  OBVIOUS
<1>3. Taken(D) = 0 /\ Taken(E)' = 0
  BY <1>2 DEF Taken
<1>4. Done(E)' = Done(D)
  BY <1>1, <1>3 DEF Done
<1>5. ASSUME ~lost' PROVE RestInOrder(E)' /\ TextRead(E)'
  <2>1. RestInOrder(D) /\ TextRead(D)
    BY <1>1, <1>5, Zenon DEF KeysAt
  <2>2. RestInOrder(E)'
    BY <1>1, <1>3, <1>4, <2>1, Zenon DEF RestInOrder
  <2>3. Text(SubSeq(typed, 1, Done(D))) = [done |-> lines, open |-> << >>]
    BY <2>1, Zenon DEF TextRead
  <2>4. TextRead(E)'
    BY <1>1, <1>4, <2>3, Zenon DEF TextRead
  <2> QED BY <2>2, <2>4
<1> QED BY <1>4, <1>5, Zenon DEF KeysAt

\* A step that leaves alone what D holds.
LEMMA KeysStay ==
    ASSUME NEW D \in Procs, KeysAt(D), UNCHANGED <<typed, uart, key, line, lines>>, pc'[D] = pc[D]
    PROVE  KeysAt(D)'
<1>1. UNCHANGED <<typed, fifo, INPUT_BUF, lost, key, line, lines>>
  BY DEF uart
<1>2. Taken(D)' = Taken(D)
  BY Zenon DEF Taken
<1>3. Done(D)' = Done(D)
  BY <1>1, <1>2, Zenon DEF Done
<1>4. RestInOrder(D) => RestInOrder(D)'
  BY <1>1, <1>2, <1>3, Zenon DEF RestInOrder
<1>5. TextRead(D) => TextRead(D)'
  BY <1>1, <1>3, Zenon DEF TextRead
<1> QED BY <1>1, <1>3, <1>4, <1>5, Zenon DEF KeysAt

LEMMA AnswerInv ==
    ASSUME ConsoleTypes, Chain, NEW D \in Procs, ReaderAt(D), Answer(D)
    PROVE  Chain' /\ ReaderAt(D)'
<1>1. /\ pc[D] = "line" /\ pc' = [pc EXCEPT ![D] = "reading"] /\ line' = [line EXCEPT ![D] = << >>]
      /\ UNCHANGED <<typed, uart, key, child, lines>>
  BY Zenon DEF Answer
<1>2. OneActive(D) /\ KeysAt(D)
  BY Zenon DEF ReaderAt
<1>3. "line" \in Busy /\ "reading" \in Busy /\ "line" \notin {"reading", "key"}
  BY DEF Busy
<1>4. /\ Chain' /\ (\A p \in Procs : Turn(p)' => p = D) /\ pc'[D] = "reading"
  BY <1>1, <1>2, <1>3, BusyMoves, Zenon
<1>5. line'[D] = << >> /\ \A p \in Procs : p # D => line'[p] = line[p]
  BY <1>1, Zenon DEF ConsoleTypes
<1>6. pc'[D] # "key" /\ pc[D] # "key"
  BY <1>1, <1>4
<1>7. OneActive(D)'
  BY <1>1, <1>2, <1>4, <1>5, <1>6, Zenon DEF OneActive
<1>8. KeysAt(D)'
  BY <1>1, <1>2, <1>3, <1>5, <1>6, KeysPass, Zenon
<1> QED BY <1>4, <1>7, <1>8, Zenon DEF ReaderAt

LEMMA ExitInv ==
    ASSUME ConsoleTypes, Chain, NEW D \in Procs, ReaderAt(D), Exit(D)
    PROVE  Chain' /\ \E E \in Procs : ReaderAt(E)'
<1>1. /\ pc[D] = "line" /\ pc' = After(D) /\ line' = [line EXCEPT ![D] = << >>]
      /\ key' = [key EXCEPT ![D] = NoKey] /\ UNCHANGED <<typed, uart, child, lines>>
  BY Zenon DEF Exit, Gone
<1>2. OneActive(D) /\ KeysAt(D)
  BY Zenon DEF ReaderAt
<1>3. /\ Chain' /\ (\E E \in Procs : \A p \in Procs : Turn(p)' => p = E)
      /\ \A p \in Procs : pc'[p] \notin {"key", "line"}
  BY <1>1, <1>2, ExitTurn, Zenon
<1>4. PICK E \in Procs : \A p \in Procs : Turn(p)' => p = E
  BY <1>3, Zenon
<1>5. \A p \in Procs : line'[p] = << >> /\ key'[p] = NoKey
  <2>1. line'[D] = << >> /\ key'[D] = NoKey
    BY <1>1, Zenon DEF ConsoleTypes
  <2>2. \A p \in Procs : p # D => line'[p] = line[p] /\ key'[p] = key[p]
    BY <1>1, Zenon DEF ConsoleTypes
  <2> QED BY <1>2, <2>1, <2>2, Zenon DEF OneActive
<1>6. pc'[E] # "key"
  BY <1>3, Zenon
<1>7. OneActive(E)'
  BY <1>4, <1>5, <1>6, Zenon DEF OneActive
<1>8. "line" \notin {"reading", "key"}
  OBVIOUS
<1>9. KeysAt(E)'
  BY <1>1, <1>2, <1>5, <1>6, <1>8, KeysPass, Zenon
<1> QED BY <1>3, <1>7, <1>9, Zenon DEF ReaderAt

LEMMA KillInv ==
    ASSUME ConsoleTypes, Chain, NEW D \in Procs, ReaderAt(D), NEW q \in Procs, Kill(D, q), ~orphaned'
    PROVE  Chain' /\ ReaderAt(D)'
<1>1. /\ pc[D] = "line" /\ q # D /\ pc[q] # "none" /\ pc' = [After(q) EXCEPT ![D] = "reading"]
      /\ line' = [line EXCEPT ![D] = << >>, ![q] = << >>]
      /\ key' = [key EXCEPT ![q] = NoKey] /\ UNCHANGED <<typed, uart, child, lines>>
      /\ orphaned' = (orphaned \/ child[q] \in Alive)
  BY Zenon DEF Kill, Gone
<1>2. OneActive(D) /\ KeysAt(D) /\ child[q] \notin Alive
  BY <1>1, Zenon DEF ReaderAt
<1>3. q \notin Alive /\ \A p \in Procs : pc[p] = "waiting" => child[p] # q
  BY <1>1, <1>2, KilledIsDead, Zenon
<1> DEFINE a == After(q)
<1>4. /\ a \in [Procs -> Places] /\ a[q] \in {"exited", "queued"}
      /\ \A p \in Procs : a[p] \in {"spawned", "waiting"} => pc[p] = a[p] /\ p # q
      /\ \A p \in Procs : p # q /\ pc[p] \in Living => a[p] \in Living
      /\ \A p \in Procs : a[p] \in Living => pc[p] \in Living
      /\ \A p \in Procs : a[p] = "none" => pc[p] = "none"
      /\ \A p \in Procs : a[p] \in Busy =>
             p # q /\ (pc[p] = a[p] \/ (pc[p] = "waiting" /\ child[p] = q))
  BY <1>1, AfterFacts
<1> HIDE DEF a
<1>5. pc'[D] = "reading" /\ \A p \in Procs : p # D => pc'[p] = a[p]
  BY <1>1, <1>4, Zenon DEF a
<1>6. "reading" \in Living /\ "line" \in Living /\ "line" \in Busy /\ "reading" \notin {"spawned", "waiting", "none"}
  BY DEF Living, Busy
<1>7. Alive' = Alive
  <2>1. \A p \in Procs : p \in Alive <=> pc[p] \in Living
    BY AliveIs, Zenon
  <2>2. pc[q] \notin Living
    BY <1>3, <2>1, Zenon
  <2>3. \A p \in Procs : pc'[p] \in Living <=> pc[p] \in Living
    BY <1>1, <1>4, <1>5, <1>6, <2>2, Zenon
  <2> QED BY <2>3, Zenon DEF Alive, Living, Busy
<1>8. ASSUME NEW p \in Procs, Turn(p)' PROVE p = D
  <2>1. ASSUME p # D PROVE FALSE
    <3>1. pc'[p] = a[p] /\ child'[p] = child[p]
      BY <1>1, <1>5, <2>1, Zenon
    <3>2. ~Turn(p)
      BY <1>2, <2>1, Zenon DEF OneActive
    <3>3. CASE a[p] \in Busy
      BY <1>3, <1>4, <3>2, <3>3, Zenon DEF Turn
    <3>4. CASE a[p] = "spawned" /\ child[p] \notin Alive
      BY <1>4, <3>2, <3>4, Zenon DEF Turn
    <3> QED BY <1>7, <1>8, <3>1, <3>3, <3>4, Zenon DEF Turn
  <2> QED BY <2>1, Zenon
<1>9. Chain'
  <2>1. \A p \in Procs : pc'[p] \in {"spawned", "waiting"} => pc[p] = pc'[p]
    BY <1>4, <1>5, <1>6, Zenon
  <2>2. \A p \in Procs : pc'[p] = "none" => pc[p] = "none"
    BY <1>4, <1>5, <1>6, Zenon
  <2>3. \A p \in Procs : pc'[p] = "waiting" => child'[p] \in Alive'
    BY <1>1, <1>7, <2>1, Zenon DEF Chain
  <2>4. ASSUME NEW p \in Procs, pc'[p] = "spawned"
        PROVE  child'[p] \in Procs /\ pc'[child'[p]] # "none"
    <3>1. pc[p] = "spawned" /\ child'[p] = child[p]
      BY <1>1, <2>1, <2>4, Zenon
    <3>2. child[p] \in Procs /\ pc[child[p]] # "none"
      BY <3>1, Zenon DEF Chain
    <3>3. pc'[child[p]] # "none"
      BY <2>2, <3>2, Zenon
    <3> QED BY <3>1, <3>2, <3>3, Zenon
  <2>5. \A p, r \in Procs : /\ pc'[p] \in {"spawned", "waiting"} /\ pc'[r] \in {"spawned", "waiting"}
                            /\ child'[p] = child'[r]
                            => p = r
    BY <1>1, <2>1, Zenon DEF Chain
  <2> QED BY <2>3, <2>4, <2>5, Zenon DEF Chain
<1>10. \A p \in Procs : line'[p] = << >> /\ key'[p] = NoKey
  <2>1. \A p \in Procs : p # D => line[p] = << >> /\ key[p] = NoKey
    BY <1>2, Zenon DEF OneActive
  <2>2. key[D] = NoKey
    <3>1. pc[D] # "key"
      BY <1>1
    <3> QED BY <1>2, <3>1, Zenon DEF OneActive
  <2>3. \A p \in Procs : key'[p] = NoKey
    BY <1>1, <2>1, <2>2, Zenon DEF ConsoleTypes
  <2>4. line'[D] = << >> /\ line'[q] = << >> /\ \A p \in Procs \ {D, q} : line'[p] = line[p]
    BY <1>1 DEF ConsoleTypes
  <2> QED BY <2>1, <2>3, <2>4
<1>11. pc'[D] # "key"
  BY <1>5
<1>12. OneActive(D)'
  BY <1>8, <1>10, <1>11, Zenon DEF OneActive
<1>13. "line" \notin {"reading", "key"}
  OBVIOUS
<1>14. KeysAt(D)'
  BY <1>1, <1>2, <1>10, <1>11, <1>13, KeysPass, Zenon
<1> QED BY <1>9, <1>12, <1>14, Zenon DEF ReaderAt

LEMMA SpawnInv ==
    ASSUME ConsoleTypes, Chain, NEW D \in Procs, ReaderAt(D), NEW program, Spawn(D, program)
    PROVE  Chain' /\ \E E \in Procs : ReaderAt(E)'
<1>1. /\ pc[D] = "line" /\ line' = [line EXCEPT ![D] = << >>]
      /\ UNCHANGED <<typed, uart, key, lines>>
  BY Zenon DEF Spawn
<1>2. PICK c \in Procs : /\ pc[c] = "none" /\ pc' = [pc EXCEPT ![D] = "spawned", ![c] = "reading"]
                         /\ child' = [child EXCEPT ![D] = c]
  BY Zenon DEF Spawn, Unused
<1>3. OneActive(D) /\ KeysAt(D)
  BY Zenon DEF ReaderAt
<1>4. Chain' /\ pc'[c] = "reading" /\ \A p \in Procs : Turn(p)' => p = c
  BY <1>1, <1>2, <1>3, SpawnTurn, Zenon
<1>5. \A p \in Procs : line'[p] = << >> /\ key'[p] = NoKey
  <2>1. key[D] = NoKey
    <3>1. pc[D] # "key"
      BY <1>1
    <3> QED BY <1>3, <3>1, Zenon DEF OneActive
  <2>2. line'[D] = << >> /\ \A p \in Procs : p # D => line'[p] = line[p]
    BY <1>1, Zenon DEF ConsoleTypes
  <2> QED BY <1>1, <1>3, <2>1, <2>2, Zenon DEF OneActive
<1>6. pc'[c] # "key"
  BY <1>4
<1>7. OneActive(c)'
  BY <1>4, <1>5, <1>6, Zenon DEF OneActive
<1>8. "line" \notin {"reading", "key"}
  OBVIOUS
<1>9. KeysAt(c)'
  BY <1>1, <1>3, <1>5, <1>6, <1>8, KeysPass, Zenon
<1> QED BY <1>4, <1>7, <1>9, Zenon DEF ReaderAt

LEMMA WaitPidInv ==
    ASSUME ConsoleTypes, Chain, NEW D \in Procs, ReaderAt(D), NEW p \in Procs, WaitPid(p)
    PROVE  Chain' /\ ReaderAt(D)'
<1>1. pc[p] = "spawned" /\ UNCHANGED <<typed, uart, key, line, lines>>
  BY Zenon DEF WaitPid
<1>2. OneActive(D) /\ KeysAt(D)
  BY Zenon DEF ReaderAt
<1>3. /\ Chain' /\ \A q \in Procs : Turn(q)' => q = D
      /\ \A q \in Procs : q # p => pc'[q] = pc[q]
      /\ pc'[p] = "waiting" \/ (pc'[p] = "reading" /\ p = D)
  BY <1>2, WaitPidTurn
<1>4. pc'[p] # "key" /\ pc[p] # "key" /\ pc[p] \notin Busy /\ pc[p] \notin {"reading", "key"}
  BY <1>1, <1>3 DEF Busy
<1>5. CASE p = D
  <2>1. line[D] = << >> /\ key[D] = NoKey
    BY <1>2, <1>4, <1>5, Zenon DEF OneActive
  <2>2. OneActive(D)'
    BY <1>1, <1>2, <1>3, <1>4, <1>5, <2>1, Zenon DEF OneActive
  <2>3. KeysAt(D)'
    BY <1>1, <1>2, <1>4, <1>5, <2>1, KeysPass, Zenon
  <2> QED BY <1>3, <2>2, <2>3, Zenon DEF ReaderAt
<1>6. CASE p # D
  <2>1. pc'[D] = pc[D]
    BY <1>3, <1>6, Zenon
  <2>2. OneActive(D)'
    BY <1>1, <1>2, <1>3, <2>1, Zenon DEF OneActive
  <2>3. KeysAt(D)'
    BY <1>1, <1>2, <2>1, KeysStay, Zenon
  <2> QED BY <1>3, <2>2, <2>3, Zenon DEF ReaderAt
<1> QED BY <1>5, <1>6

(***************************************************************************)
(* The console                                                             *)
(***************************************************************************)

\* A step in which no process takes part.
LEMMA UsersStay ==
    ASSUME Chain, NEW D \in Procs, OneActive(D), UNCHANGED users
    PROVE  Chain' /\ OneActive(D)'
<1>1. UNCHANGED <<pc, key, line, child>>
  BY DEF users
<1>2. Alive' = Alive
  BY <1>1, Zenon DEF Alive
<1>3. Chain'
  BY <1>1, <1>2, Zenon DEF Chain
<1>4. \A p \in Procs : Turn(p)' <=> Turn(p)
  BY <1>1, <1>2, Zenon DEF Turn
<1> QED BY <1>1, <1>3, <1>4, Zenon DEF OneActive

LEMMA QuietStep == ASSUME ConsoleInv, UNCHANGED <<typed, fifo, INPUT_BUF, lost, users>> PROVE ConsoleInv'
<1>1. UNCHANGED <<typed, fifo, INPUT_BUF, lost, pc, key, line, child, lines, orphaned>>
  BY DEF users
<1>2. ConsoleTypes'
  BY <1>1, Zenon DEF ConsoleInv, ConsoleTypes
<1>3. ASSUME ~orphaned' PROVE Chain' /\ \E D \in Procs : ReaderAt(D)'
  <2>1. Chain /\ \E D \in Procs : ReaderAt(D)
    BY <1>1, <1>3, Zenon DEF ConsoleInv
  <2>2. PICK D \in Procs : ReaderAt(D)
    BY <2>1, Zenon
  <2>3. OneActive(D) /\ KeysAt(D)
    BY <2>2, Zenon DEF ReaderAt
  <2>4. Chain' /\ OneActive(D)'
    BY <2>1, <2>3, UsersStay, Zenon
  <2>5. Taken(D)' = Taken(D)
    BY <1>1, Zenon DEF Taken
  <2>6. Done(D)' = Done(D)
    BY <1>1, <2>5, Zenon DEF Done
  <2>7. RestInOrder(D) => RestInOrder(D)'
    BY <1>1, <2>5, <2>6, Zenon DEF RestInOrder
  <2>8. TextRead(D) => TextRead(D)'
    BY <1>1, <2>6, Zenon DEF TextRead
  <2>9. lost' = lost
    BY <1>1
  <2>10. KeysAt(D)'
    BY <2>3, <2>6, <2>7, <2>8, <2>9 DEF KeysAt
  <2> QED BY <2>4, <2>10, Zenon DEF ReaderAt
<1> QED BY <1>2, <1>3, Zenon DEF ConsoleInv

LEMMA UserStep == ASSUME ConsoleInv, NEW p \in Procs, User(p) PROVE ConsoleInv'
<1>1. CASE SysRead(p) /\ INPUT_BUF = << >>
  <2>1. UNCHANGED vars
    BY <1>1, Zenon DEF SysRead
  <2>2. UNCHANGED <<typed, fifo, INPUT_BUF, lost, users>>
    BY <2>1 DEF vars, uart
  <2> QED BY <2>2, QuietStep
<1>2. CASE ~(SysRead(p) /\ INPUT_BUF = << >>)
  <2>1. ConsoleTypes
    BY Zenon DEF ConsoleInv
  <2>2. ConsoleTypes'
    BY <1>2, <2>1, HandTypes, LineTypes, Zenon DEF User
  <2>3. ~orphaned' => ~orphaned
    <3>1. orphaned' = orphaned \/ \E q \in Procs : orphaned' = (orphaned \/ child[q] \in Alive)
      BY <1>2, Zenon DEF User, SysRead, HandleKey, Exit, Kill, Gone, Spawn, WaitPid, Answer
    <3> QED BY <3>1, Zenon
  <2>4. ASSUME ~orphaned' PROVE Chain' /\ \E D \in Procs : ReaderAt(D)'
    <3>1. Chain /\ \E D \in Procs : ReaderAt(D)
      BY <2>3, <2>4, Zenon DEF ConsoleInv
    <3>2. PICK D \in Procs : ReaderAt(D)
      BY <3>1, Zenon
    <3>3. CASE WaitPid(p)
      BY <2>1, <3>1, <3>2, <3>3, WaitPidInv, Zenon
    <3>4. CASE ~WaitPid(p)
      <4>1. pc[p] \in Busy
        BY <3>4, Zenon DEF User, SysRead, HandleKey, Exit, Kill, Spawn, Answer, Busy
      <4>2. p = D
        BY <3>2, <4>1, Zenon DEF ReaderAt, OneActive, Turn
      <4>3. CASE SysRead(D) \/ HandleKey(D) \/ Answer(D)
        BY <1>2, <2>1, <3>1, <3>2, <4>2, <4>3, SysReadInv, HandleKeyInv, AnswerInv, Zenon
      <4>4. CASE Exit(D)
        BY <2>1, <3>1, <3>2, <4>4, ExitInv, Zenon
      <4>5. ASSUME NEW q \in Procs, Kill(D, q) PROVE Chain' /\ \E E \in Procs : ReaderAt(E)'
        BY <2>1, <2>4, <3>1, <3>2, <4>5, KillInv, Zenon
      <4>6. ASSUME NEW program \in {"sh", "fact"}, Spawn(D, program)
            PROVE  Chain' /\ \E E \in Procs : ReaderAt(E)'
        BY <2>1, <3>1, <3>2, <4>6, SpawnInv, Zenon
      <4> QED BY <3>4, <4>2, <4>3, <4>4, <4>5, <4>6, Zenon DEF User
    <3> QED BY <3>3, <3>4, Zenon
  <2> QED BY <2>2, <2>4, Zenon DEF ConsoleInv
<1> QED BY <1>1, <1>2

LEMMA ConsoleStep == ASSUME ConsoleInv, [Next]_vars PROVE ConsoleInv'
<1>1. CASE UNCHANGED vars \/ Timeout \/ Wait \/ Panic
  <2>1. UNCHANGED <<typed, fifo, INPUT_BUF, lost, users>>
    BY <1>1 DEF vars, uart, Timeout, Wait, Panic
  <2> QED BY <2>1, QuietStep
<1>2. CASE (\E k \in Keys : Press(k)) \/ Receive
  <2>1. ConsoleTypes
    BY Zenon DEF ConsoleInv
  <2>2. ConsoleTypes'
    BY <1>2, <2>1, UartTypes, Zenon
  <2>3. UNCHANGED users
    BY <1>2, Zenon DEF Press, Receive
  <2>4. orphaned' = orphaned
    BY <2>3 DEF users
  <2>5. ASSUME ~orphaned' PROVE Chain' /\ \E D \in Procs : ReaderAt(D)'
    <3>1. Chain /\ \E D \in Procs : ReaderAt(D)
      BY <2>4, <2>5, Zenon DEF ConsoleInv
    <3>2. PICK D \in Procs : ReaderAt(D)
      BY <3>1, Zenon
    <3>3. OneActive(D) /\ KeysAt(D)
      BY <3>2, Zenon DEF ReaderAt
    <3>4. Chain' /\ OneActive(D)'
      BY <2>3, <3>1, <3>3, UsersStay, Zenon
    <3>5. KeysAt(D)'
      BY <1>2, <2>1, <3>3, PressKeys, ReceiveKeys, Zenon
    <3> QED BY <3>4, <3>5, Zenon DEF ReaderAt
  <2> QED BY <2>2, <2>5, Zenon DEF ConsoleInv
<1>3. ASSUME NEW p \in Procs, User(p) PROVE ConsoleInv'
  BY <1>3, UserStep
<1> QED BY <1>1, <1>2, <1>3, Zenon DEF Next, Step, Stopped

LEMMA ConsoleStart == ASSUME Init PROVE ConsoleInv
<1>1. PICK n \in 1..Nested :
          /\ pc = [p \in Procs |-> IF p < n THEN "waiting" ELSE IF p = n THEN "reading" ELSE "none"]
          /\ child = [p \in Procs |-> IF p < n THEN p + 1 ELSE 0]
  BY Zenon DEF Init
<1>2. n \in Procs /\ n \in Nat
  <2> DEFINE h == MaxKeys \div 2
  <2>1. Nested \in Nat /\ MaxKeys \in Nat /\ MaxProcs \in Nat /\ Nested + h <= MaxProcs
    BY ConsoleConstants
  <2>2. h \in Nat
    BY <2>1
  <2> HIDE DEF h
  <2>3. n \in Nat /\ 1 <= n /\ n <= MaxProcs
    BY <2>1, <2>2
  <2> QED BY <2>1, <2>3 DEF Procs
<1>3. \A p \in Procs : p \in Nat
  BY ProcFacts
<1>4. \A p \in Procs : p < n => p + 1 \in Procs
  <2>1. MaxProcs \in Nat
    BY ConsoleConstants
  <2> QED BY <1>2, <1>3, <2>1 DEF Procs
<1>5. /\ \A p \in Procs : pc[p] = IF p < n THEN "waiting" ELSE IF p = n THEN "reading" ELSE "none"
      /\ \A p \in Procs : child[p] = IF p < n THEN p + 1 ELSE 0
  BY <1>1, Zenon
<1>6. /\ \A p \in Procs : pc[p] = "waiting" => p < n
      /\ \A p \in Procs : pc[p] # "spawned"
      /\ \A p \in Procs : pc[p] \in Busy => p = n
      /\ pc[n] = "reading"
  <2>1. ~(n < n)
    BY <1>2
  <2> QED BY <1>2, <1>5, <2>1 DEF Busy
<1>7. ConsoleTypes
  <2>1. typed = << >> /\ fifo = << >> /\ INPUT_BUF = << >> /\ lines = << >>
    BY Zenon DEF Init
  <2>2. \A S : << >> \in Seq(S)
    OBVIOUS
  <2>3. pc \in [Procs -> Places]
    <3>1. "waiting" \in Places /\ "reading" \in Places /\ "none" \in Places
      BY DEF Places, Living, Busy
    <3> QED BY <1>1, <3>1, Zenon
  <2>4. child \in [Procs -> Procs \cup {0}]
    BY <1>1, <1>4, Zenon
  <2>5. key \in [Procs -> Symbols]
    BY Zenon DEF Init, Symbols
  <2>6. line \in [Procs -> Seq(Symbols)]
    BY <2>2, Zenon DEF Init
  <2> QED BY <2>1, <2>2, <2>3, <2>4, <2>5, <2>6, Zenon DEF ConsoleTypes
<1>8. Chain
  <2>1. ASSUME NEW p \in Procs, pc[p] = "waiting" PROVE child[p] \in Alive /\ child[p] = p + 1
    <3>1. p < n /\ child[p] = p + 1 /\ p + 1 \in Procs
      BY <1>4, <1>5, <1>6, <2>1, Zenon
    <3>2. p + 1 < n \/ p + 1 = n
      BY <1>2, <1>3, <3>1
    <3>3. pc[p + 1] \in {"waiting", "reading"}
      BY <1>5, <3>1, <3>2, Zenon
    <3> QED BY <3>1, <3>3, Zenon DEF Alive
  <2>2. ASSUME NEW p \in Procs, NEW q \in Procs, pc[p] = "waiting", pc[q] = "waiting", child[p] = child[q]
        PROVE  p = q
    <3>1. p + 1 = q + 1
      BY <2>1, <2>2, Zenon
    <3> QED BY <1>3, <3>1
  <2> QED BY <1>6, <2>1, <2>2, Zenon DEF Chain
<1>9. \A p \in Procs : key[p] = NoKey /\ line[p] = << >>
  BY Zenon DEF Init
<1>10. OneActive(n)
  <2>1. \A p \in Procs : Turn(p) => p = n
    BY <1>6, Zenon DEF Turn
  <2>2. pc[n] # "key"
    BY <1>6
  <2> QED BY <1>2, <1>9, <2>1, <2>2, Zenon DEF OneActive
<1>11. Taken(n) = 0 /\ Done(n) = 0
  <2>1. Taken(n) = 0
    BY <1>6 DEF Taken
  <2>2. Len(typed) = 0 /\ Len(fifo) = 0 /\ Len(INPUT_BUF) = 0
    BY DEF Init
  <2> QED BY <2>1, <2>2 DEF Done
<1>12. RestInOrder(n)
  BY <1>6 DEF Init, RestInOrder
<1>13. TextRead(n)
  <2>1. SubSeq(typed, 1, 0) = << >>
    BY DEF Init
  <2>2. lines = << >> /\ line[n] = << >>
    BY <1>2, <1>9, Zenon DEF Init
  <2> QED BY <1>6, <1>11, <2>1, <2>2, TextEmpty, Zenon DEF TextRead, NoText
<1>14. KeysAt(n)
  BY <1>11, <1>12, <1>13 DEF KeysAt
<1> QED BY <1>2, <1>7, <1>8, <1>10, <1>14, Zenon DEF ConsoleInv, ReaderAt

LEMMA ConsoleReads == ConsoleInv => TypedIsRead
<1> SUFFICES ASSUME ConsoleInv, ~lost, ~orphaned
             PROVE  /\ lines = Text(Handled).done
                    /\ \A p \in Reader : line[p] = Text(Handled).open
  BY DEF TypedIsRead
<1>1. PICK D \in Procs : ReaderAt(D)
  BY Zenon DEF ConsoleInv
<1>2. ConsoleTypes /\ OneActive(D) /\ TextRead(D)
  BY <1>1, Zenon DEF ConsoleInv, ReaderAt, KeysAt
<1>3. InHand = Taken(D)
  <2>1. key \in [Procs -> Symbols] /\ \A p \in Procs : p # D => key[p] = NoKey
    BY <1>2, Zenon DEF ConsoleTypes, OneActive
  <2>2. InHand = IF key[D] # NoKey THEN 1 ELSE 0
    BY <2>1, HandCount DEF InHand
  <2> QED BY <1>2, <2>2, Zenon DEF OneActive, Taken
<1>4. Handled = SubSeq(typed, 1, Done(D))
  BY <1>3, Zenon DEF Handled, Done
<1>5. Text(Handled) = [done |-> lines, open |-> IF pc[D] \in {"reading", "key"} THEN line[D] ELSE << >>]
  BY <1>2, <1>4, Zenon DEF TextRead
<1>6. ASSUME NEW p \in Reader PROVE line[p] = Text(Handled).open
  <2>1. p \in Procs /\ pc[p] \in {"reading", "key"}
    BY <1>6, Zenon DEF Reader
  <2>2. p = D
    BY <1>2, <2>1, Zenon DEF OneActive, Turn, Busy
  <2> QED BY <1>5, <2>1, <2>2
<1> QED BY <1>5, <1>6

\* Until a key is dropped or a process is killed whose program still runs,
\* what read_line has returned to the nested programs and the line that is
\* begun are the text typed, whole and in order, whatever the sizes of the
\* UART and of the buffer and however many processes there are.
THEOREM ConsoleCorrect == Spec => []TypedIsRead
<1>1. Init => ConsoleInv
  BY ConsoleStart
<1>2. ConsoleInv /\ [Next]_vars => ConsoleInv'
  BY ConsoleStep
<1> QED BY <1>1, <1>2, ConsoleReads, PTL DEF Spec
=============================================================================
