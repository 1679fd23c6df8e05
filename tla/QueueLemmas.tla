---------------------------- MODULE QueueLemmas ----------------------------
(***************************************************************************)
(* Facts that the proofs share: what a queue holds after a push or a pop,  *)
(* and what the kernel's semaphore is after a wait or a signal.            *)
(***************************************************************************)
EXTENDS Semaphore, Functions, TLAPS

(***************************************************************************)
(* Sequences, element by element.                                          *)
(***************************************************************************)

\* What the elements of a sequence are.
LEMMA SeqFacts ==
    ASSUME NEW S, NEW s \in Seq(S)
    PROVE  /\ Len(s) \in Nat /\ DOMAIN s = 1..Len(s)
           /\ \A i \in 1..Len(s) : s[i] \in S
           /\ Len(s) = 0 <=> s = << >>
OBVIOUS

\* The elements of a sequence over S are in S.
LEMMA RangeWithin ==
    ASSUME NEW S, NEW s \in Seq(S)
    PROVE  Range(s) \subseteq S
BY DEF Range

\* A new queue is empty.
LEMMA EmptyFacts ==
    ASSUME NEW S
    PROVE  << >> \in Seq(S) /\ Len(<< >>) = 0 /\ DOMAIN << >> = {}
OBVIOUS

\* A sequence given by its elements.
LEMMA SeqOfElements ==
    ASSUME NEW S, NEW n \in Nat, NEW e(_), \A i \in 1..n : e(i) \in S
    PROVE  /\ [i \in 1..n |-> e(i)] \in Seq(S)
           /\ Len([i \in 1..n |-> e(i)]) = n
OBVIOUS

\* push_back, element by element.
LEMMA AppendFacts ==
    ASSUME NEW S, NEW s \in Seq(S), NEW e \in S
    PROVE  /\ Append(s, e) \in Seq(S)
           /\ Len(Append(s, e)) = Len(s) + 1
           /\ \A i \in 1..Len(s) : Append(s, e)[i] = s[i]
           /\ Append(s, e)[Len(s) + 1] = e
OBVIOUS

\* pop_front, element by element.
LEMMA TailFacts ==
    ASSUME NEW S, NEW s \in Seq(S), s # << >>
    PROVE  /\ Len(s) \in Nat \ {0} /\ Head(s) = s[1] /\ Head(s) \in S
           /\ Tail(s) \in Seq(S)
           /\ Len(Tail(s)) = Len(s) - 1
           /\ \A i \in 1..Len(Tail(s)) : Tail(s)[i] = s[i + 1]
OBVIOUS

(***************************************************************************)
(* Sequences as sets of their elements.                                    *)
(***************************************************************************)

\* push_back adds one element at the end.
LEMMA AppendRange ==
    ASSUME NEW S, NEW s \in Seq(S), NEW e \in S
    PROVE  /\ Append(s, e) \in Seq(S)
           /\ Range(Append(s, e)) = Range(s) \cup {e}
           /\ IsInjective(s) /\ e \notin Range(s) => IsInjective(Append(s, e))
<1>1. /\ Append(s, e) \in Seq(S)
      /\ Len(Append(s, e)) = Len(s) + 1
      /\ \A i \in 1..Len(s) : Append(s, e)[i] = s[i]
      /\ Append(s, e)[Len(s) + 1] = e
  BY AppendFacts
<1>2. DOMAIN s = 1..Len(s) /\ DOMAIN Append(s, e) = 1..(Len(s) + 1) /\ Len(s) \in Nat
  BY <1>1, SeqFacts
<1>3. Range(Append(s, e)) = Range(s) \cup {e}
  BY <1>1, <1>2 DEF Range
<1>4. ASSUME IsInjective(s), e \notin Range(s) PROVE IsInjective(Append(s, e))
  BY <1>1, <1>2, <1>4 DEF IsInjective, Range
<1> QED BY <1>1, <1>3, <1>4

\* Pushing the elements of t one after the other.
LEMMA ConcatRange ==
    ASSUME NEW S, NEW s \in Seq(S), NEW t \in Seq(S)
    PROVE  /\ s \o t \in Seq(S)
           /\ Range(s \o t) = Range(s) \cup Range(t)
           /\ IsInjective(s) /\ IsInjective(t) /\ Range(s) \cap Range(t) = {}
                => IsInjective(s \o t)
<1>1. /\ s \o t \in Seq(S)
      /\ Len(s \o t) = Len(s) + Len(t)
      /\ \A i \in 1..(Len(s) + Len(t)) :
            (s \o t)[i] = IF i <= Len(s) THEN s[i] ELSE t[i - Len(s)]
  OBVIOUS
<1>2. /\ DOMAIN s = 1..Len(s) /\ DOMAIN t = 1..Len(t) /\ Len(s) \in Nat /\ Len(t) \in Nat
      /\ DOMAIN (s \o t) = 1..(Len(s) + Len(t))
  BY <1>1, SeqFacts
<1>3. Range(s \o t) = Range(s) \cup Range(t)
  <2>1. ASSUME NEW x \in Range(s \o t) PROVE x \in Range(s) \cup Range(t)
    <3>1. PICK i \in 1..(Len(s) + Len(t)) : x = (s \o t)[i]
      BY <1>2 DEF Range
    <3>2. i \in 1..Len(s) \/ i - Len(s) \in 1..Len(t)
      BY <1>2
    <3> QED BY <1>1, <1>2, <3>1, <3>2 DEF Range
  <2>2. ASSUME NEW x \in Range(s) PROVE x \in Range(s \o t)
    <3>1. PICK i \in 1..Len(s) : x = s[i]
      BY <1>2 DEF Range
    <3>2. i \in 1..(Len(s) + Len(t)) /\ x = (s \o t)[i]
      BY <1>1, <1>2, <3>1
    <3> QED BY <1>2, <3>2 DEF Range
  <2>3. ASSUME NEW x \in Range(t) PROVE x \in Range(s \o t)
    <3>1. PICK i \in 1..Len(t) : x = t[i]
      BY <1>2 DEF Range
    <3>2. Len(s) + i \in 1..(Len(s) + Len(t)) /\ x = (s \o t)[Len(s) + i]
      BY <1>1, <1>2, <3>1
    <3> QED BY <1>2, <3>2 DEF Range
  <2> QED BY <2>1, <2>2, <2>3
<1>4. ASSUME IsInjective(s), IsInjective(t), Range(s) \cap Range(t) = {},
             NEW i \in DOMAIN (s \o t), NEW j \in DOMAIN (s \o t), (s \o t)[i] = (s \o t)[j]
      PROVE  i = j
  <2>1. CASE i <= Len(s) /\ j <= Len(s)
    BY <1>1, <1>2, <1>4, <2>1 DEF IsInjective
  <2>2. CASE i > Len(s) /\ j > Len(s)
    <3>1. i - Len(s) \in 1..Len(t) /\ j - Len(s) \in 1..Len(t)
      BY <1>2, <2>2
    <3>2. t[i - Len(s)] = t[j - Len(s)]
      BY <1>1, <1>2, <1>4, <2>2
    <3> QED BY <3>1, <3>2, <1>2, <1>4, <2>2 DEF IsInjective
  <2>3. CASE i <= Len(s) /\ j > Len(s)
    <3>1. s[i] \in Range(s) /\ t[j - Len(s)] \in Range(t)
      BY <1>2, <2>3 DEF Range
    <3> QED BY <3>1, <1>1, <1>2, <1>4, <2>3
  <2>4. CASE i > Len(s) /\ j <= Len(s)
    <3>1. s[j] \in Range(s) /\ t[i - Len(s)] \in Range(t)
      BY <1>2, <2>4 DEF Range
    <3> QED BY <3>1, <1>1, <1>2, <1>4, <2>4
  <2> QED BY <1>2, <2>1, <2>2, <2>3, <2>4
<1> QED BY <1>1, <1>3, <1>4, Zenon DEF IsInjective

\* pop_front of an injective queue removes its head and nothing else.
LEMMA TailRange ==
    ASSUME NEW S, NEW s \in Seq(S), s # << >>, IsInjective(s)
    PROVE  /\ Head(s) \in Range(s)
           /\ Tail(s) \in Seq(S)
           /\ Range(Tail(s)) = Range(s) \ {Head(s)}
           /\ IsInjective(Tail(s))
<1>1. /\ Len(s) \in Nat \ {0} /\ Head(s) = s[1]
      /\ Tail(s) \in Seq(S)
      /\ Len(Tail(s)) = Len(s) - 1
      /\ \A i \in 1..Len(Tail(s)) : Tail(s)[i] = s[i + 1]
  BY TailFacts
<1>2. DOMAIN s = 1..Len(s) /\ DOMAIN Tail(s) = 1..(Len(s) - 1)
  BY <1>1, SeqFacts
<1>3. ASSUME NEW x \in Range(Tail(s)) PROVE x \in Range(s) \ {Head(s)}
  <2>1. PICK i \in 1..(Len(s) - 1) : x = s[i + 1]
    BY <1>1, <1>2, <1>3 DEF Range
  <2> QED BY <1>1, <1>2, <2>1 DEF Range, IsInjective
<1>4. ASSUME NEW x \in Range(s), x # Head(s) PROVE x \in Range(Tail(s))
  <2>1. PICK i \in 1..Len(s) : x = s[i]
    BY <1>2 DEF Range
  <2>2. i - 1 \in 1..(Len(s) - 1) /\ Tail(s)[i - 1] = x
    BY <1>1, <1>4, <2>1
  <2> QED BY <1>2, <2>2, Zenon DEF Range
<1>5. IsInjective(Tail(s))
  BY <1>1, <1>2 DEF IsInjective
<1>6. Range(Tail(s)) = Range(s) \ {Head(s)}
  BY <1>3, <1>4
<1>7. Head(s) \in Range(s)
  BY <1>1, <1>2 DEF Range
<1> QED BY <1>1, <1>5, <1>6, <1>7

\* What is left after the first i elements of an injective queue are popped.
Drop(s, i) == SubSeq(s, i + 1, Len(s))

LEMMA DropRange ==
    ASSUME NEW S, NEW s \in Seq(S), IsInjective(s), NEW i \in 1..Len(s)
    PROVE  /\ Drop(s, i) \in Seq(S)
           /\ Range(Drop(s, i)) \subseteq Range(s)
           /\ IsInjective(Drop(s, i))
           /\ s[i] \notin Range(Drop(s, i))
           /\ \A j \in 1..Len(s) : j > i => s[j] \in Range(Drop(s, i))
<1> DEFINE n == Len(s)  r == Drop(s, i)
<1>1. DOMAIN s = 1..n /\ n \in Nat /\ \A j \in 1..n : s[j] \in S
  BY SeqFacts
<1> HIDE DEF n, r
<1>2. r \in Seq(S)
  BY DEF r, Drop
<1>3. i \in 1..n
  BY DEF n
<1>4. Len(r) = n - i /\ \A j \in 1..(n - i) : r[j] = s[i + j]
  BY DEF n, r, Drop
<1>5. DOMAIN r = 1..(n - i)
  BY <1>2, <1>4, SeqFacts
<1>6. \A j \in 1..(n - i) : i + j \in 1..n /\ i + j # i
  BY <1>1, <1>3
<1>7. Range(r) \subseteq Range(s)
  BY <1>1, <1>4, <1>5, <1>6, Zenon DEF Range
<1>8. ASSUME NEW a \in 1..(n - i), NEW b \in 1..(n - i), r[a] = r[b] PROVE a = b
  <2>1. s[i + a] = s[i + b]
    BY <1>4, <1>8, Zenon
  <2>2. i + a = i + b
    BY <1>1, <1>6, <2>1, Zenon DEF IsInjective
  <2> QED BY <1>1, <1>3, <2>2
<1>9. IsInjective(r)
  BY <1>5, <1>8, Zenon DEF IsInjective
<1>10. s[i] \notin Range(r)
  <2> SUFFICES ASSUME NEW j \in 1..(n - i), s[i] = r[j] PROVE FALSE
    BY <1>5, Zenon DEF Range
  <2>1. i + j \in 1..n /\ i + j # i /\ s[i] = s[i + j]
    BY <1>4, <1>6, Zenon
  <2> QED BY <1>1, <1>3, <2>1, Zenon DEF IsInjective
<1>11. ASSUME NEW j \in 1..n, j > i PROVE s[j] \in Range(r)
  <2>1. j - i \in 1..(n - i) /\ i + (j - i) = j
    BY <1>1, <1>3, <1>11
  <2> QED BY <1>4, <1>5, <2>1 DEF Range
<1> QED BY <1>2, <1>7, <1>9, <1>10, <1>11 DEF n, r

(***************************************************************************)
(* The semaphore                                                           *)
(***************************************************************************)

\* A semaphore whose waiters are processes of P.
Semaphores(P) == [count : Nat, queue : Seq(P)]

\* The processes that wait for a unit of s.
Waiters(s) == Range(s.queue)

\* Nobody waits twice, and nobody waits while there is a unit.
Orderly(s) == IsInjective(s.queue) /\ (s.count = 0 \/ s.queue = << >>)

\* Semaphore::wait takes a unit, or leaves the caller waiting.
LEMMA WaitedFacts ==
    ASSUME NEW P, NEW s \in Semaphores(P), Orderly(s), NEW p \in P, p \notin Waiters(s)
    PROVE  /\ SemWaited(s, p) \in Semaphores(P)
           /\ Orderly(SemWaited(s, p))
           /\ s.count = 0 => /\ SemWaited(s, p).count = 0
                             /\ Waiters(SemWaited(s, p)) = Waiters(s) \cup {p}
           /\ s.count # 0 => /\ SemWaited(s, p).count = s.count - 1
                             /\ Waiters(SemWaited(s, p)) = Waiters(s)
<1> DEFINE c == s.count  t == s.queue
<1>1. c \in Nat /\ t \in Seq(P) /\ s = [count |-> c, queue |-> t]
  BY DEF Semaphores
<1>2. IsInjective(t) /\ p \notin Range(t) /\ (c = 0 \/ t = << >>)
  BY DEF Orderly, Waiters
<1> HIDE DEF c, t
<1>3. CASE c = 0
  <2>1. SemWaited(s, p) = [count |-> 0, queue |-> Append(t, p)]
    BY <1>1, <1>3, Zenon DEF SemWaited, Blocks
  <2>2. Append(t, p) \in Seq(P) /\ IsInjective(Append(t, p)) /\ Range(Append(t, p)) = Range(t) \cup {p}
    BY <1>1, <1>2, AppendRange
  <2> QED BY <2>1, <2>2, <1>1, <1>3 DEF Semaphores, Orderly, Waiters
<1>4. CASE c # 0
  <2>1. SemWaited(s, p) = [count |-> c - 1, queue |-> t]
    BY <1>1, <1>4 DEF SemWaited, Blocks
  <2> QED BY <2>1, <1>1, <1>2, <1>4 DEF Semaphores, Orderly, Waiters
<1> QED BY <1>3, <1>4

\* Semaphore::signal hands the unit to the first waiter, or keeps it.
LEMMA SignalledFacts ==
    ASSUME NEW P, NEW s \in Semaphores(P), Orderly(s)
    PROVE  /\ SemSignalled(s) \in Semaphores(P)
           /\ Orderly(SemSignalled(s))
           /\ s.queue # << >> => /\ SemSignalled(s).count = s.count
                                 /\ Head(s.queue) \in Waiters(s)
                                 /\ Waiters(SemSignalled(s)) = Waiters(s) \ {Head(s.queue)}
           /\ s.queue = << >> => /\ SemSignalled(s).count = s.count + 1
                                 /\ Waiters(s) = {} /\ Waiters(SemSignalled(s)) = {}
<1> DEFINE c == s.count  t == s.queue
<1>1. c \in Nat /\ t \in Seq(P) /\ s = [count |-> c, queue |-> t]
  BY DEF Semaphores
<1>2. IsInjective(t) /\ (c = 0 \/ t = << >>)
  BY DEF Orderly
<1> HIDE DEF c, t
<1>3. CASE t # << >>
  <2>1. SemSignalled(s) = [count |-> c, queue |-> Tail(t)]
    BY <1>1, <1>3, Zenon DEF SemSignalled, Wakes
  <2>2. /\ Head(t) \in Range(t) /\ Tail(t) \in Seq(P) /\ IsInjective(Tail(t))
        /\ Range(Tail(t)) = Range(t) \ {Head(t)}
    BY <1>1, <1>2, <1>3, TailRange
  <2> QED BY <2>1, <2>2, <1>1, <1>2, <1>3 DEF Semaphores, Orderly, Waiters
<1>4. CASE t = << >>
  <2>1. SemSignalled(s) = [count |-> c + 1, queue |-> t]
    BY <1>1, <1>4 DEF SemSignalled, Wakes
  <2>2. Range(t) = {}
    BY <1>4, EmptyFacts DEF Range
  <2> QED BY <2>1, <2>2, <1>1, <1>2, <1>4 DEF Semaphores, Orderly, Waiters
<1> QED BY <1>3, <1>4

\* Semaphore::new: as many units as given, and nobody waits.
LEMMA NewSemFacts ==
    ASSUME NEW P, NEW c \in Nat
    PROVE  /\ NewSem(c) \in Semaphores(P) /\ Orderly(NewSem(c))
           /\ NewSem(c).count = c /\ Waiters(NewSem(c)) = {}
<1>1. << >> \in Seq(P) /\ Range(<< >>) = {} /\ IsInjective(<< >>)
  BY EmptyFacts DEF Range, IsInjective
<1> QED BY <1>1 DEF NewSem, Semaphores, Orderly, Waiters
=============================================================================
