------------------------------ MODULE MqProofs ------------------------------
(***************************************************************************)
(* Proofs about Mq for every even number of processes, of rounds and of    *)
(* places: the mutex excludes, pop_front always finds a message, and the   *)
(* shared queue implements the safety part of Channel.  The argument       *)
(* counts units: each unit of EMPTY and of FULL is in the semaphore's      *)
(* count, with a process that has claimed it, or with one that has not     *)
(* posted it yet, and together they are the free and the used places.      *)
(***************************************************************************)
EXTENDS Mq, QueueLemmas, FiniteSetTheorems

Keys == {"MUTEX", "EMPTY", "FULL"}
Messages == [pid : Producers, val : 0..(Rounds - 1)]

\* The pcs between the claim of a unit and the use of the queue, inside the
\* mutex, and between the use of the queue and the post.
Claiming == {"claimed", "locked", "read"}
Section == {"locked", "read", "written"}
Posting == {"written", "unlocked"}

TypeOK ==
    /\ sems \in [Keys -> Semaphores(Procs)]
    /\ pc \in [Procs -> Claiming \cup Posting \cup {"unborn", "top", "exited"}]
    /\ round \in [Procs -> 0..Rounds]
    /\ seen \in [Procs -> Seq(Messages)]
    /\ MQ \in Seq(Messages)
    /\ popped \in Seq(Messages)
    /\ main \in 0..(2 * Threads)

\* Who waits waits where it should, and a process that counts a round has it.
Waiting ==
    /\ \A k \in Keys : Orderly(sems[k])
    /\ \A i \in Waiters(sems["MUTEX"]) : pc[i] = "locked"
    /\ \A k \in {"EMPTY", "FULL"} : \A i \in Waiters(sems[k]) : pc[i] = "claimed" /\ Claims(i) = k
    /\ \A i \in Procs : pc[i] \in Claiming \cup Posting => round[i] < Rounds
    /\ \A i \in Procs : i >= main => pc[i] = "unborn"

Holds(i) == pc[i] \in Section /\ i \notin Waiters(sems["MUTEX"])

\* The unit of MUTEX is in its count or with the one process that holds it;
\* what that process has read is the queue.
Mutex ==
    /\ sems["MUTEX"].count <= 1
    /\ \A i \in Procs : Holds(i) => sems["MUTEX"].count = 0
    /\ \A i, j \in Procs : Holds(i) /\ Holds(j) => i = j
    /\ \A i \in Procs : pc[i] = "read" => seen[i] = MQ

\* The units of EMPTY or FULL that are claimed and not used yet, and those
\* that are free again and not posted yet.
Posts(i) == IF i \in Producers THEN "FULL" ELSE "EMPTY"
Claimers(k) == {i \in Procs : Claims(i) = k /\ pc[i] \in Claiming /\ i \notin Waiters(sems[k])}
Posters(k) == {i \in Procs : Posts(i) = k /\ pc[i] \in Posting}
Units(k) == sems[k].count + Cardinality(Claimers(k)) + Cardinality(Posters(k))

Places == Units("FULL") = Len(MQ) /\ Units("EMPTY") = SIZE - Len(MQ)

IInv == TypeOK /\ Waiting /\ Mutex /\ Places

(***************************************************************************)
(* What the steps have in common.                                          *)
(***************************************************************************)

LEMMA Constants ==
    /\ Threads \in Nat /\ Rounds \in Nat /\ SIZE \in Nat /\ Procs \subseteq Int
    /\ \A i \in Procs : i < Threads
    /\ IsFiniteSet(Procs)
    /\ \A i \in Procs : Claims(i) \in {"EMPTY", "FULL"} /\ Posts(i) \in {"EMPTY", "FULL"}
<1>1. Threads \in Nat /\ Rounds \in Nat /\ SIZE \in Nat
  BY MqConstants
<1>2. Procs \subseteq Int /\ \A i \in Procs : i < Threads
  BY <1>1 DEF Procs
<1>3. IsFiniteSet(Procs)
  <2>1. 0 \in Int /\ Threads - 1 \in Int
    BY <1>1
  <2> QED BY <2>1, FS_Interval DEF Procs
<1>4. \A i \in Procs : Claims(i) \in {"EMPTY", "FULL"} /\ Posts(i) \in {"EMPTY", "FULL"}
  BY DEF Claims, Posts
<1> QED BY <1>1, <1>2, <1>3, <1>4

LEMMA SemIsNone == ASSUME NEW s \in Semaphores(Procs) PROVE s # NoSem
BY MqConstants DEF Semaphores

\* What a process needs in order to take a step.
LEMMA GoesFacts ==
    ASSUME IInv, NEW i \in Procs, NEW from, NEW to, Goes(i, from, to)
    PROVE  /\ pc[i] = from
           /\ \A j \in Procs : pc'[j] = IF j = i THEN to ELSE pc[j]
           /\ pc' = [pc EXCEPT ![i] = to]
           /\ \A k \in Keys : i \notin Waiters(sems[k])
           /\ from # "unborn" => ~(i >= main)
<1>1. DOMAIN sems = Keys /\ \A k \in Keys : sems[k] # NoSem
  BY SemIsNone DEF IInv, TypeOK
<1>2. pc[i] = from /\ pc' = [pc EXCEPT ![i] = to] /\ ~Blocked(i)
  BY DEF Goes
<1>3. \A k \in Keys : i \notin Waiters(sems[k])
  BY <1>1, <1>2 DEF Blocked, Waiters
<1>4. \A j \in Procs : pc'[j] = IF j = i THEN to ELSE pc[j]
  BY <1>2 DEF IInv, TypeOK
<1>5. from # "unborn" => ~(i >= main)
  BY <1>2 DEF IInv, Waiting
<1> QED BY <1>2, <1>3, <1>4, <1>5

\* A step of i that leaves no process waiting anew, but i itself.
LEMMA WaitingKept ==
    ASSUME IInv, NEW i \in Procs, NEW to, NEW k \in Keys, NEW s \in Semaphores(Procs),
           \A j \in Procs : pc'[j] = IF j = i THEN to ELSE pc[j],
           sems' = [sems EXCEPT ![k] = s], Orderly(s),
           \A j \in Waiters(s) : j # i => j \in Waiters(sems[k]),
           \A l \in Keys : i \notin Waiters(sems[l]),
           i \in Waiters(s) => IF k = "MUTEX" THEN to = "locked"
                                             ELSE to = "claimed" /\ Claims(i) = k,
           \A j \in Procs : pc'[j] \in Claiming \cup Posting => round'[j] < Rounds,
           \A j \in Procs : j >= main' => pc'[j] = "unborn"
    PROVE  Waiting' /\ sems' \in [Keys -> Semaphores(Procs)]
<1>1. \A l \in Keys : sems'[l] = IF l = k THEN s ELSE sems[l]
  BY DEF IInv, TypeOK
<1>2. \A l \in Keys : sems[l] \in Semaphores(Procs) /\ Waiters(sems[l]) \subseteq Procs
  BY RangeWithin DEF IInv, TypeOK, Semaphores, Waiters
<1>3. Waiters(s) \subseteq Procs
  BY RangeWithin DEF Semaphores, Waiters
<1>4. sems' \in [Keys -> Semaphores(Procs)]
  BY DEF IInv, TypeOK
<1>5. \A l \in Keys : Orderly(sems'[l])
  BY <1>1 DEF IInv, Waiting
<1>6. ASSUME NEW l \in Keys, NEW j \in Waiters(sems'[l])
      PROVE  /\ j \in Procs
             /\ j # i => j \in Waiters(sems[l])
             /\ j = i => l = k /\ i \in Waiters(s)
  BY <1>1, <1>2, <1>3, <1>6
<1>7. \A j \in Waiters(sems'["MUTEX"]) : pc'[j] = "locked"
  <2> SUFFICES ASSUME NEW j \in Waiters(sems'["MUTEX"]) PROVE pc'[j] = "locked"
    OBVIOUS
  <2>1. "MUTEX" \in Keys
    BY DEF Keys
  <2> QED BY <1>6, <2>1 DEF IInv, Waiting
<1>8. \A l \in {"EMPTY", "FULL"} : \A j \in Waiters(sems'[l]) : pc'[j] = "claimed" /\ Claims(j) = l
  <2> SUFFICES ASSUME NEW l \in {"EMPTY", "FULL"}, NEW j \in Waiters(sems'[l])
               PROVE  pc'[j] = "claimed" /\ Claims(j) = l
    OBVIOUS
  <2>1. l \in Keys /\ l # "MUTEX"
    BY DEF Keys
  <2>2. \A h \in Waiters(sems[l]) : pc[h] = "claimed" /\ Claims(h) = l
    BY DEF IInv, Waiting
  <2> QED BY <1>6, <2>1, <2>2
<1> QED BY <1>4, <1>5, <1>7, <1>8 DEF Waiting

\* The sets of the processes with a unit are finite.
LEMMA UnitSets ==
    ASSUME NEW k
    PROVE  /\ IsFiniteSet(Claimers(k)) /\ Cardinality(Claimers(k)) \in Nat
           /\ IsFiniteSet(Posters(k)) /\ Cardinality(Posters(k)) \in Nat
<1>1. Claimers(k) \in SUBSET Procs /\ Posters(k) \in SUBSET Procs
  BY DEF Claimers, Posters
<1>2. IsFiniteSet(Claimers(k)) /\ IsFiniteSet(Posters(k))
  BY <1>1, Constants, FS_Subset
<1> QED BY <1>2, FS_CardinalityType

\* A step that claims, uses and posts nothing of k leaves its units alone.
LEMMA UnitsKept ==
    ASSUME NEW k, sems'[k] = sems[k],
           \A j \in Procs : /\ Claims(j) = k => (pc'[j] \in Claiming <=> pc[j] \in Claiming)
                            /\ Posts(j) = k => (pc'[j] \in Posting <=> pc[j] \in Posting)
    PROVE  /\ Claimers(k)' = Claimers(k) /\ Posters(k)' = Posters(k)
           /\ Units(k)' = Units(k)
<1>1. Claimers(k)' = Claimers(k)
  BY DEF Claimers, Claims, Waiters
<1>2. Posters(k)' = Posters(k)
  BY DEF Posters, Posts
<1> QED BY <1>1, <1>2 DEF Units

\* A step that leaves MUTEX alone, and who is in the section, and the queue.
LEMMA MutexKept ==
    ASSUME IInv, sems'["MUTEX"] = sems["MUTEX"], MQ' = MQ,
           \A j \in Procs : pc'[j] \in Section <=> pc[j] \in Section,
           \A j \in Procs : pc'[j] = "read" => seen'[j] = MQ
    PROVE  Mutex'
<1>1. \A j \in Procs : Holds(j)' <=> Holds(j)
  BY DEF Holds, Waiters
<1> QED BY <1>1 DEF IInv, Mutex

LEMMA OtherKeys == {"EMPTY", "FULL"} \subseteq Keys /\ "MUTEX" \in Keys /\ Keys \ {"MUTEX"} = {"EMPTY", "FULL"}
BY DEF Keys

(***************************************************************************)
(* The steps of the processes.                                             *)
(***************************************************************************)

LEMMA ClaimInv == ASSUME IInv, NEW i \in Procs, Claim(i) PROVE IInv'
<1> DEFINE k == Claims(i)  s == SemWaited(sems[k], i)
<1>1. /\ round[i] < Rounds /\ pc[i] = "top"
      /\ \A j \in Procs : pc'[j] = IF j = i THEN "claimed" ELSE pc[j]
      /\ pc' = [pc EXCEPT ![i] = "claimed"]
      /\ \A l \in Keys : i \notin Waiters(sems[l])
      /\ ~(i >= main) /\ UNCHANGED <<round, seen, MQ, popped, main>>
  BY GoesFacts DEF Claim
<1>2. k \in {"EMPTY", "FULL"} /\ k \in Keys /\ k # "MUTEX"
  BY Constants, OtherKeys
<1>3. sems[k] \in Semaphores(Procs) /\ Orderly(sems[k])
  BY <1>2 DEF IInv, TypeOK, Waiting
<1>4. sems' = [sems EXCEPT ![k] = s]
  <2>1. sems[k] # NoSem
    BY <1>3, SemIsNone, Zenon
  <2> QED BY <2>1 DEF Claim, Wait
<1>5. /\ s \in Semaphores(Procs) /\ Orderly(s)
      /\ sems[k].count = 0 => s.count = 0 /\ Waiters(s) = Waiters(sems[k]) \cup {i}
      /\ sems[k].count # 0 => s.count = sems[k].count - 1 /\ Waiters(s) = Waiters(sems[k])
  BY <1>1, <1>2, <1>3, WaitedFacts
<1> HIDE DEF s
<1>6. \A l \in Keys : sems'[l] = IF l = k THEN s ELSE sems[l]
  BY <1>4 DEF IInv, TypeOK
<1>7. Waiting' /\ sems' \in [Keys -> Semaphores(Procs)]
  <2>1. \A j \in Procs : pc'[j] \in Claiming \cup Posting => round'[j] < Rounds
    BY <1>1 DEF IInv, Waiting
  <2>2. \A j \in Procs : j >= main' => pc'[j] = "unborn"
    BY <1>1 DEF IInv, Waiting
  <2>3. \A j \in Waiters(s) : j # i => j \in Waiters(sems[k])
    BY <1>5
  <2> QED BY <1>1, <1>2, <1>4, <1>5, <2>1, <2>2, <2>3, WaitingKept, Zenon
<1>8. TypeOK'
  BY <1>1, <1>7, Zenon DEF IInv, TypeOK, Claiming
<1>9. Mutex'
  BY <1>1, <1>2, <1>6, OtherKeys, MutexKept DEF Section, IInv, Mutex
<1>10. Units(k)' = Units(k)
  <2>1. Posters(k)' = Posters(k)
    BY <1>1 DEF Posters, Posts, Posting
  <2>2. sems'[k] = s /\ sems[k].count \in Nat
    BY <1>2, <1>3, <1>6, Zenon DEF Semaphores
  <2>3. CASE sems[k].count = 0
    <3>1. Claimers(k)' = Claimers(k)
      BY <1>1, <1>5, <2>2, <2>3, Zenon DEF Claimers, Claims, Claiming
    <3> QED BY <1>5, <2>1, <2>2, <2>3, <3>1, Zenon DEF Units
  <2>4. CASE sems[k].count # 0
    <3>1. Claimers(k)' = Claimers(k) \cup {i} /\ i \notin Claimers(k)
      BY <1>1, <1>2, <1>5, <2>2, <2>4, Zenon DEF Claimers, Claims, Claiming
    <3>2. Cardinality(Claimers(k) \cup {i}) = Cardinality(Claimers(k)) + 1
      BY <3>1, UnitSets, FS_AddElement, Zenon
    <3> QED BY <1>5, <2>1, <2>2, <2>4, <3>1, <3>2, UnitSets DEF Units
  <2> QED BY <2>3, <2>4
<1>11. ASSUME NEW l \in {"EMPTY", "FULL"}, l # k PROVE Units(l)' = Units(l)
  <2>1. sems'[l] = sems[l]
    BY <1>6, <1>11, OtherKeys
  <2>2. \A j \in Procs : /\ Claims(j) = l => (pc'[j] \in Claiming <=> pc[j] \in Claiming)
                         /\ Posts(j) = l => (pc'[j] \in Posting <=> pc[j] \in Posting)
    BY <1>1, <1>11 DEF Posting
  <2> QED BY <2>1, <2>2, UnitsKept, Zenon
<1>12. Places'
  BY <1>1, <1>2, <1>10, <1>11, Zenon DEF IInv, Places
<1> QED BY <1>7, <1>8, <1>9, <1>12 DEF IInv

\* A process of the section that does not wait holds the unit of MUTEX.
LEMMA OneHolder ==
    ASSUME IInv, NEW i \in Procs, pc[i] \in Section, i \notin Waiters(sems["MUTEX"])
    PROVE  Holds(i) /\ sems["MUTEX"].count = 0 /\ \A j \in Procs : Holds(j) => j = i
BY DEF IInv, Mutex, Holds

\* A step that uses and posts nothing, and moves no unit of EMPTY and FULL.
LEMMA PlacesKept ==
    ASSUME IInv, MQ' = MQ, sems'["EMPTY"] = sems["EMPTY"], sems'["FULL"] = sems["FULL"],
           \A j \in Procs : /\ pc'[j] \in Claiming <=> pc[j] \in Claiming
                            /\ pc'[j] \in Posting <=> pc[j] \in Posting
    PROVE  Places'
<1>1. Units("EMPTY")' = Units("EMPTY")
  BY UnitsKept
<1>2. Units("FULL")' = Units("FULL")
  BY UnitsKept, Zenon
<1> QED BY <1>1, <1>2 DEF IInv, Places

LEMMA LockInv == ASSUME IInv, NEW i \in Procs, Lock(i) PROVE IInv'
<1> DEFINE m == sems["MUTEX"]  s == SemWaited(m, i)
<1>1. /\ pc[i] = "claimed"
      /\ \A j \in Procs : pc'[j] = IF j = i THEN "locked" ELSE pc[j]
      /\ pc' = [pc EXCEPT ![i] = "locked"]
      /\ \A l \in Keys : i \notin Waiters(sems[l])
      /\ ~(i >= main) /\ UNCHANGED <<round, seen, MQ, popped, main>>
  BY GoesFacts DEF Lock
<1>2. m \in Semaphores(Procs) /\ Orderly(m) /\ m.count \in {0, 1}
  <2>1. m \in Semaphores(Procs) /\ Orderly(m) /\ m.count <= 1
    BY OtherKeys DEF IInv, TypeOK, Waiting, Mutex
  <2> QED BY <2>1 DEF Semaphores
<1>3. sems' = [sems EXCEPT !["MUTEX"] = s]
  <2>1. m # NoSem
    BY <1>2, SemIsNone, Zenon
  <2> QED BY <2>1 DEF Lock, Wait
<1>4. /\ s \in Semaphores(Procs) /\ Orderly(s)
      /\ m.count = 0 => s.count = 0 /\ Waiters(s) = Waiters(m) \cup {i}
      /\ m.count # 0 => s.count = m.count - 1 /\ Waiters(s) = Waiters(m)
  BY <1>1, <1>2, OtherKeys, WaitedFacts
<1> HIDE DEF s
<1>5. \A l \in Keys : sems'[l] = IF l = "MUTEX" THEN s ELSE sems[l]
  BY <1>3 DEF IInv, TypeOK
<1>6. Waiting' /\ sems' \in [Keys -> Semaphores(Procs)]
  <2>1. \A j \in Procs : pc'[j] \in Claiming \cup Posting => round'[j] < Rounds
    BY <1>1 DEF IInv, Waiting, Claiming
  <2>2. \A j \in Procs : j >= main' => pc'[j] = "unborn"
    BY <1>1 DEF IInv, Waiting
  <2>3. \A j \in Waiters(s) : j # i => j \in Waiters(m)
    BY <1>4
  <2>4. "MUTEX" \in Keys
    BY OtherKeys, Zenon
  <2> QED BY <1>1, <1>3, <1>4, <2>1, <2>2, <2>3, <2>4, WaitingKept, Zenon
<1>7. TypeOK'
  BY <1>1, <1>6 DEF IInv, TypeOK, Claiming
<1>8. \A j \in Procs : Holds(j)' <=> Holds(j) \/ (j = i /\ m.count # 0)
  <2>1. sems'["MUTEX"] = s /\ i \notin Waiters(m)
    BY <1>1, <1>5, OtherKeys, Zenon
  <2> QED BY <1>1, <1>2, <1>4, <2>1 DEF Holds, Section
<1>9. Mutex'
  <2>1. m.count # 0 => \A j \in Procs : ~Holds(j)
    BY DEF IInv, Mutex
  <2>2. s.count = 0 /\ sems'["MUTEX"] = s
    BY <1>2, <1>4, <1>5, OtherKeys
  <2>3. \A j \in Procs : pc'[j] = "read" => seen'[j] = MQ'
    BY <1>1 DEF IInv, Mutex
  <2> QED BY <1>8, <2>1, <2>2, <2>3 DEF IInv, Mutex
<1>10. Places'
  BY <1>1, <1>5, OtherKeys, PlacesKept DEF Claiming, Posting
<1> QED BY <1>6, <1>7, <1>9, <1>10 DEF IInv

\* A step of i that leaves the semaphores alone.
LEMMA WaitingSame ==
    ASSUME IInv, NEW i \in Procs, NEW to, sems' = sems, round' = round,
           \A j \in Procs : pc'[j] = IF j = i THEN to ELSE pc[j],
           \A l \in Keys : i \notin Waiters(sems[l]),
           to \in Claiming \cup Posting => round[i] < Rounds,
           \A j \in Procs : j >= main' => pc'[j] = "unborn"
    PROVE  Waiting'
<1>1. \A l \in Keys : Waiters(sems[l]) \subseteq Procs
  BY RangeWithin DEF IInv, TypeOK, Semaphores, Waiters
<1>2. \A l \in Keys : \A j \in Waiters(sems[l]) : pc'[j] = pc[j]
  BY <1>1
<1>3. \A j \in Waiters(sems["MUTEX"]) : pc'[j] = "locked"
  BY <1>2, OtherKeys DEF IInv, Waiting
<1>4. \A l \in {"EMPTY", "FULL"} : \A j \in Waiters(sems[l]) : pc'[j] = "claimed" /\ Claims(j) = l
  BY <1>2, OtherKeys DEF IInv, Waiting
<1>5. \A j \in Procs : pc'[j] \in Claiming \cup Posting => round[j] < Rounds
  BY DEF IInv, Waiting
<1> QED BY <1>3, <1>4, <1>5, Zenon DEF IInv, Waiting

LEMMA ReadQueueInv == ASSUME IInv, NEW i \in Procs, ReadQueue(i) PROVE IInv'
<1>1. /\ pc[i] = "locked" /\ seen' = [seen EXCEPT ![i] = MQ]
      /\ \A j \in Procs : pc'[j] = IF j = i THEN "read" ELSE pc[j]
      /\ pc' = [pc EXCEPT ![i] = "read"]
      /\ \A l \in Keys : i \notin Waiters(sems[l])
      /\ ~(i >= main) /\ UNCHANGED <<sems, round, MQ, popped, main>>
  BY GoesFacts DEF ReadQueue
<1>2. TypeOK'
  BY <1>1 DEF IInv, TypeOK, Claiming
<1>3. Waiting'
  <2>1. round[i] < Rounds
    BY <1>1 DEF IInv, Waiting, Claiming
  <2>2. \A j \in Procs : j >= main' => pc'[j] = "unborn"
    BY <1>1 DEF IInv, Waiting
  <2> QED BY <1>1, <2>1, <2>2, WaitingSame, Zenon
<1>4. \A j \in Procs : seen'[j] = IF j = i THEN MQ ELSE seen[j]
  BY <1>1 DEF IInv, TypeOK
<1>5. Mutex'
  <2>1. \A j \in Procs : pc'[j] = "read" => seen'[j] = MQ
    BY <1>1, <1>4 DEF IInv, Mutex
  <2>2. \A j \in Procs : pc'[j] \in Section <=> pc[j] \in Section
    BY <1>1 DEF Section
  <2> QED BY <1>1, <2>1, <2>2, MutexKept, Zenon
<1>6. Places'
  BY <1>1, PlacesKept DEF Claiming, Posting
<1> QED BY <1>2, <1>3, <1>5, <1>6 DEF IInv

\* The use of the queue by i: its unit of c is used up, and one of p is free.
LEMMA UnitMoves ==
    ASSUME IInv, NEW i \in Procs, NEW c, NEW p, c = Claims(i), p = Posts(i),
           pc[i] = "read", sems' = sems,
           \A j \in Procs : pc'[j] = IF j = i THEN "written" ELSE pc[j],
           \A l \in Keys : i \notin Waiters(sems[l])
    PROVE  Units(c)' = Units(c) - 1 /\ Units(p)' = Units(p) + 1
<1>1. c \in {"EMPTY", "FULL"} /\ p \in {"EMPTY", "FULL"} /\ c # p /\ c \in Keys
  BY OtherKeys DEF Claims, Posts
<1>2. /\ Claimers(c)' = Claimers(c) \ {i} /\ i \in Claimers(c)
      /\ Claimers(p)' = Claimers(p)
  BY <1>1 DEF Claimers, Claiming, Claims
<1>3. /\ Posters(p)' = Posters(p) \cup {i} /\ i \notin Posters(p)
      /\ Posters(c)' = Posters(c)
  BY <1>1 DEF Posters, Posting, Posts
<1>4. Cardinality(Claimers(c) \ {i}) = Cardinality(Claimers(c)) - 1
  BY <1>2, UnitSets, FS_RemoveElement, Zenon
<1>5. Cardinality(Posters(p) \cup {i}) = Cardinality(Posters(p)) + 1
  BY <1>3, UnitSets, FS_AddElement, Zenon
<1>6. \A k \in {"EMPTY", "FULL"} : sems[k].count \in Nat
  BY OtherKeys, Zenon DEF IInv, TypeOK, Semaphores
<1>7. Units(c)' = sems[c].count + (Cardinality(Claimers(c)) - 1) + Cardinality(Posters(c))
  BY <1>2, <1>3, <1>4 DEF Units
<1>8. Units(p)' = sems[p].count + Cardinality(Claimers(p)) + (Cardinality(Posters(p)) + 1)
  BY <1>2, <1>3, <1>5, Zenon DEF Units
<1>9. /\ sems[c].count \in Nat /\ Cardinality(Claimers(c)) \in Nat
      /\ Cardinality(Posters(c)) \in Nat
      /\ sems[p].count \in Nat /\ Cardinality(Claimers(p)) \in Nat
      /\ Cardinality(Posters(p)) \in Nat
  BY <1>1, <1>6, UnitSets, Zenon
<1>10. /\ Units(c) = sems[c].count + Cardinality(Claimers(c)) + Cardinality(Posters(c))
       /\ Units(p) = sems[p].count + Cardinality(Claimers(p)) + Cardinality(Posters(p))
  BY DEF Units
<1> QED BY <1>7, <1>8, <1>9, <1>10

\* The use of the queue by i, which holds the mutex and has read MQ: its unit
\* is no longer claimed and not posted yet.
LEMMA UseInv ==
    ASSUME IInv, NEW i \in Procs, Goes(i, "read", "written"),
           seen' = [seen EXCEPT ![i] = << >>],
           MQ' \in Seq(Messages), popped' \in Seq(Messages), UNCHANGED <<sems, round, main>>,
           Len(MQ') = IF i \in Producers THEN Len(MQ) + 1 ELSE Len(MQ) - 1
    PROVE  IInv'
<1>1. /\ pc[i] = "read"
      /\ \A j \in Procs : pc'[j] = IF j = i THEN "written" ELSE pc[j]
      /\ pc' = [pc EXCEPT ![i] = "written"]
      /\ \A l \in Keys : i \notin Waiters(sems[l])
      /\ ~(i >= main)
  BY GoesFacts
<1>2. TypeOK'
  BY <1>1, EmptyFacts, Zenon DEF IInv, TypeOK, Posting
<1>3. Waiting'
  <2>1. round[i] < Rounds
    BY <1>1, Zenon DEF IInv, Waiting, Claiming
  <2>2. \A j \in Procs : j >= main' => pc'[j] = "unborn"
    BY <1>1, Zenon DEF IInv, Waiting
  <2> QED BY <1>1, <2>1, <2>2, WaitingSame, Zenon
<1>4. Mutex'
  <2>1. \A j \in Procs : Holds(j)' <=> Holds(j)
    BY <1>1, Zenon DEF Holds, Section, Waiters
  <2>2. \A j \in Procs : Holds(j) => j = i
    BY <1>1, OtherKeys, OneHolder, Zenon DEF Section
  <2>3. \A j \in Procs : pc[j] = "read" => Holds(j)
    BY OtherKeys DEF Holds, Section, IInv, Waiting
  <2>4. \A j \in Procs : pc'[j] # "read"
    BY <1>1, <2>2, <2>3
  <2> QED BY <2>1, <2>4, Zenon DEF IInv, Mutex
<1> DEFINE c == Claims(i)  p == Posts(i)
<1>11. Units(c)' = Units(c) - 1 /\ Units(p)' = Units(p) + 1
  BY <1>1, UnitMoves, Zenon
<1>12. Len(MQ) \in Nat /\ SIZE \in Nat
  BY SeqFacts, Constants, Zenon DEF IInv, TypeOK
<1>13. Places'
  <2>1. CASE i \in Producers
    <3>1. c = "EMPTY" /\ p = "FULL"
      BY <2>1, Zenon DEF Claims, Posts
    <3> QED BY <1>11, <1>12, <2>1, <3>1 DEF IInv, Places
  <2>2. CASE i \notin Producers
    <3>1. c = "FULL" /\ p = "EMPTY"
      BY <2>2, Zenon DEF Claims, Posts
    <3> QED BY <1>11, <1>12, <2>2, <3>1 DEF IInv, Places
  <2> QED BY <2>1, <2>2, Zenon
<1> QED BY <1>2, <1>3, <1>4, <1>13, Zenon DEF IInv

\* A process that is about to use the queue has read it as it is, and has the
\* unit that it claimed: there is a free place, or a message.
LEMMA UsePossible ==
    ASSUME IInv, NEW i \in Procs, pc[i] = "read"
    PROVE  /\ seen[i] = MQ /\ MQ \in Seq(Messages) /\ round[i] \in 0..(Rounds - 1)
           /\ i \in Producers => Len(MQ) < SIZE
           /\ i \notin Producers => MQ # << >>
<1> DEFINE c == Claims(i)
<1>1. c \in {"EMPTY", "FULL"} /\ c \in Keys /\ sems[c].count \in Nat
  BY OtherKeys, Zenon DEF Claims, IInv, TypeOK, Semaphores
<1>2. i \in Claimers(c)
  BY <1>1 DEF Claimers, Claiming, IInv, Waiting
<1>3. Cardinality(Claimers(c)) # 0
  BY <1>2, UnitSets, FS_EmptySet, Zenon
<1>4. Units(c) > 0
  BY <1>1, <1>3, UnitSets DEF Units
<1>5. Len(MQ) \in Nat /\ SIZE \in Nat /\ MQ \in Seq(Messages) /\ Len(<< >>) = 0
  BY SeqFacts, Constants, EmptyFacts, Zenon DEF IInv, TypeOK
<1>6. i \in Producers => Len(MQ) < SIZE
  BY <1>4, <1>5 DEF IInv, Places, Claims
<1>7. i \notin Producers => MQ # << >>
  <2>1. i \notin Producers => Len(MQ) > 0
    BY <1>4, <1>5, Zenon DEF IInv, Places, Claims
  <2> QED BY <1>5, <2>1
<1>8. round[i] \in 0..(Rounds - 1)
  BY Constants DEF IInv, TypeOK, Waiting, Claiming
<1> QED BY <1>5, <1>6, <1>7, <1>8 DEF IInv, Mutex

LEMMA PushInv == ASSUME IInv, NEW i \in Procs, Push(i) PROVE IInv'
<1> DEFINE e == [pid |-> i, val |-> round[i]]
<1>1. /\ i \in Producers /\ Goes(i, "read", "written") /\ MQ' = Append(seen[i], e)
      /\ seen' = [seen EXCEPT ![i] = << >>] /\ UNCHANGED <<sems, round, popped, main>>
  BY DEF Push
<1>2. seen[i] = MQ /\ MQ \in Seq(Messages) /\ e \in Messages
  BY <1>1, GoesFacts, UsePossible, Zenon DEF Messages
<1>3. MQ' \in Seq(Messages) /\ Len(MQ') = Len(MQ) + 1
  BY <1>1, <1>2, AppendFacts
<1>4. popped' \in Seq(Messages)
  BY <1>1 DEF IInv, TypeOK
<1> QED BY <1>1, <1>3, <1>4, UseInv, Zenon

\* pop_front finds a message, whoever calls it.
LEMMA PopTakes ==
    ASSUME IInv, NEW i \in Procs, Pop(i)
    PROVE  /\ i \notin Producers /\ Goes(i, "read", "written") /\ MQ # << >>
           /\ MQ \in Seq(Messages) /\ MQ' = Tail(MQ) /\ popped' = Append(popped, Head(MQ))
           /\ seen' = [seen EXCEPT ![i] = << >>] /\ UNCHANGED <<sems, round, main>>
<1>1. pc[i] = "read" /\ i \notin Producers
  BY DEF Pop, Goes
<1>2. seen[i] = MQ /\ MQ # << >> /\ MQ \in Seq(Messages)
  BY <1>1, UsePossible, Zenon
<1> QED BY <1>1, <1>2, Zenon DEF Pop

LEMMA PopInv == ASSUME IInv, NEW i \in Procs, Pop(i) PROVE IInv'
<1>1. MQ' \in Seq(Messages) /\ Len(MQ') = Len(MQ) - 1 /\ Head(MQ) \in Messages
  <2>1. MQ \in Seq(Messages) /\ MQ # << >> /\ MQ' = Tail(MQ)
    BY PopTakes, Zenon
  <2>2. Tail(MQ) \in Seq(Messages) /\ Len(Tail(MQ)) = Len(MQ) - 1 /\ Head(MQ) \in Messages
    BY <2>1, TailFacts, Zenon
  <2> QED BY <2>1, <2>2, Zenon
<1>2. popped' \in Seq(Messages)
  <2>1. popped \in Seq(Messages) /\ popped' = Append(popped, Head(MQ))
    BY PopTakes, Zenon DEF IInv, TypeOK
  <2> QED BY <1>1, <2>1, AppendFacts
<1> QED BY <1>1, <1>2, PopTakes, UseInv, Zenon

LEMMA UnlockInv == ASSUME IInv, NEW i \in Procs, Unlock(i) PROVE IInv'
<1> DEFINE m == sems["MUTEX"]  s == SemSignalled(m)
<1>1. /\ pc[i] = "written"
      /\ \A j \in Procs : pc'[j] = IF j = i THEN "unlocked" ELSE pc[j]
      /\ pc' = [pc EXCEPT ![i] = "unlocked"]
      /\ \A l \in Keys : i \notin Waiters(sems[l])
      /\ ~(i >= main) /\ UNCHANGED <<round, seen, MQ, popped, main>>
  BY GoesFacts DEF Unlock
<1>2. m \in Semaphores(Procs) /\ Orderly(m)
  BY OtherKeys, Zenon DEF IInv, TypeOK, Waiting
<1>3. m.count = 0 /\ \A j \in Procs : Holds(j) => j = i
  BY <1>1, OtherKeys, OneHolder, Zenon DEF Section
<1>4. sems' = [sems EXCEPT !["MUTEX"] = s]
  <2>1. m # NoSem
    BY <1>2, SemIsNone, Zenon
  <2> QED BY <2>1 DEF Unlock, Signal
<1>5. /\ s \in Semaphores(Procs) /\ Orderly(s)
      /\ m.queue # << >> => /\ s.count = 0 /\ Head(m.queue) \in Waiters(m)
                            /\ Waiters(s) = Waiters(m) \ {Head(m.queue)}
      /\ m.queue = << >> => s.count = 1 /\ Waiters(m) = {} /\ Waiters(s) = {}
  BY <1>2, <1>3, SignalledFacts
<1> HIDE DEF s
<1>6. \A l \in Keys : sems'[l] = IF l = "MUTEX" THEN s ELSE sems[l]
  BY <1>4 DEF IInv, TypeOK
<1>7. Waiting' /\ sems' \in [Keys -> Semaphores(Procs)]
  <2>1. \A j \in Procs : pc'[j] \in Claiming \cup Posting => round'[j] < Rounds
    BY <1>1, Zenon DEF IInv, Waiting, Posting
  <2>2. \A j \in Procs : j >= main' => pc'[j] = "unborn"
    BY <1>1, Zenon DEF IInv, Waiting
  <2>3. Waiters(s) \subseteq Waiters(m) /\ i \notin Waiters(s)
    BY <1>1, <1>5, OtherKeys, Zenon
  <2>4. "MUTEX" \in Keys
    BY OtherKeys, Zenon
  <2> QED BY <1>1, <1>4, <1>5, <2>1, <2>2, <2>3, <2>4, WaitingKept, Zenon
<1>8. TypeOK'
  BY <1>1, <1>7, Zenon DEF IInv, TypeOK, Posting
<1>9. \A j \in Procs : Holds(j)' <=> m.queue # << >> /\ j = Head(m.queue)
  <2>1. sems'["MUTEX"] = s
    BY <1>6, OtherKeys, Zenon
  <2>2. \A j \in Procs : Holds(j)' <=> pc'[j] \in Section /\ j \notin Waiters(s)
    BY <2>1, Zenon DEF Holds
  <2>3. \A j \in Procs : pc'[j] \in Section => j \in Waiters(m)
    BY <1>1, <1>3 DEF Holds, Section
  <2>4. \A j \in Waiters(m) : j # i /\ pc[j] \in Section /\ j \in Procs
    <3>1. \A j \in Waiters(m) : pc[j] = "locked"
      BY DEF IInv, Waiting
    <3>2. Waiters(m) \subseteq Procs
      BY <1>2, RangeWithin, Zenon DEF Semaphores, Waiters
    <3> QED BY <1>1, <3>1, <3>2, Zenon DEF Section
  <2> QED BY <1>1, <1>5, <2>2, <2>3, <2>4, Zenon
<1>10. Mutex'
  <2>1. sems'["MUTEX"] = s /\ s.count <= 1 /\ (m.queue # << >> => s.count = 0)
    BY <1>5, <1>6, OtherKeys
  <2>2. \A j \in Procs : pc'[j] = "read" => seen'[j] = MQ'
    BY <1>1 DEF IInv, Mutex
  <2> QED BY <1>9, <2>1, <2>2, Zenon DEF Mutex
<1>11. Places'
  BY <1>1, <1>6, OtherKeys, PlacesKept DEF Claiming, Posting
<1> QED BY <1>7, <1>8, <1>10, <1>11 DEF IInv

\* The post of i: its unit of k goes to the first process that waits for one,
\* or to the count.
LEMMA UnitPosted ==
    ASSUME IInv, NEW i \in Procs, NEW k \in {"EMPTY", "FULL"}, k = Posts(i), pc[i] = "unlocked",
           \A j \in Procs : pc'[j] = IF j = i THEN "top" ELSE pc[j],
           NEW s, s = SemSignalled(sems[k]), sems'[k] = s
    PROVE  Units(k)' = Units(k)
<1>1. sems[k] \in Semaphores(Procs) /\ Orderly(sems[k]) /\ sems[k].count \in Nat
  BY OtherKeys, Zenon DEF IInv, TypeOK, Waiting, Semaphores
<1> DEFINE h == Head(sems[k].queue)
<1>2. /\ sems[k].queue # << >> => /\ s.count = sems[k].count /\ h \in Waiters(sems[k])
                                  /\ Waiters(s) = Waiters(sems[k]) \ {h}
      /\ sems[k].queue = << >> => /\ s.count = sems[k].count + 1
                                  /\ Waiters(sems[k]) = {} /\ Waiters(s) = {}
  BY <1>1, SignalledFacts
<1> HIDE DEF h
<1>3. Posters(k)' = Posters(k) \ {i} /\ i \in Posters(k)
  BY DEF Posters, Posting, Posts
<1>4. Cardinality(Posters(k) \ {i}) = Cardinality(Posters(k)) - 1
  BY <1>3, UnitSets, FS_RemoveElement, Zenon
<1>5. Claims(i) # k
  BY Zenon DEF Claims, Posts
<1>6. /\ Cardinality(Claimers(k)) \in Nat /\ Cardinality(Posters(k)) \in Nat
      /\ Units(k) = sems[k].count + Cardinality(Claimers(k)) + Cardinality(Posters(k))
  BY UnitSets, Zenon DEF Units
<1>7. CASE sems[k].queue = << >>
  <2>1. Claimers(k)' = Claimers(k)
    BY <1>2, <1>5, <1>7, Zenon DEF Claimers, Claims
  <2>2. Units(k)' = (sems[k].count + 1) + Cardinality(Claimers(k)) + (Cardinality(Posters(k)) - 1)
    BY <1>2, <1>3, <1>4, <1>7, <2>1, Zenon DEF Units
  <2> QED BY <1>1, <1>6, <2>2
<1>8. CASE sems[k].queue # << >>
  <2>1. h \in Procs /\ pc[h] = "claimed" /\ Claims(h) = k
    <3>1. Waiters(sems[k]) \subseteq Procs
      BY <1>1, RangeWithin, Zenon DEF Semaphores, Waiters
    <3> QED BY <1>2, <1>8, <3>1, Zenon DEF IInv, Waiting
  <2>2. Claimers(k)' = Claimers(k) \cup {h} /\ h \notin Claimers(k)
    BY <1>2, <1>5, <1>8, <2>1, Zenon DEF Claimers, Claims, Claiming
  <2>3. Cardinality(Claimers(k) \cup {h}) = Cardinality(Claimers(k)) + 1
    BY <2>2, UnitSets, FS_AddElement, Zenon
  <2>4. Units(k)' = sems[k].count + (Cardinality(Claimers(k)) + 1) + (Cardinality(Posters(k)) - 1)
    BY <1>2, <1>3, <1>4, <1>8, <2>2, <2>3, Zenon DEF Units
  <2> QED BY <1>1, <1>6, <2>4
<1> QED BY <1>7, <1>8, Zenon

LEMMA PostInv == ASSUME IInv, NEW i \in Procs, Post(i) PROVE IInv'
<1> DEFINE k == Posts(i)  s == SemSignalled(sems[k])
<1>1. /\ pc[i] = "unlocked" /\ round' = [round EXCEPT ![i] = @ + 1]
      /\ \A j \in Procs : pc'[j] = IF j = i THEN "top" ELSE pc[j]
      /\ pc' = [pc EXCEPT ![i] = "top"]
      /\ \A l \in Keys : i \notin Waiters(sems[l])
      /\ ~(i >= main) /\ UNCHANGED <<seen, MQ, popped, main>>
  BY GoesFacts DEF Post
<1>2. k \in {"EMPTY", "FULL"} /\ k \in Keys /\ k # "MUTEX"
  BY Constants, OtherKeys, Zenon
<1>3. sems[k] \in Semaphores(Procs) /\ Orderly(sems[k])
  BY <1>2 DEF IInv, TypeOK, Waiting
<1>4. sems' = [sems EXCEPT ![k] = s]
  <2>1. sems[k] # NoSem
    BY <1>3, SemIsNone, Zenon
  <2> QED BY <2>1 DEF Post, Signal, Posts
<1>5. s \in Semaphores(Procs) /\ Orderly(s) /\ Waiters(s) \subseteq Waiters(sems[k])
  BY <1>3, SignalledFacts, Zenon
<1>6. \A l \in Keys : sems'[l] = IF l = k THEN s ELSE sems[l]
  BY <1>4, Zenon DEF IInv, TypeOK
<1>7. round' \in [Procs -> 0..Rounds] /\ \A j \in Procs : j # i => round'[j] = round[j]
  <2>1. round[i] < Rounds /\ round[i] \in 0..Rounds /\ Rounds \in Nat
    BY <1>1, Constants, Zenon DEF IInv, TypeOK, Waiting, Posting
  <2>2. round[i] + 1 \in 0..Rounds
    BY <2>1
  <2> QED BY <1>1, <2>2, Zenon DEF IInv, TypeOK
<1>8. Waiting' /\ sems' \in [Keys -> Semaphores(Procs)]
  <2>1. \A j \in Procs : pc'[j] \in Claiming \cup Posting => round'[j] < Rounds
    BY <1>1, <1>7 DEF IInv, Waiting, Claiming, Posting
  <2>2. \A j \in Procs : j >= main' => pc'[j] = "unborn"
    BY <1>1, Zenon DEF IInv, Waiting
  <2>3. i \notin Waiters(s)
    BY <1>1, <1>2, <1>5, Zenon
  <2> HIDE DEF s, k
  <2> QED BY <1>1, <1>2, <1>4, <1>5, <2>1, <2>2, <2>3, WaitingKept, Zenon
<1>9. TypeOK'
  BY <1>1, <1>7, <1>8, Zenon DEF IInv, TypeOK
<1>10. Mutex'
  BY <1>1, <1>2, <1>6, OtherKeys, MutexKept DEF Section, IInv, Mutex
<1>11. Units(k)' = Units(k)
  BY <1>1, <1>2, <1>6, UnitPosted, Zenon
<1>12. ASSUME NEW l \in {"EMPTY", "FULL"}, l # k PROVE Units(l)' = Units(l)
  <2>1. sems'[l] = sems[l]
    BY <1>6, <1>12, OtherKeys, Zenon
  <2>2. \A j \in Procs : /\ Claims(j) = l => (pc'[j] \in Claiming <=> pc[j] \in Claiming)
                         /\ Posts(j) = l => (pc'[j] \in Posting <=> pc[j] \in Posting)
    BY <1>1, <1>12 DEF Claiming, Posting
  <2> QED BY <2>1, <2>2, UnitsKept
<1>13. Places'
  BY <1>1, <1>2, <1>11, <1>12, Zenon DEF IInv, Places
<1> QED BY <1>8, <1>9, <1>10, <1>13 DEF IInv

LEMMA ExitInv == ASSUME IInv, NEW i \in Procs, Exit(i) PROVE IInv'
<1>1. /\ pc[i] = "top"
      /\ \A j \in Procs : pc'[j] = IF j = i THEN "exited" ELSE pc[j]
      /\ pc' = [pc EXCEPT ![i] = "exited"]
      /\ \A l \in Keys : i \notin Waiters(sems[l])
      /\ ~(i >= main) /\ UNCHANGED <<sems, round, seen, MQ, popped, main>>
  BY GoesFacts DEF Exit
<1>2. TypeOK'
  BY <1>1, Zenon DEF IInv, TypeOK
<1>3. Waiting'
  <2>1. "exited" \notin Claiming \cup Posting
    BY DEF Claiming, Posting
  <2>2. \A j \in Procs : j >= main' => pc'[j] = "unborn"
    BY <1>1, Zenon DEF IInv, Waiting
  <2> QED BY <1>1, <2>1, <2>2, WaitingSame, Zenon
<1>4. Mutex'
  BY <1>1, MutexKept DEF Section, IInv, Mutex
<1>5. Places'
  BY <1>1, PlacesKept DEF Claiming, Posting
<1> QED BY <1>2, <1>3, <1>4, <1>5 DEF IInv

(***************************************************************************)
(* The steps of main.                                                      *)
(***************************************************************************)

LEMMA ForkNextInv == ASSUME IInv, ForkNext PROVE IInv'
<1>1. /\ main \in Procs /\ main' = main + 1 /\ pc' = [pc EXCEPT ![main] = "top"]
      /\ UNCHANGED <<sems, round, seen, MQ, popped>>
  BY DEF ForkNext
<1>2. \A j \in Procs : pc'[j] = IF j = main THEN "top" ELSE pc[j]
  BY <1>1, Zenon DEF IInv, TypeOK
<1>3. pc[main] = "unborn"
  BY <1>1, Constants DEF IInv, Waiting
<1>4. main + 1 \in 0..(2 * Threads)
  BY <1>1, Constants DEF Procs
<1>5. TypeOK'
  BY <1>1, <1>4, Zenon DEF IInv, TypeOK
<1>6. Waiting'
  <2>1. \A j \in Procs : j >= main' => pc'[j] = "unborn"
    <3>1. \A j \in Procs : j >= main + 1 => j >= main /\ j # main
      BY <1>1, Constants
    <3> QED BY <1>1, <1>2, <3>1, Zenon DEF IInv, Waiting
  <2>2. \A l \in Keys : main \notin Waiters(sems[l])
    BY <1>3, OtherKeys DEF IInv, Waiting, Keys
  <2>3. "top" \notin Claiming \cup Posting
    BY Zenon DEF Claiming, Posting
  <2> QED BY <1>1, <1>2, <2>1, <2>2, <2>3, WaitingSame, Zenon
<1>7. Mutex'
  BY <1>1, <1>2, <1>3, MutexKept DEF Section, IInv, Mutex
<1>8. Places'
  BY <1>1, <1>2, <1>3, PlacesKept DEF Claiming, Posting
<1> QED BY <1>5, <1>6, <1>7, <1>8, Zenon DEF IInv

\* A step that moves no process.
LEMMA NobodyMoves ==
    ASSUME IInv, UNCHANGED <<sems, pc, round, seen, MQ, popped>>, main' \in 0..(2 * Threads),
           \A j \in Procs : j >= main' => j >= main
    PROVE  IInv'
<1>1. TypeOK' /\ Waiting'
  BY Zenon DEF IInv, TypeOK, Waiting, Waiters
<1>2. Mutex'
  BY MutexKept, Zenon DEF IInv, Mutex
<1>3. Places'
  BY PlacesKept
<1> QED BY <1>1, <1>2, <1>3, Zenon DEF IInv

LEMMA WaitNextInv == ASSUME IInv, WaitNext PROVE IInv'
<1>1. /\ main - Threads \in Procs /\ main' = main + 1
      /\ UNCHANGED <<sems, pc, round, seen, MQ, popped>>
  BY DEF WaitNext
<1>2. main \in 0..(2 * Threads)
  BY DEF IInv, TypeOK
<1>3. main' \in 0..(2 * Threads) /\ \A j \in Procs : j >= main' => j >= main
  BY <1>1, <1>2, Constants DEF Procs
<1> QED BY <1>1, <1>3, NobodyMoves, Zenon

LEMMA InitInv == Init => IInv
<1> SUFFICES ASSUME Init PROVE IInv
  OBVIOUS
<1>1. /\ sems["MUTEX"] = NewSem(1) /\ sems["EMPTY"] = NewSem(SIZE) /\ sems["FULL"] = NewSem(0)
      /\ DOMAIN sems = Keys /\ sems = [k \in Keys |-> sems[k]]
  BY DEF Init, Keys
<1>2. \A k \in Keys : /\ sems[k] \in Semaphores(Procs) /\ Orderly(sems[k])
                      /\ Waiters(sems[k]) = {}
  BY <1>1, NewSemFacts, Constants DEF Keys
<1>3. TypeOK
  <2>1. sems \in [Keys -> Semaphores(Procs)]
    BY <1>1, <1>2, Zenon
  <2>2. 0 \in 0..Rounds /\ 0 \in 0..(2 * Threads) /\ << >> \in Seq(Messages)
    BY Constants, EmptyFacts
  <2> QED BY <2>1, <2>2, Zenon DEF Init, TypeOK
<1>4. Waiting
  BY <1>2, OtherKeys, Zenon DEF Init, Waiting, Claiming, Posting
<1>5. Mutex
  <2>1. sems["MUTEX"].count = 1
    BY <1>1, NewSemFacts, Zenon
  <2>2. \A i \in Procs : pc[i] = "unborn"
    BY Zenon DEF Init
  <2> QED BY <2>1, <2>2 DEF Mutex, Holds, Section
<1>6. Places
  <2>1. \A k \in Keys : Claimers(k) = {} /\ Posters(k) = {}
    BY DEF Init, Claimers, Posters, Claiming, Posting
  <2>2. \A k \in Keys : Units(k) = sems[k].count + 0 + 0
    BY <2>1, FS_EmptySet, Zenon DEF Units
  <2>3. sems["EMPTY"].count = SIZE /\ sems["FULL"].count = 0 /\ SIZE \in Nat
    BY <1>1, NewSemFacts, Constants, Zenon
  <2>4. Len(MQ) = 0
    BY EmptyFacts DEF Init
  <2> QED BY <2>2, <2>3, <2>4, OtherKeys DEF Places
<1> QED BY <1>3, <1>4, <1>5, <1>6, Zenon DEF IInv

LEMMA NextInv == ASSUME IInv, [Next]_vars PROVE IInv'
<1>1. ASSUME NEW i \in Procs, Proc(i) PROVE IInv'
  BY <1>1, ClaimInv, LockInv, ReadQueueInv, PushInv, PopInv, UnlockInv, PostInv, ExitInv, Zenon DEF Proc
<1>2. CASE ForkNext \/ WaitNext
  BY <1>2, ForkNextInv, WaitNextInv, Zenon
<1>3. CASE UNCHANGED vars
  <2>1. UNCHANGED <<sems, pc, round, seen, MQ, popped, main>>
    BY <1>3, Zenon DEF vars
  <2>2. main' \in 0..(2 * Threads)
    BY <2>1, Zenon DEF IInv, TypeOK
  <2> QED BY <2>1, <2>2, NobodyMoves, Zenon
<1> QED BY <1>1, <1>2, <1>3, Zenon DEF Next, Finished

(***************************************************************************)
(* The theorems                                                            *)
(***************************************************************************)

\* The inductive invariant holds in every state.
LEMMA Invariance == Spec => []IInv
<1>1. Init => IInv
  BY InitInv
<1>2. IInv /\ [Next]_vars => IInv'
  BY NextInv
<1> QED BY <1>1, <1>2, PTL DEF Spec

\* The unwrap of pop_front in consume never fails, for every number of
\* processes, of messages and of places: FULL counts the messages.
THEOREM PopSucceeds == Spec => []PopFindsMessage
<1>1. IInv => PopFindsMessage
  BY Zenon DEF IInv, TypeOK, PopFindsMessage, Claiming, Posting
<1> QED BY <1>1, Invariance, PTL

\* Every step of the program is a step of the channel, or none.
LEMMA ChannelStep == ASSUME IInv, [Next]_vars PROVE [Chan!Next]_(Chan!chan)
<1> DEFINE snt == [i \in Producers |-> Pushed(i)]
<1> SUFFICES Chan!Next \/ (MQ' = MQ /\ popped' = popped /\ snt' = snt)
  BY DEF Chan!chan
<1>0. Producers \subseteq Procs
  BY DEF Producers
<1>1. ASSUME UNCHANGED <<MQ, popped>>, \A i \in Producers : Pushed(i)' = Pushed(i)
      PROVE  MQ' = MQ /\ popped' = popped /\ snt' = snt
  BY <1>1, Zenon
<1>2. ASSUME NEW i \in Procs, Push(i) PROVE Chan!Send(i) /\ i \in Producers
  <2>1. /\ i \in Producers /\ pc[i] = "read" /\ MQ' = Append(seen[i], [pid |-> i, val |-> round[i]])
        /\ \A j \in Procs : pc'[j] = IF j = i THEN "written" ELSE pc[j]
        /\ UNCHANGED <<round, popped>>
    BY <1>2, GoesFacts, Zenon DEF Push
  <2>2. seen[i] = MQ /\ round[i] \in 0..(Rounds - 1) /\ Len(MQ) < SIZE
    BY <2>1, UsePossible, Zenon
  <2>3. /\ \A j \in Producers : Pushed(j)' = IF j = i THEN round[i] + 1 ELSE Pushed(j)
        /\ Pushed(i) = round[i]
    BY <2>1, <2>2, <1>0, Constants DEF Pushed
  <2>4. /\ snt[i] = round[i] /\ snt' = [snt EXCEPT ![i] = @ + 1]
    BY <2>1, <2>3, Zenon
  <2>5. round[i] < Rounds
    BY <2>2, Constants
  <2> QED BY <2>1, <2>2, <2>4, <2>5, Zenon DEF Chan!Send
<1>3. ASSUME NEW i \in Procs, Pop(i) PROVE Chan!Receive
  <2>1. /\ i \notin Producers /\ Goes(i, "read", "written") /\ MQ # << >> /\ MQ' = Tail(MQ)
        /\ popped' = Append(popped, Head(MQ)) /\ UNCHANGED round
    BY <1>3, PopTakes, Zenon
  <2>2. \A j \in Producers : Pushed(j)' = Pushed(j)
    BY <2>1, <1>0, GoesFacts, Zenon DEF Pushed
  <2>3. snt' = snt
    BY <2>2, Zenon
  <2> QED BY <2>1, <2>3, Zenon DEF Chan!Receive
<1>4. ASSUME NEW i \in Procs, NEW from, NEW to, Goes(i, from, to), UNCHANGED <<round, MQ, popped>>,
             from \in {"written", "unlocked"} <=> to \in {"written", "unlocked"}
      PROVE  MQ' = MQ /\ popped' = popped /\ snt' = snt
  <2>1. pc[i] = from /\ \A j \in Procs : pc'[j] = IF j = i THEN to ELSE pc[j]
    BY <1>4, GoesFacts, Zenon
  <2>2. \A j \in Producers : Pushed(j)' = Pushed(j)
    BY <1>0, <1>4, <2>1, Zenon DEF Pushed
  <2> QED BY <1>1, <1>4, <2>2, Zenon
<1>5. ASSUME NEW i \in Procs, Post(i) PROVE MQ' = MQ /\ popped' = popped /\ snt' = snt
  <2>1. /\ pc[i] = "unlocked" /\ round' = [round EXCEPT ![i] = @ + 1]
        /\ \A j \in Procs : pc'[j] = IF j = i THEN "top" ELSE pc[j]
        /\ UNCHANGED <<MQ, popped>>
    BY <1>5, GoesFacts, Zenon DEF Post
  <2>2. \A j \in Procs : round[j] \in Int /\ round'[j] = IF j = i THEN round[j] + 1 ELSE round[j]
    BY <2>1, Constants DEF IInv, TypeOK
  <2>3. \A j \in Producers : Pushed(j)' = Pushed(j)
    BY <1>0, <2>1, <2>2 DEF Pushed
  <2> QED BY <1>1, <2>1, <2>3, Zenon
<1>6. CASE ForkNext
  <2>1. /\ main \in Procs /\ pc' = [pc EXCEPT ![main] = "top"] /\ UNCHANGED <<round, MQ, popped>>
    BY <1>6, Zenon DEF ForkNext
  <2>2. pc[main] = "unborn" /\ \A j \in Procs : pc'[j] = IF j = main THEN "top" ELSE pc[j]
    BY <2>1, Constants DEF IInv, TypeOK, Waiting
  <2>3. \A j \in Producers : Pushed(j)' = Pushed(j)
    BY <1>0, <2>1, <2>2 DEF Pushed
  <2> QED BY <1>1, <2>1, <2>3, Zenon
<1>7. CASE WaitNext \/ UNCHANGED vars
  <2>1. UNCHANGED <<pc, round, MQ, popped>>
    BY <1>7, Zenon DEF WaitNext, vars
  <2>2. \A j \in Producers : Pushed(j)' = Pushed(j)
    BY <2>1, Zenon DEF Pushed
  <2> QED BY <1>1, <2>1, <2>2, Zenon
<1>8. ASSUME NEW i \in Procs, Claim(i) \/ Lock(i) \/ ReadQueue(i) \/ Unlock(i) \/ Exit(i)
      PROVE  MQ' = MQ /\ popped' = popped /\ snt' = snt
  BY <1>4, <1>8, Zenon DEF Claim, Lock, ReadQueue, Unlock, Exit
<1>9. ASSUME NEW i \in Procs, Proc(i)
      PROVE  Chan!Next \/ (MQ' = MQ /\ popped' = popped /\ snt' = snt)
  BY <1>2, <1>3, <1>5, <1>8, <1>9, Zenon DEF Proc, Chan!Next
<1> QED BY <1>6, <1>7, <1>9, Zenon DEF Next, Finished

\* The VecDeque under its three semaphores is a channel of SIZE places: what a
\* producer pushes comes out once, in the order of the pushes, and the queue
\* is never overfull, for every number of processes and of messages.
THEOREM QueueIsChannel == Spec => Chan!Safe
<1>1. Init => Chan!Init
  <2>1. Init => \A i \in Producers : Pushed(i) = 0
    BY DEF Init, Pushed, Producers
  <2> QED BY <2>1, Zenon DEF Init, Chan!Init
<1>2. IInv /\ [Next]_vars => [Chan!Next]_(Chan!chan)
  BY ChannelStep
<1> QED BY <1>1, <1>2, Invariance, PTL DEF Spec, Chan!Safe
=============================================================================
