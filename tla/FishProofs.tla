----------------------------- MODULE FishProofs -----------------------------
(***************************************************************************)
(* FishesInOrder for every Limit.  There is one turn: it is in the count   *)
(* of the semaphore of the process that may take it, or with the process   *)
(* that has taken it, and every other process is at its own wait.          *)
(***************************************************************************)
EXTENDS Fish, QueueLemmas

(***************************************************************************)
(* The turns of a round, 0..3: whose it is, the call that takes it, the    *)
(* call that prints, and the call that hands the turn on.                  *)
(***************************************************************************)

Turns == 0..3
After(t) == IF t = 3 THEN 0 ELSE t + 1
Who(t) == IF t = 1 THEN 1 ELSE IF t = 3 THEN 2 ELSE 0
First(t) == IF t = 2 THEN 6 ELSE 1
Prints(t) == IF t = 1 THEN 2 ELSE First(t) + 2
Last(t) == IF t = 1 THEN 3 ELSE First(t) + 4

\* Where a process waits while the turn t is another's.
Home(i, t) == IF i = 0 /\ t = 1 THEN 6 ELSE 1

Free(n) == [count |-> n, queue |-> << >>]
Queued(i) == [count |-> 0, queue |-> <<i>>]

\* A process at its wait, before the call or blocked in it.
Idle(i, w) ==
    \/ pc[i] = w /\ sems[i] = Free(0)
    \/ pc[i] = w + 1 /\ sems[i] = Queued(i)

\* The turn is there to be taken, or is taken.
HasTurn(i, w, last) ==
    \/ pc[i] = w /\ sems[i] = Free(1)
    \/ pc[i] \in (w + 1)..last /\ sems[i] = Free(0)

\* WAITER is held from its wait to its signal, around the print.
Guarding(t) == t # 1 /\ pc[Who(t)] \in {Prints(t), Prints(t) + 1}

Turn(t) ==
    /\ HasTurn(Who(t), First(t), Last(t))
    /\ \A i \in Procs : i # Who(t) => Idle(i, Home(i, t))
    /\ sems[WAITER] = Free(IF Guarding(t) THEN 0 ELSE 1)
    /\ Len(out) % 4 = IF pc[Who(t)] > Prints(t) THEN After(t) ELSE t

\* Before main's signal nobody has the turn.
Forking ==
    /\ main <= 3 /\ out = << >> /\ sems[WAITER] = Free(1)
    /\ \A i \in Procs : IF i < main THEN Idle(i, 1) ELSE pc[i] = 0 /\ sems[i] = Free(0)

Signs == {Fishes[n] : n \in 1..4}

FishTypes ==
    /\ sems = [k \in 0..3 |-> sems[k]]
    /\ pc \in [Procs -> Nat]
    /\ out \in Seq(Signs)
    /\ main \in 0..7

FishInv ==
    /\ FishTypes /\ FishesInOrder
    /\ Forking \/ (main >= 4 /\ \E t \in Turns : Turn(t))

(***************************************************************************)
(* What the steps have in common.                                          *)
(***************************************************************************)

\* The turns follow each other as the calls of the match arms say.
LEMMA Tables ==
    ASSUME NEW t \in Turns
    PROVE  /\ After(t) \in Turns /\ After(t) = (t + 1) % 4 /\ t % 4 = t
           /\ Who(t) \in Procs /\ Who(After(t)) \in Procs /\ Who(After(t)) # Who(t)
           /\ First(t) \in Nat /\ First(t) > 0 /\ Prints(t) \in Nat /\ Last(t) \in Nat
           /\ t = 1 => Prints(t) = First(t) + 1 /\ Last(t) = First(t) + 2
           /\ t # 1 => Prints(t) = First(t) + 2 /\ Last(t) = First(t) + 4
           /\ Home(Who(After(t)), t) = First(After(t))
           /\ \A i \in Procs : i # Who(t) /\ i # Who(After(t)) => Home(i, t) = Home(i, After(t))
<1> t \in {0, 1, 2, 3} BY DEF Turns
<1>0. CASE t = 0 BY <1>0 DEF Turns, After, Who, First, Prints, Last, Home, Procs
<1>1. CASE t = 1 BY <1>1 DEF Turns, After, Who, First, Prints, Last, Home, Procs
<1>2. CASE t = 2 BY <1>2 DEF Turns, After, Who, First, Prints, Last, Home, Procs
<1>3. CASE t = 3 BY <1>3 DEF Turns, After, Who, First, Prints, Last, Home, Procs
<1> QED BY <1>0, <1>1, <1>2, <1>3

\* The calls of the process that prints the last sign of a fish, for any sign.
LEMMA LastCalls ==
    ASSUME NEW x
    PROVE  LET a == << <<"wait", 2>>, <<"wait", WAITER>>, <<"print", x>>,
                       <<"signal", WAITER>>, <<"signal", 0>> >>
           IN  /\ a[1] = <<"wait", 2>> /\ a[2] = <<"wait", WAITER>> /\ a[3] = <<"print", x>>
               /\ a[4] = <<"signal", WAITER>> /\ a[5] = <<"signal", 0>> /\ Len(a) = 5
               /\ <<">", "<", ">", x>>[4] = x
  OBVIOUS

LEMMA LastArm ==
    /\ Arm[2][1] = <<"wait", 2>> /\ Arm[2][2] = <<"wait", WAITER>>
    /\ Arm[2][3] = <<"print", Fishes[4]>>
    /\ Arm[2][4] = <<"signal", WAITER>> /\ Arm[2][5] = <<"signal", 0>> /\ Len(Arm[2]) = 5
<1>1. 2 \in Procs /\ 2 # 0 /\ 2 # 1
  BY DEF Procs
<1>2. Fishes[4] = "_"
  BY LastCalls, Zenon DEF Fishes
<1>3. \E x : /\ Fishes[4] = x
             /\ Arm[2] = << <<"wait", 2>>, <<"wait", WAITER>>, <<"print", x>>,
                            <<"signal", WAITER>>, <<"signal", 0>> >>
  BY <1>1, <1>2, Zenon DEF Arm
<1> QED BY <1>3, LastCalls

\* The calls of the process that has the turn.
LEMMA Calls ==
    ASSUME NEW t \in Turns
    PROVE  LET a == Arm[Who(t)] IN
           /\ a[First(t)] = <<"wait", Who(t)>>
           /\ t # 1 => /\ a[First(t) + 1] = <<"wait", WAITER>>
                       /\ a[First(t) + 3] = <<"signal", WAITER>>
           /\ a[Prints(t)] = <<"print", Fishes[t + 1]>>
           /\ a[Last(t)] = <<"signal", Who(After(t))>>
           /\ Len(a) \in Nat /\ Last(t) <= Len(a)
           /\ Home(Who(t), After(t)) = IF Last(t) < Len(a) THEN Last(t) + 1 ELSE 1
<1> t \in {0, 1, 2, 3} BY DEF Turns
<1>0. CASE t = 0 BY <1>0 DEF Arm, Procs, WAITER, Fishes, After, Who, First, Prints, Last, Home
<1>1. CASE t = 1 BY <1>1 DEF Arm, Procs, WAITER, Fishes, After, Who, First, Prints, Last, Home
<1>2. CASE t = 2 BY <1>2 DEF Arm, Procs, WAITER, Fishes, After, Who, First, Prints, Last, Home
<1>3. CASE t = 3 
  <2>1. /\ After(t) = 0 /\ Who(t) = 2 /\ Who(After(t)) = 0 /\ First(t) = 1 /\ Prints(t) = 3
        /\ Last(t) = 5 /\ Home(Who(t), After(t)) = 1 /\ t + 1 = 4
    BY <1>3 DEF After, Who, First, Prints, Last, Home
  <2> QED BY <2>1, LastArm
<1> QED BY <1>0, <1>1, <1>2, <1>3, Zenon

\* A process without the turn is at the wait for its own semaphore.
LEMMA IdleCalls ==
    ASSUME NEW i \in Procs, NEW w, w = 1 \/ (w = 6 /\ i = 0)
    PROVE  /\ Arm[i][w] = <<"wait", i>> /\ Len(Arm[i]) \in Nat /\ w < Len(Arm[i])
<1>0. CASE i = 0 BY <1>0 DEF Arm, Procs
<1>1. CASE i = 1 BY <1>1 DEF Arm, Procs
<1>2. CASE i = 2 BY <1>2, LastArm
<1> QED BY <1>0, <1>1, <1>2 DEF Procs

\* What wait and signal make of the semaphores there are.
LEMMA SemSteps ==
    ASSUME NEW i
    PROVE  /\ SemWaited(Free(1), i) = Free(0) /\ SemWaited(Free(0), i) = Queued(i)
           /\ SemSignalled(Free(0)) = Free(1) /\ SemSignalled(Queued(i)) = Free(0)
           /\ Queued(i).queue = <<i>>
<1>1. Append(<< >>, i) = <<i>> /\ Tail(<<i>>) = << >> /\ <<i>> # << >>
  OBVIOUS
<1> QED BY <1>1 DEF SemWaited, SemSignalled, Blocks, Wakes, Free, Queued

LEMMA SemsThere ==
    ASSUME NEW i \in Procs, NEW n \in {0, 1}
    PROVE  Free(n) # NoSem /\ Queued(i) # NoSem
<1>1. << >> \in Seq(Procs) /\ <<i>> \in Seq(Procs)
  OBVIOUS
<1>2. Free(n) \in [count : Nat, queue : Seq(Procs)] /\ Queued(i) \in [count : Nat, queue : Seq(Procs)]
  BY <1>1 DEF Free, Queued
<1> QED BY <1>2, FishConstants

\* What a call of a process changes, by the call it is at.
LEMMA Acts ==
    ASSUME FishTypes, NEW i \in Procs, Proc(i), NEW c, NEW x, Arm[i][pc[i]] = <<c, x>>
    PROVE  /\ c = "wait" => Wait(x, i) /\ out' = out
           /\ c = "signal" => Signal(x) /\ out' = out
           /\ c = "print" => out' = Append(out, x) /\ sems' = sems
           /\ pc' = [pc EXCEPT ![i] = IF pc[i] < Len(Arm[i]) THEN pc[i] + 1 ELSE 1]
           /\ main' = main /\ ~Blocked(i) /\ pc[i] > 0
<1>1. Arm[i][pc[i]][1] = c /\ Arm[i][pc[i]][2] = x
  OBVIOUS
<1>2. PICK call \in {"wait", "signal", "print"} : Runs(i, call)
  BY Zenon DEF Proc, WaitCall, SignalCall, PrintCall
<1>3. /\ pc' = [pc EXCEPT ![i] = IF pc[i] < Len(Arm[i]) THEN pc[i] + 1 ELSE 1]
      /\ main' = main /\ ~Blocked(i) /\ pc[i] > 0
  <2>1. main' = main /\ ~Blocked(i) /\ pc[i] > 0 /\ NextTurn(i)
    BY <1>2, Zenon DEF Runs
  <2> QED BY <2>1 DEF NextTurn
<1>4. c = "wait" => WaitCall(i)
  BY <1>1 DEF Proc, SignalCall, PrintCall, Runs
<1>5. c = "signal" => SignalCall(i)
  BY <1>1 DEF Proc, WaitCall, PrintCall, Runs
<1>6. c = "print" => PrintCall(i)
  BY <1>1 DEF Proc, WaitCall, SignalCall, Runs
<1> QED BY <1>1, <1>3, <1>4, <1>5, <1>6, Zenon DEF WaitCall, SignalCall, PrintCall

LEMMA WaitActs ==
    ASSUME FishTypes, NEW i \in Procs, Proc(i), NEW x, Arm[i][pc[i]] = <<"wait", x>>
    PROVE  /\ Wait(x, i) /\ out' = out /\ main' = main
           /\ pc' = [pc EXCEPT ![i] = IF pc[i] < Len(Arm[i]) THEN pc[i] + 1 ELSE 1]
  BY Acts

LEMMA SignalActs ==
    ASSUME FishTypes, NEW i \in Procs, Proc(i), NEW x, Arm[i][pc[i]] = <<"signal", x>>
    PROVE  /\ Signal(x) /\ out' = out /\ main' = main
           /\ pc' = [pc EXCEPT ![i] = IF pc[i] < Len(Arm[i]) THEN pc[i] + 1 ELSE 1]
  BY Acts

LEMMA PrintActs ==
    ASSUME FishTypes, NEW i \in Procs, Proc(i), NEW x, Arm[i][pc[i]] = <<"print", x>>
    PROVE  /\ out' = Append(out, x) /\ sems' = sems /\ main' = main
           /\ pc' = [pc EXCEPT ![i] = IF pc[i] < Len(Arm[i]) THEN pc[i] + 1 ELSE 1]
  BY Acts

\* A call on a semaphore that is there.
LEMMA SemCalls ==
    ASSUME FishTypes, NEW k \in 0..3, NEW i \in Procs,
           sems[k] \in {Free(0), Free(1)} \/ sems[k] = Queued(i)
    PROVE  /\ Wait(k, i) => sems' = [sems EXCEPT ![k] = SemWaited(sems[k], i)]
           /\ Signal(k) => sems' = [sems EXCEPT ![k] = SemSignalled(sems[k])]
<1>1. sems[k] # NoSem
  BY SemsThere
<1> QED BY <1>1, Zenon DEF Wait, Signal

\* A process that is queued takes no step.
LEMMA QueuedIsBlocked ==
    ASSUME FishTypes, NEW i \in Procs, sems[i] = Queued(i)
    PROVE  Blocked(i)
<1>1. sems[i] # NoSem /\ sems[i].queue = <<i>>
  BY SemsThere, SemSteps
<1>2. i \in Range(<<i>>)
  BY DEF Range
<1>3. i \in DOMAIN sems
  BY DEF FishTypes, Procs
<1> QED BY <1>1, <1>2, <1>3, Zenon DEF Blocked

\* A process without the turn can only block in its wait.
LEMMA IdleStep ==
    ASSUME FishTypes, NEW i \in Procs, NEW w, w = 1 \/ (w = 6 /\ i = 0), Idle(i, w), Proc(i)
    PROVE  /\ Idle(i, w)' /\ out' = out /\ main' = main /\ FishTypes'
           /\ \A j \in Procs \cup {WAITER} : j # i => sems'[j] = sems[j]
           /\ \A j \in Procs : j # i => pc'[j] = pc[j]
<1>1. Arm[i][w] = <<"wait", i>> /\ Len(Arm[i]) \in Nat /\ w < Len(Arm[i])
  BY IdleCalls
<1>2. pc[i] = w /\ sems[i] = Free(0)
  <2>1. ~Blocked(i)
    BY Zenon DEF Proc, WaitCall, SignalCall, PrintCall, Runs
  <2> QED BY <2>1, QueuedIsBlocked, Zenon DEF Idle
<1>3. /\ Wait(i, i) /\ out' = out /\ main' = main
      /\ pc' = [pc EXCEPT ![i] = IF pc[i] < Len(Arm[i]) THEN pc[i] + 1 ELSE 1]
  BY <1>1, <1>2, WaitActs, Zenon
<1>4. sems' = [sems EXCEPT ![i] = Queued(i)]
  <2>1. i \in 0..3
    BY DEF Procs
  <2>2. sems' = [sems EXCEPT ![i] = SemWaited(sems[i], i)]
    BY <1>2, <1>3, <2>1, SemCalls
  <2>3. SemWaited(sems[i], i) = Queued(i)
    BY <1>2, SemSteps
  <2> QED BY <2>2, <2>3, Zenon
<1>5. pc' = [pc EXCEPT ![i] = w + 1]
  BY <1>1, <1>2, <1>3
<1>6. w \in Nat /\ i \in 0..3
  BY DEF Procs
<1>7. FishTypes'
  <2>1. sems' = [k \in 0..3 |-> sems'[k]]
    BY <1>4, Zenon DEF FishTypes
  <2>2. pc' \in [Procs -> Nat]
    BY <1>5, <1>6 DEF FishTypes
  <2> QED BY <1>3, <2>1, <2>2 DEF FishTypes
<1>8. Idle(i, w)'
  BY <1>4, <1>5, <1>6 DEF Idle, FishTypes
<1>9. \A j \in Procs \cup {WAITER} : j # i => sems'[j] = sems[j]
  BY <1>4 DEF FishTypes, Procs, WAITER
<1>10. \A j \in Procs : j # i => pc'[j] = pc[j]
  BY <1>5 DEF FishTypes
<1> QED BY <1>3, <1>7, <1>8, <1>9, <1>10

\* The turn stays where it is while another process blocks.
LEMMA IdleKeepsTurn ==
    ASSUME FishTypes, FishesInOrder, NEW t \in Turns, Turn(t),
           NEW i \in Procs, i # Who(t), Proc(i)
    PROVE  FishTypes' /\ FishesInOrder' /\ Turn(t)' /\ main' = main
<1> DEFINE p == Who(t)
<1>1. p \in Procs
  BY Tables
<1>2. Home(i, t) = 1 \/ (Home(i, t) = 6 /\ i = 0)
  BY DEF Home
<1>3. Idle(i, Home(i, t))
  BY Zenon DEF Turn
<1>4. /\ Idle(i, Home(i, t))' /\ out' = out /\ main' = main /\ FishTypes'
      /\ \A j \in Procs \cup {WAITER} : j # i => sems'[j] = sems[j]
      /\ \A j \in Procs : j # i => pc'[j] = pc[j]
  BY <1>2, <1>3, IdleStep, Zenon
<1>5. pc'[p] = pc[p] /\ sems'[p] = sems[p]
  BY <1>1, <1>4, Zenon
<1>6. sems'[WAITER] = sems[WAITER]
  <2>1. WAITER # i
    BY DEF WAITER, Procs
  <2> QED BY <2>1, <1>4, Zenon
<1>7. HasTurn(p, First(t), Last(t))'
  BY <1>5, Zenon DEF Turn, HasTurn
<1>8. ASSUME NEW j \in Procs, j # p
      PROVE  Idle(j, Home(j, t))'
  <2>1. CASE j = i
    BY <2>1, <1>4, Zenon
  <2>2. CASE j # i
    <3>1. Idle(j, Home(j, t)) /\ pc'[j] = pc[j] /\ sems'[j] = sems[j]
      BY <1>8, <1>4, <2>2, Zenon DEF Turn
    <3> QED BY <3>1, Zenon DEF Idle
  <2> QED BY <2>1, <2>2
<1>9. Guarding(t)' = Guarding(t)
  BY <1>5, Zenon DEF Guarding
<1>10. Turn(t)'
  BY <1>4, <1>5, <1>6, <1>7, <1>8, <1>9, Zenon DEF Turn
<1>11. FishesInOrder'
  BY <1>4, Zenon DEF FishesInOrder
<1> QED BY <1>4, <1>10, <1>11

\* The types survive a step of a process.
LEMMA TypesKept ==
    ASSUME FishTypes, NEW i \in Procs, NEW n \in Nat, pc' = [pc EXCEPT ![i] = n],
           main' = main, sems' = [k \in 0..3 |-> sems'[k]],
           out' = out \/ \E x \in Signs : out' = Append(out, x)
    PROVE  FishTypes'
<1>1. pc' \in [Procs -> Nat]
  BY DEF FishTypes
<1>2. out' \in Seq(Signs)
  <2>1. out \in Seq(Signs)
    BY Zenon DEF FishTypes
  <2>2. ASSUME NEW x \in Signs PROVE Append(out, x) \in Seq(Signs)
    BY <2>1, AppendFacts, Zenon
  <2> QED BY <2>1, <2>2, Zenon
<1> QED BY <1>1, <1>2 DEF FishTypes

\* A step of the process that has the turn within its turn: it moves to its
\* next call, and the semaphores of the others stay as they are.
LEMMA TurnKept ==
    ASSUME FishTypes, NEW t \in Turns, Turn(t), pc[Who(t)] < Last(t), main' = main,
           pc' = [pc EXCEPT ![Who(t)] = IF pc[Who(t)] < Len(Arm[Who(t)]) THEN pc[Who(t)] + 1 ELSE 1],
           NEW n, sems' = [sems EXCEPT ![Who(t)] = Free(0), ![WAITER] = Free(n)],
           n = (IF Guarding(t)' THEN 0 ELSE 1),
           out' = out \/ \E x \in Signs : out' = Append(out, x),
           Len(out') % 4 = IF pc[Who(t)] + 1 > Prints(t) THEN After(t) ELSE t
    PROVE  Turn(t)' /\ FishTypes'
<1> DEFINE p == Who(t)
<1>1. p \in Procs /\ p # WAITER /\ p \in 0..3 /\ WAITER \in 0..3
  <2>1. p \in Procs
    BY Tables
  <2> QED BY <2>1 DEF Procs, WAITER
<1>2. pc[p] \in Nat /\ pc' = [pc EXCEPT ![p] = pc[p] + 1] /\ pc'[p] = pc[p] + 1
  <2>1. pc[p] \in Nat /\ Len(Arm[p]) \in Nat /\ Last(t) \in Nat /\ Last(t) <= Len(Arm[p])
    BY <1>1, Calls, Tables, Zenon DEF FishTypes
  <2>2. pc[p] < Len(Arm[p])
    BY <2>1
  <2>3. pc' = [pc EXCEPT ![p] = pc[p] + 1]
    BY <2>2, Zenon
  <2> QED BY <1>1, <2>1, <2>3, Zenon DEF FishTypes
<1>3. sems'[p] = Free(0) /\ sems'[WAITER] = Free(n)
  BY <1>1 DEF FishTypes
<1>4. HasTurn(p, First(t), Last(t))'
  <2>1. First(t) \in Nat /\ Last(t) \in Nat
    BY Tables
  <2>2. First(t) <= pc[p]
    BY <2>1, <1>2 DEF Turn, HasTurn
  <2>3. pc'[p] \in (First(t) + 1)..Last(t)
    BY <2>1, <2>2, <1>2
  <2> QED BY <2>3, <1>3, Zenon DEF HasTurn
<1>5. ASSUME NEW j \in Procs, j # p
      PROVE  Idle(j, Home(j, t))'
  <2>1. j # WAITER /\ j \in 0..3
    BY DEF WAITER, Procs
  <2>2. Idle(j, Home(j, t)) /\ pc'[j] = pc[j] /\ sems'[j] = sems[j]
    BY <1>1, <1>5, <2>1 DEF Turn, FishTypes
  <2> QED BY <2>2, Zenon DEF Idle
<1>6. Turn(t)'
  BY <1>2, <1>3, <1>4, <1>5, Zenon DEF Turn
<1>7. FishTypes'
  <2>1. sems' = [k \in 0..3 |-> sems'[k]]
    BY Zenon DEF FishTypes
  <2>2. pc[p] + 1 \in Nat
    BY <1>2
  <2> QED BY <1>1, <1>2, <2>1, <2>2, TypesKept, Zenon
<1> QED BY <1>6, <1>7

\* The holder takes the turn that is in its semaphore.
LEMMA TakesTurn ==
    ASSUME FishTypes, NEW t \in Turns, Turn(t), Proc(Who(t)), pc[Who(t)] = First(t)
    PROVE  FishTypes' /\ out' = out /\ Turn(t)' /\ main' = main
<1> DEFINE p == Who(t)
<1>1. /\ p \in Procs /\ First(t) \in Nat /\ First(t) < Prints(t) /\ Prints(t) < Last(t)
      /\ Prints(t) \in Nat /\ Last(t) \in Nat /\ (t # 1 => Prints(t) = First(t) + 2)
  BY Tables
<1>2. Arm[p][pc[p]] = <<"wait", p>> /\ Len(Arm[p]) \in Nat /\ Last(t) <= Len(Arm[p])
  BY Calls
<1>3. /\ Wait(p, p) /\ out' = out /\ main' = main
      /\ pc' = [pc EXCEPT ![p] = IF pc[p] < Len(Arm[p]) THEN pc[p] + 1 ELSE 1]
  BY <1>1, <1>2, WaitActs, Zenon
<1>4. pc'[p] = First(t) + 1
  BY <1>1, <1>2, <1>3 DEF FishTypes
<1>5. sems[p] = Free(1)
  BY <1>1 DEF Turn, HasTurn
<1>6. p \in 0..3 /\ p # WAITER /\ WAITER \in 0..3
  BY <1>1 DEF Procs, WAITER
<1>7. sems' = [sems EXCEPT ![p] = Free(0)]
  <2>1. sems' = [sems EXCEPT ![p] = SemWaited(sems[p], p)]
    BY <1>1, <1>3, <1>5, <1>6, SemCalls
  <2>2. SemWaited(sems[p], p) = Free(0)
    BY <1>5, SemSteps
  <2> QED BY <2>1, <2>2, Zenon
<1>8. Guarding(t) = FALSE /\ Guarding(t)' = FALSE
  BY <1>1, <1>4 DEF Guarding
<1>9. sems[WAITER] = Free(1)
  BY <1>8, Zenon DEF Turn
<1>10. sems' = [sems EXCEPT ![p] = Free(0), ![WAITER] = Free(1)]
  BY <1>6, <1>7, <1>9, Zenon DEF FishTypes
<1>11. Len(out') % 4 = IF pc[p] + 1 > Prints(t) THEN After(t) ELSE t
  BY <1>1, <1>3 DEF Turn
<1>12. pc[p] < Last(t) /\ 1 = (IF Guarding(t)' THEN 0 ELSE 1)
  BY <1>1, <1>8
<1> QED BY <1>3, <1>10, <1>11, <1>12, TurnKept, Zenon

\* Around its print the holder takes WAITER, which is free, and gives it back.
LEMMA GuardsPrint ==
    ASSUME FishTypes, NEW t \in Turns, Turn(t), Proc(Who(t)), t # 1,
           NEW d \in {1, 3}, pc[Who(t)] = First(t) + d
    PROVE  FishTypes' /\ out' = out /\ Turn(t)' /\ main' = main
<1> DEFINE p == Who(t)  call == IF d = 1 THEN "wait" ELSE "signal"  n == IF d = 1 THEN 0 ELSE 1
<1>1. /\ p \in Procs /\ First(t) \in Nat /\ Prints(t) = First(t) + 2 /\ Last(t) = First(t) + 4
  BY Tables
<1>2. /\ Arm[p][pc[p]] = <<call, WAITER>> /\ Len(Arm[p]) \in Nat /\ Last(t) <= Len(Arm[p])
  BY Calls
<1>3. /\ call = "wait" => Wait(WAITER, p)
      /\ call = "signal" => Signal(WAITER)
      /\ call = "wait" \/ call = "signal" => out' = out
      /\ main' = main
      /\ pc' = [pc EXCEPT ![p] = IF pc[p] < Len(Arm[p]) THEN pc[p] + 1 ELSE 1]
  <2>1. CASE call = "wait"
    BY <1>1, <1>2, <2>1, WaitActs
  <2>2. CASE call = "signal"
    BY <1>1, <1>2, <2>2, SignalActs
  <2> QED BY <2>1, <2>2, Zenon
<1>4. pc'[p] = First(t) + (d + 1)
  <2>1. pc'[p] = IF pc[p] < Len(Arm[p]) THEN pc[p] + 1 ELSE 1
    BY <1>1, <1>3, Zenon DEF FishTypes
  <2>2. pc[p] < Len(Arm[p])
    BY <1>1, <1>2
  <2> QED BY <1>1, <2>1, <2>2
<1>5. out' = out
  BY <1>3, Zenon
<1>6. p \in 0..3 /\ p # WAITER /\ WAITER \in 0..3
  BY <1>1 DEF Procs, WAITER
<1>7. sems[p] = Free(0)
  <2>1. HasTurn(p, First(t), Last(t))
    BY Zenon DEF Turn
  <2>2. pc[p] # First(t)
    BY <1>1
  <2> QED BY <2>1, <2>2, Zenon DEF HasTurn
<1>8. /\ d = 1 => ~Guarding(t) /\ Guarding(t)'
      /\ d = 3 => Guarding(t) /\ ~Guarding(t)'
  BY <1>1, <1>4 DEF Guarding
<1>9. sems' = [sems EXCEPT ![WAITER] = Free(n)]
  <2>1. CASE d = 1
    <3>0. ~Guarding(t)
      BY <2>1, <1>8
    <3>1. sems[WAITER] = Free(1)
      BY <3>0, Zenon DEF Turn
    <3>2. sems' = [sems EXCEPT ![WAITER] = SemWaited(sems[WAITER], p)]
      BY <3>1, <2>1, <1>1, <1>3, <1>6, SemCalls
    <3>3. SemWaited(sems[WAITER], p) = Free(0)
      BY <3>1, SemSteps
    <3> QED BY <3>2, <3>3, <2>1, Zenon
  <2>2. CASE d = 3
    <3>1. sems[WAITER] = Free(0)
      BY <2>2, <1>8 DEF Turn
    <3>2. sems' = [sems EXCEPT ![WAITER] = SemSignalled(sems[WAITER])]
      BY <3>1, <2>2, <1>1, <1>3, <1>6, SemCalls
    <3>3. SemSignalled(sems[WAITER]) = Free(1)
      BY <3>1, SemSteps
    <3>4. n = 1
      BY <2>2
    <3> QED BY <3>2, <3>3, <3>4, Zenon
  <2> QED BY <2>1, <2>2
<1>10. sems' = [sems EXCEPT ![p] = Free(0), ![WAITER] = Free(n)]
  BY <1>6, <1>7, <1>9, Zenon DEF FishTypes
<1>11. Len(out') % 4 = IF pc[p] + 1 > Prints(t) THEN After(t) ELSE t
  BY <1>1, <1>5 DEF Turn
<1>12. pc[p] < Last(t) /\ n = (IF Guarding(t)' THEN 0 ELSE 1)
  <2>1. pc[p] < Last(t)
    BY <1>1
  <2>2. CASE d = 1
    <3>1. Guarding(t)'
      BY <2>2, <1>8
    <3> QED BY <3>1, <2>1, <2>2, Zenon
  <2>3. CASE d = 3
    <3>1. ~Guarding(t)' /\ n = 1
      BY <2>3, <1>8
    <3> QED BY <3>1, <2>1, Zenon
  <2> QED BY <2>2, <2>3
<1> HIDE DEF n
<1>13. FishTypes' /\ Turn(t)'
  BY <1>3, <1>5, <1>10, <1>11, <1>12, TurnKept, Zenon
<1> QED BY <1>3, <1>5, <1>13

\* The sign printed in a turn is the next one of the fish.
LEMMA PrintsSign ==
    ASSUME FishTypes, FishesInOrder, NEW t \in Turns, Turn(t), Proc(Who(t)), pc[Who(t)] = Prints(t)
    PROVE  FishTypes' /\ FishesInOrder' /\ Turn(t)' /\ main' = main
<1> DEFINE p == Who(t)  x == Fishes[t + 1]
<1>1. /\ p \in Procs /\ First(t) \in Nat /\ Prints(t) \in Nat /\ Last(t) \in Nat
      /\ First(t) < Prints(t) /\ Prints(t) < Last(t)
      /\ After(t) = (t + 1) % 4
  BY Tables
<1>2. Arm[p][pc[p]] = <<"print", x>> /\ Len(Arm[p]) \in Nat /\ Last(t) <= Len(Arm[p])
  BY Calls
<1>3. /\ out' = Append(out, x) /\ sems' = sems /\ main' = main
      /\ pc' = [pc EXCEPT ![p] = IF pc[p] < Len(Arm[p]) THEN pc[p] + 1 ELSE 1]
  BY <1>1, <1>2, PrintActs, Zenon
<1>4. pc'[p] = Prints(t) + 1
  BY <1>1, <1>2, <1>3 DEF FishTypes
<1>5. p \in 0..3 /\ p # WAITER /\ WAITER \in 0..3
  BY <1>1 DEF Procs, WAITER
<1>6. sems[p] = Free(0)
  BY <1>1 DEF Turn, HasTurn
<1> DEFINE n == IF t = 1 THEN 1 ELSE 0
<1>7. Guarding(t) = (t # 1) /\ Guarding(t)' = (t # 1)
  BY <1>1, <1>4 DEF Guarding
<1>8. sems[WAITER] = Free(n) /\ n = (IF Guarding(t)' THEN 0 ELSE 1)
  BY <1>7, Zenon DEF Turn
<1> HIDE DEF n
<1>9. sems' = [sems EXCEPT ![p] = Free(0), ![WAITER] = Free(n)]
  BY <1>3, <1>5, <1>6, <1>8 DEF FishTypes
<1>10. x \in Signs /\ t \in Int
  BY DEF Signs, Turns
<1>11. Len(out) % 4 = t /\ Len(out) \in Nat
  BY <1>1 DEF Turn, FishTypes
<1> HIDE DEF x
<1>12. /\ out' \in Seq(Signs) /\ Len(out') = Len(out) + 1 /\ out'[Len(out) + 1] = x
       /\ \A j \in 1..Len(out) : out'[j] = out[j]
  BY <1>3, <1>10, AppendFacts DEF FishTypes
<1>13. Len(out') % 4 = IF pc[p] + 1 > Prints(t) THEN After(t) ELSE t
  <2>1. (Len(out) + 1) % 4 = (t + 1) % 4
    BY <1>10, <1>11
  <2> QED BY <2>1, <1>1, <1>12
<1>14. FishTypes' /\ Turn(t)'
  <2>1. pc[p] < Last(t)
    BY <1>1
  <2> QED BY <2>1, <1>3, <1>8, <1>9, <1>10, <1>13, TurnKept, Zenon
<1>15. FishesInOrder'
  <2> SUFFICES ASSUME NEW j \in 1..Len(out')
               PROVE  out'[j] = Fishes[((j - 1) % 4) + 1]
    BY <1>12 DEF FishesInOrder
  <2>1. CASE j \in 1..Len(out)
    <3>1. j \in DOMAIN out
      BY <2>1 DEF FishTypes
    <3> QED BY <3>1, <2>1, <1>12, Zenon DEF FishesInOrder
  <2>2. CASE j = Len(out) + 1
    <3>1. ((j - 1) % 4) + 1 = t + 1
      BY <2>2, <1>11
    <3> QED BY <3>1, <2>2, <1>12, Zenon DEF x
  <2> QED BY <2>1, <2>2, <1>11, <1>12
<1> QED BY <1>3, <1>14, <1>15

\* A signal to a process at its wait hands it the turn: a unit it will find,
\* or the end of its block.
LEMMA Handed ==
    ASSUME FishTypes, NEW q \in Procs, NEW w, Idle(q, w), Signal(q)
    PROVE  /\ sems' = [k \in 0..3 |-> sems'[k]]
           /\ \A k \in 0..3 : k # q => sems'[k] = sems[k]
           /\ \/ pc[q] = w /\ sems'[q] = Free(1)
              \/ pc[q] = w + 1 /\ sems'[q] = Free(0)
<1>1. q \in 0..3
  BY DEF Procs
<1>2. sems' = [sems EXCEPT ![q] = SemSignalled(sems[q])]
  BY <1>1, SemCalls DEF Idle
<1>3. /\ sems' = [k \in 0..3 |-> sems'[k]] /\ sems'[q] = SemSignalled(sems[q])
      /\ \A k \in 0..3 : k # q => sems'[k] = sems[k]
  BY <1>1, <1>2, Zenon DEF FishTypes
<1>4. \/ pc[q] = w /\ SemSignalled(sems[q]) = Free(1)
      \/ pc[q] = w + 1 /\ SemSignalled(sems[q]) = Free(0)
  BY SemSteps DEF Idle
<1> QED BY <1>3, <1>4

\* The holder hands the turn on and is back at its next wait.
LEMMA PassesTurn ==
    ASSUME FishTypes, NEW t \in Turns, Turn(t), Proc(Who(t)), pc[Who(t)] = Last(t)
    PROVE  FishTypes' /\ out' = out /\ Turn(After(t))' /\ main' = main
<1> DEFINE p == Who(t)  q == Who(After(t))  u == After(t)  h == Home(p, u)
<1>1. /\ p \in Procs /\ q \in Procs /\ p # q /\ u \in Turns
      /\ First(t) \in Nat /\ Prints(t) \in Nat /\ Last(t) \in Nat
      /\ First(t) < Prints(t) /\ Prints(t) < Last(t) /\ (t # 1 => Prints(t) + 2 = Last(t))
      /\ Home(q, t) = First(u)
      /\ \A i \in Procs : i # p /\ i # q => Home(i, t) = Home(i, u)
  BY Tables
<1>2. /\ First(u) \in Nat /\ Prints(u) \in Nat /\ Last(u) \in Nat
      /\ First(u) + 1 <= Prints(u) /\ First(u) + 1 <= Last(u)
      /\ u # 1 => Prints(u) = First(u) + 2
  BY <1>1, Tables
<1>3. /\ Arm[p][pc[p]] = <<"signal", q>> /\ Len(Arm[p]) \in Nat
      /\ h = IF pc[p] < Len(Arm[p]) THEN pc[p] + 1 ELSE 1
  BY Calls
<1>4. Signal(q) /\ out' = out /\ main' = main /\ pc' = [pc EXCEPT ![p] = h]
  BY <1>1, <1>3, SignalActs, Zenon
<1>5. h \in Nat
  BY DEF Home
<1>6. pc'[p] = h /\ pc'[q] = pc[q] /\ \A i \in Procs : i # p => pc'[i] = pc[i]
  BY <1>1, <1>4 DEF FishTypes
<1>7. Idle(q, First(u))
  BY <1>1, Zenon DEF Turn
<1>8. /\ sems' = [k \in 0..3 |-> sems'[k]]
      /\ \A k \in 0..3 : k # q => sems'[k] = sems[k]
      /\ \/ pc[q] = First(u) /\ sems'[q] = Free(1)
         \/ pc[q] = First(u) + 1 /\ sems'[q] = Free(0)
  BY <1>1, <1>4, <1>7, Handed, Zenon
<1>9. FishTypes'
  BY <1>1, <1>4, <1>5, <1>8, TypesKept, Zenon
<1>10. sems[p] = Free(0) /\ ~Guarding(t)
  BY <1>1 DEF Turn, HasTurn, Guarding
<1>11. sems[WAITER] = Free(1)
  BY <1>10, Zenon DEF Turn
<1>12. Procs \subseteq 0..3 /\ WAITER \in 0..3 /\ WAITER \notin Procs
  BY DEF Procs, WAITER
<1>13. HasTurn(q, First(u), Last(u))'
  <2>1. First(u) + 1 \in (First(u) + 1)..Last(u)
    BY <1>2
  <2> QED BY <2>1, <1>6, <1>8, Zenon DEF HasTurn
<1>14. ASSUME NEW i \in Procs, i # q
       PROVE  Idle(i, Home(i, u))'
  <2>1. sems'[i] = sems[i]
    BY <1>8, <1>12, <1>14, Zenon
  <2>2. CASE i = p
    BY <2>1, <2>2, <1>6, <1>10, Zenon DEF Idle
  <2>3. CASE i # p
    <3>1. Idle(i, Home(i, u)) /\ pc'[i] = pc[i]
      BY <2>3, <1>1, <1>6, <1>14, Zenon DEF Turn
    <3> QED BY <3>1, <2>1, Zenon DEF Idle
  <2> QED BY <2>2, <2>3
<1>15. sems'[WAITER] = Free(1)
  BY <1>1, <1>8, <1>11, <1>12, Zenon
<1>16. pc'[q] <= Prints(u) /\ ~Guarding(u)'
  BY <1>2, <1>6, <1>8 DEF Guarding
<1>17. Len(out) % 4 = u
  BY <1>1 DEF Turn
<1>18. Turn(u)'
  <2>1. ~(pc'[q] > Prints(u))
    BY <1>2, <1>6, <1>8
  <2> QED BY <2>1, <1>4, <1>13, <1>14, <1>15, <1>16, <1>17, Zenon DEF Turn
<1> QED BY <1>4, <1>9, <1>18

(***************************************************************************)
(* FishInv is inductive.                                                   *)
(***************************************************************************)

\* Once the turn is given out, every step of a process keeps it or hands it on.
LEMMA TurnInv ==
    ASSUME FishTypes, FishesInOrder, NEW t \in Turns, Turn(t), NEW i \in Procs, Proc(i)
    PROVE  FishTypes' /\ FishesInOrder' /\ main' = main /\ \E u \in Turns : Turn(u)'
<1>0. out' = out => FishesInOrder'
  BY Zenon DEF FishesInOrder
<1>1. CASE i # Who(t)
  BY <1>1, IdleKeepsTurn, Zenon
<1>2. CASE i = Who(t)
  <2>1. Proc(Who(t))
    BY <1>2
  <2>2. /\ First(t) \in Nat /\ After(t) \in Turns
        /\ t = 1 => Prints(t) = First(t) + 1 /\ Last(t) = First(t) + 2
        /\ t # 1 => Prints(t) = First(t) + 2 /\ Last(t) = First(t) + 4
    BY Tables
  <2>3. \/ pc[Who(t)] = First(t) \/ pc[Who(t)] = Prints(t) \/ pc[Who(t)] = Last(t)
        \/ t # 1 /\ \E d \in {1, 3} : pc[Who(t)] = First(t) + d
    <3>1. pc[Who(t)] = First(t) \/ pc[Who(t)] \in (First(t) + 1)..Last(t)
      BY Zenon DEF Turn, HasTurn
    <3> QED BY <2>2, <3>1
  <2>4. CASE pc[Who(t)] = First(t)
    BY <2>1, <2>4, <1>0, TakesTurn, Zenon
  <2>5. CASE pc[Who(t)] = Prints(t)
    BY <2>1, <2>5, PrintsSign, Zenon
  <2>6. CASE pc[Who(t)] = Last(t)
    BY <2>1, <2>2, <2>6, <1>0, PassesTurn, Zenon
  <2>7. CASE t # 1 /\ \E d \in {1, 3} : pc[Who(t)] = First(t) + d
    BY <2>1, <2>7, <1>0, GuardsPrint, Zenon
  <2> QED BY <2>3, <2>4, <2>5, <2>6, <2>7
<1> QED BY <1>1, <1>2

\* Before that the processes that run are at their first wait.
LEMMA ForkingInv ==
    ASSUME FishTypes, FishesInOrder, Forking, NEW i \in Procs, Proc(i)
    PROVE  FishTypes' /\ FishesInOrder' /\ Forking'
<1>1. i < main
  <2>1. pc[i] > 0
    BY Zenon DEF Proc, WaitCall, SignalCall, PrintCall, Runs
  <2> QED BY <2>1 DEF Forking
<1>2. Idle(i, 1)
  BY <1>1, Zenon DEF Forking
<1>3. /\ Idle(i, 1)' /\ out' = out /\ main' = main /\ FishTypes'
      /\ \A j \in Procs \cup {WAITER} : j # i => sems'[j] = sems[j]
      /\ \A j \in Procs : j # i => pc'[j] = pc[j]
  BY <1>2, IdleStep, Zenon
<1>4. ASSUME NEW j \in Procs
      PROVE  IF j < main' THEN Idle(j, 1)' ELSE pc'[j] = 0 /\ sems'[j] = Free(0)
  <2>1. CASE j = i
    BY <2>1, <1>1, <1>3, Zenon
  <2>2. CASE j # i
    <3>1. pc'[j] = pc[j] /\ sems'[j] = sems[j]
      BY <2>2, <1>3, Zenon
    <3> QED BY <3>1, <1>3, Zenon DEF Forking, Idle
  <2> QED BY <2>1, <2>2
<1>5. sems'[WAITER] = sems[WAITER]
  <2>1. WAITER # i
    BY DEF WAITER, Procs
  <2> QED BY <2>1, <1>3, Zenon
<1>6. Forking'
  BY <1>3, <1>4, <1>5, Zenon DEF Forking
<1> QED BY <1>3, <1>6, Zenon DEF FishesInOrder

\* main forks the next process, which is at its first wait.
LEMMA ForkNextInv == ASSUME FishInv, ForkNext PROVE FishInv'
<1>1. FishTypes /\ FishesInOrder /\ main \in 0..2 /\ pc' = [pc EXCEPT ![main] = 1]
  BY DEF FishInv, ForkNext, Procs
<1>2. main' = main + 1 /\ sems' = sems /\ out' = out
  BY Zenon DEF ForkNext
<1>3. Forking
  BY <1>1 DEF FishInv
<1>4. FishTypes'
  <2>1. pc' \in [Procs -> Nat]
    BY <1>1 DEF FishTypes, Procs
  <2>2. main' \in 0..7
    BY <1>1, <1>2
  <2> QED BY <1>1, <1>2, <2>1, <2>2, Zenon DEF FishTypes
<1>5. ASSUME NEW j \in Procs
      PROVE  IF j < main' THEN Idle(j, 1)' ELSE pc'[j] = 0 /\ sems'[j] = Free(0)
  <2>1. CASE j = main
    <3>1. pc'[j] = 1 /\ j < main' /\ sems'[j] = Free(0)
      <4>1. pc'[j] = 1 /\ j < main' /\ ~(j < main)
        BY <2>1, <1>1, <1>2 DEF FishTypes, Procs
      <4> QED BY <4>1, <1>2, <1>3, Zenon DEF Forking
    <3> QED BY <3>1, Zenon DEF Idle
  <2>2. CASE j # main
    <3>1. pc'[j] = pc[j] /\ sems'[j] = sems[j] /\ (j < main' <=> j < main)
      BY <2>2, <1>1, <1>2 DEF FishTypes, Procs
    <3> QED BY <3>1, <1>3, Zenon DEF Forking, Idle
  <2> QED BY <2>1, <2>2
<1>6. main' <= 3
  BY <1>1, <1>2
<1>7. Forking'
  BY <1>2, <1>3, <1>5, <1>6, Zenon DEF Forking
<1> QED BY <1>1, <1>2, <1>4, <1>7, Zenon DEF FishInv, FishesInOrder

\* main's signal gives out the one turn there is.
LEMMA FirstSignalInv == ASSUME FishInv, FirstSignal PROVE FishInv'
<1>1. FishTypes /\ FishesInOrder /\ main = 3 /\ main' = 4 /\ Signal(0) /\ pc' = pc /\ out' = out
  BY Zenon DEF FishInv, FirstSignal
<1>2. Forking
  BY <1>1 DEF FishInv
<1>3. out = << >> /\ sems[WAITER] = Free(1) /\ \A i \in Procs : Idle(i, 1)
  BY <1>1, <1>2 DEF Forking, Procs
<1>4. 0 \in Procs /\ Procs \subseteq 0..3 /\ WAITER \in 0..3 /\ WAITER # 0
  BY DEF Procs, WAITER
<1>5. /\ sems' = [k \in 0..3 |-> sems'[k]]
      /\ \A k \in 0..3 : k # 0 => sems'[k] = sems[k]
      /\ \/ pc[0] = 1 /\ sems'[0] = Free(1)
         \/ pc[0] = 1 + 1 /\ sems'[0] = Free(0)
  BY <1>1, <1>3, <1>4, Handed, Zenon
<1>6. FishTypes'
  BY <1>1, <1>5 DEF FishTypes
<1>7. /\ Who(0) = 0 /\ First(0) = 1 /\ Last(0) = 5 /\ Prints(0) = 3 /\ 0 \in Turns
      /\ \A i \in Procs : Home(i, 0) = 1
  BY DEF Who, First, Last, Prints, Home, Turns
<1>8. HasTurn(0, 1, 5)'
  BY <1>1, <1>5 DEF HasTurn
<1>9. ASSUME NEW i \in Procs, i # 0
      PROVE  Idle(i, 1)'
  <2>1. Idle(i, 1) /\ sems'[i] = sems[i] /\ pc'[i] = pc[i]
    BY <1>1, <1>3, <1>4, <1>5, <1>9, Zenon
  <2> QED BY <2>1, Zenon DEF Idle
<1>10. sems'[WAITER] = Free(1)
  BY <1>3, <1>4, <1>5, Zenon
<1>11. ~(pc'[0] > 3) /\ ~Guarding(0)'
  BY <1>1, <1>5, <1>7 DEF Guarding
<1>12. Len(out') % 4 = 0
  BY <1>1, <1>3
<1>13. Turn(0)'
  BY <1>7, <1>8, <1>9, <1>10, <1>11, <1>12, Zenon DEF Turn
<1>14. main' >= 4
  BY <1>1
<1> QED BY <1>1, <1>6, <1>7, <1>13, <1>14, Zenon DEF FishInv, FishesInOrder

LEMMA FishInit == Init => FishInv
<1> SUFFICES ASSUME Init PROVE FishInv
  OBVIOUS
<1>1. Procs \cup {WAITER} = 0..3 /\ WAITER \notin Procs
  BY DEF Procs, WAITER
<1>2. /\ \A i \in Procs : sems[i] = Free(0) /\ pc[i] = 0
      /\ sems[WAITER] = Free(1) /\ sems = [k \in 0..3 |-> sems[k]]
  <2>1. sems = [k \in 0..3 |-> Free(IF k = WAITER THEN 1 ELSE 0)]
    BY <1>1, Zenon DEF Init, NewSem, Free
  <2>2. \A i \in Procs : i \in 0..3 /\ i # WAITER
    BY DEF Procs, WAITER
  <2>3. WAITER \in 0..3
    BY DEF WAITER
  <2> QED BY <2>1, <2>2, <2>3, Zenon DEF Init
<1>3. FishTypes
  <2>1. pc \in [Procs -> Nat] /\ main \in 0..7
    BY DEF Init
  <2>2. out \in Seq(Signs)
    BY EmptyFacts DEF Init
  <2> QED BY <1>2, <2>1, <2>2, Zenon DEF FishTypes
<1>4. FishesInOrder
  BY DEF Init, FishesInOrder
<1>5. Forking
  BY <1>2 DEF Init, Forking, Procs
<1> QED BY <1>3, <1>4, <1>5, Zenon DEF FishInv

LEMMA FishNext == FishInv /\ [Next]_vars => FishInv'
<1> SUFFICES ASSUME FishInv, [Next]_vars PROVE FishInv'
  OBVIOUS
<1>0. FishTypes /\ FishesInOrder
  BY Zenon DEF FishInv
<1>1. ASSUME NEW i \in Procs, Proc(i)
      PROVE  FishInv'
  <2>1. CASE Forking
    BY <1>0, <1>1, <2>1, ForkingInv, Zenon DEF FishInv
  <2>2. CASE main >= 4 /\ \E t \in Turns : Turn(t)
    <3>1. FishTypes' /\ FishesInOrder' /\ main' = main /\ \E u \in Turns : Turn(u)'
      BY <1>0, <1>1, <2>2, TurnInv, Zenon
    <3> QED BY <3>1, <2>2, Zenon DEF FishInv
  <2> QED BY <2>1, <2>2, Zenon DEF FishInv
<1>2. CASE WaitNext
  <2>1. sems' = sems /\ pc' = pc /\ out' = out /\ main' = main + 1
    BY <1>2, Zenon DEF WaitNext
  <2>2. main \in 4..6
    BY <1>0, <1>2 DEF FishTypes, WaitNext, Procs
  <2>3. \E t \in Turns : Turn(t)
    BY <2>2 DEF FishInv, Forking
  <2>4. \E t \in Turns : Turn(t)'
    BY <2>1, <2>3, Zenon DEF Turn, HasTurn, Idle, Guarding
  <2>5. FishesInOrder'
    BY <2>1, <1>0, Zenon DEF FishesInOrder
  <2>6. main' >= 4 /\ main' \in 0..7
    BY <2>1, <2>2
  <2>7. FishTypes'
    BY <2>1, <2>6, <1>0, Zenon DEF FishTypes
  <2> QED BY <2>4, <2>5, <2>6, <2>7, Zenon DEF FishInv
<1>3. CASE UNCHANGED vars
  <2>1. sems' = sems /\ pc' = pc /\ out' = out /\ main' = main
    BY <1>3, Zenon DEF vars
  <2>2. FishTypes' /\ FishesInOrder'
    BY <2>1, <1>0, Zenon DEF FishTypes, FishesInOrder
  <2>3. Forking => Forking'
    BY <2>1, Zenon DEF Forking, Idle
  <2>4. (\E t \in Turns : Turn(t)) => \E t \in Turns : Turn(t)'
    BY <2>1, Zenon DEF Turn, HasTurn, Idle, Guarding
  <2> QED BY <2>1, <2>2, <2>3, <2>4, Zenon DEF FishInv
<1> QED BY <1>1, <1>2, <1>3, ForkNextInv, FirstSignalInv, Zenon DEF Next, Main, Finished

\* For every bound of idx, and however the processes are scheduled, what
\* app/fish has printed is a prefix of "><>_><>_...".
THEOREM FishOrder == Spec => []FishesInOrder
<1>1. FishInv => FishesInOrder
  BY Zenon DEF FishInv
<1> QED BY FishInit, FishNext, <1>1, PTL DEF Spec
=============================================================================
