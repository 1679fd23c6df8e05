-------------------------------- MODULE Fish --------------------------------
(***************************************************************************)
(* The program app/fish: three processes print ">", "<" and "_" and hand   *)
(* each other the turn with semaphores; WAITER guards the printing.        *)
(***************************************************************************)
EXTENDS UserSem

CONSTANT Limit   \* the bound of idx in print (10)

Procs == 0..2
WAITER == 3

ASSUME FishConstants ==
    /\ Limit \in Nat
    /\ NoSem \notin [count : Nat, queue : Seq(Procs)]

VARIABLES
    pc,     \* the call a process makes next, counted from 1 in its match arm
    idx,    \* the loop counter of print
    out,    \* what has been printed
    main    \* main's progress: forks, the first signal, waits

vars == <<sems, pc, idx, out, main>>

\* The match arms of print, one entry per call, in the order of the code.
Arm ==
    [i \in Procs |->
        CASE i = 0 -> << <<"wait", 0>>, <<"wait", WAITER>>, <<"print", ">">>,
                         <<"signal", WAITER>>, <<"signal", 1>>,
                         <<"wait", 0>>, <<"wait", WAITER>>, <<"print", ">">>,
                         <<"signal", WAITER>>, <<"signal", 2>> >>
          [] i = 1 -> << <<"wait", 1>>, <<"print", "<">>, <<"signal", 0>> >>
          [] i = 2 -> << <<"wait", 2>>, <<"wait", WAITER>>, <<"print", "_">>,
                         <<"signal", WAITER>>, <<"signal", 0>> >>]

Init ==
    /\ sems = [k \in Procs \cup {WAITER} |-> NewSem(IF k = WAITER THEN 1 ELSE 0)]
    /\ pc = [i \in Procs |-> 0]
    /\ idx = [i \in Procs |-> 0]
    /\ out = << >>
    /\ main = 0
-----------------------------------------------------------------------------
\* Mutant: idx is counted up once per turn.
NextTurnOnce(i) ==
    IF pc[i] < Len(Arm[i])
    THEN pc' = [pc EXCEPT ![i] = @ + 1] /\ UNCHANGED idx
    ELSE pc' = [pc EXCEPT ![i] = 1] /\ idx' = [idx EXCEPT ![i] = @ + 1]

\* The next call; after the last one idx is counted up in the arm and again
\* at the end of the loop's body.
NextTurn(i) ==
    IF pc[i] < Len(Arm[i])
    THEN pc' = [pc EXCEPT ![i] = @ + 1] /\ UNCHANGED idx
    ELSE pc' = [pc EXCEPT ![i] = 1] /\ idx' = [idx EXCEPT ![i] = @ + 2]

Runs(i, call) ==
    /\ pc[i] > 0 /\ idx[i] < Limit /\ ~Blocked(i)
    /\ Arm[i][pc[i]][1] = call
    /\ NextTurn(i)
    /\ UNCHANGED main

WaitCall(i) == Runs(i, "wait") /\ Wait(Arm[i][pc[i]][2], i) /\ UNCHANGED out

\* Mutant: the turn is handed to the process after the one that is meant.
SignalWrong(i) ==
    /\ Runs(i, "signal")
    /\ Signal(IF Arm[i][pc[i]][2] = 2 THEN 1 ELSE Arm[i][pc[i]][2])
    /\ UNCHANGED out

SignalCall(i) == Runs(i, "signal") /\ Signal(Arm[i][pc[i]][2]) /\ UNCHANGED out

PrintCall(i) ==
    Runs(i, "print") /\ out' = Append(out, Arm[i][pc[i]][2]) /\ UNCHANGED sems

ForkNext ==
    /\ main \in Procs
    /\ pc' = [pc EXCEPT ![main] = 1]
    /\ main' = main + 1
    /\ UNCHANGED <<sems, idx, out>>

\* main gives the first process its first turn.
FirstSignal ==
    /\ main = 3
    /\ Signal(0)
    /\ main' = 4
    /\ UNCHANGED <<pc, idx, out>>

WaitNext ==
    /\ main - 4 \in Procs
    /\ idx[main - 4] >= Limit
    /\ main' = main + 1
    /\ UNCHANGED <<sems, pc, idx, out>>

Done == main = 7

Finished == Done /\ UNCHANGED vars

Proc(i) == WaitCall(i) \/ SignalCall(i) \/ PrintCall(i)

Main == ForkNext \/ FirstSignal \/ WaitNext

Next == (\E i \in Procs : Proc(i)) \/ Main \/ Finished

Spec == Init /\ [][Next]_vars /\ WF_vars(Main) /\ \A i \in Procs : WF_vars(Proc(i))
-----------------------------------------------------------------------------
Fishes == <<">", "<", ">", "_">>

\* Whatever the scheduler does, the output is a prefix of "><>_><>_...".
FishesInOrder == \A j \in DOMAIN out : out[j] = Fishes[((j - 1) % 4) + 1]

\* The program ends, with one fish printed for every second value of idx and
\* no turn left over but the one handed back by the last "_".
FishTestDone ==
    <>(Done /\ Len(out) = 4 * ((Limit + 1) \div 2)
            /\ sems[0].count = 1 /\ sems[1].count = 0 /\ sems[2].count = 0
            /\ sems[WAITER].count = 1)
=============================================================================
