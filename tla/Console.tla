------------------------------ MODULE Console ------------------------------
(***************************************************************************)
(* The console: the keys that the UART and its interrupt bring to          *)
(* INPUT_BUF, the polling read_line of the user library, and those who     *)
(* call it: app/sh and the programs that it executes, here another shell   *)
(* or app/fact.  A process is named by its number in the order of their    *)
(* creation.  The output and the blanks that trim removes are left out.    *)
(***************************************************************************)
EXTENDS Integers, Sequences, FiniteSets

CONSTANTS
    Capacity,   \* places in INPUT_BUF (128)
    Fifo,       \* places in the UART (16)
    Trigger,    \* bytes with which the UART raises its line at once (14)
    MaxKeys,    \* bound: keys pressed
    Nested,     \* bound: shells that are nested when the typing begins
    MaxProcs    \* bound: processes ever created

\* A line of two keys at least starts a process, so that the last bound is
\* never met.
ASSUME ConsoleConstants ==
    /\ Capacity \in Nat \ {0} /\ Trigger \in Nat \ {0} /\ Fifo \in Nat /\ Trigger <= Fifo
    /\ MaxKeys \in Nat /\ Nested \in Nat \ {0} /\ MaxProcs \in Nat
    /\ Nested + (MaxKeys \div 2) <= MaxProcs

Procs == 1..MaxProcs

\* What the shell tells apart, each written with one key.
Commands == {"exit", "exec sh", "exec fact", "kill"}
Keys == Commands \cup {"backspace", "enter"}
NoKey == "none"

VARIABLES
    typed,     \* history: the keys pressed
    fifo,      \* the bytes that wait in the UART
    irq,       \* has its line risen since the last interrupt?
    INPUT_BUF,
    lost,      \* history: has the UART or push_key dropped a key?
    prog,      \* the program of each process
    pc,        \* where it is
    key,       \* the byte that sys_read gave it
    line,      \* the local of read_line
    child,     \* the process that it has started last, 0 for none
    lines,     \* history: the lines that read_line has returned
    orphaned,  \* history: has a process died before the one it had started?
    machine    \* "on", "off" or "panic"

uart == <<fifo, irq, INPUT_BUF, lost>>
users == <<prog, pc, key, line, child, lines, orphaned>>
vars == <<typed, uart, users, machine>>

\* Some shells run already, each started by the one before.
Init ==
    /\ typed = << >> /\ fifo = << >> /\ irq = FALSE /\ INPUT_BUF = << >> /\ lost = FALSE
    /\ prog = [p \in Procs |-> "sh"]
    /\ \E n \in 1..Nested :
           /\ pc = [p \in Procs |-> IF p < n THEN "waiting" ELSE IF p = n THEN "reading" ELSE "none"]
           /\ child = [p \in Procs |-> IF p < n THEN p + 1 ELSE 0]
    /\ key = [p \in Procs |-> NoKey]
    /\ line = [p \in Procs |-> << >>]
    /\ lines = << >> /\ orphaned = FALSE /\ machine = "on"
-----------------------------------------------------------------------------
\* A key is pressed.  The UART keeps the byte unless it is full, and raises
\* its line with the byte that reaches the threshold.
Press(k) ==
    /\ Len(typed) < MaxKeys
    /\ typed' = Append(typed, k)
    /\ IF Len(fifo) < Fifo
       THEN fifo' = Append(fifo, k) /\ irq' = (irq \/ Len(fifo) + 1 = Trigger) /\ UNCHANGED lost
       ELSE lost' = TRUE /\ UNCHANGED <<fifo, irq>>
    /\ UNCHANGED <<INPUT_BUF, users, machine>>

\* The UART raises its line when fewer bytes have waited for a while, which it
\* had lowered when one was read.
Timeout ==
    /\ fifo # << >> /\ Len(fifo) < Trigger /\ ~irq
    /\ irq' = TRUE
    /\ UNCHANGED <<typed, fifo, INPUT_BUF, lost, users, machine>>

push_key(k) ==
    IF Len(INPUT_BUF) < Capacity
    THEN INPUT_BUF' = Append(INPUT_BUF, k) /\ UNCHANGED lost
    ELSE lost' = TRUE /\ UNCHANGED INPUT_BUF

\* The serial interrupt reads one byte.  It is edge-triggered: while the line
\* stays up, there is no other one.
Receive ==
    /\ irq /\ fifo # << >>
    /\ push_key(Head(fifo))
    /\ fifo' = Tail(fifo)
    /\ irq' = FALSE
    /\ UNCHANGED <<typed, users, machine>>

\* The threshold is still reached after the interrupt: the line never falls.
Jam == Len(fifo) >= Trigger /\ ~irq
-----------------------------------------------------------------------------
\* sys_read of standard input: one key at most, 0 when there is none, which
\* makes read_line ask again.
SysRead(p) ==
    /\ pc[p] = "reading"
    /\ IF INPUT_BUF = << >> THEN UNCHANGED vars
       ELSE /\ key' = [key EXCEPT ![p] = Head(INPUT_BUF)]
            /\ INPUT_BUF' = Tail(INPUT_BUF)
            /\ pc' = [pc EXCEPT ![p] = "key"]
            /\ UNCHANGED <<typed, fifo, irq, lost, prog, line, child, lines, orphaned, machine>>

\* String::pop, which leaves an empty line as it is.
Erased(l) == SubSeq(l, 1, Len(l) - 1)

\* The match in read_line.
HandleKey(p) ==
    /\ pc[p] = "key"
    /\ key' = [key EXCEPT ![p] = NoKey]
    /\ CASE key[p] = "enter" ->
              /\ lines' = Append(lines, line[p])
              /\ pc' = [pc EXCEPT ![p] = "line"]
              /\ UNCHANGED line
         [] key[p] = "backspace" ->
              /\ line' = [line EXCEPT ![p] = Erased(@)]
              /\ pc' = [pc EXCEPT ![p] = "reading"]
              /\ UNCHANGED lines
         [] OTHER ->
              /\ line' = [line EXCEPT ![p] = Append(@, key[p])]
              /\ pc' = [pc EXCEPT ![p] = "reading"]
              /\ UNCHANGED lines
    /\ UNCHANGED <<typed, uart, prog, child, orphaned, machine>>

Says(p, command) == prog[p] = "sh" /\ line[p] = <<command>>

\* app/fact ends after its line, be it a number or not; a shell on "exit".
Ends(p) == prog[p] = "fact" \/ Says(p, "exit")

\* The processes that have neither exited nor been killed.
Alive == {p \in Procs : pc[p] \in {"reading", "key", "line", "spawned", "waiting"}}

\* Mutant: kill does not wake the one that waits.
AfterForgets(q) ==
    [p \in Procs |-> IF p = q THEN IF pc[q] \in {"waiting", "queued"} THEN "queued" ELSE "exited"
                     ELSE pc[p]]

\* ProcessManager::kill(q): q is dead, and what waits for it is ready.  A
\* process that was killed while it waited ("queued") is still in wait_queue,
\* and is made ready as well ("woken").
After(q) ==
    [p \in Procs |-> IF p = q THEN IF pc[q] \in {"waiting", "queued"} THEN "queued" ELSE "exited"
                     ELSE IF child[p] = q /\ pc[p] = "waiting" THEN "reading"
                     ELSE IF child[p] = q /\ pc[p] = "queued" THEN "woken"
                     ELSE pc[p]]

\* What q holds is gone with it.
Gone(q) ==
    /\ key' = [key EXCEPT ![q] = NoKey]
    /\ orphaned' = (orphaned \/ child[q] \in Alive)
    /\ UNCHANGED <<typed, uart, prog, child, lines, machine>>

\* sys_exit, or the shell's kill command with its own pid.
Exit(p) ==
    /\ pc[p] = "line" /\ (Ends(p) \/ Says(p, "kill"))
    /\ pc' = After(p)
    /\ line' = [line EXCEPT ![p] = << >>]
    /\ Gone(p)

\* The kill command with the pid of another process, dead or alive.
Kill(p, q) ==
    /\ pc[p] = "line" /\ Says(p, "kill") /\ q # p /\ pc[q] # "none"
    /\ pc' = [After(q) EXCEPT ![p] = "reading"]
    /\ line' = [line EXCEPT ![p] = << >>, ![q] = << >>]
    /\ Gone(q)

\* ProcessId::new
Unused(c) == pc[c] = "none" /\ \A q \in Procs : q < c => pc[q] # "none"

\* Mutant: the shell does not wait for the program.
SpawnDetached(p, program) ==
    /\ pc[p] = "line"
    /\ IF program = "sh" THEN Says(p, "exec sh") ELSE Says(p, "exec fact")
    /\ \E c \in Procs :
           /\ Unused(c)
           /\ pc' = [pc EXCEPT ![p] = "reading", ![c] = "reading"]
           /\ prog' = [prog EXCEPT ![c] = program]
           /\ child' = [child EXCEPT ![p] = c]
    /\ line' = [line EXCEPT ![p] = << >>]
    /\ UNCHANGED <<typed, uart, key, lines, orphaned, machine>>

\* services::exec: sys_spawn, which may be interrupted before the wait.
Spawn(p, program) ==
    /\ pc[p] = "line"
    /\ IF program = "sh" THEN Says(p, "exec sh") ELSE Says(p, "exec fact")
    /\ \E c \in Procs :
           /\ Unused(c)
           /\ pc' = [pc EXCEPT ![p] = "spawned", ![c] = "reading"]
           /\ prog' = [prog EXCEPT ![c] = program]
           /\ child' = [child EXCEPT ![p] = c]
    /\ line' = [line EXCEPT ![p] = << >>]
    /\ UNCHANGED <<typed, uart, key, lines, orphaned, machine>>

\* sys_wait_pid returns at once when the program is dead.
WaitPid(p) ==
    /\ pc[p] = "spawned"
    /\ pc' = [pc EXCEPT ![p] = IF child[p] \in Alive THEN "waiting" ELSE "reading"]
    /\ UNCHANGED <<typed, uart, prog, key, line, child, lines, orphaned, machine>>

\* Every other line is answered (the empty one, ps, ls, help, clear, an exec
\* that sys_spawn refuses, a kill of the kernel or of nobody, and what the
\* shell repeats), and the loop of the shell reads the next one.
Answer(p) ==
    /\ pc[p] = "line" /\ ~Ends(p)
    /\ ~Says(p, "exec sh") /\ ~Says(p, "exec fact")
    /\ pc' = [pc EXCEPT ![p] = "reading"]
    /\ line' = [line EXCEPT ![p] = << >>]
    /\ UNCHANGED <<typed, uart, prog, key, child, lines, orphaned, machine>>

User(p) ==
    \/ SysRead(p) \/ HandleKey(p) \/ Exit(p) \/ WaitPid(p) \/ Answer(p)
    \/ (\E q \in Procs : Kill(p, q)) \/ (\E program \in {"sh", "fact"} : Spawn(p, program))
-----------------------------------------------------------------------------
\* The loop of the kernel's wait, and shutdown after the first shell's end.
Wait ==
    IF pc[1] \in {"exited", "queued", "woken"}
    THEN machine' = "off" /\ UNCHANGED <<typed, uart, users>>
    ELSE UNCHANGED vars

\* switch_next restores a dead process that was made ready: it has no memory.
Panic ==
    /\ \E p \in Procs : pc[p] = "woken"
    /\ machine' = "panic"
    /\ UNCHANGED <<typed, uart, users>>

Stopped == machine # "on" /\ UNCHANGED vars

Step == (\E k \in Keys : Press(k)) \/ Timeout \/ Receive \/ Wait \/ Panic \/ \E p \in Procs : User(p)

Next == (machine = "on" /\ Step) \/ Stopped

\* The UART tells of the bytes that are left, the CPU takes its interrupts,
\* and the scheduler lets every process run.
Spec ==
    /\ Init /\ [][Next]_vars
    /\ WF_vars(machine = "on" /\ Timeout) /\ WF_vars(machine = "on" /\ Receive)
    /\ WF_vars(machine = "on" /\ (Wait \/ Panic))
    /\ \A p \in Procs : WF_vars(machine = "on" /\ User(p))
-----------------------------------------------------------------------------
\* Reference: what a sequence of keys means, as if typed into an editor that
\* nobody shares.
Edit(text, k) ==
    CASE k = "enter" -> [done |-> Append(text.done, text.open), open |-> << >>]
      [] k = "backspace" -> [text EXCEPT !.open = SubSeq(@, 1, Len(@) - 1)]
      [] OTHER -> [text EXCEPT !.open = Append(@, k)]

Text(keys) ==
    LET text[n \in 0..Len(keys)] ==
            IF n = 0 THEN [done |-> << >>, open |-> << >>] ELSE Edit(text[n - 1], keys[n])
    IN  text[Len(keys)]

InHand == Cardinality({p \in Procs : key[p] # NoKey})

\* The keys that read_line has handled, when none was dropped.
Handled == SubSeq(typed, 1, Len(typed) - Len(fifo) - Len(INPUT_BUF) - InHand)

Reader == {p \in Procs : pc[p] \in {"reading", "key"}}

\* What is typed is what is read: until the UART or the buffer has overflowed,
\* and until a process is killed whose program still runs, the lines that
\* read_line has returned, to whichever process, and the one that the present
\* reader has begun are the text typed so far, whole and in order, however far
\* typing is ahead of reading and however the programs end.  (A killed shell
\* leaves its program behind, and whoever waits for the shell reads as well.)
TypedIsRead ==
    ~lost /\ ~orphaned => /\ lines = Text(Handled).done
                          /\ \A p \in Reader : line[p] = Text(Handled).open

\* Nothing typed is left lying, whatever is typed and killed: the console
\* comes to rest with everything read and somebody reading, unless the machine
\* has been stopped, by the end of the first shell or by the dead that were
\* made ready, or the UART is jammed.
AllIsRead ==
    <>[](machine # "on" \/ Jam \/ (fifo = << >> /\ INPUT_BUF = << >> /\ Reader # {}))
=============================================================================
