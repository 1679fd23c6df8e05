------------------------------ MODULE Channel ------------------------------
(***************************************************************************)
(* What the program app/mq promises: a bounded first-in first-out channel. *)
(* Every sender sends its messages 0, 1, 2, ..., one step each, when there *)
(* is room, and a message is received in one step, the oldest first.       *)
(***************************************************************************)
EXTENDS Integers, Sequences

CONSTANTS
    Senders,
    Count,      \* messages of each sender
    Capacity    \* messages in the channel

VARIABLES
    queue,      \* sent and not received
    received,   \* received, in this order
    sent        \* how many messages each sender has sent

chan == <<queue, received, sent>>

Init == queue = << >> /\ received = << >> /\ sent = [s \in Senders |-> 0]

Send(s) ==
    /\ sent[s] < Count
    /\ Len(queue) < Capacity
    /\ queue' = Append(queue, [pid |-> s, val |-> sent[s]])
    /\ sent' = [sent EXCEPT ![s] = @ + 1]
    /\ UNCHANGED received

Receive ==
    /\ queue # << >>
    /\ received' = Append(received, Head(queue))
    /\ queue' = Tail(queue)
    /\ UNCHANGED sent

Next == (\E s \in Senders : Send(s)) \/ Receive

Safe == Init /\ [][Next]_chan

\* All that is to be sent is sent and received.
Spec == Safe /\ WF_chan(Next)
=============================================================================
