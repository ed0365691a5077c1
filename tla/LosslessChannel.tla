---------------------------- MODULE LosslessChannel ----------------------------
(* What every sender and every receiver of src/src/channel.rs relies on: a     *)
(* message that was sent is handed over exactly once.  The order in which      *)
(* messages are handed over is left open, because the channel does not fix it. *)
EXTENDS Naturals

CONSTANTS Producers,   \* the threads that hold a Sender
          MaxSends     \* bound: messages each producer sends

VARIABLES sent,        \* sent[p]: how many messages p has sent
          inTransit,   \* messages sent and not yet handed over
          delivered    \* messages handed over

vars == <<sent, inTransit, delivered>>

Init == /\ sent = [p \in Producers |-> 0]
        /\ inTransit = {}
        /\ delivered = {}

\* A producer's next message enters the channel.
Send(p) ==
    LET m == [from |-> p, seq |-> sent[p] + 1] IN
    /\ sent[p] < MaxSends
    /\ sent' = [sent EXCEPT ![p] = @ + 1]
    /\ inTransit' = inTransit \cup {m}
    /\ UNCHANGED delivered

\* Some message in transit is handed over, for the first and only time.
Deliver(m) ==
    /\ m \in inTransit \ delivered
    /\ inTransit' = inTransit \ {m}
    /\ delivered' = delivered \cup {m}
    /\ UNCHANGED sent

Next == \/ \E p \in Producers : Send(p)
        \/ \E m \in inTransit : Deliver(m)

Spec == Init /\ [][Next]_vars
================================================================================
