------------------------------- MODULE ActorMail -------------------------------
(* What senders and actors rely on, whatever the workers, queues and passes of *)
(* src/src/worker.rs do in between: a message to an actor that exists is kept  *)
(* until it is handled, once; only a live actor handles a user message; what   *)
(* is discarded was for an actor that had stopped or panicked, and the dead    *)
(* stay dead.  The order of messages is left open.                             *)
EXTENDS Naturals, Sequences

CONSTANTS Actors,   \* the addresses of actors
          Client    \* the external thread, as a sender

VARIABLES born,     \* the actors that have been spawned
          dead,     \* those of them that have stopped or panicked
          msgs,     \* every message accepted so far
          fate      \* what has become of each of them

vars == <<born, dead, msgs, fate>>

Init == born = {} /\ dead = {} /\ msgs = <<>> /\ fate = <<>>

\* The messages on their way to a.
Waiting(a) == {m \in DOMAIN fate : fate[m] = "transit" /\ msgs[m].dest = a}

Discard(S) == [m \in DOMAIN fate |-> IF m \in S THEN "discarded" ELSE fate[m]]

Spawn(a) ==
    /\ a \in Actors \ born
    /\ born' = born \cup {a}
    /\ UNCHANGED <<dead, msgs, fate>>

Send(from, a, kind) ==
    /\ a \in born
    /\ msgs' = Append(msgs, [from |-> from, dest |-> a, kind |-> kind])
    /\ fate' = Append(fate, "transit")
    /\ UNCHANGED <<born, dead>>

\* A live actor handles a message.
Handle(m) ==
    /\ m \in Waiting(msgs[m].dest) /\ msgs[m].kind = "user"
    /\ msgs[m].dest \notin dead
    /\ fate' = [fate EXCEPT ![m] = "handled"]
    /\ UNCHANGED <<born, dead, msgs>>

\* A stop signal takes effect; messages behind it may go at once.
Stop(m) ==
    /\ m \in Waiting(msgs[m].dest) /\ msgs[m].kind = "stop"
    /\ dead' = dead \cup {msgs[m].dest}
    /\ \E S \in SUBSET Waiting(msgs[m].dest) :
          fate' = [Discard(S) EXCEPT ![m] = "handled"]
    /\ UNCHANGED <<born, msgs>>

\* An actor stops or panics, or is dead already, and messages to it are discarded.
Die(a) ==
    /\ a \in born
    /\ dead' = dead \cup {a}
    /\ \E S \in SUBSET Waiting(a) : fate' = Discard(S)
    /\ UNCHANGED <<born, msgs>>

Next == \/ \E a \in Actors :
              \/ Spawn(a) \/ Die(a)
              \/ \E from \in Actors \cup {Client}, kind \in {"user", "stop"} : Send(from, a, kind)
        \/ \E m \in DOMAIN fate : Handle(m) \/ Stop(m)

Spec == Init /\ [][Next]_vars
================================================================================
