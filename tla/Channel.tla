-------------------------------- MODULE Channel --------------------------------
(* HybridChannel (src/src/channel.rs): a bounded lock-free ring backed by an   *)
(* unbounded overflow queue, with any number of producers and one consumer.    *)
(* The two queues are each linearizable; push and pop are not, because each    *)
(* touches both.  One action is one access to a shared queue.                  *)
EXTENDS Naturals, Sequences, Functions

CONSTANTS Producers,   \* the threads that hold a Sender
          Capacity,    \* HybridChannel::new(capacity)
          MaxSends     \* bound: messages each producer sends

\* ArrayQueue::new panics on a zero capacity.
ASSUME CapacityAssumption == Capacity \in Nat \ {0}
ASSUME MaxSendsAssumption == MaxSends \in Nat

VARIABLES ring,        \* ArrayQueue contents, oldest first
          overflow,    \* SegQueue contents, oldest first
          ppc,         \* ppc[p]: where p is in push
          sent,        \* sent[p]: pushes p has completed
          cpc,         \* where the consumer is in pop
          received     \* every value pop has returned, in order

vars == <<ring, overflow, ppc, sent, cpc, received>>

\* A message is named by its producer and its place in that producer's order.
Message == [from : Producers, seq : 1..MaxSends]

\* The value producer p is pushing, or will push next.
NextMsg(p) == [from |-> p, seq |-> sent[p] + 1]

Init == /\ ring = <<>>
        /\ overflow = <<>>
        /\ ppc = [p \in Producers |-> "idle"]
        /\ sent = [p \in Producers |-> 0]
        /\ cpc = "idle"
        /\ received = <<>>

--------------------------------------------------------------------------------
(* push *)

\* A mutant of PushCheck: the overflow check is dropped.
PushCheckNoOverflowTest(p) ==
    /\ ppc[p] = "idle"
    /\ sent[p] < MaxSends
    /\ ppc' = [ppc EXCEPT ![p] = "ring"]
    /\ UNCHANGED <<ring, overflow, sent, cpc, received>>

\* push reads overflow.is_empty() and picks a branch; the push itself is later.
PushCheck(p) ==
    /\ ppc[p] = "idle"
    /\ sent[p] < MaxSends
    /\ ppc' = [ppc EXCEPT ![p] = IF overflow # <<>> THEN "overflow" ELSE "ring"]
    /\ UNCHANGED <<ring, overflow, sent, cpc, received>>

\* A mutant of PushRing: the full ring takes one value more.
PushRingOverfull(p) ==
    /\ ppc[p] = "ring"
    /\ ring' = Append(ring, NextMsg(p))
    /\ ppc' = [ppc EXCEPT ![p] = "idle"]
    /\ sent' = [sent EXCEPT ![p] = @ + 1]
    /\ UNCHANGED <<overflow, cpc, received>>

\* A mutant of PushRing: a value the full ring rejects is forgotten.
PushRingLossy(p) ==
    /\ ppc[p] = "ring"
    /\ ring' = IF Len(ring) < Capacity THEN Append(ring, NextMsg(p)) ELSE ring
    /\ ppc' = [ppc EXCEPT ![p] = "idle"]
    /\ sent' = [sent EXCEPT ![p] = @ + 1]
    /\ UNCHANGED <<overflow, cpc, received>>

\* ring.push(value): accepted, or handed back because the ring is full.
PushRing(p) ==
    /\ ppc[p] = "ring"
    /\ \/ /\ Len(ring) < Capacity
          /\ ring' = Append(ring, NextMsg(p))
          /\ ppc' = [ppc EXCEPT ![p] = "idle"]
          /\ sent' = [sent EXCEPT ![p] = @ + 1]
       \/ /\ Len(ring) >= Capacity
          /\ ppc' = [ppc EXCEPT ![p] = "overflow"]
          /\ UNCHANGED <<ring, sent>>
    /\ UNCHANGED <<overflow, cpc, received>>

\* overflow.push: the SegQueue is unbounded and always accepts.
PushOverflow(p) ==
    /\ ppc[p] = "overflow"
    /\ overflow' = Append(overflow, NextMsg(p))
    /\ ppc' = [ppc EXCEPT ![p] = "idle"]
    /\ sent' = [sent EXCEPT ![p] = @ + 1]
    /\ UNCHANGED <<ring, cpc, received>>

--------------------------------------------------------------------------------
(* pop *)

\* ring.pop(): a value ends the pop; an empty ring sends it to the overflow.
PopRing ==
    /\ cpc = "idle"
    /\ \/ /\ ring # <<>>
          /\ received' = Append(received, Head(ring))
          /\ ring' = Tail(ring)
          /\ UNCHANGED cpc
       \/ /\ ring = <<>>
          /\ cpc' = "overflow"
          /\ UNCHANGED <<ring, received>>
    /\ UNCHANGED <<overflow, ppc, sent>>

\* A mutant of PopOverflow: the value is returned without being removed.
PopOverflowPeek ==
    /\ cpc = "overflow"
    /\ cpc' = "idle"
    /\ received' = IF overflow # <<>> THEN Append(received, Head(overflow)) ELSE received
    /\ UNCHANGED <<ring, overflow, ppc, sent>>

\* overflow.pop(): the pop returns its value, or None.
PopOverflow ==
    /\ cpc = "overflow"
    /\ cpc' = "idle"
    /\ \/ /\ overflow # <<>>
          /\ received' = Append(received, Head(overflow))
          /\ overflow' = Tail(overflow)
       \/ /\ overflow = <<>>
          /\ UNCHANGED <<overflow, received>>
    /\ UNCHANGED <<ring, ppc, sent>>

--------------------------------------------------------------------------------
Push(p) == PushCheck(p) \/ PushRing(p) \/ PushOverflow(p)
Pop == PopRing \/ PopOverflow

Next == Pop \/ \E p \in Producers : Push(p)

Spec == Init /\ [][Next]_vars

--------------------------------------------------------------------------------
(* Properties *)

\* The state has its declared shape; the ring never holds more than its capacity.
TypeOK ==
    /\ ring \in Seq(Message) /\ Len(ring) <= Capacity
    /\ overflow \in Seq(Message)
    /\ ppc \in [Producers -> {"idle", "ring", "overflow"}]
    /\ sent \in [Producers -> 0..MaxSends]
    /\ cpc \in {"idle", "overflow"}
    /\ received \in Seq(Message)

\* s holds each producer's messages in the order that producer sent them.
InOrder(s) ==
    \A i, j \in DOMAIN s :
        i < j /\ s[i].from = s[j].from => s[i].seq < s[j].seq

\* Every message of s was sent before every message of t by the same producer.
Precedes(s, t) ==
    \A i \in DOMAIN s, j \in DOMAIN t :
        s[i].from = t[j].from => s[i].seq < t[j].seq

\* While stored, one producer's messages stay in send order: the ring before the
\* overflow, each oldest first.  This is what the overflow.is_empty() test of
\* push is for: it keeps a newer message out of the ring while an older one of
\* the same producer waits in the overflow.
StoredInOrder == InOrder(ring) /\ InOrder(overflow) /\ Precedes(ring, overflow)

\* The messages whose push has completed.
SentSet == {m \in Message : m.seq <= sent[m.from]}

\* No message is lost and none appears twice: at every moment the completed
\* pushes are exactly what is stored or was returned by pop, with no overlap and
\* no repetition, whatever the interleaving of checks, pushes and pops.
ExactlyOnce ==
    /\ Range(ring) \cup Range(overflow) \cup Range(received) = SentSet
    /\ (Range(ring) \cup Range(overflow)) \cap Range(received) = {}
    /\ Range(ring) \cap Range(overflow) = {}
    /\ IsInjective(received)

\* The per-(sender, target) FIFO promise of docs/specs/archive/MULTICORE_SPEC.md:
\* pop returns one producer's messages in the order that producer pushed them.
ReceivedInOrder == InOrder(received)

\* The channel implements the lossless, unordered channel.
Abstract == INSTANCE LosslessChannel WITH
    inTransit <- Range(ring) \cup Range(overflow),
    delivered <- Range(received)
ImplementsLossless == Abstract!Spec
================================================================================
