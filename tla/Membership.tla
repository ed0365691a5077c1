----------------------------- MODULE Membership -----------------------------
(***************************************************************************)
(* The data of a SWIM node as values: the member list, a map from nodes to *)
(* (state, incarnation), and the dissemination queue, at most one update   *)
(* per node with the number of messages it will still ride on.             *)
(***************************************************************************)
EXTENDS Integers, FiniteSets, FiniteSetsExt

CONSTANTS
    Nodes,      \* node identities
    Lambda      \* dissemination multiplier (GOSSIP_LAMBDA)

\* MAX_PIGGYBACK is 6: with no more nodes than that every queued update rides on every
\* message, and the order of the queue does not matter.
ASSUME FewNodes == IsFiniteSet(Nodes) /\ Cardinality(Nodes) \in 2..6
ASSUME LambdaPositive == Lambda \in Nat \ {0}

\* MemberState with its priority; "unknown" stands for a node that has no entry.
Rank == [unknown |-> 0, alive |-> 1, suspect |-> 2, dead |-> 3]

MemberStates == {"alive", "suspect", "dead"}

Unknown == [st |-> "unknown", inc |-> 0]

Entries == [st : MemberStates, inc : Nat]

Alive(i) == [st |-> "alive", inc |-> i]

\* The merge rule: a higher incarnation wins, then the higher state; anything beats no
\* entry at all.
Newer(e, old) == \/ e.inc > old.inc
                 \/ e.inc = old.inc /\ Rank[e.st] > Rank[old.st]

\* A mutant of Merge: the state decides only by arriving last.
MergeByIncarnation(old, e) == IF e.inc >= old.inc THEN e ELSE old

\* MemberList::apply for an entry of another node.
Merge(old, e) == IF Newer(e, old) THEN e ELSE old

AliveMembers(view) == {m \in Nodes : view[m].st \in {"alive", "suspect"}}

DeadMembers(view) == {m \in Nodes : view[m].st = "dead"}

ClusterSize(view) == Cardinality(AliveMembers(view)) + 1

\* transmit_budget: Lambda * ceil(log2(max(n, 2))).
Budget(view) ==
    LET n == Max({2, ClusterSize(view)})
    IN  Lambda * Cardinality({k \in 0..n : 2^k < n})

NoUpdate == [entry |-> Unknown, left |-> 0]

\* DisseminationQueue::enqueue: an update replaces one that it dominates.
Enqueue(queue, m, e, budget) ==
    IF Newer(e, queue[m].entry)
    THEN [queue EXCEPT ![m] = [entry |-> e, left |-> budget]]
    ELSE queue

\* What DisseminationQueue::take returns: every queued update.
Piggyback(queue) == [m \in Nodes |-> queue[m].entry]

\* The queue after k messages have carried its updates.
Taken(queue, k) ==
    [m \in Nodes |-> IF queue[m].left > k
                     THEN [queue[m] EXCEPT !.left = @ - k]
                     ELSE NoUpdate]

NoNews == [m \in Nodes |-> Unknown]

=============================================================================
