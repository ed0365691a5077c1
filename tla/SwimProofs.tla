------------------------------- MODULE SwimProofs -------------------------------
(* The safety of SWIM for any nodes, intervals and bounds: a node keeps its    *)
(* shape and never names itself, no incarnation is ahead of the node it is     *)
(* about, and what a node believes only moves up the merge order.              *)
EXTENDS Swim, SeqFacts

--------------------------------------------------------------------------------
(* Least elements, and values computed one after the other *)

\* What the proofs need to know of numbers and of finite sets: a nonempty set of naturals
\* has a least element, and finite sets have a size. It is proved at the end.
Counting ==
    /\ \A S \in SUBSET Nat : S # {} => \E m \in S : \A k \in S : m <= k
    /\ \A S \in SUBSET Nodes : Cardinality(S) \in Nat
    /\ \A n \in Nat : \A S \in SUBSET (0..n) : Cardinality(S) \in Nat

\* The greater of two.
LEMMA MaxOfTwo ==
    ASSUME NEW a \in Nat, NEW b \in Nat
    PROVE  Max({a, b}) \in {a, b} /\ Max({a, b}) >= a /\ Max({a, b}) >= b
<1>1. \E x \in {a, b} : \A y \in {a, b} : x >= y
    OBVIOUS
<1> QED BY <1>1 DEF Max

\* The lesser of two.
LEMMA MinOfTwo ==
    ASSUME NEW a \in Nat, NEW b \in Nat
    PROVE  Min({a, b}) \in {a, b} /\ Min({a, b}) <= a /\ Min({a, b}) <= b
<1>1. \E x \in {a, b} : \A y \in {a, b} : x <= y
    OBVIOUS
<1> QED BY <1>1 DEF Min

\* The least element of a nonempty set of numbers is in it.
LEMMA MinInSet ==
    ASSUME Counting, NEW S \in SUBSET Nat, S # {}
    PROVE  Min(S) \in S
<1>1. \E x \in S : \A y \in S : x <= y
    BY DEF Counting
<1> QED BY <1>1, Zenon DEF Min

\* The functions that take a value in J to the next one, k times.
Steps(k, J) == [1..k -> [J -> J]]

\* The values in J from s on, each the step of the one before.
IsChain(g, k, J, s, step) ==
    g \in [0..k -> J] /\ g[0] = s /\ \A i \in 1..k : g[i] = step[i][g[i - 1]]

\* A recursion over 0..k has a solution: step by step, every value exists.
LEMMA ChainExists ==
    ASSUME Counting, NEW J, NEW s \in J, NEW k \in Nat, NEW step \in Steps(k, J)
    PROVE  \E g : IsChain(g, k, J, s, step)
<1> DEFINE Solved(j) == \E g \in [0..j -> J] :
                           g[0] = s /\ \A i \in 1..j : g[i] = step[i][g[i - 1]]
           Open == {j \in 0..k : ~Solved(j)}
<1>1. Solved(0)
  <2> DEFINE g == [i \in 0..0 |-> s]
  <2>1. g \in [0..0 -> J] /\ g[0] = s
      OBVIOUS
  <2>2. \A i \in 1..0 : g[i] = step[i][g[i - 1]]
      OBVIOUS
  <2> HIDE DEF g
  <2> QED BY <2>1, <2>2
<1>2. ASSUME NEW j \in 1..k, Solved(j - 1) PROVE Solved(j)
  <2>1. PICK g \in [0..(j - 1) -> J] :
              g[0] = s /\ \A i \in 1..(j - 1) : g[i] = step[i][g[i - 1]]
      BY <1>2
  <2> DEFINE h == [i \in 0..j |-> IF i = j THEN step[j][g[j - 1]] ELSE g[i]]
  <2>2. step[j] \in [J -> J] /\ g[j - 1] \in J /\ \A i \in 0..(j - 1) : g[i] \in J
      BY <2>1 DEF Steps
  <2>3. step[j][g[j - 1]] \in J
      BY <2>2
  <2>4. h \in [0..j -> J]
      BY <2>2, <2>3
  <2>5. h[0] = s
      BY <2>1
  <2>6. ASSUME NEW i \in 1..j PROVE h[i] = step[i][h[i - 1]]
    <3>1. h[i - 1] = g[i - 1]
        OBVIOUS
    <3>2. CASE i = j
        BY <3>1, <3>2
    <3>3. CASE i # j
        BY <2>1, <3>1, <3>3
    <3> QED BY <3>2, <3>3
  <2> QED BY <2>4, <2>5, <2>6, Zenon
<1> HIDE DEF Solved
<1>3. Open = {}
  <2> SUFFICES ASSUME Open # {} PROVE FALSE
      OBVIOUS
  <2>1. Open \in SUBSET Nat
      OBVIOUS
  <2>2. PICK j \in Open : \A i \in Open : j <= i
      BY <2>1, Zenon DEF Counting
  <2>3. j # 0
      BY <1>1
  <2>4. j \in 1..k /\ j - 1 \in 0..k /\ ~(j <= j - 1)
      BY <2>3
  <2>5. Solved(j - 1)
      BY <2>2, <2>4
  <2> QED BY <1>2, <2>2, <2>4, <2>5
<1>4. Solved(k)
    BY <1>3
<1> QED BY <1>4 DEF Solved, IsChain

\* What the first value has and each step hands on, the last value has.
LEMMA ChainKeeps ==
    ASSUME Counting, NEW k \in Nat, NEW f, NEW P, f[0] \in P[0],
           \A i \in 1..k : f[i - 1] \in P[i - 1] => f[i] \in P[i]
    PROVE  f[k] \in P[k]
<1> DEFINE Open == {j \in 0..k : f[j] \notin P[j]}
<1> SUFFICES ASSUME f[k] \notin P[k] PROVE FALSE
    OBVIOUS
<1>1. Open \in SUBSET Nat /\ Open # {}
    OBVIOUS
<1>2. PICK j \in Open : \A i \in Open : j <= i
    BY <1>1, Zenon DEF Counting
<1>3. j # 0
    OBVIOUS
<1>4. j \in 1..k /\ j - 1 \in 0..k /\ ~(j <= j - 1)
    BY <1>3
<1>5. f[j - 1] \in P[j - 1]
    BY <1>2, <1>4
<1> QED BY <1>2, <1>4, <1>5

--------------------------------------------------------------------------------
(* The states of one node *)

Beliefs == Entries \cup {Unknown}

\* No entry for the node itself.
Views(n) == {v \in News : v[n] = Unknown}

Updates == [entry : Beliefs, left : Nat]

Gossips == [Nodes -> Updates]

Phases(n) ==
    {Idle} \cup [kind : {"direct", "indirect"}, target : Nodes \ {n}, seq : Nat, age : Nat]

Ages == {NoTimer} \cup 0..SuspicionTimeout

Timers(n) == {t \in [Nodes -> Ages] : t[n] = NoTimer}

Demands(n) == {d \in Seq(Nodes \ {n}) : Len(d) <= MaxDemand}

RelaysOf(n) == [requester : Nodes \ {n}, target : Nodes, seq : Nat]

RelayQueues(n) == {r \in Seq(RelaysOf(n)) : Len(r) <= MaxRelays}

Rounds(n) == SUBSET (Nodes \ {n})

Clocks == [{"probe", "reprobe", "sweep"} -> Nat]

\* The states of node n: well formed, within the limits of its queues, and never about n.
States(n) ==
    [inc : Nat, view : Views(n), gossip : Gossips, phase : Phases(n), timer : Timers(n),
     demand : Demands(n), relays : RelayQueues(n), round : Rounds(n), size : Nat,
     next : Clocks]

--------------------------------------------------------------------------------
(* Entries and the merge order *)

\* The ranks of the states.
LEMMA RankFacts ==
    /\ Rank["unknown"] = 0 /\ Rank["alive"] = 1 /\ Rank["suspect"] = 2 /\ Rank["dead"] = 3
    /\ \A e \in Beliefs : e.inc \in Nat /\ Rank[e.st] \in Nat
    /\ \A e \in Beliefs : e.st \in {"unknown", "alive", "suspect", "dead"}
    /\ \A e \in Beliefs : e.st = "unknown" <=> e = Unknown
<1>1. Rank["unknown"] = 0 /\ Rank["alive"] = 1 /\ Rank["suspect"] = 2 /\ Rank["dead"] = 3
    BY DEF Rank
<1>2. \A e \in Beliefs : e.inc \in Nat /\ e.st \in {"unknown", "alive", "suspect", "dead"}
    BY DEF Beliefs, Entries, Unknown, MemberStates
<1>3. \A e \in Beliefs : e.st = "unknown" <=> e = Unknown
    BY DEF Beliefs, Entries, Unknown, MemberStates
<1> QED BY <1>1, <1>2, <1>3

\* Entries that the model makes are entries.
LEMMA EntryFacts ==
    /\ Unknown \in Beliefs /\ Unknown.inc = 0 /\ Unknown.st = "unknown"
    /\ \A i \in Nat : Alive(i) \in Beliefs /\ Alive(i).inc = i /\ Alive(i).st = "alive"
    /\ NoUpdate \in Updates /\ NoUpdate.entry = Unknown
BY DEF Beliefs, Entries, Unknown, MemberStates, Alive, NoUpdate, Updates

\* The merge order is transitive.
LEMMA NewerTransitive ==
    ASSUME NEW a \in Beliefs, NEW b \in Beliefs, NEW c \in Beliefs, Newer(a, b), Newer(b, c)
    PROVE  Newer(a, c)
<1>1. /\ a.inc \in Nat /\ b.inc \in Nat /\ c.inc \in Nat
      /\ Rank[a.st] \in Nat /\ Rank[b.st] \in Nat /\ Rank[c.st] \in Nat
    BY RankFacts
<1> QED BY <1>1 DEF Newer

\* A belief has not gone back: it is the same or newer.
Advanced(old, new) == new = old \/ Newer(new, old)

LEMMA AdvancedTransitive ==
    ASSUME NEW a \in Beliefs, NEW b \in Beliefs, NEW c \in Beliefs,
           Advanced(a, b), Advanced(b, c)
    PROVE  Advanced(a, c)
BY NewerTransitive DEF Advanced

\* merge takes one of the two, and only moves up.
LEMMA MergeFacts ==
    ASSUME NEW a \in Beliefs, NEW e \in Beliefs
    PROVE  /\ Merge(a, e) \in Beliefs /\ Merge(a, e) \in {a, e}
           /\ Advanced(a, Merge(a, e))
BY DEF Merge, Advanced

--------------------------------------------------------------------------------
(* The dissemination queue *)

\* The live members are some of the other nodes, finitely many.
LEMMA MemberFacts ==
    ASSUME Counting, NEW n \in Nodes, NEW v \in Views(n)
    PROVE  /\ AliveMembers(v) \subseteq Nodes \ {n}
           /\ DeadMembers(v) \subseteq Nodes \ {n}
           /\ Cardinality(AliveMembers(v)) \in Nat
<1>1. v[n].st = "unknown"
    BY EntryFacts DEF Views
<1>2. AliveMembers(v) \subseteq Nodes \ {n} /\ DeadMembers(v) \subseteq Nodes \ {n}
    BY <1>1 DEF AliveMembers, DeadMembers
<1> QED BY <1>2 DEF Counting

\* transmit_budget is a number.
LEMMA BudgetType ==
    ASSUME Counting, NEW n \in Nodes, NEW v \in Views(n)
    PROVE  Budget(v) \in Nat
<1> DEFINE size == ClusterSize(v)
           N == Max({2, size})
           K == {k \in 0..N : 2^k < N}
<1>1. size \in Nat
    BY MemberFacts DEF ClusterSize
<1>2. N \in Nat
  <2> HIDE DEF size
  <2>1. Max({2, size}) \in {2, size}
      BY <1>1, MaxOfTwo
  <2> QED BY <1>1, <2>1
<1>3. Cardinality(K) \in Nat
  <2> HIDE DEF N
  <2>1. K \in SUBSET (0..N)
      OBVIOUS
  <2> HIDE DEF K
  <2> QED BY <1>2, <2>1, Zenon DEF Counting
<1>4. Budget(v) = Lambda * Cardinality(K)
    BY DEF Budget
<1>5. \A x \in Nat : Lambda * x \in Nat
    BY LambdaPositive
<1> HIDE DEF K
<1> QED BY <1>3, <1>4, <1>5

\* Queueing an update changes the entry of its node only, to the update.
LEMMA EnqueueFacts ==
    ASSUME NEW g \in Gossips, NEW m \in Nodes, NEW e \in Beliefs, NEW b \in Nat
    PROVE  /\ Enqueue(g, m, e, b) \in Gossips
           /\ \A k \in Nodes : Enqueue(g, m, e, b)[k].entry = g[k].entry
                               \/ (k = m /\ Enqueue(g, m, e, b)[k].entry = e)
<1>1. CASE Newer(e, g[m].entry)
  <2>1. PICK u : u = [entry |-> e, left |-> b]
      BY Zenon
  <2>2. Enqueue(g, m, e, b) = [g EXCEPT ![m] = u]
      BY <1>1, <2>1, Zenon DEF Enqueue
  <2>3. u \in Updates /\ u.entry = e
      BY <2>1 DEF Updates
  <2>4. [g EXCEPT ![m] = u] \in [Nodes -> Updates]
      BY <2>3 DEF Gossips
  <2>5. \A k \in Nodes : [g EXCEPT ![m] = u][k] = IF k = m THEN u ELSE g[k]
      BY DEF Gossips
  <2> QED BY <2>2, <2>3, <2>4, <2>5 DEF Gossips
<1>2. CASE ~Newer(e, g[m].entry)
  <2>1. Enqueue(g, m, e, b) = g
      BY <1>2 DEF Enqueue
  <2> QED BY <2>1
<1> QED BY <1>1, <1>2, Zenon

\* Taking from the queue keeps an update or drops it.
LEMMA TakenFacts ==
    ASSUME NEW g \in Gossips, NEW k \in Nat
    PROVE  /\ Taken(g, k) \in Gossips
           /\ \A m \in Nodes : Taken(g, k)[m].entry \in {g[m].entry, Unknown}
<1>1. ASSUME NEW m \in Nodes
      PROVE  /\ Taken(g, k)[m] \in Updates
             /\ Taken(g, k)[m].entry \in {g[m].entry, Unknown}
  <2>1. g[m] \in Updates
      BY DEF Gossips
  <2>2. CASE g[m].left > k
    <3>1. Taken(g, k)[m] = [g[m] EXCEPT !.left = g[m].left - k]
        BY <2>2 DEF Taken
    <3>2. g[m].left - k \in Nat
        BY <2>1, <2>2 DEF Updates
    <3> QED BY <2>1, <3>1, <3>2 DEF Updates
  <2>3. CASE ~(g[m].left > k)
    <3>1. Taken(g, k)[m] = NoUpdate
        BY <2>3 DEF Taken
    <3> QED BY <3>1, EntryFacts
  <2> QED BY <2>2, <2>3, Zenon
<1>2. Taken(g, k) = [m \in Nodes |-> Taken(g, k)[m]]
    BY DEF Taken
<1>3. Taken(g, k) \in [Nodes -> Updates]
    BY <1>1, <1>2
<1> QED BY <1>1, <1>3, Zenon DEF Gossips

\* What rides on a message is what is queued.
LEMMA PiggybackFacts ==
    ASSUME NEW g \in Gossips
    PROVE  Piggyback(g) \in News /\ \A m \in Nodes : Piggyback(g)[m] = g[m].entry
BY DEF Piggyback, Gossips, Updates, News, Beliefs

--------------------------------------------------------------------------------
(* What a step of a node may do to its state *)

Ceilings == [Nodes -> Nat]

\* The states of n when every other node is at incarnation c: what is believed and queued
\* about a node is not ahead of it, and n is not behind c.
Good(n, c) ==
    {s \in States(n) :
        /\ c[n] <= s.inc /\ s.gossip[n].entry.inc <= s.inc
        /\ \A m \in Nodes \ {n} : s.view[m].inc <= c[m] /\ s.gossip[m].entry.inc <= c[m]}

AllAdvanced(v, w) == \A m \in Nodes : Advanced(v[m], w[m])

\* From s to t node n stays good, its incarnation does not fall and its beliefs advance.
Moves(n, c, s, t) == t \in Good(n, c) /\ s.inc <= t.inc /\ AllAdvanced(s.view, t.view)

\* The parts of a state.
LEMMA StateParts ==
    ASSUME NEW n \in Nodes, NEW s \in States(n)
    PROVE  /\ s.inc \in Nat /\ s.view \in Views(n) /\ s.gossip \in Gossips
           /\ s.phase \in Phases(n) /\ s.timer \in Timers(n) /\ s.demand \in Demands(n)
           /\ s.relays \in RelayQueues(n) /\ s.round \in Rounds(n) /\ s.size \in Nat
           /\ s.next \in Clocks
BY DEF States

\* What a view and a queue hold are entries.
LEMMA BeliefParts ==
    ASSUME NEW n \in Nodes, NEW s \in States(n)
    PROVE  /\ s.view[n] = Unknown
           /\ \A m \in Nodes : s.view[m] \in Beliefs /\ s.view[m].inc \in Nat
           /\ \A m \in Nodes : s.gossip[m].entry \in Beliefs /\ s.gossip[m].entry.inc \in Nat
<1>1. s.view[n] = Unknown /\ \A m \in Nodes : s.view[m] \in Beliefs
    BY StateParts DEF Views, News, Beliefs
<1>2. \A m \in Nodes : s.gossip[m].entry \in Beliefs
    BY StateParts DEF Gossips, Updates
<1> QED BY <1>1, <1>2, RankFacts, Zenon

\* Moves is transitive.
LEMMA MovesTransitive ==
    ASSUME NEW n \in Nodes, NEW c \in Ceilings, NEW s \in Good(n, c), NEW t \in Good(n, c),
           NEW u, Moves(n, c, s, t), Moves(n, c, t, u)
    PROVE  Moves(n, c, s, u)
<1>1. u \in Good(n, c) /\ s \in States(n) /\ t \in States(n) /\ u \in States(n)
    BY DEF Moves, Good
<1>2. s.inc <= u.inc
    BY <1>1, StateParts DEF Moves
<1>3. ASSUME NEW m \in Nodes PROVE Advanced(s.view[m], u.view[m])
  <2>1. s.view[m] \in Beliefs /\ t.view[m] \in Beliefs /\ u.view[m] \in Beliefs
      BY <1>1, BeliefParts, Zenon
  <2>2. Advanced(s.view[m], t.view[m]) /\ Advanced(t.view[m], u.view[m])
      BY DEF Moves, AllAdvanced
  <2> QED BY <2>1, <2>2, AdvancedTransitive
<1> QED BY <1>1, <1>2, <1>3, Zenon DEF Moves, AllAdvanced

\* A good state moves to a state that leaves beliefs and queued updates alone.
LEMMA MovesQuietly ==
    ASSUME NEW n \in Nodes, NEW c \in Ceilings, NEW s \in Good(n, c), NEW t \in States(n),
           t.inc = s.inc, t.view = s.view, t.gossip = s.gossip
    PROVE  Moves(n, c, s, t)
<1>1. s.inc \in Nat
    BY StateParts DEF Good
<1> QED BY <1>1 DEF Good, Moves, AllAdvanced, Advanced

\* An entry e about m that n may hold when it is in state s.
Fits(n, c, s, m, e) == e \in Beliefs /\ e.inc <= (IF m = n THEN s.inc ELSE c[m])

\* A good state moves to one that has the news e about m queued.
LEMMA MovesByGossip ==
    ASSUME NEW n \in Nodes, NEW c \in Ceilings, NEW s \in Good(n, c), NEW m \in Nodes, NEW e,
           Fits(n, c, s, m, e), NEW b \in Nat
    PROVE  Moves(n, c, s, [s EXCEPT !.gossip = Enqueue(s.gossip, m, e, b)])
<1> DEFINE g == Enqueue(s.gossip, m, e, b)
           t == [s EXCEPT !.gossip = g]
<1>1. s \in States(n) /\ s.inc \in Nat /\ s.gossip \in Gossips
    BY StateParts DEF Good
<1>2. /\ g \in Gossips
      /\ \A k \in Nodes : g[k].entry = s.gossip[k].entry \/ (k = m /\ g[k].entry = e)
    BY <1>1, EnqueueFacts DEF Fits
<1> HIDE DEF g
<1>3. t \in States(n) /\ t.inc = s.inc /\ t.view = s.view /\ t.gossip = g
    BY <1>1, <1>2 DEF States
<1> HIDE DEF t
<1>4. g[n].entry.inc <= s.inc /\ \A k \in Nodes \ {n} : g[k].entry.inc <= c[k]
    BY <1>2, Zenon DEF Good, Fits
<1>5. t \in Good(n, c)
    BY <1>3, <1>4, Zenon DEF Good
<1>6. Moves(n, c, s, t)
    BY <1>1, <1>3, <1>5 DEF Moves, AllAdvanced, Advanced
<1> QED BY <1>6, Zenon DEF t, g

\* A good state moves to one whose queue has lost some updates.
LEMMA MovesBySending ==
    ASSUME NEW n \in Nodes, NEW c \in Ceilings, NEW s \in Good(n, c), NEW k \in Nat
    PROVE  Moves(n, c, s, Sent(s, k))
<1> DEFINE g == Taken(s.gossip, k)
           t == [s EXCEPT !.gossip = g]
<1>1. s \in States(n) /\ s.inc \in Nat /\ s.gossip \in Gossips
    BY StateParts DEF Good
<1>2. g \in Gossips /\ \A m \in Nodes : g[m].entry \in {s.gossip[m].entry, Unknown}
    BY <1>1, TakenFacts, Zenon
<1> HIDE DEF g
<1>3. t \in States(n) /\ t.inc = s.inc /\ t.view = s.view /\ t.gossip = g
    BY <1>1, <1>2, Zenon DEF States
<1> HIDE DEF t
<1>4. g[n].entry.inc <= s.inc /\ \A m \in Nodes \ {n} : g[m].entry.inc <= c[m]
  <2>1. Unknown.inc = 0 /\ \A m \in Nodes : c[m] \in Nat
      BY EntryFacts, Zenon DEF Ceilings
  <2> QED BY <1>1, <1>2, <2>1 DEF Good
<1>5. t \in Good(n, c)
    BY <1>3, <1>4, Zenon DEF Good
<1>6. Moves(n, c, s, t)
    BY <1>1, <1>3, <1>5 DEF Moves, AllAdvanced, Advanced
<1> QED BY <1>6 DEF t, g, Sent

\* A good state moves to one with a newer belief about another node.
LEMMA MovesByBelief ==
    ASSUME NEW n \in Nodes, NEW c \in Ceilings, NEW s \in Good(n, c), NEW m \in Nodes \ {n},
           NEW e, Fits(n, c, s, m, e), Advanced(s.view[m], e)
    PROVE  /\ [s.view EXCEPT ![m] = e] \in Views(n)
           /\ Moves(n, c, s, [s EXCEPT !.view = [s.view EXCEPT ![m] = e]])
<1> DEFINE v == [s.view EXCEPT ![m] = e]
           t == [s EXCEPT !.view = v]
<1>1. s \in States(n) /\ s.inc \in Nat /\ s.view \in Views(n)
    BY StateParts DEF Good
<1>2. v \in Views(n) /\ v[m] = e /\ \A k \in Nodes \ {m} : v[k] = s.view[k]
    BY <1>1 DEF Views, News, Fits, Beliefs
<1> HIDE DEF v
<1>3. t \in States(n) /\ t.inc = s.inc /\ t.view = v /\ t.gossip = s.gossip
    BY <1>1, <1>2 DEF States
<1> HIDE DEF t
<1>4. \A k \in Nodes \ {n} : v[k].inc <= c[k]
    BY <1>2, Zenon DEF Good, Fits
<1>5. t \in Good(n, c)
    BY <1>3, <1>4 DEF Good
<1>6. AllAdvanced(s.view, t.view)
    BY <1>2, <1>3 DEF AllAdvanced, Advanced
<1>7. Moves(n, c, s, t)
    BY <1>1, <1>3, <1>5, <1>6 DEF Moves
<1> QED BY <1>2, <1>7, Zenon DEF t, v

--------------------------------------------------------------------------------
(* Membership news *)

\* enqueue_demand_probe touches the demand queue only.
LEMMA DemandQuiet ==
    ASSUME NEW n \in Nodes, NEW s \in States(n), NEW m \in Nodes \ {n}
    PROVE  /\ Demand(n, s, m) \in States(n) /\ Demand(n, s, m).inc = s.inc
           /\ Demand(n, s, m).view = s.view /\ Demand(n, s, m).gossip = s.gossip
<1>1. CASE Demand(n, s, m) = s
    BY <1>1
<1>2. CASE Demand(n, s, m) # s
  <2>1. /\ Demand(n, s, m) = [s EXCEPT !.demand = Append(s.demand, m)]
        /\ Len(s.demand) < MaxDemand
      BY <1>2 DEF Demand
  <2>2. s.demand \in Seq(Nodes \ {n})
      BY StateParts DEF Demands
  <2>3. PICK d : d = Append(s.demand, m)
      BY Zenon
  <2>4. d \in Seq(Nodes \ {n}) /\ Len(d) = Len(s.demand) + 1 /\ Len(s.demand) \in Nat
      BY <2>2, <2>3, AppendFacts
  <2>5. d \in Demands(n)
      BY <2>1, <2>4, Bounds DEF Demands
  <2>6. Demand(n, s, m) = [s EXCEPT !.demand = d]
      BY <2>1, <2>3
  <2> QED BY <2>5, <2>6 DEF States
<1> QED BY <1>1, <1>2

\* A node that refutes moves to an incarnation of its own.
LEMMA RefuteMoves ==
    ASSUME Counting, NEW n \in Nodes, NEW c \in Ceilings, NEW s \in Good(n, c), NEW e
    PROVE  Moves(n, c, s, Refute(n, s, e))
<1>1. s \in States(n) /\ s.inc \in Nat /\ s.view \in Views(n)
    BY StateParts DEF Good
<1>2. CASE Refute(n, s, e) = s
    BY <1>1, <1>2, MovesQuietly, Zenon
<1>3. CASE Refute(n, s, e) # s
  <2>1. PICK t : t = [s EXCEPT !.inc = s.inc + 1]
      BY Zenon
  <2>2. t \in States(n) /\ t.inc = s.inc + 1 /\ t.view = s.view /\ t.gossip = s.gossip
      BY <1>1, <2>1 DEF States
  <2>3. c[n] \in Nat /\ s.gossip[n].entry.inc \in Nat
      BY <1>1, BeliefParts, Zenon DEF Ceilings
  <2>4. t \in Good(n, c)
      BY <1>1, <2>2, <2>3 DEF Good
  <2>5. Moves(n, c, s, t)
      BY <1>1, <2>2, <2>4 DEF Moves, AllAdvanced, Advanced
  <2>6. Fits(n, c, t, n, Alive(s.inc + 1))
      BY <1>1, <2>2, EntryFacts DEF Fits
  <2>7. Budget(s.view) \in Nat
      BY <1>1, BudgetType, Zenon
  <2>8. Moves(n, c, t, [t EXCEPT !.gossip = Enqueue(t.gossip, n, Alive(s.inc + 1), Budget(s.view))])
      BY <2>4, <2>6, <2>7, MovesByGossip
  <2>9. Refute(n, s, e) = [s EXCEPT !.inc = s.inc + 1,
                             !.gossip = Enqueue(s.gossip, n, Alive(s.inc + 1), Budget(s.view))]
      BY <1>3 DEF Refute
  <2>10. Refute(n, s, e)
            = [t EXCEPT !.gossip = Enqueue(t.gossip, n, Alive(s.inc + 1), Budget(s.view))]
      BY <2>1, <2>2, <2>9
  <2> QED BY <2>4, <2>5, <2>8, <2>10, MovesTransitive, Zenon
<1> QED BY <1>2, <1>3, Zenon

\* One update: the merge rule moves the belief up, and the update is queued.
LEMMA UpdateMoves ==
    ASSUME Counting, NEW n \in Nodes, NEW c \in Ceilings, NEW s \in Good(n, c), NEW m \in Nodes,
           NEW e \in Beliefs, e.inc <= c[m]
    PROVE  Moves(n, c, s, ApplyUpdate(n, s, m, e))
<1>1. s \in States(n) /\ s.inc \in Nat /\ s.view[m] \in Beliefs
    BY StateParts, BeliefParts, Zenon DEF Good
<1>2. CASE ApplyUpdate(n, s, m, e) = s
    BY <1>1, <1>2, MovesQuietly
<1>3. CASE m = n /\ ApplyUpdate(n, s, m, e) # s
  <2>1. ApplyUpdate(n, s, m, e) = Refute(n, s, e)
      BY <1>3 DEF ApplyUpdate
  <2> QED BY <2>1, RefuteMoves
<1>4. CASE m # n /\ ApplyUpdate(n, s, m, e) # s
  <2>1. Merge(s.view[m], e) # s.view[m]
      BY <1>4, Zenon DEF ApplyUpdate
  <2>2. Merge(s.view[m], e) = e /\ Advanced(s.view[m], e)
      BY <1>1, <2>1, MergeFacts, Zenon
  <2>3. PICK d : d = IF e.st = "alive" THEN Demand(n, s, m) ELSE s
      OBVIOUS
  <2>4. PICK v : v = [s.view EXCEPT ![m] = e]
      BY Zenon
  <2>5. ApplyUpdate(n, s, m, e)
            = [d EXCEPT !.view = v, !.gossip = Enqueue(d.gossip, m, e, Budget(v))]
      BY <1>4, <2>2, <2>3, <2>4, Zenon DEF ApplyUpdate
  <2>6. d \in States(n) /\ d.inc = s.inc /\ d.view = s.view /\ d.gossip = s.gossip
      BY <1>1, <1>4, <2>3, DemandQuiet, Zenon
  <2>7. Moves(n, c, s, d)
      BY <2>6, MovesQuietly, Zenon
  <2>8. d \in Good(n, c)
      BY <2>7, Zenon DEF Moves
  <2>9. Fits(n, c, d, m, e) /\ Advanced(d.view[m], e)
      BY <1>4, <2>2, <2>6, Zenon DEF Fits
  <2>10. PICK t : t = [d EXCEPT !.view = v]
      BY Zenon
  <2>11. v \in Views(n) /\ Moves(n, c, d, t)
      BY <1>4, <2>4, <2>6, <2>8, <2>9, <2>10, MovesByBelief, Zenon
  <2>12. t \in Good(n, c) /\ t.gossip = d.gossip
      BY <2>6, <2>10, <2>11, Zenon DEF Moves, States
  <2>13. Fits(n, c, t, m, e)
      BY <1>4 DEF Fits
  <2>14. Budget(v) \in Nat
      BY <2>11, BudgetType, Zenon
  <2>15. Moves(n, c, t, [t EXCEPT !.gossip = Enqueue(t.gossip, m, e, Budget(v))])
      BY <2>12, <2>13, <2>14, MovesByGossip, Zenon
  <2>16. ApplyUpdate(n, s, m, e) = [t EXCEPT !.gossip = Enqueue(t.gossip, m, e, Budget(v))]
      BY <2>5, <2>10, <2>12, Zenon
  <2>17. Moves(n, c, d, ApplyUpdate(n, s, m, e))
      BY <2>8, <2>11, <2>12, <2>15, <2>16, MovesTransitive, Zenon
  <2> QED BY <2>7, <2>8, <2>17, MovesTransitive, Zenon
<1> QED BY <1>2, <1>3, <1>4, Zenon

\* An enumeration of a set of nodes is a sequence that names each of them once.
LEMMA EnumerationFacts ==
    ASSUME Counting, NEW S \in SUBSET Nodes, NEW o \in Enumerations(S)
    PROVE  o \in Seq(S) /\ Len(o) \in Nat /\ DOMAIN o = 1..Len(o) /\ IsInjective(o)
<1>1. Cardinality(S) \in Nat
    BY DEF Counting
<1>2. PICK k \in Nat : o \in [1..k -> S] /\ IsInjective(o)
    BY <1>1 DEF Enumerations, Injection
<1>3. o \in Seq(S)
    BY <1>2
<1>4. Len(o) = k
    BY <1>2, <1>3
<1> QED BY <1>2, <1>3, <1>4, Zenon

\* The news of a message, none of it ahead of its node.
NewsWithin(c) == {news \in News : \A m \in Nodes : news[m].inc <= c[m]}

\* apply_piggyback, whatever the order of the updates.
LEMMA NewsMoves ==
    ASSUME Counting, NEW n \in Nodes, NEW c \in Ceilings, NEW s \in Good(n, c),
           NEW news \in NewsWithin(c), NEW o \in Orders(news)
    PROVE  Moves(n, c, s, ApplyNews(n, s, news, o))
<1> DEFINE k == Len(o)
           J == Good(n, c)
           Body(f) == [i \in 0..Len(o) |->
                         IF i = 0 THEN s ELSE ApplyUpdate(n, f[i - 1], o[i], news[o[i]])]
           F == CHOOSE f : f = Body(f)
           step == [i \in 1..k |-> [x \in J |-> ApplyUpdate(n, x, o[i], news[o[i]])]]
<1>1. k \in Nat /\ \A i \in 1..k : o[i] \in Nodes
  <2>1. PICK S \in SUBSET Nodes : o \in Enumerations(S)
      BY DEF Orders
  <2>2. o \in Seq(S) /\ Len(o) \in Nat
      BY <2>1, EnumerationFacts
  <2> QED BY <2>2
<1>2. ASSUME NEW i \in 1..k, NEW x \in J
      PROVE  Moves(n, c, x, ApplyUpdate(n, x, o[i], news[o[i]]))
  <2>1. o[i] \in Nodes /\ news[o[i]] \in Beliefs /\ news[o[i]].inc <= c[o[i]]
      BY <1>1 DEF NewsWithin, News, Beliefs
  <2> QED BY <2>1, UpdateMoves, Zenon
<1> HIDE DEF k
<1>3. step \in Steps(k, J)
  <2>1. \A i \in 1..k : \A x \in J : ApplyUpdate(n, x, o[i], news[o[i]]) \in J
      BY <1>2 DEF Moves
  <2> HIDE DEF J
  <2> QED BY <2>1 DEF Steps
<1>4. PICK g \in [0..k -> J] : g[0] = s /\ \A i \in 1..k : g[i] = step[i][g[i - 1]]
  <2> HIDE DEF step, J
  <2>1. s \in J
      BY DEF J
  <2>2. k \in Nat
      BY <1>1
  <2>3. \E g : IsChain(g, k, J, s, step)
      BY <1>3, <2>1, <2>2, ChainExists
  <2> QED BY <2>3, Zenon DEF IsChain
<1>5. g = Body(g)
  <2>1. \A i \in 1..k : g[i - 1] \in J
      BY <1>1, <1>4
  <2>2. \A i \in 1..k : g[i] = ApplyUpdate(n, g[i - 1], o[i], news[o[i]])
      BY <1>4, <2>1, Zenon
  <2>3. \A i \in 0..k : g[i] = IF i = 0 THEN s
                               ELSE ApplyUpdate(n, g[i - 1], o[i], news[o[i]])
      BY <1>1, <1>4, <2>2
  <2> QED BY <1>4, <2>3 DEF k
<1>6. F = Body(F)
  <2> HIDE DEF Body
  <2> QED BY <1>5, Zenon
<1>7. ApplyNews(n, s, news, o) = F[k]
    BY DEF ApplyNews, k
<1>8. F[0] = s /\ \A i \in 1..k : F[i] = ApplyUpdate(n, F[i - 1], o[i], news[o[i]])
  <2>1. \A i \in 0..k : F[i] = IF i = 0 THEN s
                               ELSE ApplyUpdate(n, F[i - 1], o[i], news[o[i]])
    <3> HIDE DEF F
    <3> QED BY <1>6, Zenon DEF k
  <2> HIDE DEF F
  <2> QED BY <1>1, <2>1
<1> HIDE DEF F
<1> DEFINE P == [i \in 0..k |-> {x \in J : Moves(n, c, s, x)}]
<1>9. F[0] \in P[0]
  <2>1. Moves(n, c, s, s)
      BY MovesQuietly DEF Good
  <2> QED BY <1>1, <1>8, <2>1
<1>10. ASSUME NEW i \in 1..k, F[i - 1] \in P[i - 1] PROVE F[i] \in P[i]
  <2>1. F[i - 1] \in J /\ Moves(n, c, s, F[i - 1])
      BY <1>1, <1>10
  <2>2. Moves(n, c, F[i - 1], F[i])
      BY <1>2, <1>8, <2>1, Zenon
  <2>3. Moves(n, c, s, F[i])
      BY <2>1, <2>2, MovesTransitive, Zenon
  <2>4. F[i] \in J
      BY <2>3 DEF Moves
  <2> QED BY <1>1, <2>3, <2>4
<1>11. F[k] \in P[k]
  <2> HIDE DEF P
  <2> QED BY <1>1, <1>9, <1>10, ChainKeeps, Zenon
<1> QED BY <1>1, <1>7, <1>11

--------------------------------------------------------------------------------
(* The roster of a seed *)

\* What a roster may do to a belief: move it up, or bring a dead member back.
Revived(old, new) == Advanced(old, new) \/ (old.st = "dead" /\ new.st = "alive")

\* clear_dead_member forgets one dead member.
LEMMA ClearDeadGood ==
    ASSUME NEW n \in Nodes, NEW c \in Ceilings, NEW s \in Good(n, c), NEW m \in Nodes \ {n}
    PROVE  /\ ClearDead(s, m) \in Good(n, c) /\ ClearDead(s, m).inc = s.inc
           /\ \A k \in Nodes \ {m} : ClearDead(s, m).view[k] = s.view[k]
           /\ \/ ClearDead(s, m).view[m] = s.view[m]
              \/ s.view[m].st = "dead" /\ ClearDead(s, m).view[m] = Unknown
<1>1. s \in States(n) /\ s.view \in Views(n) /\ s.gossip \in Gossips
    BY StateParts DEF Good
<1>2. CASE s.view[m].st # "dead"
  <2>1. ClearDead(s, m) = s
      BY <1>2 DEF ClearDead
  <2> QED BY <2>1
<1>3. CASE s.view[m].st = "dead"
  <2>1. PICK v : v = [s.view EXCEPT ![m] = Unknown]
      BY Zenon
  <2>2. PICK g : g = [s.gossip EXCEPT ![m] = NoUpdate]
      BY Zenon
  <2>3. PICK t : t = [s EXCEPT !.view = v, !.gossip = g]
      OBVIOUS
  <2>4. ClearDead(s, m) = t
      BY <1>3, <2>1, <2>2, <2>3, Zenon DEF ClearDead
  <2>5. v \in Views(n) /\ v[m] = Unknown /\ \A k \in Nodes \ {m} : v[k] = s.view[k]
      BY <1>1, <2>1 DEF Views, News
  <2>6. g \in Gossips /\ g[m] = NoUpdate /\ \A k \in Nodes \ {m} : g[k] = s.gossip[k]
      BY <1>1, <2>2, EntryFacts DEF Gossips
  <2>7. t \in States(n) /\ t.inc = s.inc /\ t.view = v /\ t.gossip = g
      BY <1>1, <2>3, <2>5, <2>6, Zenon DEF States
  <2>8. Unknown.inc = 0 /\ NoUpdate.entry = Unknown /\ \A k \in Nodes : c[k] \in Nat
      BY EntryFacts, Zenon DEF Ceilings
  <2>9. \A k \in Nodes \ {n} : v[k].inc <= c[k] /\ g[k].entry.inc <= c[k]
      BY <2>5, <2>6, <2>8 DEF Good
  <2>10. g[n] = s.gossip[n]
      BY <2>6, Zenon
  <2>11. t \in Good(n, c)
      BY <2>7, <2>9, <2>10, Zenon DEF Good
  <2> QED BY <1>3, <2>4, <2>5, <2>7, <2>11, Zenon
<1> QED BY <1>2, <1>3, Zenon

\* One record of the roster touches the belief about its node only.
LEMMA RecordKeeps ==
    ASSUME NEW n \in Nodes, NEW c \in Ceilings, NEW s \in Good(n, c), NEW m \in Nodes,
           NEW e \in Beliefs, e.inc <= c[m]
    PROVE  /\ ApplyRecord(n, s, m, e) \in Good(n, c) /\ ApplyRecord(n, s, m, e).inc = s.inc
           /\ \A k \in Nodes \ {m} : ApplyRecord(n, s, m, e).view[k] = s.view[k]
           /\ Revived(s.view[m], ApplyRecord(n, s, m, e).view[m])
<1>1. CASE ApplyRecord(n, s, m, e) = s
    BY <1>1, Zenon DEF Revived, Advanced
<1>2. CASE ApplyRecord(n, s, m, e) # s
  <2>1. e.st # "unknown" /\ m # n
      BY <1>2 DEF ApplyRecord
  <2>2. PICK x : x = IF e.st = "alive" THEN ClearDead(s, m) ELSE s
      OBVIOUS
  <2>3. PICK d : d = IF e.st = "alive" THEN Demand(n, x, m) ELSE x
      OBVIOUS
  <2>4. ApplyRecord(n, s, m, e)
            = IF Merge(x.view[m], e) = x.view[m] THEN x
              ELSE [d EXCEPT !.view = [d.view EXCEPT ![m] = Merge(x.view[m], e)]]
      BY <2>1, <2>2, <2>3, Zenon DEF ApplyRecord
  <2>5. /\ x \in Good(n, c) /\ x.inc = s.inc /\ \A k \in Nodes \ {m} : x.view[k] = s.view[k]
        /\ \/ x.view[m] = s.view[m]
           \/ s.view[m].st = "dead" /\ x.view[m] = Unknown /\ e.st = "alive"
      BY <2>1, <2>2, ClearDeadGood
  <2>6. x \in States(n) /\ x.view[m] \in Beliefs
      BY <2>5, BeliefParts, Zenon DEF Good
  <2>7. d \in States(n) /\ d.inc = x.inc /\ d.view = x.view /\ d.gossip = x.gossip
      BY <2>1, <2>3, <2>6, DemandQuiet
  <2>8. d \in Good(n, c)
      BY <2>5, <2>7, MovesQuietly, Zenon DEF Moves
  <2>9. Merge(x.view[m], e) \in {x.view[m], e} /\ Advanced(x.view[m], Merge(x.view[m], e))
      BY <2>6, MergeFacts, Zenon
  <2>10. CASE Merge(x.view[m], e) = x.view[m]
    <3>1. x.view[m] = s.view[m]
      <4>1. x.view[m] = Unknown /\ e.st = "alive" => Newer(e, x.view[m])
          BY RankFacts, EntryFacts DEF Newer
      <4>2. x.view[m] = Unknown /\ e.st = "alive" => Merge(x.view[m], e) = e
          BY <4>1 DEF Merge
      <4> QED BY <2>5, <2>10, <4>2, EntryFacts, Zenon
    <3>2. ApplyRecord(n, s, m, e) = x
        BY <2>4, <2>10, Zenon
    <3> QED BY <2>5, <3>1, <3>2, Zenon DEF Revived, Advanced
  <2>11. CASE Merge(x.view[m], e) # x.view[m]
    <3>1. Merge(x.view[m], e) = e /\ Advanced(d.view[m], e)
        BY <2>7, <2>9, <2>11
    <3>2. PICK v : v = [d.view EXCEPT ![m] = e]
        BY Zenon
    <3>3. PICK t : t = [d EXCEPT !.view = v]
        BY Zenon
    <3>4. ApplyRecord(n, s, m, e) = t
        BY <2>4, <2>11, <3>1, <3>2, <3>3, Zenon
    <3>5. Fits(n, c, d, m, e)
        BY <2>1 DEF Fits
    <3>6. Moves(n, c, d, t)
        BY <2>1, <2>8, <3>1, <3>2, <3>3, <3>5, MovesByBelief, Zenon
    <3>7. t \in Good(n, c)
        BY <3>6 DEF Moves
    <3>8. t.view = v /\ t.inc = d.inc
        BY <2>7, <3>3, Zenon DEF States
    <3>9. v[m] = e /\ \A k \in Nodes \ {m} : v[k] = d.view[k]
        BY <2>7, <3>2, StateParts, Zenon DEF Views, News
    <3>10. Revived(s.view[m], e)
        BY <2>5, <2>7, <3>1, Zenon DEF Revived
    <3> QED BY <2>5, <2>7, <3>4, <3>7, <3>8, <3>9, <3>10, ZenonT(30)
  <2> QED BY <2>10, <2>11, Zenon
<1> QED BY <1>1, <1>2

\* The members of the seed in any order, then the seed: every node once.
LEMMA RosterOrder ==
    ASSUME Counting, NEW from \in Nodes, NEW p \in Enumerations(Nodes \ {from})
    PROVE  /\ Len(Append(p, from)) \in Nat
           /\ \A i \in 1..Len(Append(p, from)) : Append(p, from)[i] \in Nodes
           /\ \A i, j \in 1..Len(Append(p, from)) :
                 i # j => Append(p, from)[i] # Append(p, from)[j]
<1>1. p \in Seq(Nodes \ {from}) /\ IsInjective(p) /\ DOMAIN p = 1..Len(p)
    BY EnumerationFacts
<1>2. p \in Seq(Nodes)
    BY <1>1, SeqWiden
<1>3. from \notin Range(p)
    BY <1>1 DEF Range
<1>4. IsInjective(Append(p, from))
    BY <1>1, <1>2, <1>3, RangeAppend, Zenon
<1>5. PICK o : o = Append(p, from)
    BY Zenon
<1>6. o \in Seq(Nodes) /\ Len(o) \in Nat /\ DOMAIN o = 1..Len(o)
    BY <1>2, <1>5, AppendFacts
<1> QED BY <1>4, <1>5, <1>6 DEF IsInjective

\* handle_join_response, whatever the order of the seed's map: no node is in the roster
\* twice, so a member that it brings back is not touched again.
LEMMA RosterKeeps ==
    ASSUME Counting, NEW n \in Nodes, NEW c \in Ceilings, NEW s \in Good(n, c),
           NEW news \in NewsWithin(c), NEW o, Len(o) \in Nat,
           \A i \in 1..Len(o) : o[i] \in Nodes,
           \A i, j \in 1..Len(o) : i # j => o[i] # o[j]
    PROVE  /\ ApplyRoster(n, s, news, o) \in Good(n, c)
           /\ \A m \in Nodes : Revived(s.view[m], ApplyRoster(n, s, news, o).view[m])
<1> DEFINE k == Len(o)
           J == Good(n, c)
           Body(f) == [i \in 0..Len(o) |->
                         IF i = 0 THEN s ELSE ApplyRecord(n, f[i - 1], o[i], news[o[i]])]
           F == CHOOSE f : f = Body(f)
           step == [i \in 1..k |-> [x \in J |-> ApplyRecord(n, x, o[i], news[o[i]])]]
<1>1. k \in Nat /\ \A i \in 1..k : o[i] \in Nodes
    BY Zenon
<1>2. ASSUME NEW i \in 1..k, NEW x \in J
      PROVE  /\ ApplyRecord(n, x, o[i], news[o[i]]) \in J
             /\ \A m \in Nodes \ {o[i]} :
                   ApplyRecord(n, x, o[i], news[o[i]]).view[m] = x.view[m]
             /\ Revived(x.view[o[i]], ApplyRecord(n, x, o[i], news[o[i]]).view[o[i]])
  <2>1. o[i] \in Nodes /\ news[o[i]] \in Beliefs /\ news[o[i]].inc <= c[o[i]]
      BY <1>1 DEF NewsWithin, News, Beliefs
  <2> QED BY <2>1, RecordKeeps
<1>3. \A i, j \in 1..k : i # j => o[i] # o[j]
    OBVIOUS
<1> HIDE DEF k
<1>4. step \in Steps(k, J)
  <2>1. \A i \in 1..k : \A x \in J : ApplyRecord(n, x, o[i], news[o[i]]) \in J
      BY <1>2
  <2> HIDE DEF J
  <2> QED BY <2>1, Zenon DEF Steps
<1>5. PICK g \in [0..k -> J] : g[0] = s /\ \A i \in 1..k : g[i] = step[i][g[i - 1]]
  <2> HIDE DEF step, J
  <2>1. s \in J
      BY DEF J
  <2>2. k \in Nat
      BY <1>1
  <2>3. \E g : IsChain(g, k, J, s, step)
      BY <1>4, <2>1, <2>2, ChainExists, Zenon
  <2> QED BY <2>3, Zenon DEF IsChain
<1>6. g = Body(g)
  <2>1. \A i \in 1..k : g[i - 1] \in J
      BY <1>1, <1>5
  <2>2. \A i \in 1..k : g[i] = ApplyRecord(n, g[i - 1], o[i], news[o[i]])
      BY <1>5, <2>1, Zenon
  <2>3. \A i \in 0..k : g[i] = IF i = 0 THEN s
                               ELSE ApplyRecord(n, g[i - 1], o[i], news[o[i]])
      BY <1>1, <1>5, <2>2
  <2> QED BY <1>5, <2>3 DEF k
<1>7. F = Body(F)
  <2> HIDE DEF Body
  <2> QED BY <1>6
<1>8. ApplyRoster(n, s, news, o) = F[k]
    BY DEF ApplyRoster, k
<1>9. F[0] = s /\ \A i \in 1..k : F[i] = ApplyRecord(n, F[i - 1], o[i], news[o[i]])
  <2>1. \A i \in 0..k : F[i] = IF i = 0 THEN s
                               ELSE ApplyRecord(n, F[i - 1], o[i], news[o[i]])
    <3> HIDE DEF F
    <3> QED BY <1>7, Zenon DEF k
  <2> HIDE DEF F
  <2> QED BY <1>1, <2>1
<1> HIDE DEF F
<1> DEFINE P == [i \in 0..k |->
                   {x \in J : /\ \A j \in (i + 1)..k : x.view[o[j]] = s.view[o[j]]
                              /\ \A m \in Nodes : Revived(s.view[m], x.view[m])}]
<1>10. F[0] \in P[0]
    BY <1>1, <1>9 DEF Revived, Advanced
<1>11. ASSUME NEW i \in 1..k, F[i - 1] \in P[i - 1] PROVE F[i] \in P[i]
  <2>1. /\ F[i - 1] \in J
        /\ \A j \in i..k : F[i - 1].view[o[j]] = s.view[o[j]]
        /\ \A m \in Nodes : Revived(s.view[m], F[i - 1].view[m])
      BY <1>1, <1>11
  <2>2. /\ F[i] \in J /\ \A m \in Nodes \ {o[i]} : F[i].view[m] = F[i - 1].view[m]
        /\ Revived(F[i - 1].view[o[i]], F[i].view[o[i]])
    <3>1. PICK x \in J : x = F[i - 1]
        BY <2>1
    <3>2. F[i] = ApplyRecord(n, x, o[i], news[o[i]])
        BY <1>9, <3>1
    <3> HIDE DEF J
    <3>3. /\ ApplyRecord(n, x, o[i], news[o[i]]) \in J
          /\ \A m \in Nodes \ {o[i]} :
                ApplyRecord(n, x, o[i], news[o[i]]).view[m] = x.view[m]
          /\ Revived(x.view[o[i]], ApplyRecord(n, x, o[i], news[o[i]]).view[o[i]])
        BY <1>2, Zenon
    <3> QED BY <3>1, <3>2, <3>3, Zenon
  <2>3. F[i - 1].view[o[i]] = s.view[o[i]]
      BY <1>1, <2>1
  <2>4. \A m \in Nodes : Revived(s.view[m], F[i].view[m])
      BY <2>1, <2>2, <2>3, Zenon
  <2>5. \A j \in (i + 1)..k : F[i].view[o[j]] = s.view[o[j]]
    <3> TAKE j \in (i + 1)..k
    <3>1. j \in 1..k /\ j \in i..k /\ j # i
        BY <1>1
    <3>2. o[j] \in Nodes \ {o[i]}
        BY <1>1, <1>3, <3>1
    <3> QED BY <2>1, <2>2, <3>1, <3>2, Zenon
  <2> HIDE DEF J
  <2> QED BY <1>1, <2>2, <2>4, <2>5
<1>12. F[k] \in P[k]
  <2> HIDE DEF P
  <2> QED BY <1>1, <1>10, <1>11, ChainKeeps, Zenon
<1>13. F[k] \in J /\ \A m \in Nodes : Revived(s.view[m], F[k].view[m])
  <2> HIDE DEF J
  <2> QED BY <1>1, <1>12
<1> QED BY <1>8, <1>13, Zenon

--------------------------------------------------------------------------------
(* The probe cycle *)

\* A state of n whose beliefs, queued updates and incarnation are those of s.
Quiet(n, s, t) == t \in States(n) /\ t.inc = s.inc /\ t.view = s.view /\ t.gossip = s.gossip

\* A probe in flight has a target, which is another node.
LEMMA PhaseFacts ==
    ASSUME NEW n \in Nodes, NEW p \in Phases(n)
    PROVE  /\ p.kind \in {"idle", "direct", "indirect"} /\ p.seq \in Nat /\ p.target # n
           /\ p.kind = "idle" <=> p = Idle
           /\ p.kind # "idle" => p.target \in Nodes \ {n}
BY NoneIsNoNode DEF Phases, Idle

\* The phases that a probe goes through.
LEMMA ProbingType ==
    ASSUME NEW n \in Nodes, NEW t \in Nodes \ {n}, NEW q \in Nat,
           NEW kind \in {"direct", "indirect"}
    PROVE  Probing(kind, t, q) \in Phases(n) /\ Idle \in Phases(n)
BY DEF Probing, Phases

\* Time passes.
LEMMA ElapseQuiet ==
    ASSUME NEW n \in Nodes, NEW s \in States(n)
    PROVE  Quiet(n, s, Elapse(s))
<1>1. /\ s.phase \in Phases(n) /\ s.timer \in Timers(n) /\ s.next \in Clocks
    BY StateParts
<1>2. ProbeTimeout \in Nat /\ SuspicionTimeout \in Nat
    BY Timing
<1>3. PICK a : a = IF s.phase.kind = "idle" THEN 0 ELSE Min({s.phase.age + 1, ProbeTimeout})
    OBVIOUS
<1>4. PICK p : p = [s.phase EXCEPT !.age = a]
    BY Zenon
<1>5. PICK t : t = [m \in Nodes |-> IF s.timer[m] = NoTimer THEN NoTimer
                                    ELSE Min({s.timer[m] + 1, SuspicionTimeout})]
    BY Zenon
<1>6. PICK x : x = [i \in DOMAIN s.next |-> Max({s.next[i] - 1, 0})]
    BY Zenon
<1>7. p \in Phases(n)
  <2>1. CASE s.phase = Idle
      BY <1>3, <1>4, <2>1 DEF Phases, Idle
  <2>2. CASE s.phase # Idle
    <3>1. s.phase \in [kind : {"direct", "indirect"}, target : Nodes \ {n}, seq : Nat, age : Nat]
        BY <1>1, <2>2 DEF Phases
    <3>2. s.phase.age + 1 \in Nat
        BY <3>1
    <3>3. Min({s.phase.age + 1, ProbeTimeout}) \in {s.phase.age + 1, ProbeTimeout}
        BY <1>2, <3>2, MinOfTwo
    <3>4. a \in Nat
        BY <1>2, <1>3, <3>2, <3>3, Zenon
    <3> QED BY <1>4, <3>1, <3>4, Zenon DEF Phases
  <2> QED BY <2>1, <2>2, Zenon
<1>8. t \in Timers(n)
  <2>1. ASSUME NEW m \in Nodes PROVE t[m] \in Ages
    <3>1. s.timer[m] \in Ages
        BY <1>1 DEF Timers
    <3>2. CASE s.timer[m] = NoTimer
        BY <1>5, <3>2, Zenon DEF Ages
    <3>3. CASE s.timer[m] # NoTimer
      <4>1. s.timer[m] + 1 \in Nat
          BY <1>2, <3>1, <3>3 DEF Ages
      <4>2. PICK y : y = Min({s.timer[m] + 1, SuspicionTimeout})
          OBVIOUS
      <4>3. y \in {s.timer[m] + 1, SuspicionTimeout} /\ y <= SuspicionTimeout
          BY <1>2, <4>1, <4>2, MinOfTwo, Zenon
      <4>4. t[m] = y
          BY <1>5, <3>3, <4>2, Zenon
      <4> QED BY <1>2, <4>1, <4>3, <4>4 DEF Ages
    <3> QED BY <3>2, <3>3
  <2>2. t[n] = NoTimer
      BY <1>1, <1>5 DEF Timers
  <2>3. t \in [Nodes -> Ages]
    <3>1. t = [m \in Nodes |-> t[m]]
        BY <1>5
    <3> QED BY <2>1, <3>1
  <2> QED BY <2>2, <2>3 DEF Timers
<1>9. x \in Clocks
  <2>1. DOMAIN s.next = {"probe", "reprobe", "sweep"}
      BY <1>1 DEF Clocks
  <2>2. ASSUME NEW i \in {"probe", "reprobe", "sweep"} PROVE x[i] \in Nat
    <3>1. s.next[i] \in Nat
        BY <1>1 DEF Clocks
    <3>2. x[i] = Max({s.next[i] - 1, 0})
        BY <1>6, <2>1, Zenon
    <3>3. \E u \in {s.next[i] - 1, 0} : \A v \in {s.next[i] - 1, 0} : u >= v
        BY <3>1
    <3>4. /\ Max({s.next[i] - 1, 0}) \in {s.next[i] - 1, 0}
          /\ Max({s.next[i] - 1, 0}) >= 0
        BY <3>3 DEF Max
    <3> QED BY <3>1, <3>2, <3>4
  <2> QED BY <1>6, <2>1, <2>2, Zenon DEF Clocks
<1>10. Elapse(s) = [s EXCEPT !.phase = p, !.timer = t, !.next = x]
    BY <1>3, <1>4, <1>5, <1>6, Zenon DEF Elapse
<1> QED BY <1>7, <1>8, <1>9, <1>10, ZenonT(30) DEF Quiet, States

\* check_probe_timeout changes the phase and one suspicion timer.
LEMMA ProbeTimeoutQuiet ==
    ASSUME NEW n \in Nodes, NEW s \in States(n)
    PROVE  Quiet(n, s, CheckProbeTimeout(s))
<1>1. s.phase \in Phases(n) /\ s.timer \in Timers(n)
    BY StateParts
<1>2. CASE TimesOut(s, "direct")
  <2>1. PICK p : p = Probing("indirect", s.phase.target, s.phase.seq)
      OBVIOUS
  <2>2. s.phase.target \in Nodes \ {n} /\ s.phase.seq \in Nat
      BY <1>1, <1>2, PhaseFacts DEF TimesOut
  <2>3. p \in Phases(n)
      BY <2>1, <2>2, ProbingType
  <2>4. CheckProbeTimeout(s) = [s EXCEPT !.phase = p]
      BY <1>2, <2>1 DEF CheckProbeTimeout
  <2> QED BY <2>3, <2>4 DEF Quiet, States
<1>3. CASE ~TimesOut(s, "direct") /\ TimesOut(s, "indirect")
  <2>1. s.phase.target \in Nodes \ {n}
      BY <1>1, <1>3, PhaseFacts, Zenon DEF TimesOut
  <2>2. PICK a : a = IF s.timer[s.phase.target] = NoTimer THEN 0 ELSE s.timer[s.phase.target]
      OBVIOUS
  <2>3. PICK t : t = [s.timer EXCEPT ![s.phase.target] = a]
      BY Zenon
  <2>4. a \in Ages
      BY <1>1, <2>1, <2>2, Timing DEF Timers, Ages
  <2>5. t \in Timers(n)
      BY <1>1, <2>1, <2>3, <2>4, Zenon DEF Timers
  <2>6. CheckProbeTimeout(s) = [s EXCEPT !.phase = Idle, !.timer = t]
      BY <1>3, <2>2, <2>3 DEF CheckProbeTimeout
  <2>7. Idle \in Phases(n)
      BY DEF Phases
  <2> QED BY <2>5, <2>6, <2>7, Zenon DEF Quiet, States
<1>4. CASE ~TimesOut(s, "direct") /\ ~TimesOut(s, "indirect")
    BY <1>4 DEF CheckProbeTimeout, Quiet
<1> QED BY <1>2, <1>3, <1>4

\* The condemned are suspects, and not the node itself.
LEMMA CondemnedFacts ==
    ASSUME NEW n \in Nodes, NEW s \in States(n)
    PROVE  Condemned(s) \subseteq Nodes \ {n} /\ \A m \in Condemned(s) : s.view[m].st = "suspect"
<1>1. s.view[n].st = "unknown"
    BY BeliefParts, EntryFacts
<1> QED BY <1>1 DEF Condemned, Expired

\* check_suspicion_timeouts: from suspect to dead is up.
LEMMA SuspicionMoves ==
    ASSUME NEW n \in Nodes, NEW c \in Ceilings, NEW s \in Good(n, c)
    PROVE  Moves(n, c, s, CheckSuspicionTimeouts(s))
<1>1. /\ s \in States(n) /\ s.inc \in Nat /\ s.view \in Views(n) /\ s.timer \in Timers(n)
      /\ s.phase \in Phases(n)
    BY StateParts DEF Good
<1>2. Condemned(s) \subseteq Nodes \ {n} /\ \A m \in Condemned(s) : s.view[m].st = "suspect"
    BY <1>1, CondemnedFacts
<1>3. PICK v : v = [m \in Nodes |-> IF m \in Condemned(s) THEN [s.view[m] EXCEPT !.st = "dead"]
                                    ELSE s.view[m]]
    BY Zenon
<1>4. PICK x : x = [m \in Nodes |-> IF m \in Expired(s) THEN NoTimer ELSE s.timer[m]]
    BY Zenon
<1>5. PICK p : p = IF s.phase.target \in Condemned(s) THEN Idle ELSE s.phase
    OBVIOUS
<1>6. PICK t : t = [s EXCEPT !.view = v, !.timer = x, !.phase = p]
    OBVIOUS
<1>7. CheckSuspicionTimeouts(s) = t
    BY <1>3, <1>4, <1>5, <1>6, Zenon DEF CheckSuspicionTimeouts
<1>8. ASSUME NEW m \in Nodes
      PROVE  v[m] \in Beliefs /\ v[m].inc = s.view[m].inc /\ Advanced(s.view[m], v[m])
  <2>1. s.view[m] \in Beliefs
      BY <1>1, BeliefParts
  <2>2. CASE m \in Condemned(s)
    <3>1. v[m] = [s.view[m] EXCEPT !.st = "dead"] /\ s.view[m].st = "suspect"
        BY <1>2, <1>3, <2>2, Zenon
    <3>2. s.view[m] \in Entries
        BY <2>1, <3>1, EntryFacts, Zenon DEF Beliefs
    <3>3. v[m] \in Beliefs /\ v[m].inc = s.view[m].inc /\ v[m].st = "dead"
        BY <3>1, <3>2 DEF Beliefs, Entries, MemberStates
    <3>4. Newer(v[m], s.view[m])
        BY <3>1, <3>3, RankFacts DEF Newer
    <3> QED BY <3>3, <3>4 DEF Advanced
  <2>3. CASE m \notin Condemned(s)
      BY <1>3, <2>1, <2>3, Zenon DEF Advanced
  <2> QED BY <2>2, <2>3, Zenon
<1>9. v \in Views(n)
  <2>1. v[n] = Unknown
      BY <1>1, <1>2, <1>3, BeliefParts, Zenon
  <2>2. v = [m \in Nodes |-> v[m]]
      BY <1>3
  <2>3. v \in [Nodes -> Beliefs]
      BY <1>8, <2>2, Zenon
  <2> QED BY <2>1, <2>3, Zenon DEF Views, News, Beliefs
<1>10. x \in Timers(n)
    BY <1>1, <1>4 DEF Timers, Ages
<1>11. p \in Phases(n)
    BY <1>1, <1>5, Zenon DEF Phases
<1>12. t \in States(n) /\ t.inc = s.inc /\ t.view = v /\ t.gossip = s.gossip
    BY <1>1, <1>6, <1>9, <1>10, <1>11, Zenon DEF States
<1>13. \A m \in Nodes \ {n} : v[m].inc <= c[m]
    BY <1>8, Zenon DEF Good
<1>14. t \in Good(n, c)
    BY <1>12, <1>13, Zenon DEF Good
<1>15. AllAdvanced(s.view, t.view)
    BY <1>8, <1>12 DEF AllAdvanced
<1> QED BY <1>1, <1>7, <1>12, <1>14, <1>15 DEF Moves

\* A quiet step moves, and quiet steps compose.
LEMMA QuietMoves ==
    ASSUME NEW n \in Nodes, NEW c \in Ceilings, NEW s \in Good(n, c), NEW t, Quiet(n, s, t)
    PROVE  Moves(n, c, s, t)
BY MovesQuietly DEF Quiet

LEMMA QuietTransitive ==
    ASSUME NEW n \in Nodes, NEW s, NEW t, NEW u, Quiet(n, s, t), Quiet(n, t, u)
    PROVE  Quiet(n, s, u)
BY DEF Quiet

\* Who is probed is another node.
LEMMA TargetFacts ==
    ASSUME Counting, NEW n \in Nodes, NEW s \in States(n)
    PROVE  /\ Candidates(s) \subseteq Nodes \ {n}
           /\ ProbeTargets(n, s) \subseteq (Nodes \ {n}) \cup {None}
           /\ ReprobeTargets(s) \subseteq (Nodes \ {n}) \cup {None}
<1>1. s.view \in Views(n) /\ s.round \subseteq Nodes \ {n} /\ s.demand \in Seq(Nodes \ {n})
    BY StateParts DEF Rounds, Demands
<1>2. AliveMembers(s.view) \subseteq Nodes \ {n} /\ DeadMembers(s.view) \subseteq Nodes \ {n}
    BY <1>1, MemberFacts
<1>3. Candidates(s) \subseteq Nodes \ {n}
    BY <1>1, <1>2 DEF Candidates
<1>4. ByDemand(n, s) => Head(s.demand) \in Nodes \ {n}
    BY <1>1, TailType DEF ByDemand
<1> QED BY <1>2, <1>3, <1>4, Zenon DEF ProbeTargets, ReprobeTargets, OrNone

\* Starting a probe.
LEMMA ProbeQuiet ==
    ASSUME NEW n \in Nodes, NEW s \in States(n), NEW t \in Nodes \ {n}, NEW q \in Nat
    PROVE  Quiet(n, s, Probe(s, t, q))
<1>1. PICK p : p = Probing("direct", t, q)
    OBVIOUS
<1>2. p \in Phases(n)
    BY <1>1, ProbingType
<1>3. Probe(s, t, q) = [s EXCEPT !.phase = p]
    BY <1>1 DEF Probe
<1> QED BY <1>2, <1>3 DEF Quiet, States

\* pick_probe_target.
LEMMA PickedQuiet ==
    ASSUME Counting, NEW n \in Nodes, NEW s \in States(n), NEW t
    PROVE  Quiet(n, s, Picked(s, t))
<1>1. PICK r : r = Candidates(s) \ {t}
    BY Zenon
<1>2. PICK z : z = IF RoundOver(s) THEN Cardinality(AliveMembers(s.view)) ELSE s.size
    OBVIOUS
<1>3. r \in Rounds(n)
    BY <1>1, TargetFacts DEF Rounds
<1>4. z \in Nat
    BY <1>2, StateParts, MemberFacts, Zenon
<1>5. Picked(s, t) = [s EXCEPT !.round = r, !.size = z]
    BY <1>1, <1>2 DEF Picked
<1> QED BY <1>3, <1>4, <1>5, Zenon DEF Quiet, States

\* maybe_start_probe, maybe_start_demand_probe and maybe_safety_sweep.
LEMMA StartProbeQuiet ==
    ASSUME Counting, NEW n \in Nodes, NEW s \in States(n), NEW t \in ProbeTargets(n, s),
           NEW q \in Nat
    PROVE  Quiet(n, s, StartProbe(n, s, t, q))
<1>1. PICK x : x = IF n \in Reactive
                   THEN [s.next EXCEPT !.sweep = IF @ = 0 THEN SweepInterval ELSE @]
                   ELSE [s.next EXCEPT !.probe = IF @ = 0 /\ s.phase = Idle
                                                 THEN ProbeInterval ELSE @]
    BY Zenon
<1>2. PICK u : u = [s EXCEPT !.next = x]
    BY Zenon
<1>3. x \in Clocks
  <2>1. s.next \in Clocks /\ SweepInterval \in Nat /\ ProbeInterval \in Nat
      BY StateParts, Timing
  <2> QED BY <1>1, <2>1 DEF Clocks
<1>4. Quiet(n, s, u) /\ u.demand = s.demand /\ u \in States(n)
    BY <1>2, <1>3 DEF Quiet, States
<1>5. StartProbe(n, s, t, q)
          = IF t = None THEN u
            ELSE IF ByDemand(n, s) THEN [Probe(u, t, q) EXCEPT !.demand = Tail(@)]
            ELSE Probe(Picked(u, t), t, q)
    BY <1>1, <1>2, Zenon DEF StartProbe
<1>6. CASE t = None
    BY <1>4, <1>5, <1>6, Zenon
<1>7. CASE t # None
  <2>1. t \in Nodes \ {n}
      BY <1>7, TargetFacts, Zenon
  <2>2. CASE ByDemand(n, s)
    <3>1. PICK p : p = Probe(u, t, q)
        OBVIOUS
    <3>2. Quiet(n, u, p) /\ p.demand = s.demand
        BY <1>4, <2>1, <3>1, ProbeQuiet, Zenon DEF Probe, States
    <3>3. PICK d : d = Tail(s.demand)
        BY Zenon
    <3>4. s.demand \in Seq(Nodes \ {n}) /\ s.demand # <<>> /\ Len(s.demand) <= MaxDemand
        BY <2>2, StateParts, Zenon DEF ByDemand, Demands
    <3>5. d \in Seq(Nodes \ {n}) /\ Len(s.demand) \in Nat \ {0} /\ Len(d) = Len(s.demand) - 1
        BY <3>3, <3>4, TailFacts, Zenon
    <3>6. d \in Demands(n)
        BY <3>4, <3>5, Bounds DEF Demands
    <3>7. StartProbe(n, s, t, q) = [p EXCEPT !.demand = d]
        BY <1>5, <1>7, <2>2, <3>1, <3>2, <3>3, Zenon
    <3>8. Quiet(n, p, StartProbe(n, s, t, q))
        BY <3>2, <3>6, <3>7, Zenon DEF Quiet, States
    <3> QED BY <1>4, <3>2, <3>8, Zenon DEF Quiet
  <2>3. CASE ~ByDemand(n, s)
    <3>1. Quiet(n, u, Picked(u, t))
        BY <1>4, PickedQuiet, Zenon
    <3>2. Quiet(n, Picked(u, t), Probe(Picked(u, t), t, q))
        BY <2>1, <3>1, ProbeQuiet DEF Quiet
    <3>3. StartProbe(n, s, t, q) = Probe(Picked(u, t), t, q)
        BY <1>5, <1>7, <2>3
    <3> QED BY <1>4, <3>1, <3>2, <3>3, QuietTransitive, Zenon
  <2> QED BY <2>2, <2>3
<1> QED BY <1>6, <1>7

\* maybe_reprobe_dead.
LEMMA ReprobeQuiet ==
    ASSUME NEW n \in Nodes, NEW s \in States(n)
    PROVE  Quiet(n, s, Reprobe(s))
<1>1. CASE ReprobeDue(s)
  <2>1. PICK x : x = [s.next EXCEPT !.reprobe = ReprobeInterval]
      BY Zenon
  <2>2. x \in Clocks
      BY <2>1, StateParts, Timing DEF Clocks
  <2>3. Reprobe(s) = [s EXCEPT !.next = x]
      BY <1>1, <2>1 DEF Reprobe
  <2> QED BY <2>2, <2>3 DEF Quiet, States
<1>2. CASE ~ReprobeDue(s)
    BY <1>2 DEF Reprobe, Quiet
<1> QED BY <1>1, <1>2, Zenon

--------------------------------------------------------------------------------
(* What follows from a probe: suspicion, announcements and pings *)

\* What n believes of a node it may also say of it.
LEMMA BeliefFits ==
    ASSUME Counting, NEW n \in Nodes, NEW c \in Ceilings, NEW s \in Good(n, c), NEW m \in Nodes
    PROVE  Fits(n, c, s, m, s.view[m]) /\ Budget(s.view) \in Nat
<1>1. s \in States(n) /\ s.inc \in Nat /\ s.view \in Views(n)
    BY StateParts DEF Good
<1>2. s.view[m] \in Beliefs /\ (m = n => s.view[m].inc = 0)
    BY <1>1, BeliefParts, EntryFacts
<1> QED BY <1>1, <1>2, BudgetType DEF Fits, Good

\* Suspect: from alive to suspect is up.
LEMMA AccuseMoves ==
    ASSUME Counting, NEW n \in Nodes, NEW c \in Ceilings, NEW s \in Good(n, c),
           NEW t \in (Nodes \ {n}) \cup {None}
    PROVE  Moves(n, c, s, Accuse(s, t))
<1>1. s \in States(n)
    BY DEF Good
<1>2. CASE t = None \/ s.view[t].st # "alive"
  <2>1. Accuse(s, t) = s
      BY <1>2 DEF Accuse
  <2> QED BY <1>1, <2>1, MovesQuietly, Zenon
<1>3. CASE t # None /\ s.view[t].st = "alive"
  <2>1. t \in Nodes \ {n} /\ s.view[t] \in Beliefs
      BY <1>1, <1>3, BeliefParts, Zenon
  <2>2. PICK e : e = [s.view[t] EXCEPT !.st = "suspect"]
      BY Zenon
  <2>3. PICK v : v = [s.view EXCEPT ![t] = e]
      BY Zenon
  <2>4. PICK x : x = [s EXCEPT !.view = v]
      BY Zenon
  <2>5. s.view[t] \in Entries
      BY <1>3, <2>1, EntryFacts, Zenon DEF Beliefs
  <2>6. e \in Beliefs /\ e.st = "suspect" /\ e.inc = s.view[t].inc
      BY <2>2, <2>5 DEF Beliefs, Entries, MemberStates
  <2>7. Fits(n, c, s, t, e) /\ Advanced(s.view[t], e)
    <3>1. Fits(n, c, s, t, e)
        BY <2>1, <2>6, BeliefFits, Zenon DEF Fits
    <3>2. Newer(e, s.view[t])
        BY <1>3, <2>6, RankFacts DEF Newer
    <3> QED BY <3>1, <3>2 DEF Advanced
  <2>8. v \in Views(n) /\ Moves(n, c, s, x)
      BY <2>1, <2>3, <2>4, <2>7, MovesByBelief, Zenon
  <2>9. x \in Good(n, c) /\ x.gossip = s.gossip
      BY <1>1, <2>4, <2>8, Zenon DEF Moves, States
  <2>10. Fits(n, c, x, t, e)
      BY <2>1, <2>7 DEF Fits
  <2>11. Budget(v) \in Nat
      BY <2>8, BudgetType
  <2>12. Moves(n, c, x, [x EXCEPT !.gossip = Enqueue(x.gossip, t, e, Budget(v))])
      BY <2>1, <2>9, <2>10, <2>11, MovesByGossip, Zenon
  <2>13. Accuse(s, t) = [x EXCEPT !.gossip = Enqueue(x.gossip, t, e, Budget(v))]
      BY <1>3, <2>2, <2>3, <2>4, <2>9, Zenon DEF Accuse
  <2> QED BY <2>8, <2>9, <2>12, <2>13, MovesTransitive, Zenon
<1> QED BY <1>2, <1>3

\* DeclareDead queues what the node believes.
LEMMA AnnounceMoves ==
    ASSUME Counting, NEW n \in Nodes, NEW c \in Ceilings, NEW s \in Good(n, c), NEW dead
    PROVE  Moves(n, c, s, Announce(s, dead))
<1>1. s \in States(n) /\ s.inc \in Nat /\ s.gossip \in Gossips
    BY StateParts DEF Good
<1>2. PICK g : g = [m \in Nodes |-> IF m \in dead
                                    THEN Enqueue(s.gossip, m, s.view[m], Budget(s.view))[m]
                                    ELSE s.gossip[m]]
    BY Zenon
<1>3. PICK t : t = [s EXCEPT !.gossip = g]
    BY Zenon
<1>4. Announce(s, dead) = t
    BY <1>2, <1>3, Zenon DEF Announce
<1>5. ASSUME NEW m \in Nodes
      PROVE  g[m] \in Updates /\ g[m].entry \in {s.gossip[m].entry, s.view[m]}
  <2>1. s.view[m] \in Beliefs /\ Budget(s.view) \in Nat /\ s.gossip[m] \in Updates
      BY <1>1, BeliefFits DEF Fits, Gossips
  <2>2. PICK h : h = Enqueue(s.gossip, m, s.view[m], Budget(s.view))
      BY Zenon
  <2>3. h \in Gossips /\ h[m].entry \in {s.gossip[m].entry, s.view[m]}
      BY <1>1, <2>1, <2>2, EnqueueFacts
  <2>4. h[m] \in Updates
      BY <2>3 DEF Gossips
  <2>5. g[m] = IF m \in dead THEN h[m] ELSE s.gossip[m]
      BY <1>2, <2>2
  <2> QED BY <2>1, <2>3, <2>4, <2>5, Zenon
<1>6. g \in Gossips
  <2>1. g = [m \in Nodes |-> g[m]]
      BY <1>2
  <2> QED BY <1>5, <2>1, Zenon DEF Gossips
<1>7. t \in States(n) /\ t.inc = s.inc /\ t.view = s.view /\ t.gossip = g
    BY <1>1, <1>3, <1>6, Zenon DEF States
<1>8. g[n].entry.inc <= s.inc /\ \A m \in Nodes \ {n} : g[m].entry.inc <= c[m]
    BY <1>5, BeliefFits, Zenon DEF Good, Fits
<1>9. t \in Good(n, c)
    BY <1>7, <1>8, Zenon DEF Good
<1> QED BY <1>1, <1>4, <1>7, <1>9 DEF Moves, AllAdvanced, Advanced

\* A suspect or dead target is told what is believed of it.
LEMMA TellTargetMoves ==
    ASSUME Counting, NEW n \in Nodes, NEW c \in Ceilings, NEW s \in Good(n, c),
           NEW t \in (Nodes \ {n}) \cup {None}
    PROVE  Moves(n, c, s, TellTarget(s, t))
<1>1. CASE TellTarget(s, t) = s
    BY <1>1, MovesQuietly DEF Good
<1>2. CASE TellTarget(s, t) # s
  <2>1. t \in Nodes
      BY <1>2 DEF TellTarget
  <2>2. TellTarget(s, t) = [s EXCEPT !.gossip = Enqueue(s.gossip, t, s.view[t], Budget(s.view))]
      BY <1>2 DEF TellTarget
  <2>3. Fits(n, c, s, t, s.view[t]) /\ Budget(s.view) \in Nat
      BY <2>1, BeliefFits
  <2> QED BY <2>1, <2>2, <2>3, MovesByGossip
<1> QED BY <1>1, <1>2, Zenon

LEMMA PingedMoves ==
    ASSUME Counting, NEW n \in Nodes, NEW c \in Ceilings, NEW s \in Good(n, c),
           NEW t \in (Nodes \ {n}) \cup {None}
    PROVE  Moves(n, c, s, Pinged(s, t))
<1>1. CASE t = None
    BY <1>1, MovesQuietly DEF Pinged, Good
<1>2. CASE t # None
  <2>1. Moves(n, c, s, TellTarget(s, t)) /\ TellTarget(s, t) \in Good(n, c)
      BY TellTargetMoves DEF Moves
  <2>2. Moves(n, c, TellTarget(s, t), Sent(TellTarget(s, t), 1))
      BY <2>1, MovesBySending
  <2>3. Pinged(s, t) = Sent(TellTarget(s, t), 1)
      BY <1>2 DEF Pinged
  <2> QED BY <2>1, <2>2, <2>3, MovesTransitive, Zenon
<1> QED BY <1>1, <1>2, Zenon

\* The sender of a ping or a join request is learnt.
LEMMA LearnMoves ==
    ASSUME NEW n \in Nodes, NEW c \in Ceilings, NEW s \in Good(n, c), NEW m \in Nodes \ {n}
    PROVE  Moves(n, c, s, Learn(s, m))
<1>1. s \in States(n) /\ s.view[m] \in Beliefs
    BY BeliefParts DEF Good
<1>2. PICK e : e = Merge(s.view[m], Alive(0))
    OBVIOUS
<1>3. Alive(0) \in Beliefs /\ Alive(0).inc = 0 /\ c[m] \in Nat
    BY EntryFacts DEF Ceilings
<1>4. e \in Beliefs /\ e \in {s.view[m], Alive(0)} /\ Advanced(s.view[m], e)
    BY <1>1, <1>2, <1>3, MergeFacts, Zenon
<1>5. Fits(n, c, s, m, e)
    BY <1>3, <1>4 DEF Fits, Good
<1>6. Learn(s, m) = [s EXCEPT !.view = [s.view EXCEPT ![m] = e]]
    BY <1>2 DEF Learn
<1>7. Advanced(s.view[m], e)
    BY <1>4
<1>8. Moves(n, c, s, [s EXCEPT !.view = [s.view EXCEPT ![m] = e]])
    BY <1>5, <1>7, MovesByBelief, Zenon
<1> QED BY <1>6, <1>8, Zenon

\* An ack ends the probe in flight.
LEMMA EndProbeQuiet ==
    ASSUME NEW n \in Nodes, NEW s \in States(n), s.phase.kind # "idle"
    PROVE  Quiet(n, s, EndProbe(s))
<1>1. s.phase.target \in Nodes \ {n} /\ s.timer \in Timers(n)
    BY StateParts, PhaseFacts
<1>2. PICK t : t = [s.timer EXCEPT ![s.phase.target] = NoTimer]
    BY Zenon
<1>3. t \in Timers(n)
    BY <1>1, <1>2 DEF Timers, Ages
<1>4. EndProbe(s) = [s EXCEPT !.phase = Idle, !.timer = t]
    BY <1>2 DEF EndProbe
<1>5. Idle \in Phases(n)
    BY DEF Phases
<1> QED BY <1>3, <1>4, <1>5, Zenon DEF Quiet, States

--------------------------------------------------------------------------------
(* The messages and the invariant *)

Kinds == {"ping", "ack", "pingreq", "indirectack", "join", "roster"}

\* The messages when the nodes are at incarnations c: nobody writes to itself, a relay is
\* asked to ping a third node, and no news is ahead of its node.
Messages(c) ==
    {msg \in [kind : Kinds, from : Nodes, to : Nodes, target : Nodes \cup {None}, of : Nodes,
              seq : Nat, news : NewsWithin(c)] :
        /\ msg.from # msg.to
        /\ msg.kind = "pingreq" => msg.target \in Nodes \ {msg.to}}

Incs == [m \in Nodes |-> node[m].inc]

\* Nodes are good at the incarnations that they have reached, and so are the messages.
SwimInv ==
    /\ node = [n \in Nodes |-> node[n]]
    /\ \A n \in Nodes : node[n] \in Good(n, Incs)
    /\ net \subseteq Messages(Incs)
    /\ up \subseteq Nodes /\ faults \in 0..MaxFaults /\ requests \in 0..MaxRequests

\* The incarnations are a ceiling.
LEMMA IncsType ==
    ASSUME SwimInv
    PROVE  Incs \in Ceilings /\ \A n \in Nodes : Incs[n] = node[n].inc /\ node[n] \in States(n)
<1>1. \A n \in Nodes : node[n] \in States(n)
    BY DEF SwimInv, Good
<1>2. \A n \in Nodes : node[n].inc \in Nat
    BY <1>1, StateParts
<1> QED BY <1>1, <1>2 DEF Incs, Ceilings

\* A ceiling raised at n to i.
Raised(c, n, i) == [c EXCEPT ![n] = i]

LEMMA RaisedFacts ==
    ASSUME NEW c \in Ceilings, NEW n \in Nodes, NEW i \in Nat
    PROVE  /\ Raised(c, n, i) \in Ceilings /\ Raised(c, n, i)[n] = i
           /\ \A m \in Nodes \ {n} : Raised(c, n, i)[m] = c[m]
BY DEF Raised, Ceilings

\* What n says of others and of itself stays below the raised ceiling.
LEMMA NewsFits ==
    ASSUME NEW n \in Nodes, NEW c \in Ceilings, NEW s \in Good(n, c), NEW i \in Nat, s.inc <= i
    PROVE  Piggyback(s.gossip) \in NewsWithin(Raised(c, n, i))
<1>1. s \in States(n) /\ s.inc \in Nat /\ s.gossip \in Gossips
    BY StateParts DEF Good
<1>2. \A m \in Nodes : s.gossip[m].entry.inc \in Nat
    BY <1>1, BeliefParts, Zenon
<1>3. PICK d : d = Raised(c, n, i)
    OBVIOUS
<1>4. d[n] = i /\ \A m \in Nodes \ {n} : d[m] = c[m]
    BY <1>3, RaisedFacts
<1>5. ASSUME NEW m \in Nodes PROVE s.gossip[m].entry.inc <= d[m]
  <2>1. CASE m = n
      BY <1>1, <1>2, <1>4, <2>1 DEF Good
  <2>2. CASE m # n
      BY <1>4, <2>2 DEF Good
  <2> QED BY <2>1, <2>2, Zenon
<1>6. Piggyback(s.gossip) \in News /\ \A m \in Nodes : Piggyback(s.gossip)[m] = s.gossip[m].entry
    BY <1>1, PiggybackFacts
<1> QED BY <1>3, <1>5, <1>6, Zenon DEF NewsWithin

\* A higher ceiling takes the same messages and more.
LEMMA MessagesRaised ==
    ASSUME NEW c \in Ceilings, NEW n \in Nodes, NEW i \in Nat, c[n] <= i
    PROVE  Messages(c) \subseteq Messages(Raised(c, n, i))
<1>1. PICK d : d = Raised(c, n, i)
    OBVIOUS
<1>2. d \in Ceilings /\ \A m \in Nodes : c[m] <= d[m] /\ c[m] \in Nat /\ d[m] \in Nat
  <2>1. d \in Ceilings /\ d[n] = i /\ \A m \in Nodes \ {n} : d[m] = c[m]
      BY <1>1, RaisedFacts
  <2> QED BY <2>1 DEF Ceilings
<1>3. ASSUME NEW x \in NewsWithin(c) PROVE x \in NewsWithin(d)
  <2>1. x \in News /\ \A m \in Nodes : x[m] \in Beliefs /\ x[m].inc <= c[m]
      BY DEF NewsWithin, News, Beliefs
  <2>2. \A m \in Nodes : x[m].inc \in Nat
      BY <2>1, RankFacts
  <2>3. \A m \in Nodes : x[m].inc <= d[m]
      BY <1>2, <2>1, <2>2
  <2> QED BY <2>1, <2>3 DEF NewsWithin
<1>4. NewsWithin(c) \subseteq NewsWithin(d)
    BY <1>3
<1> QED BY <1>1, <1>4 DEF Messages

\* A message of n, written out.
LEMMA MessageType ==
    ASSUME NEW c, NEW kind \in Kinds, NEW from \in Nodes, NEW to \in Nodes \ {from},
           NEW target \in Nodes \cup {None}, NEW of \in Nodes, NEW seq \in Nat,
           NEW news \in NewsWithin(c),
           kind = "pingreq" => target \in Nodes \ {to}
    PROVE  Message(kind, from, to, target, of, seq, news) \in Messages(c)
BY DEF Message, Messages

\* When one node moves and sends, the invariant holds again.
LEMMA NodeStep ==
    ASSUME SwimInv, NEW n \in Nodes, NEW t \in Good(n, Incs),
           node' = [node EXCEPT ![n] = t],
           net' \subseteq net \cup Messages(Raised(Incs, n, t.inc)),
           up' \subseteq Nodes, faults' \in 0..MaxFaults, requests' \in 0..MaxRequests
    PROVE  SwimInv'
<1>1. Incs \in Ceilings /\ \A m \in Nodes : Incs[m] = node[m].inc /\ node[m] \in States(m)
    BY IncsType
<1>2. t \in States(n) /\ t.inc \in Nat /\ Incs[n] <= t.inc /\ Incs[n] \in Nat
    BY <1>1, StateParts DEF Good, Ceilings
<1>3. /\ node' = [m \in Nodes |-> node'[m]] /\ node'[n] = t
      /\ \A m \in Nodes \ {n} : node'[m] = node[m]
    BY DEF SwimInv
<1>4. PICK d : d = Raised(Incs, n, t.inc)
    OBVIOUS
<1>5. /\ d \in Ceilings /\ d[n] = t.inc
      /\ \A m \in Nodes \ {n} : d[m] = Incs[m]
  <2>1. PICK c \in Ceilings : c = Incs
      BY <1>1
  <2>2. PICK i \in Nat : i = t.inc
      BY <1>2
  <2>3. /\ Raised(c, n, i) \in Ceilings /\ Raised(c, n, i)[n] = i
        /\ \A m \in Nodes \ {n} : Raised(c, n, i)[m] = c[m]
      BY RaisedFacts
  <2> QED BY <1>4, <2>1, <2>2, <2>3, Zenon
<1>6. Incs' = d
  <2>1. Incs' = [m \in Nodes |-> node'[m].inc]
      BY DEF Incs
  <2>2. \A m \in Nodes : node'[m].inc = d[m]
      BY <1>1, <1>3, <1>5, Zenon
  <2>3. d = [m \in Nodes |-> d[m]]
      BY <1>5, Zenon DEF Ceilings
  <2> QED BY <2>1, <2>2, <2>3, Zenon
<1>7. t \in Good(n, d)
    BY <1>2, <1>5 DEF Good
<1>8. ASSUME NEW m \in Nodes \ {n} PROVE node[m] \in Good(m, d)
  <2>1. node[m] \in Good(m, Incs) /\ node[m] \in States(m)
      BY <1>1, Zenon DEF SwimInv
  <2>2. \A k \in Nodes : node[m].view[k].inc \in Nat /\ node[m].gossip[k].entry.inc \in Nat
      BY <2>1, BeliefParts, Zenon
  <2>3. \A k \in Nodes : Incs[k] <= d[k] /\ Incs[k] \in Nat /\ d[k] \in Nat
      BY <1>2, <1>1, <1>5 DEF Ceilings
  <2>4. \A k \in Nodes \ {m} : node[m].view[k].inc <= d[k] /\ node[m].gossip[k].entry.inc <= d[k]
      BY <2>1, <2>2, <2>3 DEF Good
  <2>5. d[m] <= node[m].inc /\ node[m].gossip[m].entry.inc <= node[m].inc
      BY <1>5, <2>1, Zenon DEF Good
  <2> QED BY <2>1, <2>4, <2>5, Zenon DEF Good
<1>9. \A m \in Nodes : node'[m] \in Good(m, d)
    BY <1>3, <1>7, <1>8, Zenon
<1>10. net' \subseteq Messages(d)
  <2>1. Messages(Incs) \subseteq Messages(d)
      BY <1>1, <1>2, <1>4, MessagesRaised, Zenon
  <2> QED BY <1>4, <2>1, Zenon DEF SwimInv
<1> QED BY <1>3, <1>6, <1>9, <1>10, Zenon DEF SwimInv

\* When no node moves, the invariant holds again.
LEMMA NetStep ==
    ASSUME SwimInv, node' = node, net' \subseteq net \cup Messages(Incs),
           up' \subseteq Nodes, faults' \in 0..MaxFaults, requests' \in 0..MaxRequests
    PROVE  SwimInv' /\ \A n, m \in Nodes : BeliefStep(n, m)
<1>1. Incs' = Incs
    BY DEF Incs
<1>2. SwimInv'
    BY <1>1 DEF SwimInv
<1>3. \A n, m \in Nodes : BeliefStep(n, m)
    BY DEF BeliefStep
<1> QED BY <1>2, <1>3

\* The beliefs of a node that moves advance, those of the others stay.
LEMMA NodeMoves ==
    ASSUME SwimInv, NEW n \in Nodes, NEW t, Moves(n, Incs, node[n], t),
           node' = [node EXCEPT ![n] = t],
           net' \subseteq net \cup Messages(Raised(Incs, n, t.inc)),
           up' \subseteq Nodes, faults' \in 0..MaxFaults, requests' \in 0..MaxRequests
    PROVE  SwimInv' /\ \A k, m \in Nodes : BeliefStep(k, m)
<1>1. t \in Good(n, Incs) /\ AllAdvanced(node[n].view, t.view)
    BY DEF Moves
<1>2. SwimInv'
    BY <1>1, NodeStep, Zenon
<1>3. node'[n] = t /\ \A m \in Nodes \ {n} : node'[m] = node[m]
    BY Zenon DEF SwimInv
<1>4. \A k, m \in Nodes : BeliefStep(k, m)
    BY <1>1, <1>3 DEF BeliefStep, AllAdvanced, Advanced
<1> QED BY <1>2, <1>4

--------------------------------------------------------------------------------
(* The steps *)

\* What is shown of every step.
StepOk == SwimInv' /\ \A n, m \in Nodes : BeliefStep(n, m)

\* A ping to another node is a message, and none is sent to None.
LEMMA PingType ==
    ASSUME Counting, NEW n \in Nodes, NEW c \in Ceilings, NEW s \in Good(n, c),
           NEW t \in (Nodes \ {n}) \cup {None}, NEW q \in Nat, NEW i \in Nat,
           Pinged(s, t).inc <= i
    PROVE  Ping(n, s, t, q) \subseteq Messages(Raised(c, n, i))
<1>1. CASE t = None
    BY <1>1 DEF Ping
<1>2. CASE t # None
  <2>1. PICK x : x = TellTarget(s, t)
      OBVIOUS
  <2>2. x \in Good(n, c)
      BY <2>1, TellTargetMoves, Zenon DEF Moves
  <2>3. Moves(n, c, x, Sent(x, 1))
      BY <2>2, MovesBySending, Zenon
  <2>4. Pinged(s, t) = Sent(x, 1)
      BY <1>2, <2>1, Zenon DEF Pinged
  <2>5. x.inc \in Nat /\ Sent(x, 1).inc \in Nat /\ x.inc <= Sent(x, 1).inc
      BY <2>2, <2>3, StateParts, Zenon DEF Moves, Good
  <2>6. x.inc <= i
      BY <2>4, <2>5
  <2>7. Piggyback(x.gossip) \in NewsWithin(Raised(c, n, i))
      BY <2>2, <2>6, NewsFits, Zenon
  <2>8. Message("ping", n, t, None, n, q, Piggyback(x.gossip)) \in Messages(Raised(c, n, i))
      BY <1>2, <2>7, MessageType, Zenon DEF Kinds
  <2> QED BY <1>2, <2>1, <2>8, Zenon DEF Ping
<1> QED BY <1>1, <1>2

\* The relays are other nodes, not the target, and are asked about a probe in flight.
LEMMA RelayFacts ==
    ASSUME Counting, NEW n \in Nodes, NEW s \in States(n), NEW r \in Relays(s)
    PROVE  /\ Len(r) \in Nat
           /\ \A i \in DOMAIN r : /\ i \in Nat \ {0} /\ r[i] \in Nodes \ {n, s.phase.target}
                                  /\ s.phase.target \in Nodes \ {n} /\ s.phase.seq \in Nat
<1>1. CASE TimesOut(s, "direct")
  <2>1. s.phase.target \in Nodes \ {n} /\ s.phase.seq \in Nat
      BY <1>1, StateParts, PhaseFacts, Zenon DEF TimesOut
  <2>2. PICK S : S = AliveMembers(s.view) \ {s.phase.target}
      BY Zenon
  <2>3. S \subseteq Nodes \ {n, s.phase.target}
      BY <2>2, StateParts, MemberFacts, Zenon
  <2>4. Cardinality(S) \in Nat
      BY <2>3 DEF Counting
  <2>5. PICK k : k = Min({IndirectProbes, Cardinality(S)})
      OBVIOUS
  <2>6. k \in Nat
      BY <2>4, <2>5, MinOfTwo, Timing, Zenon
  <2>7. r \in [1..k -> S]
      BY <1>1, <2>2, <2>5, Zenon DEF Relays
  <2>8. r \in Seq(S)
      BY <2>6, <2>7
  <2>9. Len(r) = k /\ DOMAIN r = 1..k
      BY <2>6, <2>7, <2>8
  <2> QED BY <2>1, <2>3, <2>6, <2>7, <2>9
<1>2. CASE ~TimesOut(s, "direct")
  <2>1. r = << >>
      BY <1>2 DEF Relays
  <2> QED BY <2>1
<1> QED BY <1>1, <1>2, Zenon

\* The requests to relays.
LEMMA PingReqsType ==
    ASSUME Counting, NEW n \in Nodes, NEW c \in Ceilings, NEW s \in Good(n, c), NEW r \in Relays(s),
           NEW j \in Nat, s.inc <= j
    PROVE  PingReqs(n, s, r) \subseteq Messages(Raised(c, n, j))
<1>1. s \in States(n) /\ s.inc \in Nat
    BY StateParts DEF Good
<1>2. ASSUME NEW i \in DOMAIN r
      PROVE  Message("pingreq", n, r[i], s.phase.target, n, s.phase.seq,
                     Piggyback(Taken(s.gossip, i - 1))) \in Messages(Raised(c, n, j))
  <2>1. /\ i \in Nat \ {0} /\ r[i] \in Nodes \ {n} /\ r[i] # s.phase.target
        /\ s.phase.target \in Nodes /\ s.phase.seq \in Nat
      BY <1>1, RelayFacts
  <2>2. PICK x : x = Sent(s, i - 1)
      OBVIOUS
  <2>3. Moves(n, c, s, x) /\ x.gossip = Taken(s.gossip, i - 1) /\ x.inc = s.inc
    <3>1. i - 1 \in Nat
        BY <2>1
    <3>2. Moves(n, c, s, x)
        BY <2>2, <3>1, MovesBySending, Zenon
    <3>3. x.gossip = Taken(s.gossip, i - 1) /\ x.inc = s.inc
        BY <1>1, <2>2, Zenon DEF Sent, States
    <3> QED BY <3>2, <3>3, Zenon
  <2>4. x \in Good(n, c) /\ x.inc <= j
      BY <2>3 DEF Moves
  <2>5. Piggyback(x.gossip) \in NewsWithin(Raised(c, n, j))
      BY <2>4, NewsFits, Zenon
  <2>6. Message("pingreq", n, r[i], s.phase.target, n, s.phase.seq, Piggyback(x.gossip))
           \in Messages(Raised(c, n, j))
      BY <2>1, <2>5, MessageType DEF Kinds
  <2> QED BY <2>3, <2>6, Zenon
<1> QED BY <1>2, Zenon DEF PingReqs

\* The numbers that a node takes are numbers.
LEMMA FreeSeqType == ASSUME NEW n PROVE FreeSeq(n) \subseteq Nat
<1>1. FreeSeq(n) \subseteq 1..MaxSeq
    BY DEF FreeSeq
<1> QED BY <1>1, Bounds

\* SwimNode::tick.
LEMMA TickStep ==
    ASSUME Counting, SwimInv, NEW n \in Nodes, Tick(n)
    PROVE  StepOk
<1> DEFINE S0 == Elapse(node[n])
           S1 == CheckProbeTimeout(S0)
           S2 == CheckSuspicionTimeouts(S1)
           A == IF TimesOut(S0, "indirect") THEN S0.phase.target ELSE None
           S3(t, q, r) == Sent(Reprobe(StartProbe(n, S2, t, q)), Len(r))
           S4(t, q, r) == Announce(Accuse(S3(t, q, r), A), Condemned(S1))
           S5(t, q, r) == Pinged(S4(t, q, r), t)
<1>1. PICK t \in ProbeTargets(n, S2), d \in ReprobeTargets(S2), r \in Relays(S0),
           q \in Nat, p \in Nat :
         /\ net' = net \cup PingReqs(n, S0, r) \cup Ping(n, S4(t, q, r), t, q)
                       \cup Ping(n, S5(t, q, r), d, p)
         /\ node' = [node EXCEPT ![n] = Pinged(S5(t, q, r), d)]
  <2> DEFINE Seqs(t) == IF t = None THEN {0} ELSE FreeSeq(n)
             Seqs2(d, q) == IF d = None THEN {0} ELSE FreeSeq(n) \ {q}
             Body(s0, s1, s2, t, d, r, q, p) ==
                LET accused == IF TimesOut(s0, "indirect") THEN s0.phase.target ELSE None
                    s3 == Sent(Reprobe(StartProbe(n, s2, t, q)), Len(r))
                IN  /\ ~FalseAlarm(s0, accused)
                    /\ \E s4 \in {Announce(Accuse(s3, accused), Condemned(s1))} :
                       \E s5 \in {Pinged(s4, t)} :
                          /\ net' = net \cup PingReqs(n, s0, r) \cup Ping(n, s4, t, q)
                                        \cup Ping(n, s5, d, p)
                          /\ Cardinality(net') <= MaxNet
                          /\ node' = [node EXCEPT ![n] = Pinged(s5, d)]
  <2>1. \E s0 \in {S0} : \E s1 \in {CheckProbeTimeout(s0)} :
        \E s2 \in {CheckSuspicionTimeouts(s1)} :
        \E t \in ProbeTargets(n, s2), d \in ReprobeTargets(s2), r \in Relays(s0) :
        \E q \in Seqs(t) : \E p \in Seqs2(d, q) : Body(s0, s1, s2, t, d, r, q, p)
      BY Zenon DEF Tick
  <2> HIDE DEF Body, Seqs, Seqs2
  <2>2. \E t \in ProbeTargets(n, S2), d \in ReprobeTargets(S2), r \in Relays(S0) :
        \E q \in Seqs(t) : \E p \in Seqs2(d, q) : Body(S0, S1, S2, t, d, r, q, p)
      BY <2>1
  <2>3. PICK t \in ProbeTargets(n, S2), d \in ReprobeTargets(S2), r \in Relays(S0) :
        \E q \in Seqs(t) : \E p \in Seqs2(d, q) : Body(S0, S1, S2, t, d, r, q, p)
      BY <2>2
  <2>4. PICK q \in Seqs(t) : \E p \in Seqs2(d, q) : Body(S0, S1, S2, t, d, r, q, p)
      BY <2>3
  <2>5. PICK p \in Seqs2(d, q) : Body(S0, S1, S2, t, d, r, q, p)
      BY <2>4, Zenon
  <2>6. /\ net' = net \cup PingReqs(n, S0, r) \cup Ping(n, S4(t, q, r), t, q)
                      \cup Ping(n, S5(t, q, r), d, p)
        /\ node' = [node EXCEPT ![n] = Pinged(S5(t, q, r), d)]
    <3> HIDE DEF S0, S1, S2
    <3> QED BY <2>5 DEF Body
  <2>7. q \in Nat /\ p \in Nat
      BY FreeSeqType DEF Seqs, Seqs2
  <2> HIDE DEF S0, S1, S2, S4, S5
  <2> QED BY <2>6, <2>7, Zenon
<1>2. UNCHANGED <<up, faults, requests>>
    BY DEF Tick
<1>3. PICK c \in Ceilings : c = Incs
    BY IncsType
<1>4. node[n] \in Good(n, c)
    BY <1>3 DEF SwimInv
<1>5. Moves(n, c, node[n], S0) /\ S0 \in Good(n, c) /\ S0 \in States(n)
  <2>1. Quiet(n, node[n], S0)
      BY <1>4, ElapseQuiet, Zenon DEF Good
  <2> HIDE DEF S0
  <2> QED BY <1>4, <2>1, QuietMoves, Zenon DEF Moves, Quiet
<1>6. Moves(n, c, S0, S1) /\ S1 \in Good(n, c)
  <2> HIDE DEF S0
  <2>1. Quiet(n, S0, S1)
      BY <1>5, ProbeTimeoutQuiet, Zenon
  <2> HIDE DEF S1
  <2> QED BY <1>5, <2>1, QuietMoves, Zenon DEF Moves
<1>7. Moves(n, c, S1, S2) /\ S2 \in Good(n, c) /\ S2 \in States(n)
  <2> HIDE DEF S1
  <2> QED BY <1>6, SuspicionMoves, Zenon DEF Moves, Good
<1>8. q \in Nat /\ p \in Nat /\ t \in (Nodes \ {n}) \cup {None} /\ d \in (Nodes \ {n}) \cup {None}
  <2> HIDE DEF S2
  <2> QED BY <1>7, TargetFacts, Zenon
<1>9. Moves(n, c, S2, S3(t, q, r)) /\ S3(t, q, r) \in Good(n, c)
  <2> HIDE DEF S2
  <2>1. PICK x : x = StartProbe(n, S2, t, q)
      OBVIOUS
  <2>2. Quiet(n, S2, x)
      BY <1>7, <1>8, <2>1, StartProbeQuiet, Zenon
  <2>3. Quiet(n, x, Reprobe(x))
      BY <2>2, ReprobeQuiet, Zenon DEF Quiet
  <2>4. Moves(n, c, S2, Reprobe(x)) /\ Reprobe(x) \in Good(n, c)
      BY <1>7, <2>2, <2>3, QuietTransitive, QuietMoves, Zenon DEF Moves
  <2>5. Len(r) \in Nat
      BY <1>5, RelayFacts, Zenon
  <2>6. Moves(n, c, Reprobe(x), Sent(Reprobe(x), Len(r)))
      BY <2>4, <2>5, MovesBySending, Zenon
  <2>7. Moves(n, c, S2, Sent(Reprobe(x), Len(r)))
      BY <1>7, <2>4, <2>6, MovesTransitive, Zenon
  <2> QED BY <2>1, <2>7, Zenon DEF Moves
<1>10. A \in (Nodes \ {n}) \cup {None}
  <2> HIDE DEF S0
  <2> QED BY <1>5, StateParts, PhaseFacts, Zenon DEF TimesOut
<1>11. Moves(n, c, S3(t, q, r), S4(t, q, r)) /\ S4(t, q, r) \in Good(n, c)
  <2> HIDE DEF S3, A, S1
  <2>1. PICK x : x = Accuse(S3(t, q, r), A)
      OBVIOUS
  <2>2. Moves(n, c, S3(t, q, r), x) /\ x \in Good(n, c)
      BY <1>9, <1>10, <2>1, AccuseMoves, Zenon DEF Moves
  <2>3. Moves(n, c, x, Announce(x, Condemned(S1)))
      BY <2>2, AnnounceMoves, Zenon
  <2>4. S4(t, q, r) = Announce(x, Condemned(S1))
      BY <2>1
  <2> HIDE DEF S4
  <2>5. Moves(n, c, S3(t, q, r), S4(t, q, r))
      BY <1>9, <2>2, <2>3, <2>4, MovesTransitive, Zenon
  <2> QED BY <2>5 DEF Moves
<1>12. PICK s4 : s4 = S4(t, q, r)
    OBVIOUS
<1>13. PICK s5 : s5 = Pinged(s4, t)
    OBVIOUS
<1>14. PICK s6 : s6 = Pinged(s5, d)
    OBVIOUS
<1>15. /\ net' = net \cup PingReqs(n, S0, r) \cup Ping(n, s4, t, q) \cup Ping(n, s5, d, p)
       /\ node' = [node EXCEPT ![n] = s6]
  <2> HIDE DEF S0, S4
  <2> QED BY <1>1, <1>12, <1>13, <1>14, Zenon DEF S5
<1>16. PICK s0 \in Good(n, c) : s0 = S0
    BY <1>5
<1>17. Moves(n, c, s0, s4) /\ s4 \in Good(n, c)
  <2> HIDE DEF S0, S1, S2, S3, S4
  <2>1. Moves(n, c, S0, S2)
      BY <1>5, <1>6, <1>7, MovesTransitive, Zenon
  <2>2. Moves(n, c, S0, S3(t, q, r))
      BY <1>5, <1>7, <1>9, <2>1, MovesTransitive, Zenon
  <2>3. Moves(n, c, S0, S4(t, q, r))
      BY <1>5, <1>9, <1>11, <2>2, MovesTransitive, Zenon
  <2> QED BY <1>11, <1>12, <1>16, <2>3, Zenon
<1> HIDE DEF S0, S1, S2, S3, S4, S5, A
<1>18. Moves(n, c, s4, s5) /\ s5 \in Good(n, c)
    BY <1>8, <1>13, <1>17, PingedMoves, Zenon DEF Moves
<1>19. Moves(n, c, s5, s6) /\ s6 \in Good(n, c)
    BY <1>8, <1>14, <1>18, PingedMoves, Zenon DEF Moves
<1>20. Moves(n, c, s0, s5)
    BY <1>17, <1>18, MovesTransitive, Zenon
<1>21. Moves(n, c, s0, s6)
    BY <1>18, <1>19, <1>20, MovesTransitive, Zenon
<1>22. Moves(n, c, node[n], s0)
    BY <1>5, <1>16, Zenon
<1>23. Moves(n, c, node[n], s6)
    BY <1>4, <1>21, <1>22, MovesTransitive, Zenon
<1>24. s6.inc \in Nat /\ s0.inc <= s6.inc /\ s5.inc <= s6.inc
    BY <1>19, <1>21, StateParts, Zenon DEF Moves, Good
<1>25. PICK M : M = Messages(Raised(c, n, s6.inc))
    OBVIOUS
<1>26. PingReqs(n, s0, r) \subseteq M
    BY <1>1, <1>16, <1>24, <1>25, PingReqsType, Zenon
<1>27. Ping(n, s4, t, q) \subseteq M
    BY <1>8, <1>13, <1>17, <1>24, <1>25, PingType, ZenonT(30)
<1>28. Ping(n, s5, d, p) \subseteq M
    BY <1>8, <1>14, <1>18, <1>24, <1>25, PingType
<1>29. net' \subseteq net \cup Messages(Raised(Incs, n, s6.inc))
    BY <1>3, <1>15, <1>16, <1>25, <1>26, <1>27, <1>28, ZenonT(30)
<1>30. Moves(n, Incs, node[n], s6)
    BY <1>3, <1>23, Zenon
<1>31. up' \subseteq Nodes /\ faults' \in 0..MaxFaults /\ requests' \in 0..MaxRequests
    BY <1>2 DEF SwimInv
<1> QED BY <1>15, <1>29, <1>30, <1>31, NodeMoves, Zenon DEF StepOk

\* What the invariant says of a message on its way.
LEMMA MessageParts ==
    ASSUME SwimInv, NEW msg \in net
    PROVE  /\ msg.from \in Nodes /\ msg.to \in Nodes /\ msg.from # msg.to
           /\ msg.target \in Nodes \cup {None} /\ msg.of \in Nodes /\ msg.seq \in Nat
           /\ msg.news \in NewsWithin(Incs)
           /\ msg.kind = "pingreq" => msg.target \in Nodes \ {msg.to}
<1>1. msg \in Messages(Incs)
    BY DEF SwimInv
<1> QED BY <1>1 DEF Messages

\* A node that takes a message, moves and answers.
LEMMA AnswerStep ==
    ASSUME SwimInv, NEW n \in Nodes, NEW msg, NEW s, NEW out, Answer(n, msg, s, out),
           Moves(n, Incs, node[n], s), out \subseteq Messages(Raised(Incs, n, s.inc))
    PROVE  StepOk
<1>1. /\ node' = [node EXCEPT ![n] = s] /\ net' = (net \ {msg}) \cup out
      /\ up' = up /\ faults' = faults /\ requests' = requests
    BY DEF Answer
<1>2. net' \subseteq net \cup Messages(Raised(Incs, n, s.inc))
    BY <1>1
<1>3. up' \subseteq Nodes /\ faults' \in 0..MaxFaults /\ requests' \in 0..MaxRequests
    BY <1>1 DEF SwimInv
<1> QED BY <1>1, <1>2, <1>3, NodeMoves, Zenon DEF StepOk

\* The news of a message is applied first.
LEMMA NewsFirst ==
    ASSUME Counting, SwimInv, NEW msg \in net, NEW c \in Ceilings, c = Incs,
           NEW o \in Orders(msg.news),
           NEW s, s = ApplyNews(msg.to, node[msg.to], msg.news, o)
    PROVE  /\ node[msg.to] \in Good(msg.to, c) /\ s \in Good(msg.to, c)
           /\ Moves(msg.to, c, node[msg.to], s)
<1>1. msg.to \in Nodes /\ msg.news \in NewsWithin(c)
    BY MessageParts
<1>2. node[msg.to] \in Good(msg.to, c)
    BY <1>1 DEF SwimInv
<1>3. Moves(msg.to, c, node[msg.to], s)
    BY <1>1, <1>2, NewsMoves
<1> QED BY <1>2, <1>3, Zenon DEF Moves

\* A message of n with what it has queued, when it has it sent off.
LEMMA ReplyType ==
    ASSUME NEW n \in Nodes, NEW c \in Ceilings, NEW s \in Good(n, c), NEW kind \in Kinds,
           kind # "pingreq", NEW to \in Nodes \ {n}, NEW target \in Nodes \cup {None},
           NEW of \in Nodes, NEW seq \in Nat
    PROVE  {Message(kind, n, to, target, of, seq, Piggyback(s.gossip))}
              \subseteq Messages(Raised(c, n, Sent(s, 1).inc))
<1>1. s \in States(n) /\ s.inc \in Nat /\ Sent(s, 1).inc = s.inc
    BY StateParts DEF Good, Sent, States
<1>2. PICK i \in Nat : i = Sent(s, 1).inc /\ s.inc <= i
    BY <1>1
<1>3. Piggyback(s.gossip) \in NewsWithin(Raised(c, n, i))
    BY <1>2, NewsFits
<1>4. Message(kind, n, to, target, of, seq, Piggyback(s.gossip)) \in Messages(Raised(c, n, i))
    BY <1>3, MessageType, Zenon
<1> QED BY <1>2, <1>4, Zenon

\* The ping that a relay sends.
LEMMA RelayedPingType ==
    ASSUME NEW n \in Nodes, NEW c \in Ceilings, NEW s \in Good(n, c), NEW to \in Nodes \ {n},
           NEW of \in Nodes, NEW seq \in Nat
    PROVE  {Message("ping", n, to, None, of, seq, Piggyback(s.gossip))}
              \subseteq Messages(Raised(c, n, Sent(s, 1).inc))
BY ReplyType DEF Kinds

\* The answer of a relay.
LEMMA IndirectAckType ==
    ASSUME NEW n \in Nodes, NEW c \in Ceilings, NEW s \in Good(n, c), NEW to \in Nodes \ {n},
           NEW target \in Nodes, NEW seq \in Nat
    PROVE  {Message("indirectack", n, to, target, to, seq, Piggyback(s.gossip))}
              \subseteq Messages(Raised(c, n, Sent(s, 1).inc))
BY ReplyType DEF Kinds

\* handle_ping.
LEMMA PingStep ==
    ASSUME Counting, SwimInv, NEW msg \in net, HandlePing(msg.to, msg)
    PROVE  StepOk
<1>1. PICK o \in Orders(msg.news) :
         \E s \in {Learn(ApplyNews(msg.to, node[msg.to], msg.news, o), msg.from)} :
            Answer(msg.to, msg, Sent(s, 1),
                   {Message("ack", msg.to, msg.from, None, msg.of, msg.seq, Piggyback(s.gossip))})
    BY DEF HandlePing
<1>2. PICK x : x = ApplyNews(msg.to, node[msg.to], msg.news, o)
    OBVIOUS
<1>3. PICK s : s = Learn(x, msg.from)
    OBVIOUS
<1>4. PICK n : n = msg.to
    OBVIOUS
<1>5. PICK out : out = {Message("ack", n, msg.from, None, msg.of, msg.seq, Piggyback(s.gossip))}
    BY Zenon
<1>6. Answer(n, msg, Sent(s, 1), out)
    BY <1>1, <1>2, <1>3, <1>4, <1>5, Zenon
<1>7. n \in Nodes /\ msg.from \in Nodes \ {n} /\ msg.of \in Nodes /\ msg.seq \in Nat
    BY <1>4, MessageParts, Zenon
<1>8. PICK c \in Ceilings : c = Incs
    BY IncsType
<1>9. node[n] \in Good(n, c) /\ x \in Good(n, c) /\ Moves(n, c, node[n], x)
    BY <1>2, <1>4, <1>8, NewsFirst, Zenon
<1>10. Moves(n, c, x, s) /\ s \in Good(n, c)
    BY <1>3, <1>7, <1>9, LearnMoves, Zenon DEF Moves
<1>11. Moves(n, c, s, Sent(s, 1))
    BY <1>7, <1>10, MovesBySending, Zenon
<1>12. Moves(n, c, node[n], s)
    BY <1>7, <1>9, <1>10, MovesTransitive, Zenon
<1>13. Moves(n, c, node[n], Sent(s, 1))
    BY <1>7, <1>9, <1>10, <1>11, <1>12, MovesTransitive, Zenon
<1>14. "ack" \in Kinds /\ "ack" # "pingreq"
    BY DEF Kinds
<1>15. out \subseteq Messages(Raised(c, n, Sent(s, 1).inc))
    BY <1>5, <1>7, <1>10, <1>14, ReplyType, ZenonT(30)
<1> QED BY <1>6, <1>7, <1>8, <1>13, <1>15, AnswerStep, Zenon

\* handle_ping_req: the oldest relay makes room for the new one.
LEMMA PingReqStep ==
    ASSUME Counting, SwimInv, NEW msg \in net, HandlePingReq(msg.to, msg)
    PROVE  StepOk
<1> DEFINE Kept(s) == IF Len(s.relays) >= MaxRelays THEN Tail(s.relays) ELSE s.relays
           relay == [requester |-> msg.from, target |-> msg.target, seq |-> msg.seq]
<1>1. PICK o \in Orders(msg.news) :
         \E s \in {ApplyNews(msg.to, node[msg.to], msg.news, o)} :
            Answer(msg.to, msg, Sent([s EXCEPT !.relays = Append(Kept(s), relay)], 1),
                   {Message("ping", msg.to, msg.target, None, msg.of, msg.seq,
                            Piggyback(s.gossip))})
    BY Zenon DEF HandlePingReq
<1>2. PICK s : s = ApplyNews(msg.to, node[msg.to], msg.news, o)
    OBVIOUS
<1>3. PICK n : n = msg.to
    OBVIOUS
<1>4. PICK r : r = Append(Kept(s), relay)
    BY Zenon
<1>5. PICK x : x = [s EXCEPT !.relays = r]
    BY Zenon
<1>6. PICK out : out = {Message("ping", n, msg.target, None, msg.of, msg.seq,
                                Piggyback(s.gossip))}
    BY Zenon
<1>7. Answer(n, msg, Sent(x, 1), out)
  <2> HIDE DEF Kept, relay
  <2> QED BY <1>1, <1>2, <1>3, <1>4, <1>5, <1>6, Zenon
<1>8. /\ n \in Nodes /\ msg.from \in Nodes \ {n} /\ msg.of \in Nodes /\ msg.seq \in Nat
      /\ msg.target \in Nodes \ {n}
    BY <1>3, MessageParts, Zenon DEF HandlePingReq
<1>9. PICK c \in Ceilings : c = Incs
    BY IncsType
<1>10. node[n] \in Good(n, c) /\ s \in Good(n, c) /\ Moves(n, c, node[n], s)
    BY <1>2, <1>3, <1>9, NewsFirst, Zenon
<1>11. r \in RelayQueues(n)
  <2>1. s.relays \in Seq(RelaysOf(n)) /\ Len(s.relays) \in Nat /\ Len(s.relays) <= MaxRelays
    <3>1. s \in States(n)
        BY <1>10 DEF Good
    <3> QED BY <1>8, <3>1, StateParts DEF RelayQueues
  <2>2. PICK e \in RelaysOf(n) : e = relay
      BY <1>8, Zenon DEF RelaysOf
  <2>3. PICK k : k = Kept(s)
      BY Zenon
  <2>4. k \in Seq(RelaysOf(n)) /\ Len(k) \in Nat /\ Len(k) < MaxRelays
    <3>1. CASE Len(s.relays) >= MaxRelays
      <4>1. s.relays # << >>
          BY <2>1, <3>1, Bounds
      <4>2. PICK w : w = Tail(s.relays)
          BY Zenon
      <4>3. w \in Seq(RelaysOf(n)) /\ Len(w) = Len(s.relays) - 1 /\ Len(s.relays) \in Nat \ {0}
          BY <2>1, <4>1, <4>2, TailFacts, Zenon
      <4> QED BY <2>1, <2>3, <3>1, <4>2, <4>3, Bounds
    <3>2. CASE ~(Len(s.relays) >= MaxRelays)
        BY <2>1, <2>3, <3>2, Bounds
    <3> QED BY <3>1, <3>2, Zenon
  <2>5. r = Append(k, e)
      BY <1>4, <2>2, <2>3, Zenon
  <2> HIDE DEF Kept, relay
  <2>6. r \in Seq(RelaysOf(n)) /\ Len(r) = Len(k) + 1
      BY <2>4, <2>5, AppendFacts, Zenon
  <2> QED BY <2>4, <2>6, Bounds DEF RelayQueues
<1> HIDE DEF Kept, relay
<1>12. Quiet(n, s, x)
    BY <1>5, <1>10, <1>11, Zenon DEF Quiet, Good, States
<1>13. Moves(n, c, s, x) /\ x \in Good(n, c)
    BY <1>8, <1>10, <1>12, QuietMoves, Zenon DEF Moves
<1>14. Moves(n, c, x, Sent(x, 1))
    BY <1>8, <1>13, MovesBySending, Zenon
<1>15. Moves(n, c, node[n], x)
    BY <1>8, <1>10, <1>13, MovesTransitive, Zenon
<1>16. Moves(n, c, node[n], Sent(x, 1))
    BY <1>8, <1>10, <1>13, <1>14, <1>15, MovesTransitive, ZenonT(30)
<1>17. out \subseteq Messages(Raised(c, n, Sent(x, 1).inc))
  <2>1. out = {Message("ping", n, msg.target, None, msg.of, msg.seq, Piggyback(x.gossip))}
      BY <1>6, <1>12, Zenon DEF Quiet
  <2>2. PICK to \in Nodes \ {n} : to = msg.target
      BY <1>8, Zenon
  <2>3. PICK of \in Nodes : of = msg.of
      BY <1>8
  <2>4. PICK q \in Nat : q = msg.seq
      BY <1>8, Zenon
  <2>5. {Message("ping", n, to, None, of, q, Piggyback(x.gossip))}
           \subseteq Messages(Raised(c, n, Sent(x, 1).inc))
      BY <1>8, <1>13, RelayedPingType
  <2> QED BY <2>1, <2>2, <2>3, <2>4, <2>5, Zenon
<1> QED BY <1>7, <1>8, <1>9, <1>16, <1>17, AnswerStep, Zenon

\* handle_indirect_ack.
LEMMA IndirectAckStep ==
    ASSUME Counting, SwimInv, NEW msg \in net, HandleIndirectAck(msg.to, msg)
    PROVE  StepOk
<1>1. PICK o \in Orders(msg.news) :
         \E s \in {ApplyNews(msg.to, node[msg.to], msg.news, o)} :
            Answer(msg.to, msg, IF Answers(s, msg.target, msg.seq, {"indirect"})
                                THEN EndProbe(s) ELSE s, {})
    BY DEF HandleIndirectAck
<1>2. PICK s : s = ApplyNews(msg.to, node[msg.to], msg.news, o)
    OBVIOUS
<1>3. PICK n : n = msg.to
    OBVIOUS
<1>4. PICK x : x = IF Answers(s, msg.target, msg.seq, {"indirect"}) THEN EndProbe(s) ELSE s
    OBVIOUS
<1>5. Answer(n, msg, x, {})
    BY <1>1, <1>2, <1>3, <1>4, Zenon
<1>6. n \in Nodes
    BY <1>3, MessageParts, Zenon
<1>7. PICK c \in Ceilings : c = Incs
    BY IncsType
<1>8. node[n] \in Good(n, c) /\ s \in Good(n, c) /\ Moves(n, c, node[n], s)
    BY <1>2, <1>3, <1>7, NewsFirst, ZenonT(30)
<1>9. s \in States(n)
    BY <1>8 DEF Good
<1>10. Quiet(n, s, x)
  <2>1. CASE Answers(s, msg.target, msg.seq, {"indirect"})
      BY <1>4, <1>6, <1>9, <2>1, EndProbeQuiet, Zenon DEF Answers
  <2>2. CASE ~Answers(s, msg.target, msg.seq, {"indirect"})
      BY <1>4, <1>9, <2>2, Zenon DEF Quiet
  <2> QED BY <2>1, <2>2, Zenon
<1>11. Moves(n, c, s, x)
    BY <1>6, <1>8, <1>10, QuietMoves, Zenon
<1>12. Moves(n, c, node[n], x)
    BY <1>6, <1>8, <1>11, MovesTransitive, Zenon
<1> QED BY <1>5, <1>6, <1>7, <1>12, AnswerStep, Zenon

\* The sequence without its i-th element is one shorter.
LEMMA WithoutFacts ==
    ASSUME NEW S, NEW s \in Seq(S), NEW i \in 1..Len(s)
    PROVE  Without(s, i) \in Seq(S) /\ Len(Without(s, i)) = Len(s) - 1
<1>1. Len(s) \in Nat /\ \A j \in 1..Len(s) : s[j] \in S
    OBVIOUS
<1>2. PICK a : a = SubSeq(s, 1, i - 1)
    BY Zenon
<1>3. PICK b : b = SubSeq(s, i + 1, Len(s))
    BY Zenon
<1>4. a \in Seq(S) /\ Len(a) = i - 1
  <2>1. 1 \in Int /\ i - 1 \in Int /\ \A j \in 1..(i - 1) : s[j] \in S
      BY <1>1
  <2>2. a \in Seq(S) /\ Len(a) = IF 1 <= i - 1 THEN (i - 1) - 1 + 1 ELSE 0
      BY <1>2, <2>1
  <2> QED BY <1>1, <2>2
<1>5. b \in Seq(S) /\ Len(b) = Len(s) - i
  <2>1. i + 1 \in Int /\ Len(s) \in Int /\ \A j \in (i + 1)..Len(s) : s[j] \in S
      BY <1>1
  <2>2. b \in Seq(S) /\ Len(b) = IF i + 1 <= Len(s) THEN Len(s) - (i + 1) + 1 ELSE 0
      BY <1>3, <2>1
  <2> QED BY <1>1, <2>2
<1>6. PICK u : u = a \o b
    BY Zenon
<1>7. u \in Seq(S) /\ Len(u) = Len(a) + Len(b)
    BY <1>4, <1>5, <1>6, ConcatFacts
<1>8. Without(s, i) = u
    BY <1>2, <1>3, <1>6 DEF Without
<1> QED BY <1>1, <1>4, <1>5, <1>7, <1>8

\* handle_ack: the probe ends, and the relay that waits for the ack is answered.
LEMMA AckStep ==
    ASSUME Counting, SwimInv, NEW msg \in net, HandleAck(msg.to, msg)
    PROVE  StepOk
<1> DEFINE Ended(s) == IF Answers(s, msg.from, msg.seq, {"direct", "indirect"})
                       THEN EndProbe(s) ELSE s
           I(p) == {i \in DOMAIN p.relays : /\ p.relays[i].target = msg.from
                                             /\ p.relays[i].seq = msg.seq}
           At(p) == Min(I(p))
           Out(p) == {Message("indirectack", msg.to, p.relays[At(p)].requester, msg.from,
                              p.relays[At(p)].requester, msg.seq, Piggyback(p.gossip))}
           Reply(p) == IF I(p) = {} THEN Answer(msg.to, msg, p, {})
                       ELSE Answer(msg.to, msg,
                                   Sent([p EXCEPT !.relays = Without(p.relays, At(p))], 1),
                                   Out(p))
<1>1. PICK o \in Orders(msg.news) :
         \E s \in {ApplyNews(msg.to, node[msg.to], msg.news, o)} :
         \E p \in {Ended(s)} : Reply(p)
    BY Zenon DEF HandleAck
<1> HIDE DEF Ended, Reply
<1>2. PICK s : s = ApplyNews(msg.to, node[msg.to], msg.news, o)
    OBVIOUS
<1>3. PICK p : p = Ended(s)
    OBVIOUS
<1>4. Reply(p)
    BY <1>1, <1>2, <1>3, Zenon
<1>5. PICK n : n = msg.to
    OBVIOUS
<1>6. n \in Nodes /\ msg.from \in Nodes /\ msg.seq \in Nat
    BY <1>5, MessageParts, Zenon
<1>7. PICK c \in Ceilings : c = Incs
    BY IncsType
<1>8. node[n] \in Good(n, c) /\ s \in Good(n, c) /\ Moves(n, c, node[n], s)
    BY <1>2, <1>5, <1>7, NewsFirst, Zenon
<1>9. Quiet(n, s, p)
  <2>1. s \in States(n)
      BY <1>8 DEF Good
  <2>2. CASE Answers(s, msg.from, msg.seq, {"direct", "indirect"})
      BY <1>3, <1>6, <2>1, <2>2, EndProbeQuiet, Zenon DEF Answers, Ended
  <2>3. CASE ~Answers(s, msg.from, msg.seq, {"direct", "indirect"})
      BY <1>3, <2>1, <2>3, Zenon DEF Quiet, Ended
  <2> QED BY <2>2, <2>3, Zenon
<1>10. Moves(n, c, s, p) /\ p \in Good(n, c) /\ p \in States(n)
    BY <1>6, <1>8, <1>9, QuietMoves, Zenon DEF Moves, Quiet
<1>11. Moves(n, c, node[n], p)
    BY <1>6, <1>8, <1>10, MovesTransitive, Zenon
<1>12. CASE I(p) = {}
  <2>1. Answer(n, msg, p, {})
      BY <1>4, <1>5, <1>12, Zenon DEF Reply
  <2> QED BY <1>6, <1>7, <1>11, <2>1, AnswerStep, Zenon
<1>13. CASE I(p) # {}
  <2>1. p.relays \in Seq(RelaysOf(n)) /\ Len(p.relays) <= MaxRelays /\ Len(p.relays) \in Nat
      BY <1>6, <1>10, StateParts DEF RelayQueues
  <2>2. PICK i \in 1..Len(p.relays) : i = At(p)
    <3>1. I(p) \in SUBSET Nat /\ I(p) # {} /\ I(p) \subseteq 1..Len(p.relays)
        BY <1>13, <2>1
    <3> HIDE DEF I
    <3>2. Min(I(p)) \in I(p)
        BY <3>1, MinInSet, Zenon
    <3> QED BY <3>1, <3>2, Zenon
  <2> HIDE DEF At
  <2>3. PICK r : r = Without(p.relays, i)
      OBVIOUS
  <2>4. PICK to \in Nodes \ {n} : to = p.relays[i].requester
    <3>1. p.relays[i] \in RelaysOf(n)
        BY <2>1
    <3> QED BY <3>1 DEF RelaysOf
  <2>5. r \in Seq(RelaysOf(n)) /\ Len(r) = Len(p.relays) - 1
      BY <2>1, <2>3, WithoutFacts, Zenon
  <2>6. r \in RelayQueues(n)
      BY <2>1, <2>5, Bounds DEF RelayQueues
  <2>7. PICK x : x = [p EXCEPT !.relays = r]
      BY Zenon
  <2>8. PICK q \in Nat : q = msg.seq
      BY <1>6
  <2>9. PICK t \in Nodes : t = msg.from
      BY <1>6
  <2>10. Quiet(n, p, x)
      BY <1>10, <2>6, <2>7, Zenon DEF Quiet, States
  <2>11. Moves(n, c, p, x) /\ x \in Good(n, c)
      BY <1>6, <1>10, <2>10, QuietMoves, Zenon DEF Moves
  <2>12. Moves(n, c, x, Sent(x, 1))
      BY <1>6, <2>11, MovesBySending, Zenon
  <2>13. Moves(n, c, node[n], x)
      BY <1>6, <1>8, <1>10, <1>11, <2>11, MovesTransitive
  <2>14. Moves(n, c, node[n], Sent(x, 1))
      BY <1>6, <1>8, <2>11, <2>12, <2>13, MovesTransitive, Zenon
  <2>15. PICK out : out = {Message("indirectack", n, to, t, to, q, Piggyback(x.gossip))}
      BY Zenon
  <2>16. out \subseteq Messages(Raised(c, n, Sent(x, 1).inc))
      BY <1>6, <2>11, <2>15, IndirectAckType
  <2>17. Answer(n, msg, Sent(x, 1), out)
    <3>1. x.gossip = p.gossip
        BY <2>10, Zenon DEF Quiet
    <3>2. Out(p) = out
        BY <1>5, <2>2, <2>4, <2>8, <2>9, <2>15, <3>1, ZenonT(30)
    <3> HIDE DEF Out
    <3> QED BY <1>4, <1>5, <1>13, <2>2, <2>3, <2>7, <3>2, ZenonT(30) DEF Reply
  <2> QED BY <1>6, <1>7, <2>14, <2>16, <2>17, AnswerStep, ZenonT(30)
<1> QED BY <1>12, <1>13, Zenon

\* The roster of a node: its member list and itself.
LEMMA RosterType ==
    ASSUME NEW n \in Nodes, NEW c \in Ceilings, NEW s \in Good(n, c), NEW to \in Nodes \ {n}
    PROVE  {Message("roster", n, to, None, n, 0, [s.view EXCEPT ![n] = Alive(s.inc)])}
              \subseteq Messages(Raised(c, n, s.inc))
<1>1. PICK v : v = [s.view EXCEPT ![n] = Alive(s.inc)]
    BY Zenon
<1>2. PICK r : r = Raised(c, n, s.inc)
    OBVIOUS
<1>3. s \in States(n) /\ s.inc \in Nat /\ s.view \in News
    BY StateParts, Zenon DEF Good, Views
<1>4. r[n] = s.inc /\ \A m \in Nodes \ {n} : r[m] = c[m]
    BY <1>2, <1>3, RaisedFacts
<1>5. v \in News
    BY <1>1, <1>3, EntryFacts DEF News, Beliefs
<1>6. v[n].inc = s.inc /\ \A m \in Nodes \ {n} : v[m] = s.view[m]
    BY <1>1, <1>3, EntryFacts DEF News
<1>7. \A m \in Nodes \ {n} : s.view[m].inc <= c[m]
    BY DEF Good
<1>8. v \in NewsWithin(r)
    BY <1>3, <1>4, <1>5, <1>6, <1>7 DEF NewsWithin
<1>9. Message("roster", n, to, None, n, 0, v) \in Messages(r)
    BY <1>8, MessageType, Zenon DEF Kinds
<1> QED BY <1>1, <1>2, <1>9, Zenon

\* handle_join_request: the joiner is learned and told who is there.
LEMMA JoinRequestStep ==
    ASSUME Counting, SwimInv, NEW msg \in net, HandleJoinRequest(msg.to, msg)
    PROVE  StepOk
<1>1. PICK n : n = msg.to
    OBVIOUS
<1>2. PICK m : m = msg.from
    OBVIOUS
<1>3. n \in Nodes /\ m \in Nodes \ {n}
    BY <1>1, <1>2, MessageParts, Zenon
<1>4. PICK s : s = Learn(node[n], m)
    OBVIOUS
<1>5. PICK g : g = IF s.view # node[n].view
                   THEN Enqueue(s.gossip, m, Alive(0), Budget(s.view)) ELSE s.gossip
    OBVIOUS
<1>6. PICK t : t = [s EXCEPT !.gossip = g]
    BY Zenon
<1>7. PICK out : out = {Message("roster", n, m, None, n, 0, [s.view EXCEPT ![n] = Alive(s.inc)])}
    BY Zenon
<1>8. Answer(n, msg, t, out)
    BY <1>1, <1>2, <1>4, <1>5, <1>6, <1>7, ZenonT(30) DEF HandleJoinRequest
<1>9. PICK c \in Ceilings : c = Incs
    BY IncsType
<1>10. node[n] \in Good(n, c)
    BY <1>3, <1>9, Zenon DEF SwimInv
<1>11. Moves(n, c, node[n], s) /\ s \in Good(n, c) /\ s \in States(n)
    BY <1>3, <1>4, <1>10, LearnMoves, Zenon DEF Moves, Good
<1>12. Moves(n, c, s, t)
  <2>1. CASE s.view # node[n].view
    <3>1. Fits(n, c, s, m, Alive(0))
      <4>1. c[m] \in Nat /\ m # n
          BY <1>3 DEF Ceilings
      <4> QED BY <4>1, EntryFacts DEF Fits
    <3>2. PICK b \in Nat : b = Budget(s.view)
        BY <1>3, <1>11, BeliefFits, Zenon
    <3>3. t = [s EXCEPT !.gossip = Enqueue(s.gossip, m, Alive(0), b)]
        BY <1>5, <1>6, <2>1, <3>2, Zenon
    <3> QED BY <1>3, <1>11, <3>1, <3>3, MovesByGossip, Zenon
  <2>2. CASE s.view = node[n].view
    <3>1. t = s
        BY <1>5, <1>6, <1>11, <2>2, Zenon DEF States
    <3> QED BY <1>3, <1>11, <3>1, MovesQuietly, Zenon
  <2> QED BY <2>1, <2>2, Zenon
<1>13. Moves(n, c, node[n], t)
    BY <1>3, <1>10, <1>11, <1>12, MovesTransitive, Zenon
<1>14. t.inc = s.inc
    BY <1>6, <1>11, Zenon DEF States
<1>15. out \subseteq Messages(Raised(c, n, t.inc))
    BY <1>3, <1>7, <1>11, <1>14, RosterType, Zenon
<1> QED BY <1>3, <1>8, <1>9, <1>13, <1>15, AnswerStep, Zenon

\* handle_join_response: the one step that may bring a dead member back.
LEMMA JoinResponseStep ==
    ASSUME Counting, SwimInv, NEW msg \in net, HandleJoinResponse(msg.to, msg)
    PROVE  StepOk
<1>1. PICK n \in Nodes : n = msg.to
    BY MessageParts
<1>2. PICK from \in Nodes : from = msg.from
    BY MessageParts
<1>3. PICK c \in Ceilings : c = Incs
    BY IncsType
<1>4. PICK news \in NewsWithin(c) : news = msg.news
    BY <1>3, MessageParts, Zenon
<1>5. PICK p \in Enumerations(Nodes \ {from}) :
         Answer(n, msg, ApplyRoster(n, node[n], news, Append(p, from)), {})
    BY <1>1, <1>2, <1>4, Zenon DEF HandleJoinResponse
<1>6. PICK o : o = Append(p, from)
    BY Zenon
<1>7. /\ Len(o) \in Nat /\ \A i \in 1..Len(o) : o[i] \in Nodes
      /\ \A i, j \in 1..Len(o) : i # j => o[i] # o[j]
    BY <1>6, RosterOrder
<1>8. PICK s : s = node[n]
    OBVIOUS
<1>9. s \in Good(n, c)
    BY <1>3, <1>8, Zenon DEF SwimInv
<1>10. PICK t : t = ApplyRoster(n, s, news, o)
    OBVIOUS
<1>11. t \in Good(n, c) /\ \A m \in Nodes : Revived(s.view[m], t.view[m])
    BY <1>7, <1>9, <1>10, RosterKeeps, Zenon
<1>12. Answer(n, msg, t, {})
    BY <1>5, <1>6, <1>8, <1>10, Zenon
<1>13. /\ node' = [node EXCEPT ![n] = t] /\ net' = net \ {msg}
       /\ up' = up /\ faults' = faults /\ requests' = requests
    BY <1>12 DEF Answer
<1>14. SwimInv'
  <2>1. t \in Good(n, Incs)
      BY <1>3, <1>11, Zenon
  <2>2. up' \subseteq Nodes /\ faults' \in 0..MaxFaults /\ requests' \in 0..MaxRequests
      BY <1>13 DEF SwimInv
  <2> QED BY <1>13, <2>1, <2>2, NodeStep, Zenon
<1>15. ASSUME NEW k \in Nodes, NEW m \in Nodes PROVE BeliefStep(k, m)
  <2>1. node'[n] = t /\ (k # n => node'[k] = node[k])
      BY <1>13 DEF SwimInv
  <2>2. CASE k # n
      BY <2>1, <2>2, Zenon DEF BeliefStep
  <2>3. CASE k = n
    <3>1. Revived(node[k].view[m], node'[k].view[m])
        BY <1>8, <1>11, <2>1, <2>3, Zenon
    <3>2. msg \in net \ net' /\ msg.kind = "roster" /\ msg.to = k
        BY <1>1, <1>13, <2>3, Zenon DEF HandleJoinResponse
    <3> QED BY <3>1, <3>2, Zenon DEF Revived, Advanced, BeliefStep
  <2> QED BY <2>2, <2>3, Zenon
<1> QED BY <1>14, <1>15, Zenon DEF StepOk

--------------------------------------------------------------------------------
(* The application and the faults *)

\* join: a message without news.
LEMMA JoinStep ==
    ASSUME SwimInv, NEW n \in Nodes, NEW seed \in Nodes, Join(n, seed)
    PROVE  StepOk
<1>1. PICK c \in Ceilings : c = Incs
    BY IncsType
<1>2. NoNews \in NewsWithin(c)
    BY EntryFacts DEF NoNews, NewsWithin, News, Beliefs, Ceilings
<1>3. Message("join", n, seed, None, n, 0, NoNews) \in Messages(c)
    BY <1>2, MessageType, Zenon DEF Join, Kinds
<1>4. /\ net' = net \cup {Message("join", n, seed, None, n, 0, NoNews)}
      /\ node' = node /\ up' = up /\ faults' = faults
      /\ requests < MaxRequests /\ requests' = requests + 1
    BY DEF Join
<1>5. net' \subseteq net \cup Messages(Incs)
    BY <1>1, <1>3, <1>4, Zenon
<1>6. up' \subseteq Nodes /\ faults' \in 0..MaxFaults
    BY <1>4 DEF SwimInv
<1>7. requests' \in 0..MaxRequests
    BY <1>4, Bounds DEF SwimInv
<1> QED BY <1>4, <1>5, <1>6, <1>7, NetStep, Zenon DEF StepOk

\* leave: the node announces its own death at its own incarnation.
LEMMA LeaveStep ==
    ASSUME Counting, SwimInv, NEW n \in Nodes, Leave(n)
    PROVE  StepOk
<1>1. PICK c \in Ceilings : c = Incs
    BY IncsType
<1>2. PICK s : s = node[n]
    OBVIOUS
<1>3. s \in Good(n, c) /\ s \in States(n) /\ s.inc \in Nat
    BY <1>1, <1>2, IncsType, StateParts, Zenon DEF SwimInv
<1>4. PICK e : e = [st |-> "dead", inc |-> s.inc]
    BY Zenon
<1>5. Fits(n, c, s, n, e)
    BY <1>3, <1>4 DEF Fits, Beliefs, Entries, MemberStates
<1>6. PICK b \in Nat : b = Budget(s.view)
    BY <1>3, BeliefFits
<1>7. PICK t : t = [s EXCEPT !.gossip = Enqueue(s.gossip, n, e, b)]
    BY Zenon
<1>8. Moves(n, Incs, node[n], t)
    BY <1>1, <1>2, <1>3, <1>5, <1>7, MovesByGossip, Zenon
<1>9. node' = [node EXCEPT ![n] = t]
  <2>1. node' = [node EXCEPT ![n] = [node[n] EXCEPT !.gossip =
                   Enqueue(@, n, [st |-> "dead", inc |-> node[n].inc], Budget(node[n].view))]]
      BY DEF Leave
  <2> QED BY <1>2, <1>4, <1>6, <1>7, <2>1, Zenon
<1>10. /\ net' = net /\ up' = up /\ faults' = faults
       /\ requests < MaxRequests /\ requests' = requests + 1
    BY DEF Leave
<1>11. up' \subseteq Nodes /\ faults' \in 0..MaxFaults
    BY <1>10 DEF SwimInv
<1>12. requests' \in 0..MaxRequests
    BY <1>10, Bounds DEF SwimInv
<1>13. net' \subseteq net \cup Messages(Raised(Incs, n, t.inc))
    BY <1>10
<1> QED BY <1>8, <1>9, <1>11, <1>12, <1>13, NodeMoves, Zenon DEF StepOk

\* A message is lost or finds nobody, or a node crashes: no node changes.
LEMMA FaultStep ==
    ASSUME SwimInv,
           \/ \E n \in Nodes : Crash(n)
           \/ \E msg \in net : Lose(msg) \/ Undeliverable(msg)
    PROVE  StepOk
<1>1. /\ node' = node /\ net' \subseteq net /\ up' \subseteq up /\ requests' = requests
      /\ \/ faults' = faults
         \/ (faults < MaxFaults /\ faults' = faults + 1)
    BY DEF Crash, Lose, Undeliverable
<1>2. up' \subseteq Nodes /\ requests' \in 0..MaxRequests
    BY <1>1 DEF SwimInv
<1>3. faults' \in 0..MaxFaults
    BY <1>1, Bounds DEF SwimInv
<1>4. net' \subseteq net \cup Messages(Incs)
    BY <1>1
<1> QED BY <1>1, <1>2, <1>3, <1>4, NetStep, Zenon DEF StepOk

\* The transport reports a failed send: the target is probed, now or on demand.
LEMMA SendFailsStep ==
    ASSUME Counting, SwimInv, NEW msg \in net, SendFails(msg)
    PROVE  StepOk
<1>1. PICK n \in Nodes : n = msg.from
    BY MessageParts
<1>2. PICK t \in Nodes \ {n} : t = msg.to
    BY <1>1, MessageParts, Zenon
<1>3. PICK c \in Ceilings : c = Incs
    BY IncsType
<1>4. PICK s : s = node[n]
    OBVIOUS
<1>5. s \in Good(n, c) /\ s \in States(n)
    BY <1>3, <1>4, IncsType, Zenon DEF SwimInv
<1>6. /\ up' = up /\ requests' = requests /\ faults < MaxFaults /\ faults' = faults + 1
    BY Zenon DEF SendFails
<1>7. up' \subseteq Nodes /\ requests' \in 0..MaxRequests
    BY <1>6 DEF SwimInv
<1>8. faults' \in 0..MaxFaults
    BY <1>6, Bounds DEF SwimInv
<1>9. \/ node' = node /\ net' = net \ {msg}
      \/ \E q \in FreeSeq(n) :
            /\ node' = [node EXCEPT ![n] = Pinged(Probe(s, t, q), t)]
            /\ net' = (net \ {msg}) \cup Ping(n, Probe(s, t, q), t, q)
      \/ /\ node' = [node EXCEPT ![n] = [s EXCEPT !.demand =
                                           IF Len(@) < MaxDemand THEN Append(@, t) ELSE @]]
         /\ net' = net \ {msg}
    BY <1>1, <1>2, <1>4, Zenon DEF SendFails
<1>10. CASE node' = node /\ net' = net \ {msg}
    BY <1>7, <1>8, <1>10, NetStep, Zenon DEF StepOk
<1>11. ASSUME NEW q \in FreeSeq(n),
              node' = [node EXCEPT ![n] = Pinged(Probe(s, t, q), t)],
              net' = (net \ {msg}) \cup Ping(n, Probe(s, t, q), t, q)
       PROVE  StepOk
  <2>1. PICK p : p = Probe(s, t, q)
      OBVIOUS
  <2>2. PICK i \in Nat : i = q
      BY FreeSeqType
  <2>3. Moves(n, c, s, p) /\ p \in Good(n, c)
    <3>1. Quiet(n, s, p)
        BY <1>5, <2>1, <2>2, ProbeQuiet, Zenon
    <3> QED BY <1>5, <3>1, QuietMoves, Zenon DEF Moves
  <2>4. Moves(n, c, p, Pinged(p, t))
      BY <2>3, PingedMoves, Zenon
  <2>5. PICK x : x = Pinged(p, t)
      BY Zenon
  <2>6. Moves(n, c, s, x) /\ x \in States(n)
    <3>1. Moves(n, c, s, x)
        BY <1>5, <2>3, <2>4, <2>5, MovesTransitive, Zenon
    <3> QED BY <3>1 DEF Moves, Good
  <2>7. PICK j \in Nat : j = x.inc
      BY <2>6, StateParts
  <2>8. Ping(n, p, t, i) \subseteq Messages(Raised(c, n, j))
    <3>1. Pinged(p, t).inc <= j
        BY <2>5, <2>7
    <3> QED BY <2>3, <3>1, PingType
  <2>9. net' \subseteq net \cup Messages(Raised(Incs, n, x.inc))
      BY <1>3, <1>11, <2>1, <2>2, <2>7, <2>8, ZenonT(30)
  <2>10. node' = [node EXCEPT ![n] = x]
      BY <1>11, <2>1, <2>5, Zenon
  <2>11. Moves(n, Incs, node[n], x)
      BY <1>3, <1>4, <2>6, Zenon
  <2> QED BY <1>7, <1>8, <2>9, <2>10, <2>11, NodeMoves, ZenonT(30) DEF StepOk
<1>12. CASE /\ node' = [node EXCEPT ![n] = [s EXCEPT !.demand =
                                              IF Len(@) < MaxDemand THEN Append(@, t) ELSE @]]
            /\ net' = net \ {msg}
  <2>1. PICK d : d = IF Len(s.demand) < MaxDemand THEN Append(s.demand, t) ELSE s.demand
      BY Zenon
  <2>2. s.demand \in Seq(Nodes \ {n}) /\ Len(s.demand) <= MaxDemand
      BY <1>5, StateParts, Zenon DEF Demands
  <2>3. d \in Demands(n)
    <3>1. CASE Len(s.demand) < MaxDemand
      <4>1. /\ Append(s.demand, t) \in Seq(Nodes \ {n}) /\ Len(s.demand) \in Nat
            /\ Len(Append(s.demand, t)) = Len(s.demand) + 1
          BY <2>2, AppendFacts
      <4> QED BY <2>1, <3>1, <4>1, Bounds DEF Demands
    <3>2. CASE ~(Len(s.demand) < MaxDemand)
        BY <2>1, <2>2, <3>2, Zenon DEF Demands
    <3> QED BY <3>1, <3>2, Zenon
  <2>4. PICK x : x = [s EXCEPT !.demand = d]
      BY Zenon
  <2>5. Quiet(n, s, x)
      BY <1>5, <2>3, <2>4, Zenon DEF Quiet, States
  <2>6. Moves(n, Incs, node[n], x)
      BY <1>3, <1>4, <1>5, <2>5, QuietMoves, ZenonT(30)
  <2>7. node' = [node EXCEPT ![n] = x]
      BY <1>12, <2>1, <2>4, Zenon
  <2>8. net' \subseteq net \cup Messages(Raised(Incs, n, x.inc))
      BY <1>12
  <2> QED BY <1>7, <1>8, <2>6, <2>7, <2>8, NodeMoves, ZenonT(30) DEF StepOk
<1> QED BY <1>9, <1>10, <1>11, <1>12, Zenon

--------------------------------------------------------------------------------
(* The initial state and the steps together *)

\* A record with the right fields is a state.
LEMMA StateRecord ==
    ASSUME NEW n, NEW i \in Nat, NEW v \in Views(n), NEW g \in Gossips, NEW p \in Phases(n),
           NEW tm \in Timers(n), NEW d \in Demands(n), NEW r \in RelayQueues(n),
           NEW o \in Rounds(n), NEW z \in Nat, NEW k \in Clocks
    PROVE  [inc |-> i, view |-> v, gossip |-> g, phase |-> p, timer |-> tm, demand |-> d,
            relays |-> r, round |-> o, size |-> z, next |-> k] \in States(n)
BY DEF States

\* Every node starts settled and nothing is on its way.
LEMMA SwimInit == Init => SwimInv
<1> SUFFICES ASSUME Init PROVE SwimInv
    OBVIOUS
<1>1. /\ node = [n \in Nodes |-> Settled(n)] /\ net = {} /\ up = Nodes
      /\ faults = 0 /\ requests = 0
    BY DEF Init
<1>2. ASSUME NEW n \in Nodes
      PROVE  /\ Settled(n) \in States(n) /\ Settled(n).inc = 0
             /\ \A m \in Nodes : Settled(n).view[m].inc = 0 /\ Settled(n).gossip[m].entry.inc = 0
  <2>1. PICK v : v = [m \in Nodes |-> IF m = n THEN Unknown ELSE Alive(0)]
      BY Zenon
  <2>2. v \in Views(n) /\ \A m \in Nodes : v[m].inc = 0
      BY <2>1, EntryFacts DEF Views, News, Beliefs
  <2>3. PICK g : g = [m \in Nodes |-> NoUpdate]
      BY Zenon
  <2>4. g \in Gossips /\ \A m \in Nodes : g[m].entry.inc = 0
      BY <2>3, EntryFacts, Zenon DEF Gossips
  <2>5. PICK tm : tm = [m \in Nodes |-> NoTimer]
      BY Zenon
  <2>6. tm \in Timers(n)
      BY <2>5 DEF Timers, Ages
  <2>7. Idle \in Phases(n)
      BY DEF Phases
  <2>8. << >> \in Demands(n) /\ << >> \in RelayQueues(n)
      BY Bounds DEF Demands, RelayQueues
  <2>9. PICK k : k = [probe |-> ProbeInterval, reprobe |-> ReprobeInterval,
                      sweep |-> SweepInterval]
      BY Zenon
  <2>10. k \in Clocks
      BY <2>9, Timing DEF Clocks
  <2>11. Settled(n) = [inc |-> 0, view |-> v, gossip |-> g, phase |-> Idle, timer |-> tm,
                       demand |-> << >>, relays |-> << >>, round |-> {}, size |-> 0, next |-> k]
      BY <2>1, <2>3, <2>5, <2>9, ZenonT(30) DEF Settled
  <2>12. {} \in Rounds(n) /\ 0 \in Nat
      BY DEF Rounds
  <2>13. PICK p, e : p = Idle /\ e = << >>
      BY Zenon
  <2>14. p \in Phases(n) /\ e \in Demands(n) /\ e \in RelayQueues(n)
      BY <2>7, <2>8, <2>13, Zenon
  <2>15. Settled(n) = [inc |-> 0, view |-> v, gossip |-> g, phase |-> p, timer |-> tm,
                       demand |-> e, relays |-> e, round |-> {}, size |-> 0, next |-> k]
      BY <2>11, <2>13, Zenon
  <2>16. Settled(n) \in States(n)
    <3>1. [inc |-> 0, view |-> v, gossip |-> g, phase |-> p, timer |-> tm, demand |-> e,
           relays |-> e, round |-> {}, size |-> 0, next |-> k] \in States(n)
        BY <2>2, <2>4, <2>6, <2>10, <2>12, <2>14, StateRecord, ZenonT(30)
    <3> QED BY <2>15, <3>1, Zenon
  <2>17. Settled(n).inc = 0 /\ Settled(n).view = v /\ Settled(n).gossip = g
      BY <2>15
  <2> QED BY <2>2, <2>4, <2>16, <2>17, Zenon
<1>3. \A n \in Nodes : node[n] = Settled(n) /\ Incs[n] = 0
    BY <1>1, <1>2, Zenon DEF Incs
<1>4. \A n \in Nodes : node[n] \in Good(n, Incs)
    BY <1>2, <1>3 DEF Good
<1> QED BY <1>1, <1>4, Bounds DEF SwimInv

\* Every step keeps the invariant, and beliefs advance in it.
LEMMA NextStep == ASSUME Counting, SwimInv, Next PROVE StepOk
<1>1. ASSUME NEW msg \in net, Deliver(msg) PROVE StepOk
    BY <1>1, PingStep, AckStep, PingReqStep, IndirectAckStep, JoinRequestStep,
       JoinResponseStep, Zenon DEF Deliver
<1>2. ASSUME NEW n \in Nodes, Tick(n) \/ Leave(n) \/ Crash(n) PROVE StepOk
    BY <1>2, TickStep, LeaveStep, FaultStep, Zenon
<1>3. ASSUME NEW n \in Nodes, NEW seed \in Nodes, Join(n, seed) PROVE StepOk
    BY <1>3, JoinStep, Zenon
<1>4. ASSUME NEW msg \in net, Lose(msg) \/ SendFails(msg) \/ Undeliverable(msg) PROVE StepOk
    BY <1>4, SendFailsStep, FaultStep
<1> QED BY <1>1, <1>2, <1>3, <1>4, Zenon DEF Next

LEMMA SwimStutter == ASSUME SwimInv, UNCHANGED vars PROVE SwimInv'
<1>1. node' = node /\ net' = net /\ up' = up /\ faults' = faults /\ requests' = requests
    BY DEF vars
<1>2. net' \subseteq net \cup Messages(Incs)
    BY <1>1
<1>3. up' \subseteq Nodes /\ faults' \in 0..MaxFaults /\ requests' \in 0..MaxRequests
    BY <1>1 DEF SwimInv
<1> QED BY <1>1, <1>2, <1>3, NetStep, Zenon

--------------------------------------------------------------------------------
(* Counting. The library is instantiated here, and not extended above, to keep *)
(* its theorems out of the proofs that do not need them.                       *)

INSTANCE FiniteSetTheorems

\* A nonempty set of naturals has a least element.
LEMMA NatLeast ==
    ASSUME NEW S \in SUBSET Nat, S # {}
    PROVE  \E m \in S : \A k \in S : m <= k
<1>1. PICK m \in S : \A k \in S : <<k, m>> \notin OpToRel(<, Nat)
    BY WFMin, NatLessThanWellFounded, Zenon
<1>2. \A k \in S : <<k, m>> \notin OpToRel(<, Nat) => m <= k
    BY DEF OpToRel
<1> QED BY <1>1, <1>2, Zenon

\* So the proofs may count.
LEMMA CountingHolds == Counting
<1>1. ASSUME NEW S \in SUBSET Nodes PROVE Cardinality(S) \in Nat
  <2>1. IsFiniteSet(S)
      BY FewNodes, FS_Subset
  <2> QED BY <2>1, FS_CardinalityType, Zenon
<1>2. ASSUME NEW n \in Nat, NEW S \in SUBSET (0..n) PROVE Cardinality(S) \in Nat
  <2>1. IsFiniteSet(0..n)
      BY FS_Interval
  <2>2. IsFiniteSet(S)
      BY <2>1, FS_Subset, Zenon
  <2> QED BY <2>2, FS_CardinalityType, ZenonT(30)
<1>3. \A S \in SUBSET Nat : S # {} => \E m \in S : \A k \in S : m <= k
    BY NatLeast
<1> QED BY <1>1, <1>2, <1>3, ZenonT(30) DEF Counting

--------------------------------------------------------------------------------
(* The theorems *)

\* The invariant holds in every reachable state.
LEMMA SwimInvariant == Spec => []SwimInv
<1>1. SwimInv /\ [Next]_vars => SwimInv'
    BY NextStep, SwimStutter, CountingHolds, Zenon DEF StepOk
<1> QED BY <1>1, SwimInit, PTL DEF Spec

\* Every reachable state is well formed: views and queued updates hold entries, timers stay
\* within the suspicion timeout, and the demand queue and the relays within their limits.
THEOREM SwimTypeCorrect == Spec => []TypeOK
<1>1. SwimInv => TypeOK
  <2> SUFFICES ASSUME SwimInv PROVE TypeOK
      OBVIOUS
  <2>1. DOMAIN node = Nodes
      BY ZenonT(30) DEF SwimInv
  <2>2. ASSUME NEW n \in Nodes
        PROVE  /\ node[n].inc \in Nat /\ node[n].view \in News
               /\ \A m \in Nodes : /\ node[n].gossip[m].entry \in Entries \cup {Unknown}
                                   /\ node[n].gossip[m].left \in Nat
               /\ node[n].phase.kind \in {"idle", "direct", "indirect"}
               /\ node[n].phase.kind # "idle" => node[n].phase.target \in Nodes
               /\ node[n].timer \in [Nodes -> {NoTimer} \cup 0..SuspicionTimeout]
               /\ node[n].demand \in Seq(Nodes) /\ Len(node[n].demand) <= MaxDemand
               /\ Len(node[n].relays) <= MaxRelays
               /\ node[n].round \subseteq Nodes
    <3>1. PICK s \in States(n) : s = node[n]
        BY IncsType, Zenon
    <3>2. s.inc \in Nat /\ s.view \in News /\ s.timer \in [Nodes -> Ages] /\ s.round \subseteq Nodes
        BY StateParts, Zenon DEF Views, Timers, Rounds
    <3>3. \A m \in Nodes : s.gossip[m].entry \in Beliefs /\ s.gossip[m].left \in Nat
        BY StateParts, Zenon DEF Gossips, Updates
    <3>4. /\ s.phase.kind \in {"idle", "direct", "indirect"}
          /\ s.phase.kind # "idle" => s.phase.target \in Nodes
        BY StateParts, PhaseFacts, Zenon
    <3>5. s.demand \in Seq(Nodes \ {n}) /\ Len(s.demand) <= MaxDemand /\ Len(s.relays) <= MaxRelays
        BY StateParts, Zenon DEF Demands, RelayQueues
    <3>6. s.demand \in Seq(Nodes)
        BY <3>5, SeqWiden, ZenonT(30)
    <3> QED BY <3>1, <3>2, <3>3, <3>4, <3>5, <3>6 DEF Beliefs, Ages
  <2>3. ASSUME NEW msg \in net PROVE msg.from \in Nodes /\ msg.to \in Nodes /\ msg.news \in News
      BY MessageParts, Zenon DEF NewsWithin
  <2>4. up \subseteq Nodes /\ faults \in 0..MaxFaults /\ requests \in 0..MaxRequests
      BY DEF SwimInv
  <2> QED BY <2>1, <2>2, <2>3, <2>4 DEF TypeOK
<1> QED BY <1>1, SwimInvariant, PTL

\* Only a node raises its own incarnation (refute): no member list, queued update or message
\* is ahead of the node that it is about, whatever is lost, reordered or relayed.
THEOREM IncarnationsAreOwn == Spec => []NoFutureIncarnation
<1>1. SwimInv => NoFutureIncarnation
  <2> SUFFICES ASSUME SwimInv, NEW m \in Nodes
               PROVE  /\ \A n \in Nodes : /\ node[n].view[m].inc <= node[m].inc
                                          /\ node[n].gossip[m].entry.inc <= node[m].inc
                      /\ \A msg \in net : msg.news[m].inc <= node[m].inc
      BY DEF NoFutureIncarnation
  <2>1. node[m].inc \in Nat /\ Incs[m] = node[m].inc
      BY IncsType, StateParts, Zenon
  <2>2. ASSUME NEW n \in Nodes
        PROVE  node[n].view[m].inc <= node[m].inc /\ node[n].gossip[m].entry.inc <= node[m].inc
    <3>1. node[n] \in Good(n, Incs)
        BY Zenon DEF SwimInv
    <3>2. CASE n # m
        BY <2>1, <3>1, <3>2, ZenonT(30) DEF Good
    <3>3. CASE n = m
      <4>1. node[n].view[m] = Unknown /\ node[n].gossip[m].entry.inc <= node[m].inc
          BY <3>1, <3>3, BeliefParts, ZenonT(30) DEF Good
      <4> QED BY <2>1, <4>1, EntryFacts
    <3> QED BY <3>2, <3>3, Zenon
  <2>3. ASSUME NEW msg \in net PROVE msg.news[m].inc <= node[m].inc
      BY <2>1, MessageParts, Zenon DEF NewsWithin
  <2> QED BY <2>2, <2>3, ZenonT(30)
<1> QED BY <1>1, SwimInvariant, PTL

\* A node never probes, suspects, times, queues or lists itself (MemberList::apply,
\* apply_membership_update, SwimProbe::step, handle_send_failed).
THEOREM NodesLeaveThemselvesOut == Spec => []NeverAboutSelf
<1>1. SwimInv => NeverAboutSelf
  <2> SUFFICES ASSUME SwimInv, NEW n \in Nodes
               PROVE  /\ node[n].view[n] = Unknown /\ node[n].phase.target # n
                      /\ node[n].timer[n] = NoTimer
                      /\ n \notin Range(node[n].demand) \cup node[n].round
      BY DEF NeverAboutSelf
  <2>1. PICK s \in States(n) : s = node[n]
      BY IncsType, Zenon
  <2>2. s.view[n] = Unknown /\ s.timer[n] = NoTimer /\ n \notin s.round
      BY StateParts, Zenon DEF Views, Timers, Rounds
  <2>3. s.phase.target # n
      BY StateParts, PhaseFacts, Zenon
  <2>4. n \notin Range(s.demand)
    <3>1. s.demand \in Seq(Nodes \ {n})
        BY StateParts, Zenon DEF Demands
    <3>2. \A i \in DOMAIN s.demand : s.demand[i] # n
        BY <3>1
    <3> QED BY <3>2, Zenon DEF Range
  <2> QED BY <2>1, <2>2, <2>3, <2>4
<1> QED BY <1>1, SwimInvariant, PTL

\* What a node believes of another only moves up the merge order, whatever is delivered in
\* whatever order, and only the answer to a join brings a dead member back.
THEOREM BeliefsAdvance == Spec => BeliefsOnlyAdvance
<1>1. SwimInv /\ [Next]_vars => [\A n, m \in Nodes : BeliefStep(n, m)]_vars
    BY NextStep, CountingHolds, Zenon DEF StepOk
<1> QED BY <1>1, SwimInvariant, PTL DEF Spec, BeliefsOnlyAdvance
================================================================================
