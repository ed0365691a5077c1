---------------------------- MODULE RegistryProofs ----------------------------
(* The safety of the cluster name registry for any nodes, names and settings:  *)
(* its clock is ahead of its map, its queue agrees with its map, an entry only *)
(* gives way to a winner, and what is acknowledged was installed.              *)
EXTENDS Registry, FiniteSetTheorems, TLAPS

--------------------------------------------------------------------------------
(* Sets of naturals *)

\* A nonempty set of naturals has a least element.
LEMMA NatLeast ==
    ASSUME NEW S \in SUBSET Nat, S # {}
    PROVE  \E m \in S : \A k \in S : m <= k
<1>1. PICK m \in S : \A k \in S : <<k, m>> \notin OpToRel(<, Nat)
    BY WFMin, NatLessThanWellFounded, Zenon
<1>2. \A k \in S : <<k, m>> \notin OpToRel(<, Nat) => m <= k
    BY DEF OpToRel
<1> QED BY <1>1, <1>2, Zenon

\* A finite set of naturals is bounded.
LEMMA NatBounded ==
    ASSUME NEW T \in SUBSET Nat, IsFiniteSet(T)
    PROVE  \E b \in Nat : \A t \in T : t <= b
<1>1. PICK n \in Nat : ExistsSurjection(1..n, T)
    BY FS_NatSurjection
<1>2. PICK g \in [1..n -> T] : \A t \in T : \E i \in 1..n : g[i] = t
    BY <1>1 DEF ExistsSurjection, Surjection
<1> DEFINE Bounded(k) == \E b \in Nat : \A i \in 1..k : g[i] <= b
           Open == {k \in 0..n : ~Bounded(k)}
<1>3. \A i \in 1..n : g[i] \in Nat
    BY <1>2, Zenon
<1>4. Bounded(0)
    OBVIOUS
<1>5. \A k \in 1..n : Bounded(k - 1) => Bounded(k)
  <2> SUFFICES ASSUME NEW k \in 1..n, Bounded(k - 1) PROVE Bounded(k)
      BY Zenon
  <2>1. PICK b \in Nat : \A i \in 1..(k - 1) : g[i] <= b
      OBVIOUS
  <2>2. g[k] \in Nat /\ \A i \in 1..k : g[i] \in Nat
      BY <1>3
  <2>3. \A i \in 1..k : g[i] <= b + g[k]
      BY <2>1, <2>2
  <2>4. b + g[k] \in Nat
      BY <2>2
  <2> QED BY <2>3, <2>4
<1> HIDE DEF Bounded
<1>6. Open = {}
  <2> SUFFICES ASSUME Open # {} PROVE FALSE
      OBVIOUS
  <2>1. Open \in SUBSET Nat
      OBVIOUS
  <2>2. PICK k \in Open : \A j \in Open : k <= j
      BY <2>1, NatLeast, Zenon
  <2>3. k \in 0..n /\ ~Bounded(k)
      BY <2>2
  <2>4. k # 0
      BY <2>3, <1>4
  <2>5. k \in 1..n /\ k - 1 \in 0..n /\ ~(k <= k - 1)
      BY <2>3, <2>4
  <2>6. Bounded(k - 1)
      BY <2>2, <2>5
  <2> QED BY <1>5, <2>3, <2>5, <2>6
<1>7. Bounded(n)
    BY <1>6
<1> QED BY <1>2, <1>7, Zenon DEF Bounded

\* A nonempty bounded set of naturals has a greatest element.
LEMMA NatGreatest ==
    ASSUME NEW S \in SUBSET Nat, S # {}, NEW b \in Nat, \A s \in S : s <= b
    PROVE  \E m \in S : \A s \in S : s <= m
<1> DEFINE D == {d \in Nat : \E s \in S : d = b - s}
<1>1. D \in SUBSET Nat /\ D # {}
  <2>1. PICK s \in S : TRUE
      BY Zenon
  <2>2. b - s \in Nat
      BY <2>1
  <2> QED BY <2>2, Zenon
<1>2. PICK d \in D : \A k \in D : d <= k
    BY <1>1, NatLeast, Zenon
<1>3. PICK m \in S : d = b - m
    BY <1>2
<1>4. \A s \in S : b - s \in D
    OBVIOUS
<1>5. \A s \in S : s <= m
    BY <1>2, <1>3, <1>4
<1> QED BY <1>5

\* The greater of two.
LEMMA MaxOfTwo ==
    ASSUME NEW a \in Nat, NEW b \in Nat
    PROVE  Max({a, b}) \in {a, b} /\ Max({a, b}) >= a /\ Max({a, b}) >= b
<1>1. \E x \in {a, b} : \A y \in {a, b} : x >= y
    OBVIOUS
<1> QED BY <1>1 DEF Max

--------------------------------------------------------------------------------
(* The operations on one registry *)

\* The clock of a registry is ahead of its entries.
ClockOk(s) == \A x \in Names : s.entries[x] # NoEntry => s.clock > s.entries[x].ts

\* What a registry has queued is what it holds.
QueueOk(s) == \A x \in Names : s.queue[x].left > 0 => s.queue[x].entry = s.entries[x]

Sound(s) == s \in Registries /\ ClockOk(s) /\ QueueOk(s)

\* What a step may do to the entry of a name.
Advances(old, new) == new = old \/ Wins(new, old) \/ (old.dead /\ new = NoEntry)

\* Timestamps are numbers, and no entry is NoEntry.
LEMMA EntryFacts ==
    /\ NoEntry \notin Entries
    /\ \A e \in Entries \cup {NoEntry} : e.ts \in Nat /\ e.gen \in Nat /\ e.node \in Nat
    /\ \A e \in Entries : e.ts > 0 /\ e.gen > 0 /\ Wins(e, NoEntry)
    /\ NoEntry.ts = 0 /\ NoEntry.gen = 0 /\ NoEntry.dead
    /\ NoEntry.addr \in Addrs \cup {NoAddr}
<1>1. /\ NoEntry.ts = 0 /\ NoEntry.gen = 0 /\ NoEntry.node = 0
      /\ NoEntry.addr \in Addrs \cup {NoAddr}
    BY DEF NoEntry
<1>2. NoEntry.dead
    BY Zenon DEF NoEntry
<1>3. \A e \in Entries : e.ts \in Nat \ {0} /\ e.gen \in Nat \ {0} /\ e.node \in Nat
    BY OrderedNodes, Zenon DEF Entries
<1> QED BY <1>1, <1>2, <1>3 DEF Wins

\* transmit_budget is a number.
LEMMA BudgetType == ASSUME NEW size \in Nat PROVE Budget(size) \in Nat
<1> DEFINE K == {k \in 0..size : 2^k < size}
<1>1. IsFiniteSet(0..size)
    BY FS_Interval
<1>2. K \in SUBSET (0..size)
    OBVIOUS
<1>3. Cardinality(K) \in Nat
    BY <1>1, <1>2, FS_Subset, FS_CardinalityType
<1>4. Max({1, Cardinality(K)}) \in Nat
  <2> HIDE DEF K
  <2>1. Max({1, Cardinality(K)}) \in {1, Cardinality(K)}
      BY <1>3, MaxOfTwo
  <2> QED BY <2>1, <1>3
<1>5. \A m \in Nat : Lambda * m \in Nat
    BY Settings
<1> QED BY <1>4, <1>5 DEF Budget

\* The cluster has a size.
LEMMA SizeType == ASSUME NEW s \in Registries PROVE ClusterSize(s) \in Nat
<1>1. s.alive \in SUBSET Nodes
    BY DEF Registries
<1>2. Cardinality(s.alive) \in Nat
    BY <1>1, OrderedNodes, FS_Subset, FS_CardinalityType
<1> QED BY <1>2 DEF ClusterSize

\* The clock after a merge is ahead of what was merged.
LEMMA AheadFacts ==
    ASSUME NEW c \in Nat, NEW T \in SUBSET Nat, IsFiniteSet(T)
    PROVE  /\ Ahead(c, T) \in Nat
           /\ Ahead(c, T) >= c
           /\ \A t \in T : Ahead(c, T) > t
<1> DEFINE D == {c} \cup {t + 1 : t \in T}
<1>1. PICK b \in Nat : \A t \in T : t <= b
    BY NatBounded
<1>2. D \in SUBSET Nat /\ D # {}
    OBVIOUS
<1>3. \A d \in D : d <= b + c + 1
    BY <1>1
<1>4. \E m \in D : \A d \in D : d <= m
  <2> HIDE DEF D
  <2>1. b + c + 1 \in Nat
      OBVIOUS
  <2> QED BY <1>2, <1>3, <2>1, NatGreatest, Zenon
<1>5. \E m \in D : m >= c /\ \A t \in T : m > t
  <2>1. PICK m \in D : \A d \in D : d <= m
      BY <1>4
  <2>2. c <= m /\ \A t \in T : t + 1 <= m
      BY <2>1
  <2>3. m \in Nat
      BY <1>2
  <2> QED BY <2>2, <2>3
<1>6. /\ Ahead(c, T) \in D /\ Ahead(c, T) >= c
      /\ \A t \in T : Ahead(c, T) > t
    BY <1>5, Zenon DEF Ahead
<1> QED BY <1>2, <1>6

\* enqueue
LEMMA EnqueueFacts ==
    ASSUME NEW s \in Registries, NEW X \in SUBSET Names
    PROVE  /\ Enqueue(s, X) \in Registries
           /\ Enqueue(s, X).entries = s.entries
           /\ Enqueue(s, X).clock = s.clock
           /\ Enqueue(s, X).alive = s.alive
           /\ \A x \in X : Enqueue(s, X).queue[x].entry = s.entries[x]
           /\ \A x \in Names \ X : Enqueue(s, X).queue[x] = s.queue[x]
<1>1. Budget(ClusterSize(s)) \in Nat
    BY SizeType, BudgetType
<1> QED BY <1>1, Zenon DEF Enqueue, Registries, Batches

\* Merging keeps a registry sound, its peers, and only lets winners in.
LEMMA MergeFacts ==
    ASSUME NEW s \in Registries, NEW batch \in Batches
    PROVE  LET t == MergeBatch(s, batch)
           IN  /\ t \in Registries
               /\ t.alive = s.alive
               /\ \A x \in Names : t.entries[x] = s.entries[x] \/ Wins(t.entries[x], s.entries[x])
               /\ ClockOk(s) => ClockOk(t)
               /\ QueueOk(s) => QueueOk(t)
<1> DEFINE won == Winners(s, batch)
           T == {batch[x].ts : x \in won}
           u == [s EXCEPT !.entries = [x \in Names |-> IF x \in won THEN batch[x] ELSE @[x]],
                          !.clock = Ahead(@, T)]
           t == Enqueue(u, won)
<1>1. MergeBatch(s, batch) = t
    BY DEF MergeBatch
<1>2. won \in SUBSET Names /\ \A x \in won : batch[x] \in Entries /\ Wins(batch[x], s.entries[x])
    BY DEF Winners, Batches
<1> HIDE DEF won
<1>3. T \in SUBSET Nat /\ IsFiniteSet(T)
  <2>1. \A x \in won : batch[x].ts \in Nat
      BY <1>2, EntryFacts
  <2>2. [x \in won |-> batch[x].ts] \in Surjection(won, T)
      BY DEF Surjection
  <2>3. IsFiniteSet(won)
      BY <1>2, FewNames, FS_Subset
  <2> QED BY <2>1, <2>2, <2>3, FS_Surjection
<1> HIDE DEF T
<1>4. s.clock \in Nat
    BY DEF Registries
<1>5. /\ Ahead(s.clock, T) \in Nat /\ Ahead(s.clock, T) >= s.clock
      /\ \A x \in T : Ahead(s.clock, T) > x
    BY <1>3, <1>4, AheadFacts
<1>6. /\ u \in Registries
      /\ u.clock = Ahead(s.clock, T) /\ u.queue = s.queue /\ u.alive = s.alive
      /\ u.entries = [x \in Names |-> IF x \in won THEN batch[x] ELSE s.entries[x]]
    BY <1>2, <1>5, Zenon DEF Registries, Batches
<1> HIDE DEF u
<1>7. /\ t \in Registries /\ t.entries = u.entries /\ t.clock = u.clock /\ t.alive = u.alive
      /\ \A x \in won : t.queue[x].entry = u.entries[x]
      /\ \A x \in Names \ won : t.queue[x] = u.queue[x]
    BY <1>2, <1>6, EnqueueFacts
<1> HIDE DEF t
<1>8. \A x \in Names : t.entries[x] = s.entries[x] \/ Wins(t.entries[x], s.entries[x])
    BY <1>2, <1>6, <1>7
<1>9. ASSUME ClockOk(s) PROVE ClockOk(t)
  <2> SUFFICES ASSUME NEW x \in Names, t.entries[x] # NoEntry PROVE t.clock > t.entries[x].ts
      BY DEF ClockOk
  <2>1. CASE x \in won
    <3>1. t.entries[x].ts \in T
        BY <2>1, <1>6, <1>7 DEF T
    <3> QED BY <3>1, <1>5, <1>6, <1>7
  <2>2. CASE x \notin won
    <3>1. t.entries[x] = s.entries[x] /\ s.clock > s.entries[x].ts
        BY <2>2, <1>6, <1>7, <1>9 DEF ClockOk
    <3>2. s.entries[x].ts \in Nat
        BY EntryFacts DEF Registries, Batches
    <3> QED BY <3>1, <3>2, <1>4, <1>5, <1>6, <1>7
  <2> QED BY <2>1, <2>2
<1>10. ASSUME QueueOk(s) PROVE QueueOk(t)
  <2> SUFFICES ASSUME NEW x \in Names, t.queue[x].left > 0
               PROVE  t.queue[x].entry = t.entries[x]
      BY DEF QueueOk
  <2>1. CASE x \in won
      BY <2>1, <1>7
  <2>2. CASE x \notin won
      BY <2>2, <1>6, <1>7, <1>10 DEF QueueOk
  <2> QED BY <2>1, <2>2
<1> QED BY <1>1, <1>6, <1>7, <1>8, <1>9, <1>10

\* A local write.
LEMMA PutFacts ==
    ASSUME NEW s, Sound(s), NEW x \in Names, NEW addr \in Addrs \cup {NoAddr}, NEW n \in Nodes,
           NEW dead \in BOOLEAN, NEW ts \in Nat, ts > s.clock
    PROVE  LET t == Put(s, x, addr, n, dead, ts)
           IN  /\ Sound(t)
               /\ t.alive = s.alive
               /\ \A y \in Names : Advances(s.entries[y], t.entries[y])
<1> DEFINE e == [addr |-> addr, node |-> n, ts |-> ts, gen |-> s.entries[x].gen + 1,
                 dead |-> dead]
           u == [s EXCEPT !.clock = ts]
           t == MergeBatch(u, Only(x, e))
<1>1. t = Put(s, x, addr, n, dead, ts)
    BY DEF Put
<1>2. s \in Registries /\ s.clock \in Nat /\ s.entries \in Batches
    BY DEF Sound, Registries
<1>3. s.entries[x].gen \in Nat
    BY <1>2, EntryFacts DEF Batches
<1>4. e \in Entries
    BY <1>2, <1>3 DEF Entries
<1> HIDE DEF e
<1>5. Only(x, e) \in Batches
    BY <1>4 DEF Only, NoBatch, Batches
<1>6. /\ u \in Registries
      /\ u.entries = s.entries /\ u.queue = s.queue /\ u.alive = s.alive /\ u.clock = ts
    BY <1>2 DEF Registries
<1> HIDE DEF u
<1>7. ClockOk(u) /\ QueueOk(u)
  <2>1. ClockOk(u)
    <3> SUFFICES ASSUME NEW y \in Names, u.entries[y] # NoEntry
                 PROVE  u.clock > u.entries[y].ts
        BY DEF ClockOk
    <3>1. s.entries[y].ts \in Nat
        BY <1>2, EntryFacts DEF Batches
    <3>2. s.clock > s.entries[y].ts
        BY <1>6 DEF Sound, ClockOk
    <3> QED BY <3>1, <3>2, <1>2, <1>6
  <2>2. QueueOk(u)
      BY <1>6 DEF Sound, QueueOk
  <2> QED BY <2>1, <2>2
<1>8. /\ t \in Registries /\ t.alive = u.alive /\ ClockOk(t) /\ QueueOk(t)
      /\ \A y \in Names : t.entries[y] = u.entries[y] \/ Wins(t.entries[y], u.entries[y])
    BY <1>5, <1>6, <1>7, MergeFacts
<1> HIDE DEF t
<1> QED BY <1>1, <1>6, <1>8 DEF Sound, Advances

\* A merge, of gossip or of the tombstones of a dead node.
LEMMA MergeSound ==
    ASSUME NEW s, Sound(s), NEW batch \in Batches
    PROVE  LET t == MergeBatch(s, batch)
           IN  /\ Sound(t)
               /\ t.alive = s.alive
               /\ \A y \in Names : Advances(s.entries[y], t.entries[y])
BY MergeFacts DEF Sound, Advances

\* gc_tick
LEMMA GcFacts ==
    ASSUME NEW s, Sound(s)
    PROVE  LET t == GcTick(s)
           IN  /\ Sound(t)
               /\ t.alive = s.alive
               /\ \A y \in Names : Advances(s.entries[y], t.entries[y])
               /\ Reaped(s) \subseteq Names
<1> DEFINE t == GcTick(s)
<1>1. s \in Registries /\ s.entries \in Batches
    BY DEF Sound, Registries
<1>2. /\ Reaped(s) \subseteq Names
      /\ \A x \in Reaped(s) : x \notin Pending(s) /\ s.entries[x].dead
    BY DEF Reaped, Expired, Held
<1>3. (s.ticks + 1) % GcInterval \in 0..GcInterval - 1
  <2>1. s.ticks + 1 \in Nat /\ GcInterval \in Nat \ {0}
      BY <1>1, Settings DEF Registries
  <2> QED BY <2>1
<1>4. /\ t \in Registries /\ t.alive = s.alive /\ t.clock = s.clock /\ t.queue = s.queue
      /\ t.entries = [x \in Names |-> IF x \in Reaped(s) THEN NoEntry ELSE s.entries[x]]
    BY <1>1, <1>2, <1>3, Zenon DEF GcTick, Registries, Batches
<1>8. t = GcTick(s)
    OBVIOUS
<1> HIDE DEF t
<1>5. ClockOk(t)
    BY <1>4 DEF Sound, ClockOk
<1>6. QueueOk(t)
    BY <1>2, <1>4 DEF Sound, QueueOk, Pending
<1>7. \A y \in Names : Advances(s.entries[y], t.entries[y])
    BY <1>2, <1>4 DEF Advances
<1> QED BY <1>2, <1>4, <1>5, <1>6, <1>7, <1>8 DEF Sound

\* take_pending
LEMMA TakeFacts ==
    ASSUME NEW s, Sound(s)
    PROVE  LET t == TakePending(s)
           IN  Sound(t) /\ t.alive = s.alive /\ t.entries = s.entries
<1> DEFINE t == TakePending(s)
<1>1. s \in Registries /\ s.queue \in [Names -> [entry : Entries \cup {NoEntry}, left : Nat]]
    BY DEF Sound, Registries
<1>2. (s.cursor + 1) % CursorPeriod \in 0..CursorPeriod - 1
  <2>1. s.cursor + 1 \in Nat /\ CursorPeriod \in Nat \ {0}
      BY <1>1, Period DEF Registries
  <2> QED BY <2>1
<1>3. \A x \in Names :
          /\ Shorter(s.queue[x]) \in [entry : Entries \cup {NoEntry}, left : Nat]
          /\ Shorter(s.queue[x]).left > 0 =>
                s.queue[x].left > 0 /\ Shorter(s.queue[x]).entry = s.queue[x].entry
  <2> SUFFICES ASSUME NEW x \in Names
               PROVE  LET q == Shorter(s.queue[x])
                      IN  /\ q \in [entry : Entries \cup {NoEntry}, left : Nat]
                          /\ q.left > 0 => s.queue[x].left > 0 /\ q.entry = s.queue[x].entry
      OBVIOUS
  <2>1. s.queue[x] \in [entry : Entries \cup {NoEntry}, left : Nat]
      BY <1>1
  <2> QED BY <2>1 DEF Shorter
<1>4. /\ t \in Registries /\ t.alive = s.alive /\ t.entries = s.entries /\ t.clock = s.clock
      /\ t.queue = [x \in Names |-> Shorter(s.queue[x])]
    BY <1>1, <1>2, <1>3, Zenon DEF TakePending, Registries
<1>5. t = TakePending(s)
    OBVIOUS
<1> HIDE DEF t
<1>6. ClockOk(t) /\ QueueOk(t)
    BY <1>3, <1>4 DEF Sound, ClockOk, QueueOk
<1> QED BY <1>4, <1>5, <1>6 DEF Sound

--------------------------------------------------------------------------------
(* The cluster *)

RegsOk == /\ reg \in [Nodes -> Registries]
          /\ \A n \in Nodes : n \notin reg[n].alive /\ Sound(reg[n])

RestOk == /\ acked \subseteq Names \X Entries \X Nodes
          /\ collected \subseteq Nodes \X Names
          /\ installed \subseteq Nodes \X Names \X Entries

CountsOk == /\ writes \in 0..MaxWrites /\ pushes \in 0..MaxPushes
            /\ deaths \in 0..MaxDeaths /\ faults \in 0..MaxFaults

\* What the acknowledgement in a message says.
ReceiptOk(msg, inst) ==
    msg.kind = "receipt" => \A x \in Live(msg.batch) : <<msg.from, x, msg.batch[x]>> \in inst

\* The inductive invariant is the conjunction of the four.
Inv == TypeOK /\ ClockAhead /\ PendingIsCurrent /\ AcknowledgedWasInstalled

Parts == /\ RegsOk /\ RestOk /\ CountsOk /\ net \subseteq Messages
         /\ \A ack \in acked : <<ack[3], ack[1], ack[2]>> \in installed
         /\ \A msg \in net : ReceiptOk(msg, installed)

\* The invariant, registry by registry.
LEMMA InvParts == Inv <=> Parts
<1>1. TypeOK <=> /\ reg \in [Nodes -> Registries] /\ \A n \in Nodes : n \notin reg[n].alive
                 /\ RestOk /\ CountsOk /\ net \subseteq Messages
    BY DEF TypeOK, RestOk, CountsOk
<1>2. ClockAhead <=> \A n \in Nodes : ClockOk(reg[n])
    BY DEF ClockAhead, ClockOk
<1>3. PendingIsCurrent <=> \A n \in Nodes : QueueOk(reg[n])
    BY DEF PendingIsCurrent, QueueOk
<1>4. AcknowledgedWasInstalled <=>
          /\ \A ack \in acked : <<ack[3], ack[1], ack[2]>> \in installed
          /\ \A msg \in net : ReceiptOk(msg, installed)
    BY DEF AcknowledgedWasInstalled, ReceiptOk
<1>5. RegsOk <=> /\ reg \in [Nodes -> Registries] /\ \A n \in Nodes : n \notin reg[n].alive
                 /\ \A n \in Nodes : ClockOk(reg[n]) /\ QueueOk(reg[n])
    BY DEF RegsOk, Sound
<1> QED BY <1>1, <1>2, <1>3, <1>4, <1>5 DEF Inv, Parts

\* A live entry of a batch is an entry.
LEMMA LiveFacts ==
    ASSUME NEW b \in Batches, NEW x \in Live(b)
    PROVE  x \in Names /\ b[x] \in Entries
<1>1. x \in Names /\ ~b[x].dead /\ b[x] \in Entries \cup {NoEntry}
    BY DEF Live, Batches
<1>2. b[x] # NoEntry
    BY <1>1, EntryFacts, Zenon
<1> QED BY <1>1, <1>2

\* Every step of one registry: what changes and what is remembered of it.
LEMMA BecomeFacts ==
    ASSUME RegsOk, RestOk, NEW n \in Nodes, NEW t, Sound(t), n \notin t.alive, Become(n, t)
    PROVE  /\ RegsOk'
           /\ installed \subseteq installed'
           /\ installed' \subseteq Nodes \X Names \X Entries
           /\ \A x \in Live(t.entries) : <<n, x, t.entries[x]>> \in installed'
           /\ \A m \in Nodes \ {n} : reg'[m] = reg[m]
           /\ reg'[n] = t
<1>1. t \in Registries /\ t.entries \in Batches
    BY DEF Sound, Registries
<1>2. reg' \in [Nodes -> Registries] /\ reg'[n] = t /\ \A m \in Nodes \ {n} : reg'[m] = reg[m]
    BY <1>1 DEF Become, RegsOk
<1>3. RegsOk'
    BY <1>2 DEF RegsOk, Sound, ClockOk, QueueOk
<1>4. \A x \in Live(t.entries) : <<n, x, t.entries[x]>> \in Nodes \X Names \X Entries
    BY <1>1, LiveFacts
<1>5. installed' = installed \cup {<<n, x, t.entries[x]>> : x \in Live(t.entries)}
    BY DEF Become
<1> QED BY <1>2, <1>3, <1>4, <1>5 DEF RestOk

\* What a step may do to the entries, as EntriesOnlyAdvance has it.
EntryStep ==
    \A n \in Nodes, x \in Names :
        \/ reg'[n].entries[x] = reg[n].entries[x]
        \/ Wins(reg'[n].entries[x], reg[n].entries[x])
        \/ reg[n].entries[x].dead /\ reg'[n].entries[x] = NoEntry
        \/ reg'[n] = Empty

\* A step of one registry that advances its entries, with no acknowledgements but known ones.
LEMMA RegistryStep ==
    ASSUME Inv, NEW n \in Nodes, NEW t, Sound(t), t.alive \subseteq Nodes \ {n}, Become(n, t),
           \A x \in Names : Advances(reg[n].entries[x], t.entries[x]),
           CountsOk', net' \subseteq Messages, acked' = acked,
           collected' \subseteq Nodes \X Names,
           \A msg \in net' \ net : ReceiptOk(msg, installed')
    PROVE  Inv' /\ EntryStep
<1>1. /\ RegsOk /\ RestOk /\ \A ack \in acked : <<ack[3], ack[1], ack[2]>> \in installed
      /\ \A msg \in net : ReceiptOk(msg, installed)
    BY InvParts DEF Parts
<1>2. n \notin t.alive
    OBVIOUS
<1>3. /\ RegsOk' /\ installed \subseteq installed'
      /\ installed' \subseteq Nodes \X Names \X Entries
      /\ \A m \in Nodes \ {n} : reg'[m] = reg[m]
      /\ reg'[n] = t
    BY <1>1, <1>2, BecomeFacts
<1>4. RestOk'
    BY <1>1, <1>3 DEF RestOk
<1>5. \A ack \in acked' : <<ack[3], ack[1], ack[2]>> \in installed'
    BY <1>1, <1>3, Zenon
<1>6. \A msg \in net' : ReceiptOk(msg, installed')
    BY <1>1, <1>3 DEF ReceiptOk
<1>7. Inv'
  <2>1. Parts'
      BY <1>3, <1>4, <1>5, <1>6 DEF Parts, ReceiptOk, Live
  <2>2. (Inv <=> Parts)'
      BY InvParts, PTL
  <2> QED BY <2>1, <2>2
<1>8. EntryStep
    BY <1>3 DEF EntryStep, Advances
<1> QED BY <1>7, <1>8

--------------------------------------------------------------------------------
(* The steps *)

\* What every step starts from.
LEMMA InvFacts ==
    ASSUME Inv, NEW n \in Nodes
    PROVE  /\ Sound(reg[n]) /\ reg[n] \in Registries /\ reg[n].entries \in Batches
           /\ reg[n].clock \in Nat /\ reg[n].alive \subseteq Nodes \ {n}
           /\ CountsOk /\ RestOk /\ net \subseteq Messages
<1>1. RegsOk /\ CountsOk /\ RestOk /\ net \subseteq Messages
    BY InvParts DEF Parts
<1>2. Sound(reg[n]) /\ n \notin reg[n].alive /\ reg[n] \in Registries
    BY <1>1 DEF RegsOk
<1> QED BY <1>1, <1>2 DEF Registries

\* A write of the application.
LEMMA WriteStep ==
    ASSUME Inv, NEW n \in Nodes, NEW x \in Names, NEW addr \in Addrs \cup {NoAddr},
           NEW dead \in BOOLEAN, NEW ts \in Nat, ts > reg[n].clock,
           Asked, Become(n, Put(reg[n], x, addr, n, dead, ts)),
           UNCHANGED <<net, acked, collected, pushes, deaths, faults>>
    PROVE  Inv' /\ EntryStep
<1> DEFINE t == Put(reg[n], x, addr, n, dead, ts)
<1>1. /\ Sound(reg[n]) /\ reg[n].alive \subseteq Nodes \ {n}
      /\ CountsOk /\ RestOk /\ net \subseteq Messages
    BY InvFacts
<1>2. /\ Sound(t) /\ t.alive = reg[n].alive
      /\ \A y \in Names : Advances(reg[n].entries[y], t.entries[y])
    BY <1>1, PutFacts
<1> HIDE DEF t
<1>3. CountsOk'
    BY <1>1, Bounds DEF CountsOk, Asked
<1>4. net' \subseteq Messages /\ collected' \subseteq Nodes \X Names /\ acked' = acked
    BY <1>1 DEF RestOk
<1>5. Become(n, t)
    BY DEF t
<1>6. \A msg \in net' \ net : ReceiptOk(msg, installed')
    OBVIOUS
<1> QED BY <1>1, <1>2, <1>3, <1>4, <1>5, <1>6, RegistryStep

\* RegisterName and RegisterNameAt.
LEMMA RegisterSteps ==
    ASSUME Inv, NEW n \in Nodes, NEW x \in Names, NEW addr \in Addrs,
           RegisterName(n, x, addr) \/ RegisterNameAt(n, x, addr)
    PROVE  Inv' /\ EntryStep
<1>1. reg[n].clock \in Nat
    BY InvFacts
<1>2. CASE RegisterName(n, x, addr)
  <2>1. reg[n].clock + 1 \in Nat /\ reg[n].clock + 1 > reg[n].clock
      BY <1>1
  <2> QED BY <1>2, <2>1, WriteStep, Zenon DEF RegisterName
<1>3. CASE RegisterNameAt(n, x, addr)
  <2> DEFINE ts == Max({reg[n].clock + 1, Epoch})
  <2>1. Epoch \in Nat /\ reg[n].clock + 1 \in Nat
      BY <1>1, Settings
  <2>2. ts \in {reg[n].clock + 1, Epoch} /\ ts >= reg[n].clock + 1
      BY <2>1, MaxOfTwo
  <2>3. ts \in Nat /\ ts > reg[n].clock
      BY <1>1, <2>1, <2>2
  <2>4. /\ Asked /\ Become(n, Put(reg[n], x, addr, n, FALSE, ts))
        /\ UNCHANGED <<net, acked, collected, pushes, deaths, faults>>
      BY <1>3, Zenon DEF RegisterNameAt
  <2> HIDE DEF ts
  <2> QED BY <2>3, <2>4, WriteStep, Zenon
<1> QED BY <1>2, <1>3

\* UnregisterName
LEMMA UnregisterStep ==
    ASSUME Inv, NEW n \in Nodes, NEW x \in Names, UnregisterName(n, x)
    PROVE  Inv' /\ EntryStep
<1>1. reg[n].clock \in Nat /\ reg[n].entries \in Batches
    BY InvFacts
<1>2. reg[n].clock + 1 \in Nat /\ reg[n].clock + 1 > reg[n].clock
    BY <1>1
<1>3. reg[n].entries[x].addr \in Addrs \cup {NoAddr}
  <2>1. reg[n].entries[x] \in Entries \cup {NoEntry}
      BY <1>1 DEF Batches
  <2> QED BY <2>1, EntryFacts DEF Entries
<1> QED BY <1>2, <1>3, WriteStep, Zenon DEF UnregisterName

\* A step that changes no registry.
LEMMA QuietStep ==
    ASSUME Inv, UNCHANGED <<reg, collected, installed>>, CountsOk', net' \subseteq Messages,
           acked' \subseteq Names \X Entries \X Nodes,
           \A ack \in acked' \ acked : <<ack[3], ack[1], ack[2]>> \in installed,
           \A msg \in net' \ net : ReceiptOk(msg, installed)
    PROVE  Inv' /\ EntryStep
<1>1. Parts
    BY InvParts
<1>2. RegsOk' /\ RestOk'
    BY <1>1 DEF Parts, RegsOk, RestOk, Sound, ClockOk, QueueOk
<1>3. Parts'
    BY <1>1, <1>2 DEF Parts, ReceiptOk, Live
<1>4. (Inv <=> Parts)'
    BY InvParts, PTL
<1>5. EntryStep
    BY DEF EntryStep
<1> QED BY <1>3, <1>4, <1>5

\* A batch of one entry.
LEMMA OnlyFacts ==
    ASSUME NEW x \in Names, NEW e \in Entries
    PROVE  Only(x, e) \in Batches /\ Live(Only(x, e)) \subseteq {x} /\ Only(x, e)[x] = e
<1>1. Only(x, e) \in Batches /\ Only(x, e)[x] = e
      /\ \A y \in Names \ {x} : Only(x, e)[y] = NoEntry
    BY DEF Only, NoBatch, Batches
<1>2. \A y \in Names \ {x} : Only(x, e)[y].dead
    BY <1>1, EntryFacts, Zenon
<1> QED BY <1>1, <1>2 DEF Live

\* DisseminateNameTo
LEMMA PushStep ==
    ASSUME Inv, NEW n \in Nodes, NEW x \in Names, NEW peers \in SUBSET Nodes,
           DisseminateNameTo(n, x, peers)
    PROVE  Inv' /\ EntryStep
<1> DEFINE e == reg[n].entries[x]
<1>1. reg[n].entries \in Batches /\ CountsOk /\ RestOk /\ net \subseteq Messages
    BY InvFacts
<1>2. e \in Entries
  <2>1. x \in Live(reg[n].entries)
      BY DEF DisseminateNameTo, Live
  <2> QED BY <1>1, <2>1, LiveFacts
<1> HIDE DEF e
<1>3. /\ net' = net \cup {Gossip("request", n, p, Only(x, e)) : p \in peers}
      /\ UNCHANGED <<reg, acked, collected, installed, writes, deaths, faults>>
      /\ pushes < MaxPushes /\ pushes' = pushes + 1
    BY DEF DisseminateNameTo, e
<1>4. \A p \in peers : /\ Gossip("request", n, p, Only(x, e)) \in Messages
                       /\ Gossip("request", n, p, Only(x, e)).kind = "request"
    BY <1>2, OnlyFacts DEF Gossip, Messages
<1>5. net' \subseteq Messages /\ \A msg \in net' \ net : ReceiptOk(msg, installed)
    BY <1>1, <1>3, <1>4 DEF ReceiptOk
<1>6. CountsOk'
    BY <1>1, <1>3, Bounds DEF CountsOk
<1>7. /\ acked' = acked /\ acked \subseteq Names \X Entries \X Nodes
      /\ UNCHANGED <<reg, collected, installed>>
    BY <1>1, <1>3 DEF RestOk
<1> QED BY <1>5, <1>6, <1>7, QuietStep

\* A tick: garbage collection, and gossip to one peer.
LEMMA TickStep ==
    ASSUME Inv, NEW n \in Nodes, Tick(n)
    PROVE  Inv' /\ EntryStep
<1> DEFINE s == GcTick(reg[n])
           t == TakePending(s)
<1>1. /\ Sound(reg[n]) /\ reg[n].alive \subseteq Nodes \ {n}
      /\ CountsOk /\ RestOk /\ net \subseteq Messages
    BY InvFacts
<1>2. /\ Sound(s) /\ s.alive = reg[n].alive /\ Reaped(reg[n]) \subseteq Names
      /\ \A y \in Names : Advances(reg[n].entries[y], s.entries[y])
    BY <1>1, GcFacts
<1>3. /\ collected' = collected \cup ({n} \X Reaped(reg[n]))
      /\ UNCHANGED <<acked, writes, pushes, deaths, faults>>
      /\ \/ Become(n, s) /\ UNCHANGED net
         \/ /\ Become(n, t)
            /\ \E p \in s.alive :
                  net' = net \cup {Gossip("gossip", n, p, [x \in Names |-> s.queue[x].entry])}
    BY DEF Tick
<1> HIDE DEF s
<1>4. Sound(t) /\ t.alive = s.alive /\ t.entries = s.entries
    BY <1>2, TakeFacts
<1> HIDE DEF t
<1>5. CountsOk' /\ collected' \subseteq Nodes \X Names /\ acked' = acked
    BY <1>1, <1>2, <1>3 DEF CountsOk, RestOk
<1>6. CASE Become(n, s) /\ UNCHANGED net
  <2>1. net' \subseteq Messages /\ \A msg \in net' \ net : ReceiptOk(msg, installed')
      BY <1>1, <1>6
  <2> QED BY <1>1, <1>2, <1>5, <1>6, <2>1, RegistryStep
<1>7. ASSUME Become(n, t), NEW p \in s.alive,
             net' = net \cup {Gossip("gossip", n, p, [x \in Names |-> s.queue[x].entry])}
      PROVE  Inv' /\ EntryStep
  <2>1. [x \in Names |-> s.queue[x].entry] \in Batches
      BY <1>2 DEF Sound, Registries, Batches
  <2>2. p \in Nodes
      BY <1>1, <1>2
  <2>3. /\ Gossip("gossip", n, p, [x \in Names |-> s.queue[x].entry]) \in Messages
        /\ Gossip("gossip", n, p, [x \in Names |-> s.queue[x].entry]).kind = "gossip"
      BY <2>1, <2>2 DEF Gossip, Messages
  <2>4. net' \subseteq Messages /\ \A msg \in net' \ net : ReceiptOk(msg, installed')
      BY <1>1, <1>7, <2>3 DEF ReceiptOk
  <2> QED BY <1>1, <1>2, <1>4, <1>5, <1>7, <2>4, RegistryStep
<1> QED BY <1>3, <1>6, <1>7

\* A message arrives: a batch, a batch to be acknowledged, or an acknowledgement.
LEMMA DeliverStep ==
    ASSUME Inv, NEW msg \in net, Deliver(msg)
    PROVE  Inv' /\ EntryStep
<1>1. msg \in Messages
    BY InvParts DEF Parts
<1>2. /\ msg.from \in Nodes /\ msg.to \in Nodes /\ msg.batch \in Batches
    BY <1>1 DEF Messages
<1> DEFINE n == msg.to
           t == MergeBatch(reg[n], msg.batch)
<1>3. /\ Sound(reg[n]) /\ reg[n].alive \subseteq Nodes \ {n}
      /\ CountsOk /\ RestOk /\ net \subseteq Messages
    BY <1>2, InvFacts
<1>4. /\ Sound(t) /\ t.alive = reg[n].alive
      /\ \A y \in Names : Advances(reg[n].entries[y], t.entries[y])
    BY <1>2, <1>3, MergeSound
<1>5. UNCHANGED <<collected, writes, pushes, deaths, faults>>
    BY DEF Deliver
<1>6. CountsOk' /\ collected' \subseteq Nodes \X Names
    BY <1>3, <1>5 DEF CountsOk, RestOk
<1>7. CASE HandleGossip(msg)
  <2>1. Become(n, t) /\ net' = net \ {msg} /\ acked' = acked
      BY <1>7 DEF HandleGossip
  <2> HIDE DEF t
  <2>2. net' \subseteq Messages /\ \A other \in net' \ net : ReceiptOk(other, installed')
      BY <1>3, <2>1
  <2> QED BY <1>2, <1>3, <1>4, <1>6, <2>1, <2>2, RegistryStep
<1>8. CASE HandleRequest(msg)
  <2> DEFINE taken == {x \in Live(msg.batch) : t.entries[x] = msg.batch[x]}
             receipt(x) == Gossip("receipt", n, msg.batch[x].node, Only(x, msg.batch[x]))
  <2>1. /\ Become(n, t) /\ acked' = acked
        /\ net' = (net \ {msg}) \cup {receipt(x) : x \in taken}
      BY <1>8 DEF HandleRequest
  <2> HIDE DEF t
  <2>2. \A x \in Live(t.entries) : <<n, x, t.entries[x]>> \in installed'
    <3>1. RegsOk /\ RestOk
        BY InvParts DEF Parts
    <3> QED BY <1>2, <1>3, <1>4, <2>1, <3>1, BecomeFacts
  <2>3. ASSUME NEW x \in taken
        PROVE  receipt(x) \in Messages /\ ReceiptOk(receipt(x), installed')
    <3>1. x \in Names /\ msg.batch[x] \in Entries
        BY <1>2, LiveFacts
    <3>2. msg.batch[x].node \in Nodes
        BY <3>1 DEF Entries
    <3>3. /\ Only(x, msg.batch[x]) \in Batches /\ Live(Only(x, msg.batch[x])) \subseteq {x}
          /\ Only(x, msg.batch[x])[x] = msg.batch[x]
        BY <3>1, OnlyFacts
    <3>4. /\ receipt(x) \in Messages /\ receipt(x).from = n
          /\ receipt(x).batch = Only(x, msg.batch[x])
        BY <1>2, <3>2, <3>3 DEF Gossip, Messages
    <3>5. x \in Live(t.entries) /\ t.entries[x] = msg.batch[x]
        BY <3>1 DEF Live
    <3>6. <<n, x, msg.batch[x]>> \in installed'
        BY <2>2, <3>5
    <3> HIDE DEF receipt
    <3> QED BY <3>3, <3>4, <3>6 DEF ReceiptOk
  <2> HIDE DEF receipt, taken
  <2>4. net' \subseteq Messages /\ \A other \in net' \ net : ReceiptOk(other, installed')
      BY <1>3, <2>1, <2>3
  <2> QED BY <1>2, <1>3, <1>4, <1>6, <2>1, <2>4, RegistryStep
<1>9. CASE HandleReceipt(msg)
  <2>1. /\ msg.kind = "receipt" /\ net' = net \ {msg} /\ UNCHANGED <<reg, installed>>
        /\ \A ack \in acked' \ acked :
              \E x \in Live(msg.batch) : ack = <<x, msg.batch[x], msg.from>>
        /\ acked \subseteq acked'
      BY <1>9 DEF HandleReceipt
  <2>2. \A x \in Live(msg.batch) : <<msg.from, x, msg.batch[x]>> \in installed
      BY <2>1, InvParts DEF Parts, ReceiptOk
  <2>3. \A x \in Live(msg.batch) : x \in Names /\ msg.batch[x] \in Entries
      BY <1>2, LiveFacts
  <2>4. \A ack \in acked' \ acked : /\ <<ack[3], ack[1], ack[2]>> \in installed
                                    /\ ack \in Names \X Entries \X Nodes
      BY <1>2, <2>1, <2>2, <2>3
  <2>5. acked' \subseteq Names \X Entries \X Nodes
      BY <1>3, <2>4, Zenon DEF RestOk
  <2>6. net' \subseteq Messages /\ \A other \in net' \ net : ReceiptOk(other, installed)
      BY <1>3, <2>1
  <2>7. UNCHANGED <<reg, collected, installed>>
      BY <1>5, <2>1
  <2> QED BY <1>6, <2>4, <2>5, <2>6, <2>7, QuietStep
<1> QED BY <1>7, <1>8, <1>9 DEF Deliver

\* A peer is back.
LEMMA AliveStep ==
    ASSUME Inv, NEW n \in Nodes, NEW m \in Nodes, MemberAlive(n, m)
    PROVE  Inv' /\ EntryStep
<1> DEFINE s == [reg[n] EXCEPT !.alive = @ \cup {m}]
           t == Enqueue(s, Held(s))
<1>1. /\ Sound(reg[n]) /\ reg[n] \in Registries /\ reg[n].alive \subseteq Nodes \ {n}
      /\ CountsOk /\ RestOk /\ net \subseteq Messages
    BY InvFacts
<1>2. /\ Become(n, t) /\ m # n
      /\ UNCHANGED <<net, acked, collected, writes, pushes, deaths, faults>>
    BY DEF MemberAlive
<1>3. /\ s \in Registries /\ s.entries = reg[n].entries /\ s.clock = reg[n].clock
      /\ s.queue = reg[n].queue /\ s.alive = reg[n].alive \cup {m}
    BY <1>1 DEF Registries
<1> HIDE DEF s
<1>4. Held(s) \in SUBSET Names
    BY DEF Held
<1>5. /\ t \in Registries /\ t.entries = s.entries /\ t.clock = s.clock /\ t.alive = s.alive
      /\ \A x \in Held(s) : t.queue[x].entry = s.entries[x]
      /\ \A x \in Names \ Held(s) : t.queue[x] = s.queue[x]
    BY <1>3, <1>4, EnqueueFacts
<1> HIDE DEF t
<1>6. Sound(t)
    BY <1>1, <1>3, <1>5 DEF Sound, ClockOk, QueueOk
<1>7. t.alive \subseteq Nodes \ {n}
    BY <1>1, <1>2, <1>3, <1>5
<1>8. \A x \in Names : Advances(reg[n].entries[x], t.entries[x])
    BY <1>3, <1>5 DEF Advances
<1>9. /\ CountsOk' /\ net' \subseteq Messages /\ acked' = acked
      /\ collected' \subseteq Nodes \X Names
      /\ \A msg \in net' \ net : ReceiptOk(msg, installed')
    BY <1>1, <1>2 DEF CountsOk, RestOk
<1> QED BY <1>2, <1>6, <1>7, <1>8, <1>9, RegistryStep

\* The tombstone of an entry is an entry.
LEMMA TombstoneFacts ==
    ASSUME NEW e \in Entries, NEW k \in Nat \ {0}
    PROVE  [e EXCEPT !.ts = k, !.gen = @ + 1, !.dead = TRUE] \in Entries
<1>1. e.gen + 1 \in Nat \ {0}
    BY DEF Entries
<1> DEFINE g == e.gen + 1
<1> HIDE DEF g
<1>2. [e EXCEPT !.ts = k, !.gen = g, !.dead = TRUE] \in Entries
    BY <1>1, Zenon DEF Entries, g
<1> QED BY <1>2 DEF g

\* A peer is declared dead and its names are tombstoned.
LEMMA DeadStep ==
    ASSUME Inv, NEW n \in Nodes, NEW m \in Nodes, MemberDead(n, m)
    PROVE  Inv' /\ EntryStep
<1> DEFINE s == [reg[n] EXCEPT !.alive = @ \ {m}]
<1>1. /\ Sound(reg[n]) /\ reg[n] \in Registries /\ reg[n].alive \subseteq Nodes \ {n}
      /\ CountsOk /\ RestOk /\ net \subseteq Messages
    BY InvFacts
<1>2. PICK order \in Orders(Owned(s, m)) : Become(n, MergeBatch(s, Tombstones(s, m, order)))
    BY DEF MemberDead
<1>3. /\ deaths < MaxDeaths /\ deaths' = deaths + 1
      /\ UNCHANGED <<net, acked, collected, writes, pushes, faults>>
    BY DEF MemberDead
<1>4. /\ s \in Registries /\ s.entries = reg[n].entries /\ s.clock = reg[n].clock
      /\ s.queue = reg[n].queue /\ s.alive = reg[n].alive \ {m}
    BY <1>1 DEF Registries
<1> HIDE DEF s
<1>5. Sound(s)
    BY <1>1, <1>4 DEF Sound, ClockOk, QueueOk
<1>6. Tombstones(s, m, order) \in Batches
  <2>1. s.clock \in Nat /\ s.entries \in Batches
      BY <1>4 DEF Registries
  <2>2. ASSUME NEW x \in Owned(s, m)
        PROVE  [s.entries[x] EXCEPT !.ts = s.clock + 2 * order[x] - 1, !.gen = @ + 1,
                                    !.dead = TRUE] \in Entries
    <3>1. x \in Names /\ s.entries[x] \in Entries
      <4>1. x \in Live(s.entries)
          BY DEF Owned, Live
      <4> QED BY <2>1, <4>1, LiveFacts
    <3>2. order[x] \in Nat \ {0}
      <4>1. order[x] \in 1..Cardinality(Owned(s, m))
          BY <1>2 DEF Orders
      <4>2. IsFiniteSet(Owned(s, m))
        <5>1. Owned(s, m) \in SUBSET Names
            BY DEF Owned
        <5> QED BY <5>1, FewNames, FS_Subset
      <4>3. Cardinality(Owned(s, m)) \in Nat
          BY <4>2, FS_CardinalityType
      <4> QED BY <4>1, <4>3
    <3>3. s.clock + 2 * order[x] - 1 \in Nat \ {0}
        BY <2>1, <3>2
    <3> QED BY <3>1, <3>3, TombstoneFacts, Zenon
  <2> QED BY <2>2, Zenon DEF Tombstones, Batches
<1> DEFINE t == MergeBatch(s, Tombstones(s, m, order))
<1>7. /\ Sound(t) /\ t.alive = s.alive
      /\ \A y \in Names : Advances(s.entries[y], t.entries[y])
    BY <1>5, <1>6, MergeSound
<1>8. Become(n, t)
    BY <1>2
<1> HIDE DEF t
<1>9. /\ CountsOk' /\ net' \subseteq Messages /\ acked' = acked
      /\ collected' \subseteq Nodes \X Names
      /\ \A msg \in net' \ net : ReceiptOk(msg, installed')
    BY <1>1, <1>3, Bounds DEF CountsOk, RestOk
<1> QED BY <1>1, <1>4, <1>7, <1>8, <1>9, RegistryStep

\* Everything a registry holds, as a message.
LEMMA SyncFacts ==
    ASSUME Inv, NEW n \in Nodes, NEW m \in Nodes
    PROVE  SyncTo(n, m) \subseteq Messages /\ \A msg \in SyncTo(n, m) : msg.kind # "receipt"
<1>1. reg[n].entries \in Batches
    BY InvFacts
<1>2. /\ Gossip("gossip", n, m, reg[n].entries) \in Messages
      /\ Gossip("gossip", n, m, reg[n].entries).kind = "gossip"
    BY <1>1 DEF Gossip, Messages
<1> QED BY <1>2 DEF SyncTo

\* A new connection.
LEMMA ReconnectStep ==
    ASSUME Inv, NEW n \in Nodes, NEW m \in Nodes, Reconnect(n, m)
    PROVE  Inv' /\ EntryStep
<1>1. CountsOk /\ RestOk /\ net \subseteq Messages
    BY InvFacts
<1>2. /\ net' \subseteq net \cup SyncTo(n, m) \cup SyncTo(m, n) /\ Faulty
      /\ UNCHANGED <<reg, acked, collected, installed, writes, pushes, deaths>>
    BY DEF Reconnect
<1>3. net' \subseteq Messages /\ \A msg \in net' \ net : ReceiptOk(msg, installed)
    BY <1>1, <1>2, SyncFacts DEF ReceiptOk
<1>4. CountsOk'
    BY <1>1, <1>2, Bounds DEF CountsOk, Faulty
<1>5. acked' = acked /\ acked \subseteq Names \X Entries \X Nodes
    BY <1>1, <1>2 DEF RestOk
<1> QED BY <1>2, <1>3, <1>4, <1>5, QuietStep

\* An empty registry is sound.
LEMMA EmptyFacts ==
    /\ Sound(Empty) /\ Empty.alive = {} /\ Live(Empty.entries) = {}
    /\ \A P \in SUBSET Nodes : Sound([Empty EXCEPT !.alive = P])
<1>1. NoBatch \in Batches /\ \A x \in Names : NoBatch[x] = NoEntry
    BY DEF NoBatch, Batches
<1>2. \A x \in Names : NoBatch[x].dead
    BY <1>1, EntryFacts, Zenon
<1>3. 0 \in 0..GcInterval - 1 /\ 0 \in 0..CursorPeriod - 1
    BY Settings, Period
<1>4. /\ Empty \in Registries /\ Empty.entries = NoBatch /\ Empty.alive = {}
      /\ \A x \in Names : Empty.queue[x].left = 0
    BY <1>1, <1>3 DEF Empty, Registries
<1>5. \A P \in SUBSET Nodes : LET s == [Empty EXCEPT !.alive = P]
                              IN  /\ s \in Registries /\ s.entries = Empty.entries
                                  /\ s.queue = Empty.queue
    BY <1>4 DEF Registries
<1>6. Live(Empty.entries) = {}
    BY <1>2, <1>4 DEF Live
<1> QED BY <1>1, <1>4, <1>5, <1>6 DEF Sound, ClockOk, QueueOk

\* A restart: the map is gone, what was acknowledged has been there.
LEMMA RestartStep ==
    ASSUME Inv, NEW n \in Nodes, Restart(n)
    PROVE  Inv' /\ EntryStep
<1>1. Parts
    BY InvParts
<1>2. /\ Become(n, Empty) /\ Faulty /\ UNCHANGED <<acked, collected, writes, pushes, deaths>>
      /\ \A msg \in net' : msg \in net \/ \E m \in Nodes : msg \in SyncTo(m, n)
    BY DEF Restart
<1>3. /\ RegsOk' /\ installed \subseteq installed'
      /\ installed' \subseteq Nodes \X Names \X Entries
      /\ \A m \in Nodes \ {n} : reg'[m] = reg[m]
      /\ reg'[n] = Empty
    BY <1>1, <1>2, EmptyFacts, BecomeFacts DEF Parts
<1>4. CountsOk' /\ RestOk'
    BY <1>1, <1>2, <1>3, Bounds DEF Parts, CountsOk, RestOk, Faulty
<1>5. net' \subseteq Messages
    BY <1>1, <1>2, SyncFacts DEF Parts
<1>6. \A msg \in net' : ReceiptOk(msg, installed')
    BY <1>1, <1>2, <1>3, SyncFacts DEF Parts, ReceiptOk
<1>7. \A ack \in acked' : <<ack[3], ack[1], ack[2]>> \in installed'
    BY <1>1, <1>2, <1>3, Zenon DEF Parts
<1>8. Parts'
    BY <1>3, <1>4, <1>5, <1>6, <1>7 DEF Parts, ReceiptOk, Live
<1>9. (Inv <=> Parts)'
    BY InvParts, PTL
<1>10. EntryStep
    BY <1>3 DEF EntryStep
<1> QED BY <1>8, <1>9, <1>10

--------------------------------------------------------------------------------
(* The theorems *)

\* The invariant holds to begin with.
LEMMA InvInit == Init => Inv
<1> SUFFICES ASSUME Init PROVE Inv
    OBVIOUS
<1>1. \A n \in Nodes : /\ Sound([Empty EXCEPT !.alive = Nodes \ {n}])
                       /\ [Empty EXCEPT !.alive = Nodes \ {n}] \in Registries
                       /\ [Empty EXCEPT !.alive = Nodes \ {n}].alive = Nodes \ {n}
    BY EmptyFacts DEF Sound, Empty
<1>2. RegsOk
    BY <1>1, Zenon DEF Init, RegsOk
<1>3. Parts
    BY <1>2, Bounds DEF Init, Parts, RestOk, CountsOk
<1> QED BY <1>3, InvParts

\* Every step preserves it and advances the entries.
LEMMA InvNext == Inv /\ [Next]_vars => Inv' /\ (EntryStep \/ UNCHANGED vars)
<1> SUFFICES ASSUME Inv, [Next]_vars PROVE Inv' /\ (EntryStep \/ UNCHANGED vars)
    OBVIOUS
<1>1. CASE UNCHANGED vars
  <2>1. /\ UNCHANGED <<reg, net, acked, collected, installed>>
        /\ UNCHANGED <<writes, pushes, deaths, faults>>
      BY <1>1 DEF vars
  <2>2. CountsOk /\ RestOk /\ net \subseteq Messages
      BY InvParts DEF Parts
  <2>3. CountsOk'
      BY <2>1, <2>2 DEF CountsOk
  <2>4. acked \subseteq Names \X Entries \X Nodes
      BY <2>2 DEF RestOk
  <2> QED BY <1>1, <2>1, <2>2, <2>3, <2>4, QuietStep
<1>2. ASSUME NEW n \in Nodes, NEW x \in Names, NEW addr \in Addrs,
             RegisterName(n, x, addr) \/ RegisterNameAt(n, x, addr)
      PROVE  Inv' /\ EntryStep
    BY <1>2, RegisterSteps
<1>3. ASSUME NEW n \in Nodes, NEW x \in Names, UnregisterName(n, x) PROVE Inv' /\ EntryStep
    BY <1>3, UnregisterStep
<1>4. ASSUME NEW n \in Pushing, NEW x \in Names, DisseminateNameTo(n, x, Nodes \ {n})
      PROVE  Inv' /\ EntryStep
    BY <1>4, Bounds, PushStep
<1>5. ASSUME NEW n \in Nodes, Tick(n) PROVE Inv' /\ EntryStep
    BY <1>5, TickStep
<1>6. ASSUME NEW n \in Nodes, Restart(n) PROVE Inv' /\ EntryStep
    BY <1>6, RestartStep
<1>7. ASSUME NEW msg \in net, Deliver(msg) PROVE Inv' /\ EntryStep
    BY <1>7, DeliverStep
<1>8. ASSUME NEW n \in Nodes, NEW m \in Nodes, MemberAlive(n, m) PROVE Inv' /\ EntryStep
    BY <1>8, AliveStep
<1>9. ASSUME NEW n \in Nodes, NEW m \in Nodes, MemberDead(n, m) PROVE Inv' /\ EntryStep
    BY <1>9, DeadStep
<1>10. ASSUME NEW n \in Nodes, NEW m \in Nodes, Reconnect(n, m) PROVE Inv' /\ EntryStep
    BY <1>10, ReconnectStep
<1> QED BY <1>1, <1>2, <1>3, <1>4, <1>5, <1>6, <1>7, <1>8, <1>9, <1>10, Zenon DEF Next

\* Registries, messages and receipts are well typed (ClusterRegistry, RegistryActor).
THEOREM TypeCorrect == Spec => []TypeOK
<1>1. Inv => TypeOK
    BY DEF Inv
<1> QED BY <1>1, InvInit, InvNext, PTL DEF Spec

\* ClusterRegistry::merge keeps the clock ahead of the map: the next local write of any name
\* wins on this node, whatever it has merged.
THEOREM ClockStaysAhead == Spec => []ClockAhead
<1>1. Inv => ClockAhead
    BY DEF Inv
<1> QED BY <1>1, InvInit, InvNext, PTL DEF Spec

\* enqueue and gc_tick keep the dissemination queue and the map in step: what a node gossips
\* is what it holds.
THEOREM PendingStaysCurrent == Spec => []PendingIsCurrent
<1>1. Inv => PendingIsCurrent
    BY DEF Inv
<1> QED BY <1>1, InvInit, InvNext, PTL DEF Spec

\* A NameAcknowledged is true: the peer it names had installed exactly that binding.
THEOREM AcknowledgedInstalled == Spec => []AcknowledgedWasInstalled
<1>1. Inv => AcknowledgedWasInstalled
    BY DEF Inv
<1> QED BY <1>1, InvInit, InvNext, PTL DEF Spec

\* No step replaces an entry by one that does not win by lww_wins, but for the collection of
\* tombstones and restarts.
THEOREM EntriesAdvance == Spec => EntriesOnlyAdvance
<1>1. Inv /\ [Next]_vars => [EntryStep]_vars
    BY InvNext
<1> QED BY <1>1, InvInit, InvNext, PTL DEF Spec, EntriesOnlyAdvance, EntryStep

================================================================================
