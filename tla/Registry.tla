------------------------------ MODULE Registry ------------------------------
(***************************************************************************)
(* The cluster name registry: on every node a RegistryActor around a       *)
(* ClusterRegistry, a last-writer-wins map that gossips what changes. The  *)
(* nodes write concurrently, declare each other dead and alive, restart    *)
(* with nothing, and lose messages when a connection is made anew.         *)
(*                                                                         *)
(* Two equal messages in flight count as one: merging an entry twice is    *)
(* merging it once.                                                        *)
(***************************************************************************)
EXTENDS Integers, FiniteSets, FiniteSetsExt

CONSTANTS
    Nodes,          \* node identities, ordered
    Names,          \* names that can be registered
    Addrs,          \* actor addresses
    NoAddr,         \* the zero address
    Lambda,         \* dissemination_lambda
    TombstoneTTL,   \* tombstone_ttl
    GcInterval,     \* gc_interval
    Epoch,          \* the timestamp a recovered service registers with
    CursorPeriod,   \* where the count of rounds wraps: a multiple of every number of peers
    MaxWrites,      \* bound: writes of the applications
    Pushing,        \* bound: nodes whose application sends DisseminateNameTo
    MaxPushes,      \* bound: DisseminateNameTo requests
    MaxDeaths,      \* bound: Dead notices
    MaxFaults,      \* bound: restarts and new connections
    MaxNet          \* bound: messages on their way when a tick or request adds one

\* A batch is 8 entries: with no more names than that every message has room for all.
ASSUME FewNames == IsFiniteSet(Names) /\ Cardinality(Names) <= 8
ASSUME OrderedNodes == Nodes \in SUBSET (Nat \ {0}) /\ IsFiniteSet(Nodes)
ASSUME Settings == /\ {Lambda, GcInterval} \subseteq Nat \ {0}
                   /\ {TombstoneTTL, Epoch} \subseteq Nat
                   /\ NoAddr \notin Addrs
ASSUME Period == /\ CursorPeriod \in Nat \ {0}
                 /\ \A k \in 1..Cardinality(Nodes) - 1 : CursorPeriod % k = 0
ASSUME Bounds == Pushing \subseteq Nodes /\ {MaxWrites, MaxPushes, MaxDeaths, MaxFaults, MaxNet} \subseteq Nat

VARIABLES
    reg,        \* every node's registry and what its actor knows of the others
    net,        \* the messages on their way
    acked,      \* what DisseminateNameTo has been told: <<name, entry, peer>>
    collected,  \* <<node, name>> whose tombstone was collected
    installed,  \* every <<node, name, entry>> that was ever live in a map
    writes, pushes, deaths, faults

vars == <<reg, net, acked, collected, installed, writes, pushes, deaths, faults>>

-----------------------------------------------------------------------------
(* Entries *)

\* What a name without an entry counts as: every entry wins against it, its next
\* generation is 1 and its address the zero address.
NoEntry == [addr |-> NoAddr, node |-> 0, ts |-> 0, gen |-> 0, dead |-> TRUE]

Entries == [addr : Addrs \cup {NoAddr}, node : Nodes, ts : Nat \ {0}, gen : Nat \ {0},
            dead : BOOLEAN]

Batches == [Names -> Entries \cup {NoEntry}]

NoBatch == [x \in Names |-> NoEntry]

Only(x, e) == [NoBatch EXCEPT ![x] = e]


\* lww_wins
Wins(e, old) ==
    \/ e.ts > old.ts
    \/ e.ts = old.ts /\ e.gen > old.gen
    \/ e.ts = old.ts /\ e.gen = old.gen /\ e.node > old.node

\* transmit_budget
Budget(size) == Lambda * Max({1, Cardinality({k \in 0..size : 2^k < size})})

ClusterSize(s) == Cardinality(s.alive) + 1

\* A mutant of Enqueue: an entry that is queued already only gets a new budget.
EnqueueBudget(s, X) ==
    [s EXCEPT !.queue = [x \in Names |->
                            IF x \notin X THEN @[x]
                            ELSE [entry |-> IF @[x].left > 0 THEN @[x].entry
                                            ELSE s.entries[x],
                                  left |-> Budget(ClusterSize(s))]]]

\* enqueue for all the names in X.
Enqueue(s, X) ==
    [s EXCEPT !.queue = [x \in Names |-> IF x \in X
                                         THEN [entry |-> s.entries[x],
                                               left |-> Budget(ClusterSize(s))]
                                         ELSE @[x]]]

Winners(s, batch) == {x \in Names : batch[x] # NoEntry /\ Wins(batch[x], s.entries[x])}

\* The clock after merging: ahead of every entry that changed the map.
Ahead(c, T) == CHOOSE d \in {c} \cup {t + 1 : t \in T} :
                   d >= c /\ \A t \in T : d > t


\* A mutant of MergeBatch: the clock does not follow the entries of others.
MergeBatchSlowClock(s, batch) ==
    LET won == Winners(s, batch)
    IN  Enqueue([s EXCEPT !.entries = [x \in Names |-> IF x \in won THEN batch[x] ELSE @[x]]],
                won)

\* merge_batch, and merge_and_enqueue for a batch of one: take what wins, advance the clock
\* past it and pass it on.
MergeBatch(s, batch) ==
    LET won == Winners(s, batch)
    IN  Enqueue([s EXCEPT !.entries = [x \in Names |-> IF x \in won THEN batch[x] ELSE @[x]],
                          !.clock = Ahead(@, {batch[x].ts : x \in won})],
                won)

\* A local write: register, register_at and unregister.
Put(s, x, addr, n, dead, ts) ==
    MergeBatch([s EXCEPT !.clock = ts],
               Only(x, [addr |-> addr, node |-> n, ts |-> ts, gen |-> s.entries[x].gen + 1,
                        dead |-> dead]))

-----------------------------------------------------------------------------
(* State *)

Empty == [entries |-> NoBatch,
          queue   |-> [x \in Names |-> [entry |-> NoEntry, left |-> 0]],
          clock   |-> 0,
          ticks   |-> 0,
          alive   |-> {},
          cursor  |-> 0]

Registries == [entries : Batches,
               queue   : [Names -> [entry : Entries \cup {NoEntry}, left : Nat]],
               clock   : Nat,
               ticks   : 0..GcInterval - 1,
               alive   : SUBSET Nodes,
               cursor  : 0..CursorPeriod - 1]

\* A cluster that has formed and has no names yet.
Init ==
    /\ reg = [n \in Nodes |-> [Empty EXCEPT !.alive = Nodes \ {n}]]
    /\ net = {} /\ acked = {} /\ collected = {} /\ installed = {}
    /\ writes = 0 /\ pushes = 0 /\ deaths = 0 /\ faults = 0

\* A message; a receipt is an acknowledgement by its sender.
Gossip(kind, from, to, batch) == [kind |-> kind, from |-> from, to |-> to, batch |-> batch]

Messages == [kind : {"gossip", "request", "receipt"}, from : Nodes, to : Nodes,
             batch : Batches]

Live(batch) == {x \in Names : ~batch[x].dead}

\* The registry of n becomes s.
Become(n, s) ==
    /\ reg' = [reg EXCEPT ![n] = s]
    /\ installed' = installed \cup {<<n, x, s.entries[x]>> : x \in Live(s.entries)}

Room == Cardinality(net') <= MaxNet

-----------------------------------------------------------------------------
(* The application *)

Asked == writes < MaxWrites /\ writes' = writes + 1

\* RegisterName, RegisterNameAt and UnregisterName.
RegisterName(n, x, addr) ==
    /\ Asked
    /\ Become(n, Put(reg[n], x, addr, n, FALSE, reg[n].clock + 1))
    /\ UNCHANGED <<net, acked, collected, pushes, deaths, faults>>

RegisterNameAt(n, x, addr) ==
    /\ Asked
    /\ Become(n, Put(reg[n], x, addr, n, FALSE, Max({reg[n].clock + 1, Epoch})))
    /\ UNCHANGED <<net, acked, collected, pushes, deaths, faults>>

UnregisterName(n, x) ==
    /\ Asked
    /\ Become(n, Put(reg[n], x, reg[n].entries[x].addr, n, TRUE, reg[n].clock + 1))
    /\ UNCHANGED <<net, acked, collected, pushes, deaths, faults>>

\* DisseminateNameTo: push the live entry this node owns to the peers and ask for receipts.
DisseminateNameTo(n, x, peers) ==
    LET e == reg[n].entries[x]
    IN  /\ pushes < MaxPushes /\ pushes' = pushes + 1
        /\ ~e.dead /\ e.node = n
        /\ net' = net \cup {Gossip("request", n, p, Only(x, e)) : p \in peers}
        /\ Room
        /\ UNCHANGED <<reg, acked, collected, installed, writes, deaths, faults>>

-----------------------------------------------------------------------------
(* Gossip *)

Held(s) == {x \in Names : s.entries[x] # NoEntry}

Pending(s) == {x \in Names : s.queue[x].left > 0}

\* A mutant of Expired: the age of a live entry counts as well.
ExpiredLive(s) ==
    {x \in Held(s) \ Pending(s) : s.clock - s.entries[x].ts >= TombstoneTTL}

\* gc_tick: every GcInterval ticks the tombstones go that are no longer gossiped and old by
\* the logical clock.
Expired(s) ==
    {x \in Held(s) \ Pending(s) : /\ s.entries[x].dead
                                  /\ s.clock - s.entries[x].ts >= TombstoneTTL}

GcDue(s) == (s.ticks + 1) % GcInterval = 0

Reaped(s) == IF GcDue(s) THEN Expired(s) ELSE {}

GcTick(s) ==
    [s EXCEPT !.ticks = (@ + 1) % GcInterval,
              !.entries = [x \in Names |-> IF x \in Reaped(s) THEN NoEntry ELSE @[x]]]

\* It is the turn of p, in the order of the identities.
Turn(s, p) ==
    Cardinality({q \in s.alive : q < p}) = s.cursor % Cardinality(s.alive)

Shorter(item) == IF item.left > 1 THEN [item EXCEPT !.left = @ - 1]
                                  ELSE [entry |-> NoEntry, left |-> 0]

\* take_pending of all there is, and the round it takes.
TakePending(s) ==
    [s EXCEPT !.queue = [x \in Names |-> Shorter(s.queue[x])],
              !.cursor = (@ + 1) % CursorPeriod]

\* Tick: collect garbage, then send what is pending to one live peer.
Tick(n) ==
    LET s == GcTick(reg[n])
    IN  /\ collected' = collected \cup ({n} \X Reaped(reg[n]))
        /\ IF s.alive = {} \/ Pending(s) = {}
           THEN Become(n, s) /\ UNCHANGED net
           ELSE /\ Become(n, TakePending(s))
                /\ \E p \in s.alive :
                      /\ Turn(s, p)
                      /\ net' = net \cup {Gossip("gossip", n, p, [x \in Names |-> s.queue[x].entry])}
                /\ Room
        /\ UNCHANGED <<acked, writes, pushes, deaths, faults>>

\* A batch without delivery instructions.
HandleGossip(msg) ==
    /\ msg.kind = "gossip"
    /\ Become(msg.to, MergeBatch(reg[msg.to], msg.batch))
    /\ net' = net \ {msg}
    /\ UNCHANGED acked

\* A mutant of HandleRequest: the receipt does not look at what the merge has left.
HandleRequestBlind(msg) ==
    LET s == MergeBatch(reg[msg.to], msg.batch)
    IN  /\ msg.kind = "request"
        /\ Become(msg.to, s)
        /\ net' = (net \ {msg}) \cup {Gossip("receipt", msg.to, msg.batch[x].node,
                                             Only(x, msg.batch[x])) : x \in Live(msg.batch)}
        /\ UNCHANGED acked

\* RegistryDelivery::Request: merge, and acknowledge to its owner what is now installed.
HandleRequest(msg) ==
    LET s == MergeBatch(reg[msg.to], msg.batch)
        taken == {x \in Live(msg.batch) : s.entries[x] = msg.batch[x]}
    IN  /\ msg.kind = "request"
        /\ Become(msg.to, s)
        /\ net' = (net \ {msg}) \cup {Gossip("receipt", msg.to, msg.batch[x].node,
                                             Only(x, msg.batch[x])) : x \in taken}
        /\ UNCHANGED acked

\* RegistryDelivery::Acknowledged: passed on while the entry is the current winner.
HandleReceipt(msg) ==
    LET s == reg[msg.to]
        current == {x \in Live(msg.batch) : /\ msg.batch[x].node = msg.to
                                            /\ s.entries[x] = msg.batch[x]}
    IN  /\ msg.kind = "receipt"
        /\ acked' = acked \cup {<<x, msg.batch[x], msg.from>> : x \in current}
        /\ net' = net \ {msg}
        /\ UNCHANGED <<reg, installed>>

Deliver(msg) ==
    /\ HandleGossip(msg) \/ HandleRequest(msg) \/ HandleReceipt(msg)
    /\ UNCHANGED <<collected, writes, pushes, deaths, faults>>

-----------------------------------------------------------------------------
(* Membership, connections and restarts *)

\* A mutant of MemberAlive: a node counts itself among its peers.
MemberAliveSelf(n, m) ==
    LET s == [reg[n] EXCEPT !.alive = @ \cup {m}]
    IN  /\ m \notin reg[n].alive
        /\ Become(n, Enqueue(s, Held(s)))
        /\ UNCHANGED <<net, acked, collected, writes, pushes, deaths, faults>>

\* MembershipChanged to Alive: a peer that comes back is told everything again.
MemberAlive(n, m) ==
    LET s == [reg[n] EXCEPT !.alive = @ \cup {m}]
    IN  /\ m \notin reg[n].alive \cup {n}
        /\ Become(n, Enqueue(s, Held(s)))
        /\ UNCHANGED <<net, acked, collected, writes, pushes, deaths, faults>>

Owned(s, m) == {x \in Names : s.entries[x].node = m /\ ~s.entries[x].dead}

\* tombstone_node: the names are taken in some order, and each write moves the clock by two:
\* once for its timestamp, once to be ahead of it.
Tombstones(s, m, order) ==
    [x \in Names |-> IF x \in Owned(s, m)
                     THEN [s.entries[x] EXCEPT !.ts = s.clock + 2 * order[x] - 1,
                                               !.gen = @ + 1, !.dead = TRUE]
                     ELSE NoEntry]

Orders(X) == {f \in [X -> 1..Cardinality(X)] : \A x, y \in X : f[x] = f[y] => x = y}

\* MembershipChanged to Dead, rightly or not.
MemberDead(n, m) ==
    LET s == [reg[n] EXCEPT !.alive = @ \ {m}]
    IN  /\ m # n
        /\ deaths < MaxDeaths
        /\ deaths' = deaths + 1
        /\ \E order \in Orders(Owned(s, m)) : Become(n, MergeBatch(s, Tombstones(s, m, order)))
        /\ UNCHANGED <<net, acked, collected, writes, pushes, faults>>

\* SyncTo: all entries, tombstones included.
SyncTo(n, m) ==
    IF Held(reg[n]) = {} THEN {} ELSE {Gossip("gossip", n, m, reg[n].entries)}

Faulty == faults < MaxFaults /\ faults' = faults + 1

\* peer_connected: what was on the old connection may be lost; both ends send everything.
Reconnect(n, m) ==
    /\ n < m
    /\ Faulty
    /\ \E lost \in SUBSET {msg \in net : {msg.from, msg.to} = {n, m}} :
          net' = (net \ lost) \cup SyncTo(n, m) \cup SyncTo(m, n)
    /\ UNCHANGED <<reg, acked, collected, installed, writes, pushes, deaths>>

\* A node restarts with an empty registry; its peers connect and send it everything.
Restart(n) ==
    /\ Faulty
    /\ Become(n, Empty)
    /\ net' = {msg \in net : msg.to # n} \cup UNION {SyncTo(m, n) : m \in Nodes \ {n}}
    /\ UNCHANGED <<acked, collected, writes, pushes, deaths>>

Next ==
    \/ \E n \in Nodes, x \in Names, addr \in Addrs :
          RegisterName(n, x, addr) \/ RegisterNameAt(n, x, addr)
    \/ \E n \in Nodes, x \in Names : UnregisterName(n, x)
    \/ \E n \in Pushing, x \in Names : DisseminateNameTo(n, x, Nodes \ {n})
    \/ \E n \in Nodes : Tick(n) \/ Restart(n)
    \/ \E msg \in net : Deliver(msg)
    \/ \E n, m \in Nodes : MemberAlive(n, m) \/ MemberDead(n, m) \/ Reconnect(n, m)

Spec == Init /\ [][Next]_vars

\* The clock of every node ticks for ever, and what is sent on a connection arrives: again
\* and again nothing is on its way. A live node that was taken for dead is noticed again.
Fairness ==
    /\ \A n \in Nodes : SF_vars(Tick(n))
    /\ []<>(net = {})
    /\ \A n \in Nodes : \A m \in Nodes \ {n} : []<>(m \in reg[n].alive)

LiveSpec == Spec /\ Fairness

-----------------------------------------------------------------------------
(* Properties *)

TypeOK ==
    /\ reg \in [Nodes -> Registries]
    /\ \A n \in Nodes : n \notin reg[n].alive
    /\ net \subseteq Messages
    /\ acked \subseteq Names \X Entries \X Nodes
    /\ collected \subseteq Nodes \X Names
    /\ installed \subseteq Nodes \X Names \X Entries
    /\ writes \in 0..MaxWrites /\ pushes \in 0..MaxPushes
    /\ deaths \in 0..MaxDeaths /\ faults \in 0..MaxFaults

\* ClusterRegistry::merge "Advance clock to stay ahead of remote timestamps": a node's clock
\* is ahead of all it holds, so that its next write of any name wins on its own map.
ClockAhead == \A n \in Nodes, x \in Names :
                  reg[n].entries[x] # NoEntry => reg[n].clock > reg[n].entries[x].ts

\* What is queued for gossip is what the map has: no superseded entry is sent on.
PendingIsCurrent ==
    \A n \in Nodes, x \in Names :
        reg[n].queue[x].left > 0 => reg[n].queue[x].entry = reg[n].entries[x]

\* NameAcknowledged says that "a peer installed this exact live name/binding/generation": what
\* is acknowledged, or about to be, was once in the map of the peer that does.
AcknowledgedWasInstalled ==
    /\ \A ack \in acked : <<ack[3], ack[1], ack[2]>> \in installed
    /\ \A msg \in net : msg.kind = "receipt" =>
          \A x \in Live(msg.batch) : <<msg.from, x, msg.batch[x]>> \in installed

\* An entry gives way to one that wins, to the collection of a tombstone, or to a restart,
\* and to nothing else.
EntriesOnlyAdvance ==
    [][\A n \in Nodes, x \in Names :
          \/ reg'[n].entries[x] = reg[n].entries[x]
          \/ Wins(reg'[n].entries[x], reg[n].entries[x])
          \/ reg[n].entries[x].dead /\ reg'[n].entries[x] = NoEntry
          \/ reg'[n] = Empty]_vars

Talked(x) == {reg[n].queue[x].entry : n \in Nodes} \cup {msg.batch[x] : msg \in net}


\* resolve
Resolve(e) == IF e.dead THEN {} ELSE {<<e.addr, e.node>>}

Tied(e, f) == e # f /\ e.ts = f.ts /\ e.gen = f.gen /\ e.node = f.node


\* gossip_data.rs: "Non-membership replicated data converges independently of SWIM membership
\* gossip": in the end all nodes have the same entry for every name, whatever SWIM has said.
Converges ==
    <>[](\A n, m \in Nodes, x \in Names : reg[n].entries[x] = reg[m].entries[x])

=============================================================================
