------------------------------ MODULE WorkerProofs -----------------------------
(* The address map and the pools agree, every actor is touched by its own      *)
(* worker only, only live actors run, and the idle fast path skips nothing: for *)
(* every number of workers and actors, every budget and any amount of traffic. *)
EXTENDS WorkerTypeProofs

--------------------------------------------------------------------------------
(* Routing *)

Queued(w) == Range(spawnQ[w])

\* RoutingSound, and the life of an address that makes it inductive: unborn, being
\* spawned, queued, pooled, removed, never two of them at a time, and mapped to
\* one worker all along.
RouteInv ==
    /\ RoutingSound
    /\ \A a \in unborn : addressMap[a] = NoWorker
    /\ \A a \in spawning : addressMap[a] \in Workers
    /\ \A w \in Workers :
          /\ IsInjective(spawnQ[w])
          /\ \A a \in Queued(w) :
                addressMap[a] = w /\ a \notin spawning \cup pool[w] \cup removed[w]
          /\ \A a \in removed[w] : addressMap[a] = w /\ a \notin spawning \cup pool[w]
          /\ \A a \in pool[w] : a \notin spawning

routing == <<addressMap, unborn, spawning, spawnQ, pool, removed>>

\* The actions that leave the routing state alone.
LEMMA RoutingFrame ==
    ASSUME NEW w \in Workers, PassStep(w) \/ UserCode(w),
           ~DrainSpawn(w),
           \A a \in Actors : ~RemoveDead(w, a) /\ ~Unmap(w, a) /\ ~HandlerSpawn(w, a)
    PROVE  UNCHANGED routing
<1> USE DEF routing, registry, slots, scratch
<1>1. CASE Ingress(w)
    BY <1>1, Zenon DEF Ingress, BeginPass, EndSpawns, RetryDeferred, EndDeferred, DrainTransfer,
        EndTransfers, RetryAdmin, EndDeferredAdmin, DrainAdmin, EndAdmin
<1>2. CASE Ticking(w)
    BY <1>2, Zenon DEF Ticking, SkipActor, EnterActor, OnStartReturn, HandlerReturn, TakeMessage,
        LeaveActor, EndTicking
<1>3. CASE Cleanup(w)
    BY <1>3 DEF Cleanup, DeliverLocal, EndLocal, OnStopReturn, EndCleanup, EndPass
<1>4. CASE UserCode(w)
    BY <1>4 DEF UserCode, HandlerSend
<1> QED BY <1>1, <1>2, <1>3, <1>4 DEF PassStep

\* A queue that stays the same holds the same actors, without repetition.
LEMMA SameQueue ==
    ASSUME NEW w, spawnQ'[w] = spawnQ[w]
    PROVE  Queued(w)' = Queued(w) /\ (IsInjective(spawnQ[w])' <=> IsInjective(spawnQ[w]))
BY DEF Queued, Range, IsInjective

\* A queue without repetitions takes an actor that is new to it.
LEMMA GrownQueue ==
    ASSUME TypeRegistry, NEW w \in Workers, NEW a \in Actors,
           spawnQ'[w] = Append(spawnQ[w], a), IsInjective(spawnQ[w]), a \notin Queued(w)
    PROVE  Queued(w)' = Queued(w) \cup {a} /\ IsInjective(spawnQ[w])'
<1>1. spawnQ[w] \in Seq(Actors)
    BY DEF TypeRegistry
<1>2. /\ Range(Append(spawnQ[w], a)) = Range(spawnQ[w]) \cup {a}
      /\ IsInjective(Append(spawnQ[w], a))
    BY <1>1, RangeAppend DEF Queued
<1>3. Queued(w)' = Range(spawnQ'[w])
    BY DEF Queued, Range
<1>4. IsInjective(spawnQ'[w]) => IsInjective(spawnQ[w])'
    BY DEF IsInjective
<1> QED BY <1>2, <1>3, <1>4 DEF Queued

\* A drained queue holds the rest of its actors, without repetition.
LEMMA ShrunkQueue ==
    ASSUME TypeRegistry, NEW w \in Workers, spawnQ[w] # <<>>,
           spawnQ'[w] = Tail(spawnQ[w]), IsInjective(spawnQ[w])
    PROVE  /\ Head(spawnQ[w]) \in Queued(w) /\ Head(spawnQ[w]) \in Actors
           /\ Queued(w)' = Queued(w) \ {Head(spawnQ[w])}
           /\ IsInjective(spawnQ[w])'
<1>1. spawnQ[w] \in Seq(Actors)
    BY DEF TypeRegistry
<1>2. /\ Head(spawnQ[w]) \in Range(spawnQ[w]) /\ Head(spawnQ[w]) \in Actors
      /\ Range(Tail(spawnQ[w])) = Range(spawnQ[w]) \ {Head(spawnQ[w])}
      /\ IsInjective(Tail(spawnQ[w]))
    BY <1>1, RangeTail
<1>3. Queued(w)' = Range(spawnQ'[w])
    BY DEF Queued, Range
<1>4. IsInjective(spawnQ'[w]) => IsInjective(spawnQ[w])'
    BY DEF IsInjective
<1> QED BY <1>2, <1>3, <1>4 DEF Queued
\* RouteInv, one quantifier over workers at a time.
RouteParts ==
    /\ \A w \in Workers : IsInjective(spawnQ[w])
    /\ \A w \in Workers : \A a \in pool[w] : addressMap[a] = w /\ a \notin spawning
    /\ \A w \in Workers : \A a \in Actors : addressMap[a] = w =>
          a \in pool[w] \/ a \in spawning \/ a \in Queued(w) \/ a \in removed[w]
    /\ \A a \in unborn : addressMap[a] = NoWorker
    /\ \A a \in spawning : addressMap[a] \in Workers
    /\ \A w \in Workers : \A a \in Queued(w) :
          addressMap[a] = w /\ a \notin spawning \cup pool[w] \cup removed[w]
    /\ \A w \in Workers : \A a \in removed[w] :
          addressMap[a] = w /\ a \notin spawning \cup pool[w]

\* The routing invariant, one conjunct per place an actor can be in.
LEMMA RoutePartsEq == ASSUME TypeRegistry PROVE RouteInv <=> RouteParts
BY WorkerFacts, ZenonT(30) DEF RouteInv, RouteParts, RoutingSound, Queued, TypeRegistry

\* Spawns, drains, removals and unmapping keep each actor in one place.
LEMMA RouteStep == TypeRegistry /\ TypePools /\ RouteInv /\ [Next]_vars => RouteInv'
<1> SUFFICES ASSUME TypeRegistry, TypePools, RouteParts, [Next]_vars PROVE RouteParts'
    <2>1. TypeRegistry' => (RouteInv' <=> RouteParts')
        BY RoutePartsEq, PTL
    <2> QED BY <2>1, RoutePartsEq, RegistryStep
<1>t. /\ addressMap \in [Actors -> Workers \cup {NoWorker}] /\ rr \in Workers
      /\ unborn \subseteq Actors /\ spawning \subseteq Actors
      /\ pool \in [Workers -> SUBSET Actors] /\ removed \in [Workers -> SUBSET Actors]
      /\ spawnQ \in [Workers -> Seq(Actors)]
    BY DEF TypeRegistry, TypePools
<1>n. NoWorker \notin Workers
    BY WorkerFacts
<1>i. \A w \in Workers : IsInjective(spawnQ[w])
    BY DEF RouteParts
<1>q. \A w \in Workers : Queued(w) \subseteq Actors
    <2> SUFFICES ASSUME NEW w \in Workers, NEW a \in Queued(w) PROVE a \in Actors
        OBVIOUS
    <2>1. spawnQ[w] \in Seq(Actors)
        BY <1>t
    <2> QED BY <2>1 DEF Queued, Range
<1>1. ASSUME NEW x \in Actors, SpawnMap(x) PROVE RouteParts'
    <2>1. /\ x \in unborn /\ unborn' = unborn \ {x}
          /\ addressMap' = [addressMap EXCEPT ![x] = rr]
          /\ spawning' = spawning \cup {x} /\ UNCHANGED <<spawnQ, pool, removed>>
        BY <1>1 DEF SpawnMap, slots, scratch
    <2>2. \A w \in Workers : Queued(w)' = Queued(w) /\ IsInjective(spawnQ[w])'
        BY <2>1, <1>i, SameQueue, Zenon
    <2> QED BY <1>t, <1>n, <1>q, <2>1, <2>2 DEF RouteParts
<1>2. ASSUME NEW x \in Actors, SpawnQueue(x) PROVE RouteParts'
    <2>0. PICK v \in Workers : v = addressMap[x]
        BY <1>2, Zenon DEF SpawnQueue, RouteParts
    <2>1. /\ x \in spawning /\ spawning' = spawning \ {x}
          /\ spawnQ' = [spawnQ EXCEPT ![v] = Append(spawnQ[v], x)]
          /\ UNCHANGED <<addressMap, unborn, pool, removed>>
        BY <1>2, <2>0, Zenon DEF SpawnQueue, slots, scratch, RouteParts
    <2>2. x \notin Queued(v) /\ spawnQ'[v] = Append(spawnQ[v], x)
        BY <1>t, <2>1 DEF RouteParts
    <2>3. Queued(v)' = Queued(v) \cup {x} /\ IsInjective(spawnQ[v])'
        BY <1>i, <2>2, GrownQueue, Zenon
    <2>4. ASSUME NEW u \in Workers, u # v
          PROVE  Queued(u)' = Queued(u) /\ IsInjective(spawnQ[u])'
        BY <1>t, <1>i, <2>1, <2>4, SameQueue, Zenon
    <2>5. /\ x \in spawning /\ spawning' = spawning \ {x}
          /\ UNCHANGED <<addressMap, unborn, pool, removed>>
        BY <2>1
    <2>6. /\ \A u \in Workers : IsInjective(spawnQ[u])'
          /\ \A u \in Workers : \A a : a \in Queued(u)' <=> a \in Queued(u) \/ (u = v /\ a = x)
        BY <2>3, <2>4, Zenon
    <2>7. /\ \A w \in Workers : \A a \in pool'[w] : addressMap'[a] = w /\ a \notin spawning'
          /\ \A a \in unborn' : addressMap'[a] = NoWorker
          /\ \A a \in spawning' : addressMap'[a] \in Workers
          /\ \A w \in Workers : \A a \in removed'[w] :
                addressMap'[a] = w /\ a \notin spawning' \cup pool'[w]
        BY <1>t, <1>n, <2>0, <2>5, Zenon DEF RouteParts
    <2>8. \A w \in Workers : \A a \in Actors : addressMap'[a] = w =>
              a \in pool'[w] \/ a \in spawning' \/ a \in Queued(w)' \/ a \in removed'[w]
        BY <1>t, <1>n, <2>0, <2>5, <2>6, Zenon DEF RouteParts
    <2>9. \A w \in Workers : \A a \in Queued(w)' :
              addressMap'[a] = w /\ a \notin spawning' \cup pool'[w] \cup removed'[w]
        BY <1>t, <1>n, <1>q, <2>0, <2>5, <2>6 DEF RouteParts
    <2> QED BY <2>6, <2>7, <2>8, <2>9, Zenon DEF RouteParts
<1>3. ASSUME NEW v \in Workers, DrainSpawn(v) PROVE RouteParts'
    <2>0. PICK x : x = Head(spawnQ[v])
        OBVIOUS
    <2>1. /\ spawnQ[v] # <<>> /\ spawnQ' = [spawnQ EXCEPT ![v] = Tail(spawnQ[v])]
          /\ pool' = [pool EXCEPT ![v] = pool[v] \cup {x}]
          /\ UNCHANGED <<addressMap, unborn, spawning, removed>>
        BY <1>3, <2>0 DEF DrainSpawn, registry, scratch
    <2>2. spawnQ'[v] = Tail(spawnQ[v])
        BY <1>t, <2>1, Zenon
    <2>3. /\ x \in Queued(v) /\ x \in Actors /\ Queued(v)' = Queued(v) \ {x}
          /\ IsInjective(spawnQ[v])'
        BY <1>i, <2>0, <2>1, <2>2, ShrunkQueue, Zenon
    <2>4. ASSUME NEW u \in Workers, u # v
          PROVE  Queued(u)' = Queued(u) /\ IsInjective(spawnQ[u])'
        BY <1>t, <1>i, <2>1, <2>4, SameQueue, Zenon
    <2>5. /\ pool' = [pool EXCEPT ![v] = pool[v] \cup {x}]
          /\ UNCHANGED <<addressMap, unborn, spawning, removed>>
        BY <2>1, Zenon
    <2> QED BY <1>t, <1>n, <1>q, <2>3, <2>4, <2>5 DEF RouteParts
<1>4. ASSUME NEW v \in Workers, NEW x \in Actors, HandlerSpawn(v, x) PROVE RouteParts'
    <2>1. /\ x \in unborn /\ unborn' = unborn \ {x}
          /\ addressMap' = [addressMap EXCEPT ![x] = v]
          /\ spawnQ' = [spawnQ EXCEPT ![v] = Append(spawnQ[v], x)]
          /\ UNCHANGED <<spawning, pool, removed>>
        BY <1>4 DEF HandlerSpawn, slots, scratch
    <2>2. x \notin Queued(v) /\ spawnQ'[v] = Append(spawnQ[v], x)
        BY <1>t, <1>n, <2>1 DEF RouteParts
    <2>3. Queued(v)' = Queued(v) \cup {x} /\ IsInjective(spawnQ[v])'
        BY <1>i, <2>2, GrownQueue, Zenon
    <2>4. ASSUME NEW u \in Workers, u # v
          PROVE  Queued(u)' = Queued(u) /\ IsInjective(spawnQ[u])'
        BY <1>t, <1>i, <2>1, <2>4, SameQueue, Zenon
    <2>5. /\ x \in unborn /\ unborn' = unborn \ {x}
          /\ addressMap' = [addressMap EXCEPT ![x] = v]
          /\ UNCHANGED <<spawning, pool, removed>>
        BY <2>1
    <2>6. /\ \A u \in Workers : IsInjective(spawnQ[u])'
          /\ \A u \in Workers : \A a : a \in Queued(u)' <=> a \in Queued(u) \/ (u = v /\ a = x)
        BY <2>3, <2>4, Zenon
    <2>7. /\ \A w \in Workers : \A a \in pool'[w] : addressMap'[a] = w /\ a \notin spawning'
          /\ \A a \in unborn' : addressMap'[a] = NoWorker
          /\ \A a \in spawning' : addressMap'[a] \in Workers
          /\ \A w \in Workers : \A a \in removed'[w] :
                addressMap'[a] = w /\ a \notin spawning' \cup pool'[w]
        BY <1>t, <1>n, <2>5 DEF RouteParts
    <2>8. \A w \in Workers : \A a \in Actors : addressMap'[a] = w =>
              a \in pool'[w] \/ a \in spawning' \/ a \in Queued(w)' \/ a \in removed'[w]
        BY <1>t, <1>n, <2>5, <2>6 DEF RouteParts
    <2>9. \A w \in Workers : \A a \in Queued(w)' :
              addressMap'[a] = w /\ a \notin spawning' \cup pool'[w] \cup removed'[w]
        BY <1>t, <1>n, <1>q, <2>5, <2>6 DEF RouteParts
    <2> QED BY <2>6, <2>7, <2>8, <2>9, Zenon DEF RouteParts
<1>5. ASSUME NEW v \in Workers, NEW x \in Actors, RemoveDead(v, x) PROVE RouteParts'
    <2>1. /\ x \in pool[v] /\ pool' = [pool EXCEPT ![v] = pool[v] \ {x}]
          /\ removed' = [removed EXCEPT ![v] = removed[v] \cup {x}]
          /\ UNCHANGED <<addressMap, unborn, spawning, spawnQ>>
        BY <1>5, Zenon DEF RemoveDead, registry
    <2>2. \A w \in Workers : Queued(w)' = Queued(w) /\ IsInjective(spawnQ[w])'
        BY <2>1, <1>i, SameQueue, Zenon
    <2> QED BY <1>t, <1>n, <1>q, <2>1, <2>2 DEF RouteParts
<1>6. ASSUME NEW v \in Workers, NEW x \in Actors, Unmap(v, x) PROVE RouteParts'
    <2>1. /\ x \in removed[v] /\ addressMap' = [addressMap EXCEPT ![x] = NoWorker]
          /\ removed' = [removed EXCEPT ![v] = removed[v] \ {x}]
          /\ UNCHANGED <<unborn, spawning, spawnQ, pool>>
        BY <1>6, Zenon DEF Unmap, slots
    <2>2. \A w \in Workers : Queued(w)' = Queued(w) /\ IsInjective(spawnQ[w])'
        BY <2>1, <1>i, SameQueue, Zenon
    <2> QED BY <1>t, <1>n, <1>q, <2>1, <2>2 DEF RouteParts
<1>7. ASSUME UNCHANGED routing PROVE RouteParts'
    <2>1. \A w \in Workers : Queued(w)' = Queued(w) /\ IsInjective(spawnQ[w])'
        BY <1>7, <1>i, SameQueue DEF routing
    <2> QED BY <1>7, <2>1 DEF RouteParts, routing
<1>8. CASE ClientStep
    <2>1. ASSUME NEW x \in Actors, NEW k, ClientSend(x, k) \/ ClientAdmin(x, k)
          PROVE  UNCHANGED routing
        BY <2>1 DEF ClientSend, ClientAdmin, routing, registry, slots, scratch
    <2> QED BY <1>1, <1>2, <1>7, <1>8, <2>1, Zenon DEF ClientStep
<1>9. ASSUME NEW w \in Workers, PassStep(w) \/ UserCode(w) PROVE RouteParts'
    BY <1>3, <1>4, <1>5, <1>6, <1>7, <1>9, RoutingFrame, Zenon
<1>10. CASE UNCHANGED vars
    BY <1>7, <1>10 DEF vars, routing, registry, slots, scratch
<1> QED BY <1>8, <1>9, <1>10 DEF Next
--------------------------------------------------------------------------------
(* A worker's step is its own affair *)

\* No step of another worker reaches this worker's pass ...
PassSame(v) ==
    /\ pc'[v] = pc[v] /\ count'[v] = count[v] /\ current'[v] = current[v]
    /\ visited'[v] = visited[v] /\ pool'[v] = pool[v]
    /\ didWork'[v] = didWork[v] /\ hasBacklog'[v] = hasBacklog[v]

\* ... or the slot of an actor in its pool.
SlotSame(a) ==
    /\ mailbox'[a] = mailbox[a]
    /\ a \in started' <=> a \in started
    /\ a \in suspended' <=> a \in suspended
    /\ a \in stopping' <=> a \in stopping
    /\ a \in poisoned' <=> a \in poisoned

\* The actor whose messages a worker is handling.
LiveInv(w) ==
    pc[w] \in {"onStart", "mailbox", "handling"} =>
        current[w] \in pool[w] \ (Dead \cup suspended \cup visited[w])

\* A worker's pass leaves the pass state of the others alone.
LEMMA OtherPass ==
    ASSUME TypePools, TypePass, NEW w \in Workers, NEW v \in Workers, v # w,
           PassStep(w) \/ UserCode(w)
    PROVE  PassSame(v)
<1> USE DEF TypePools, TypePass, PassSame, Goto, Counted, slots, scratch, retained
<1>1. CASE Ingress(w)
    <2>1. UNCHANGED <<visited, current, hasBacklog>>
        BY <1>1, Zenon DEF Ingress, BeginPass, DrainSpawn, EndSpawns, RetryDeferred, EndDeferred,
            DrainTransfer, EndTransfers, RetryAdmin, EndDeferredAdmin, DrainAdmin, EndAdmin
    <2>2. pc'[v] = pc[v] /\ count'[v] = count[v] /\ didWork'[v] = didWork[v]
        BY <1>1, Zenon DEF Ingress, BeginPass, DrainSpawn, EndSpawns, RetryDeferred, EndDeferred,
            DrainTransfer, EndTransfers, RetryAdmin, EndDeferredAdmin, DrainAdmin, EndAdmin
    <2>3. pool'[v] = pool[v]
        BY <1>1, Zenon DEF Ingress, BeginPass, DrainSpawn, EndSpawns, RetryDeferred, EndDeferred,
            DrainTransfer, EndTransfers, RetryAdmin, EndDeferredAdmin, DrainAdmin, EndAdmin
    <2> QED BY <2>1, <2>2, <2>3
<1>2. CASE Ticking(w)
    <2>1. UNCHANGED <<pool, hasBacklog>>
        BY <1>2, Zenon DEF Ticking, SkipActor, EnterActor, OnStartReturn, HandlerReturn,
            TakeMessage, LeaveActor, EndTicking
    <2>2. pc'[v] = pc[v] /\ count'[v] = count[v] /\ didWork'[v] = didWork[v]
        BY <1>2, ZenonT(30) DEF Ticking, SkipActor, EnterActor, OnStartReturn, HandlerReturn,
            TakeMessage, LeaveActor, EndTicking, Visit
    <2>3. visited'[v] = visited[v]
        BY <1>2, Zenon DEF Ticking, SkipActor, EnterActor, OnStartReturn, HandlerReturn,
            TakeMessage, LeaveActor, EndTicking, Visit
    <2>4. current'[v] = current[v]
        BY <1>2, Zenon DEF Ticking, SkipActor, EnterActor, OnStartReturn, HandlerReturn,
            TakeMessage, LeaveActor, EndTicking, Visit
    <2> QED BY <2>1, <2>2, <2>3, <2>4, Zenon
<1>3. CASE Cleanup(w)
    <2>1. ASSUME NEW a \in Actors, RemoveDead(w, a) \/ Unmap(w, a) PROVE PassSame(v)
        BY <2>1, Zenon DEF RemoveDead, Unmap
    <2>2. CASE DeliverLocal(w) \/ EndLocal(w) \/ OnStopReturn(w)
        BY <2>2, Zenon DEF DeliverLocal, EndLocal, OnStopReturn
    <2>3. CASE EndCleanup(w) \/ EndPass(w)
        BY <2>3 DEF EndCleanup, EndPass
    <2> QED BY <1>3, <2>1, <2>2, <2>3, Zenon DEF Cleanup
<1>4. CASE UserCode(w)
    BY <1>4 DEF UserCode, HandlerSend, HandlerSpawn
<1> QED BY <1>1, <1>2, <1>3, <1>4, Zenon DEF PassStep

\* Clearing a mailbox touches one slot.
LEMMA ClearReaches ==
    ASSUME TypeMessages, NEW x \in Actors, Clear(x), NEW a \in Actors, a # x
    PROVE  mailbox'[a] = mailbox[a]
BY DEF TypeMessages, Clear

\* The end of a hook or handler touches one slot.
LEMMA ConcludeReaches ==
    ASSUME TypeMessages, NEW x \in Actors, NEW o, Conclude(x, o), NEW a \in Actors, a # x
    PROVE  /\ mailbox'[a] = mailbox[a]
           /\ a \in suspended' <=> a \in suspended
           /\ a \in stopping' <=> a \in stopping
           /\ a \in poisoned' <=> a \in poisoned
<1>1. mailbox'[a] = mailbox[a]
    BY ClearReaches DEF Conclude
<1> QED BY <1>1 DEF Conclude

\* Delivery touches only slots of the worker's own pool.
LEMMA DeliverReachesSlot ==
    ASSUME TypeMessages, NEW w \in Workers, NEW m, NEW rest, DeliverOrDefer(w, m, rest),
           NEW a \in Actors \ pool[w]
    PROVE  mailbox'[a] = mailbox[a] /\ (a \in stopping' <=> a \in stopping)
BY Zenon DEF TypeMessages, DeliverOrDefer, PoolDeliver

\* An admin command touches only slots of the worker's own pool.
LEMMA AdminReachesSlot ==
    ASSUME TypeMessages, NEW w \in Workers, NEW c, NEW rest, ApplyOrDeferAdmin(w, c, rest),
           NEW a \in Actors \ pool[w]
    PROVE  /\ mailbox'[a] = mailbox[a]
           /\ a \in stopping' <=> a \in stopping
           /\ a \in suspended' <=> a \in suspended
<1>1. mailbox'[a] = mailbox[a]
    BY DEF TypeMessages, ApplyOrDeferAdmin, ApplyAdmin
<1> QED BY <1>1, AdminReaches, Zenon
\* A pass touches the slots of its own pool only.
LEMMA OtherSlots ==
    ASSUME TypePools, TypeMessages, NEW w \in Workers, LiveInv(w),
           PassStep(w) \/ UserCode(w), NEW a \in Actors \ pool[w]
    PROVE  SlotSame(a)
<1> USE DEF SlotSame, slots, flags
<1>u. ASSUME UNCHANGED slots PROVE SlotSame(a)
    BY <1>u
<1>1. CASE Ingress(w)
    <2>1. CASE DrainSpawn(w)    BY <2>1 DEF DrainSpawn
    <2>2. CASE RetryDeferred(w) BY <2>2, DeliverReachesSlot, Zenon DEF RetryDeferred
    <2>3. CASE DrainTransfer(w) BY <2>3, DeliverReachesSlot, Zenon DEF DrainTransfer
    <2>4. CASE RetryAdmin(w)    BY <2>4, AdminReachesSlot DEF RetryAdmin
    <2>5. CASE DrainAdmin(w)    BY <2>5, AdminReachesSlot, Zenon DEF DrainAdmin
    <2>6. CASE \/ BeginPass(w) \/ EndSpawns(w) \/ EndDeferred(w) \/ EndTransfers(w)
               \/ EndDeferredAdmin(w) \/ EndAdmin(w)
        BY <2>6, Zenon DEF BeginPass, EndSpawns, EndDeferred, EndTransfers, EndDeferredAdmin,
            EndAdmin
    <2> QED BY <1>1, <2>1, <2>2, <2>3, <2>4, <2>5, <2>6, Zenon DEF Ingress
<1>2. CASE Ticking(w)
    <2>c. pc[w] \in {"onStart", "mailbox", "handling"} => current[w] \in Actors /\ current[w] # a
        BY DEF LiveInv, TypePools
    <2>1. ASSUME NEW x \in Actors, SkipActor(w, x) PROVE SlotSame(a)
        <3>1. x # a /\ UNCHANGED flags /\ (Clear(x) \/ UNCHANGED mailbox)
            BY <2>1 DEF SkipActor
        <3> QED BY <3>1, ClearReaches
    <2>2. ASSUME NEW o \in Outcomes, OnStartReturn(w, o) PROVE SlotSame(a)
        <3>1. /\ Conclude(current[w], o) /\ started' = started \cup {current[w]}
              /\ current[w] \in Actors /\ current[w] # a
            BY <2>2, <2>c, Zenon DEF OnStartReturn
        <3> QED BY <3>1, ConcludeReaches, Zenon
    <2>3. ASSUME NEW o \in Outcomes, HandlerReturn(w, o) PROVE SlotSame(a)
        <3>1. /\ Conclude(current[w], o) /\ UNCHANGED started
              /\ current[w] \in Actors /\ current[w] # a
            BY <2>3, <2>c DEF HandlerReturn
        <3> QED BY <3>1, ConcludeReaches, Zenon
    <2>4. CASE TakeMessage(w)
        <3>1. /\ current[w] \in Actors /\ current[w] # a
              /\ UNCHANGED <<started, suspended, poisoned>>
              /\ stopping' \in {stopping, stopping \cup {current[w]}}
              /\ \/ mailbox' = [mailbox EXCEPT ![current[w]] = <<>>]
                 \/ mailbox' = [mailbox EXCEPT ![current[w]] = Tail(mailbox[current[w]])]
            BY <2>4, <2>c, Zenon DEF TakeMessage
        <3>2. mailbox'[a] = mailbox[a]
            BY <3>1, Zenon DEF TypeMessages
        <3> QED BY <3>1, <3>2, Zenon
    <2>5. CASE LeaveActor(w) \/ EndTicking(w) \/ \E x \in Actors : EnterActor(w, x)
        BY <2>5, Zenon DEF LeaveActor, EndTicking, EnterActor
    <2> QED BY <1>2, <2>1, <2>2, <2>3, <2>4, <2>5, Zenon DEF Ticking
<1>3. CASE Cleanup(w)
    <2>1. CASE DeliverLocal(w) BY <2>1, DeliverReachesSlot, Zenon DEF DeliverLocal
    <2>2. ASSUME NEW x \in Actors, RemoveDead(w, x) PROVE SlotSame(a)
        <3>1. x # a /\ UNCHANGED flags /\ Clear(x)
            BY <2>2, Zenon DEF RemoveDead
        <3> QED BY <3>1, ClearReaches
    <2>3. CASE \/ EndLocal(w) \/ OnStopReturn(w) \/ EndCleanup(w) \/ EndPass(w)
               \/ \E x \in Actors : Unmap(w, x)
        BY <2>3 DEF EndLocal, OnStopReturn, EndCleanup, EndPass, Unmap
    <2> QED BY <1>3, <2>1, <2>2, <2>3, Zenon DEF Cleanup
<1>4. CASE UserCode(w)
    BY <1>4 DEF UserCode, HandlerSend, HandlerSpawn
<1> QED BY <1>1, <1>2, <1>3, <1>4, Zenon DEF PassStep

\* Workers do not disturb each other.
LEMMA Isolation ==
    ASSUME TypePools, TypePass, TypeMessages, RouteInv,
           NEW w \in Workers, NEW v \in Workers, v # w, LiveInv(w), PassStep(w) \/ UserCode(w)
    PROVE  PassSame(v) /\ \A a \in pool[v] : SlotSame(a)
<1>1. PassSame(v)
    BY OtherPass
<1>2. ASSUME NEW a \in pool[v] PROVE SlotSame(a)
    <2>1. a \in Actors
        BY DEF TypePools
    <2>2. \A u \in Workers : \A x \in pool[u] : addressMap[x] = u
        BY DEF RouteInv, RoutingSound
    <2>3. addressMap[a] = v /\ (a \in pool[w] => addressMap[a] = w)
        BY <2>2
    <2> QED BY <2>1, <2>3, OtherSlots
<1> QED BY <1>1, <1>2
--------------------------------------------------------------------------------
(* Only live actors run, and no actor is forgotten *)

TickPhases == {"ticking", "onStart", "mailbox", "handling"}
LatePhases == {"respawns", "local", "cleanup", "onStop"}

Settled(a) == a \in Dead \/ Quiet(a)

\* How far the pass of w has got with making its actors quiet.  As long as a pass
\* has done no work, the actors it has passed have nothing left to do; after
\* tick_all that is all of them, and at the end none is dead.  A pass that has
\* done work promises nothing: it sets has_backlog.
IdleInv(w) ==
    /\ pc[w] \notin TickPhases => visited[w] = {}
    /\ pc[w] \in TickPhases /\ ~didWork[w] => \A a \in pool[w] \cap visited[w] : Settled(a)
    /\ pc[w] \in {"mailbox", "handling"} =>
          current[w] \in started /\ (~didWork[w] => count[w] = 0)
    /\ pc[w] \in LatePhases /\ ~didWork[w] => \A a \in pool[w] : Settled(a)
    /\ pc[w] = "flush" /\ ~didWork[w] => \A a \in pool[w] : Quiet(a)
    /\ pc[w] = "idle" /\ ~hasBacklog[w] => \A a \in pool[w] : Quiet(a)

\* An actor whose slot does not change stays quiet.
LEMMA SameIsQuiet ==
    ASSUME NEW a, SlotSame(a)
    PROVE  (Quiet(a)' <=> Quiet(a)) /\ (Settled(a)' <=> Settled(a)) /\ (a \in Dead' <=> a \in Dead)
BY DEF SlotSame, Quiet, Settled, Dead

\* A step that leaves a worker, its pool and its slots alone keeps its idle invariant.
LEMMA Undisturbed ==
    ASSUME NEW v \in Workers, PassSame(v), \A a \in pool[v] : SlotSame(a),
           LiveInv(v), IdleInv(v)
    PROVE  LiveInv(v)' /\ IdleInv(v)'
<1>1. \A a \in pool[v] : /\ Quiet(a)' <=> Quiet(a)
                         /\ Settled(a)' <=> Settled(a)
                         /\ a \in Dead' <=> a \in Dead
                         /\ a \in suspended' <=> a \in suspended
                         /\ a \in started' <=> a \in started
    BY SameIsQuiet DEF SlotSame
<1>2. LiveInv(v)'
    BY <1>1 DEF PassSame, LiveInv
<1>3. pc[v] \in {"mailbox", "handling"} => current[v] \in pool[v]
    BY DEF LiveInv
<1>4. IdleInv(v)'
    BY <1>1, <1>3 DEF PassSame, IdleInv
<1> QED BY <1>2, <1>4

\* Before the handlers run nothing is promised, except that no actor has been
\* visited.
LEMMA IngressIdle ==
    ASSUME TypePools, TypePass, NEW w \in Workers, LiveInv(w), IdleInv(w), Ingress(w)
    PROVE  LiveInv(w)' /\ IdleInv(w)'
<1> USE DEF TypePass, Goto, TickPhases, LatePhases, scratch
<1>1. UNCHANGED visited
    BY Zenon DEF Ingress, BeginPass, DrainSpawn, EndSpawns, RetryDeferred, EndDeferred,
        DrainTransfer, EndTransfers, RetryAdmin, EndDeferredAdmin, DrainAdmin, EndAdmin
<1>2. ASSUME pc'[w] \in {"spawns", "deferred", "transfers", "deferredAdmin", "admin", "ticking"},
             pc[w] \notin TickPhases
      PROVE  LiveInv(w)' /\ IdleInv(w)'
    BY <1>1, <1>2, Zenon DEF LiveInv, IdleInv
<1>3. CASE DrainSpawn(w)
    <2>1. pc'[w] \in {"spawns", "respawns"} /\ pc'[w] = pc[w] /\ didWork'[w]
        BY <1>3 DEF DrainSpawn
    <2> QED BY <1>1, <2>1 DEF LiveInv, IdleInv
<1>4. CASE EndSpawns(w)
    <2>1. CASE pc[w] = "spawns"
        BY <1>2, <1>4, <2>1, Zenon DEF EndSpawns
    <2>2. CASE pc[w] = "respawns"
        <3>1. pc'[w] = "local" /\ UNCHANGED <<slots, didWork>>
            BY <1>4, <2>2, Zenon DEF EndSpawns
        <3>2. \A a : Settled(a)' <=> Settled(a)
            BY <3>1 DEF Settled, Quiet, Dead, slots
        <3> QED BY <1>1, <2>2, <3>1, <3>2, Zenon DEF LiveInv, IdleInv, slots
    <2> QED BY <1>4, <2>1, <2>2, Zenon DEF EndSpawns
<1>5. CASE BeginPass(w)        BY <1>2, <1>5, Zenon DEF BeginPass
<1>6. CASE RetryDeferred(w)    BY <1>2, <1>6, Zenon DEF RetryDeferred
<1>7. CASE EndDeferred(w)      BY <1>2, <1>7, Zenon DEF EndDeferred
<1>8. CASE DrainTransfer(w)    BY <1>2, <1>8, Zenon DEF DrainTransfer
<1>9. CASE EndTransfers(w)     BY <1>2, <1>9, Zenon DEF EndTransfers
<1>10. CASE RetryAdmin(w)      BY <1>2, <1>10, Zenon DEF RetryAdmin
<1>11. CASE EndDeferredAdmin(w) BY <1>2, <1>11, Zenon DEF EndDeferredAdmin
<1>12. CASE DrainAdmin(w)      BY <1>2, <1>12, Zenon DEF DrainAdmin
<1>13. CASE EndAdmin(w)        BY <1>2, <1>13 DEF EndAdmin
<1> QED BY <1>3, <1>4, <1>5, <1>6, <1>7, <1>8, <1>9, <1>10, <1>11, <1>12, <1>13
        DEF Ingress
\* An actor leaves tick_all settled, or the pass has done work.
LEMMA VisitIdle ==
    ASSUME TypePools, TypePass, NEW w \in Workers, IdleInv(w), pc[w] \in TickPhases,
           NEW x \in Actors, Visit(w, x), UNCHANGED pool,
           \A a \in Actors \ {x} : SlotSame(a),
           ~didWork'[w] => ~didWork[w] /\ Settled(x)'
    PROVE  LiveInv(w)' /\ IdleInv(w)'
<1>1. pc'[w] = "ticking" /\ visited'[w] = visited[w] \cup {x}
    BY DEF Visit, Goto, TypePools, TypePass
<1>2. pool'[w] = pool[w] /\ pool[w] \subseteq Actors
    BY DEF TypePools
<1>3. ASSUME ~didWork'[w], NEW a \in pool'[w] \cap visited'[w] PROVE Settled(a)'
    <2>1. CASE a = x
        BY <1>3, <2>1
    <2>2. CASE a # x
        <3>1. Settled(a) /\ SlotSame(a)
            BY <1>1, <1>2, <1>3, <2>2, Zenon DEF IdleInv
        <3> QED BY <3>1, SameIsQuiet, Zenon
    <2> QED BY <2>1, <2>2
<1> QED BY <1>1, <1>3 DEF LiveInv, IdleInv, TickPhases, LatePhases

\* Every step of tick_all keeps the idle invariant.
LEMMA TickingIdle ==
    ASSUME TypePools, TypePass, TypeMessages, NEW w \in Workers, LiveInv(w), IdleInv(w),
           Ticking(w)
    PROVE  LiveInv(w)' /\ IdleInv(w)'
<1> USE DEF TickPhases, LatePhases
<1>p. UNCHANGED pool
    BY DEF Ticking, SkipActor, EnterActor, OnStartReturn, HandlerReturn, TakeMessage,
        LeaveActor, EndTicking, slots
<1>c. pc[w] \in {"onStart", "mailbox", "handling"} =>
          /\ current[w] \in Actors /\ current[w] \in pool[w]
          /\ current[w] \notin Dead \cup suspended \cup visited[w]
    BY DEF LiveInv, TypePools
<1>1. ASSUME NEW x \in Actors, SkipActor(w, x) PROVE LiveInv(w)' /\ IdleInv(w)'
    <2>1. /\ pc[w] \in TickPhases /\ Visit(w, x) /\ x \in Dead \cup suspended
          /\ UNCHANGED <<flags, didWork>>
          /\ Clear(x) \/ UNCHANGED mailbox
        BY <1>1 DEF SkipActor
    <2>2. \A a \in Actors \ {x} : SlotSame(a)
        BY <2>1, ClearReaches DEF SlotSame, flags
    <2>3. Settled(x)'
        BY <2>1, Zenon DEF Settled, Quiet, Dead, flags
    <2> QED BY <1>p, <2>1, <2>2, <2>3, VisitIdle, Zenon
<1>2. ASSUME NEW x \in Actors, EnterActor(w, x) PROVE LiveInv(w)' /\ IdleInv(w)'
    <2>1. /\ pc[w] = "ticking" /\ x \in pool[w] \ visited[w] /\ x \notin Dead \cup suspended
          /\ current'[w] = x /\ count'[w] = 0
          /\ pc'[w] = (IF x \in started THEN "mailbox" ELSE "onStart")
          /\ UNCHANGED <<slots, didWork, visited>>
        BY <1>2, Zenon DEF EnterActor, Goto, TypePass, TypePools
    <2>2. \A a : Settled(a)' <=> Settled(a)
        BY <2>1 DEF Settled, Quiet, Dead, slots
    <2>3. LiveInv(w)'
        BY <2>1 DEF LiveInv, Dead, slots
    <2> QED BY <2>1, <2>2, <2>3, Zenon DEF IdleInv, slots
<1>3. ASSUME NEW o \in Outcomes, OnStartReturn(w, o) PROVE LiveInv(w)' /\ IdleInv(w)'
    <2>0. PICK x \in Actors : x = current[w]
        BY <1>3, <1>c, Zenon DEF OnStartReturn
    <2>1. /\ pc[w] = "onStart" /\ Conclude(x, o) /\ started' = started \cup {x}
          /\ UNCHANGED didWork
          /\ x \in pool[w] /\ x \notin Dead \cup suspended \cup visited[w]
        BY <1>3, <1>c, <2>0, Zenon DEF OnStartReturn
    <2>2. \A a \in Actors \ {x} : SlotSame(a)
        BY <2>1, ConcludeReaches, Zenon DEF SlotSame
    <2>3. CASE o = "ok"
        <3>1. /\ pc'[w] = "mailbox" /\ count'[w] = 0 /\ UNCHANGED <<visited, current>>
              /\ UNCHANGED <<stopping, poisoned, suspended>>
            BY <1>3, <2>1, <2>3, Zenon DEF OnStartReturn, Goto, TypePass, Conclude
        <3>2. \A a \in pool[w] \cap visited[w] : SlotSame(a)
            BY <2>1, <2>2, Zenon DEF TypePools
        <3>3. \A a \in pool[w] \cap visited[w] : Settled(a)' <=> Settled(a)
            BY <3>2, SameIsQuiet, Zenon
        <3>4. LiveInv(w)'
            BY <1>p, <2>0, <2>1, <3>1, Zenon DEF LiveInv, Dead
        <3> QED BY <1>p, <2>0, <2>1, <3>1, <3>3, <3>4, Zenon DEF IdleInv
    <2>4. CASE o # "ok"
        <3>1. Visit(w, x)
            BY <1>3, <2>0, <2>4, Zenon DEF OnStartReturn
        <3>2. x \in stopping' \/ x \in poisoned' \/ (x \in suspended' /\ x \notin Dead')
            BY <2>1, <2>4, Zenon DEF Outcomes, Conclude, Dead
        <3>3. Settled(x)'
            BY <3>2, Zenon DEF Settled, Quiet, Dead
        <3> QED BY <1>p, <2>1, <2>2, <3>1, <3>3, VisitIdle, Zenon
    <2> QED BY <2>3, <2>4, Zenon
<1>4. ASSUME NEW o \in Outcomes, HandlerReturn(w, o) PROVE LiveInv(w)' /\ IdleInv(w)'
    <2>0. PICK x \in Actors : x = current[w]
        BY <1>4, <1>c, Zenon DEF HandlerReturn
    <2>1. /\ pc[w] = "handling" /\ Conclude(x, o) /\ UNCHANGED started
          /\ didWork'[w] = (didWork[w] \/ o # "panic")
          /\ x \in pool[w] /\ x \notin Dead \cup suspended \cup visited[w]
        BY <1>4, <1>c, <2>0, Zenon DEF HandlerReturn, TypePass
    <2>2. \A a \in Actors \ {x} : SlotSame(a)
        BY <2>1, ConcludeReaches, Zenon DEF SlotSame
    <2>3. CASE o = "ok"
        <3>1. /\ pc'[w] = "mailbox" /\ UNCHANGED <<visited, current>> /\ didWork'[w]
              /\ UNCHANGED <<stopping, poisoned, suspended>>
            BY <1>4, <2>1, <2>3, Zenon DEF HandlerReturn, TypePass, Conclude
        <3>2. LiveInv(w)'
            BY <1>p, <2>0, <2>1, <3>1, Zenon DEF LiveInv, Dead
        <3> QED BY <2>1, <3>1, <3>2, Zenon DEF IdleInv
    <2>4. CASE o # "ok"
        <3>1. Visit(w, x)
            BY <1>4, <2>0, <2>4, Zenon DEF HandlerReturn
        <3>2. o = "panic" => x \in Dead'
            BY <2>1 DEF Conclude, Dead
        <3>3. ~didWork'[w] => ~didWork[w] /\ Settled(x)'
            BY <2>1, <3>2, Zenon DEF Settled, Dead
        <3> QED BY <1>p, <2>1, <2>2, <3>1, <3>3, VisitIdle, Zenon
    <2> QED BY <2>3, <2>4
<1>5. CASE TakeMessage(w)
    <2>0. PICK x \in Actors : x = current[w]
        BY <1>5, <1>c, Zenon DEF TakeMessage
    <2>1. /\ pc[w] = "mailbox" /\ mailbox[x] # <<>>
          /\ UNCHANGED <<started, suspended, poisoned, didWork>>
          /\ x \in pool[w] /\ x \notin Dead \cup suspended \cup visited[w]
          /\ \/ /\ stopping' = stopping \cup {x} /\ Visit(w, x)
                /\ mailbox' = [mailbox EXCEPT ![x] = <<>>]
             \/ /\ pc' = [pc EXCEPT ![w] = "handling"]
                /\ UNCHANGED <<stopping, count, visited, current>>
                /\ mailbox' = [mailbox EXCEPT ![x] = Tail(mailbox[x])]
        BY <1>5, <1>c, <2>0, Zenon DEF TakeMessage
    <2>2. \A a \in Actors \ {x} : mailbox'[a] = mailbox[a]
        BY <2>1, Zenon DEF TypeMessages
    <2>3. stopping' \in {stopping, stopping \cup {x}}
        BY <2>1, Zenon
    <2>4. \A a \in Actors \ {x} : SlotSame(a)
        BY <2>1, <2>2, <2>3, Zenon DEF SlotSame
    <2>5. CASE Visit(w, x) /\ stopping' = stopping \cup {x}
        <3>1. Settled(x)'
            BY <2>5, Zenon DEF Settled, Dead
        <3> QED BY <1>p, <2>1, <2>4, <2>5, <3>1, VisitIdle, Zenon
    <2>6. CASE pc' = [pc EXCEPT ![w] = "handling"] /\ UNCHANGED <<stopping, count, visited, current>>
        <3>0. pc'[w] = "handling"
            BY <2>6, Zenon DEF TypePass
        <3>1. LiveInv(w)'
            BY <1>p, <2>0, <2>1, <2>6, Zenon DEF LiveInv, Dead
        <3>2. \A a \in pool[w] \cap visited[w] : Settled(a)' <=> Settled(a)
            BY <2>1, <2>4, SameIsQuiet, Zenon DEF TypePools
        <3> QED BY <1>p, <2>0, <2>1, <2>6, <3>0, <3>1, <3>2, Zenon DEF IdleInv
    <2> QED BY <2>1, <2>5, <2>6, Zenon
<1>6. CASE LeaveActor(w)
    <2>0. PICK x \in Actors : x = current[w]
        BY <1>6, <1>c, Zenon DEF LeaveActor
    <2>1. /\ pc[w] = "mailbox" /\ Visit(w, x) /\ UNCHANGED <<slots, didWork>>
          /\ mailbox[x] = <<>> \/ ~Within(ActorBudget, w)
          /\ x \in pool[w] /\ x \notin Dead \cup suspended \cup visited[w]
        BY <1>6, <1>c, <2>0, Zenon DEF LeaveActor
    <2>2. \A a \in Actors \ {x} : SlotSame(a)
        BY <2>1, Zenon DEF SlotSame, slots
    <2>3. x \in started /\ (~didWork[w] => count[w] = 0)
        BY <2>0, <2>1, Zenon DEF IdleInv
    <2>4. ~didWork[w] => Within(ActorBudget, w)
        BY <2>3, BudgetAssumption DEF Within
    <2>5. ~didWork'[w] => ~didWork[w] /\ Settled(x)'
        BY <2>1, <2>3, <2>4, Zenon DEF Settled, Quiet, Dead, slots
    <2> QED BY <1>p, <2>1, <2>2, <2>5, VisitIdle, Zenon
<1>7. CASE EndTicking(w)
    <2>1. /\ pc[w] = "ticking" /\ pool[w] \subseteq visited[w] /\ pc'[w] = "respawns"
          /\ visited'[w] = {} /\ UNCHANGED <<slots, didWork>>
        BY <1>7, Zenon DEF EndTicking, Goto, TypePass, TypePools
    <2>2. \A a : Settled(a)' <=> Settled(a)
        BY <2>1 DEF Settled, Quiet, Dead, slots
    <2> QED BY <1>p, <2>1, <2>2, Zenon DEF LiveInv, IdleInv
<1> QED BY <1>1, <1>2, <1>3, <1>4, <1>5, <1>6, <1>7 DEF Ticking

\* Local delivery, cleanup and the end of the pass keep the idle invariant.
LEMMA CleanupIdle ==
    ASSUME TypePools, TypePass, NEW w \in Workers, LiveInv(w), IdleInv(w), Cleanup(w)
    PROVE  LiveInv(w)' /\ IdleInv(w)'
<1> USE DEF TickPhases, LatePhases, TypePass, Goto
<1>v. UNCHANGED visited
    BY Zenon DEF Cleanup, DeliverLocal, EndLocal, OnStopReturn, RemoveDead, Unmap, EndCleanup,
        EndPass, scratch
\* A step that does work leaves nothing to show before the pass ends.
<1>d. ASSUME pc[w] \notin TickPhases, pc'[w] \in LatePhases \cup {"flush"}, didWork'[w]
      PROVE  LiveInv(w)' /\ IdleInv(w)'
    BY <1>d, <1>v, Zenon DEF LiveInv, IdleInv
\* A step that changes no slot.
<1>s. ASSUME UNCHANGED <<slots, didWork>>, pc[w] \in LatePhases, pc'[w] \in LatePhases
      PROVE  LiveInv(w)' /\ IdleInv(w)'
    <2>1. \A a : Settled(a)' <=> Settled(a)
        BY <1>s DEF Settled, Quiet, Dead, slots
    <2> QED BY <1>s, <1>v, <2>1, Zenon DEF LiveInv, IdleInv, slots
<1>1. CASE DeliverLocal(w)
    BY <1>d, <1>1, Zenon DEF DeliverLocal
<1>2. ASSUME NEW a \in Actors, RemoveDead(w, a) PROVE LiveInv(w)' /\ IdleInv(w)'
    BY <1>d, <1>2, Zenon DEF RemoveDead
<1>3. CASE EndLocal(w)
    BY <1>s, <1>3, Zenon DEF EndLocal
<1>4. CASE OnStopReturn(w)
    BY <1>s, <1>4, Zenon DEF OnStopReturn
<1>5. ASSUME NEW a \in Actors, Unmap(w, a) PROVE LiveInv(w)' /\ IdleInv(w)'
    BY <1>s, <1>5, Zenon DEF Unmap
<1>6. CASE EndCleanup(w)
    <2>1. /\ pc[w] = "cleanup" /\ pool[w] \cap Dead = {} /\ pc'[w] = "flush"
          /\ UNCHANGED <<slots, didWork>>
        BY <1>6 DEF EndCleanup
    <2>2. \A a : Quiet(a)' <=> Quiet(a)
        BY <2>1, Zenon DEF Quiet, Dead, slots
    <2>3. ~didWork[w] => \A a \in pool[w] : Quiet(a)
        BY <2>1, Zenon DEF IdleInv, Settled
    <2> QED BY <1>v, <2>1, <2>2, <2>3, Zenon DEF LiveInv, IdleInv, slots
<1>7. CASE EndPass(w)
    <2>1. /\ pc[w] = "flush" /\ pc'[w] = "idle" /\ hasBacklog'[w] = didWork[w]
          /\ UNCHANGED slots
        BY <1>7, Zenon DEF EndPass
    <2>2. \A a : Quiet(a)' <=> Quiet(a)
        BY <2>1 DEF Quiet, Dead, slots
    <2> QED BY <1>v, <2>1, <2>2, Zenon DEF LiveInv, IdleInv, slots
<1> QED BY <1>1, <1>2, <1>3, <1>4, <1>5, <1>6, <1>7, Zenon DEF Cleanup
--------------------------------------------------------------------------------
(* The inductive invariant *)

WorkerInv == TypeInv /\ RouteInv /\ \A w \in Workers : LiveInv(w) /\ IdleInv(w)

\* The runtime starts in the worker invariant.
LEMMA WorkerInvInit == Init => WorkerInv
<1> SUFFICES ASSUME Init PROVE WorkerInv
    OBVIOUS
<1>1. TypeInv
    BY TypeInvInit
<1>2. RouteInv
    <2>1. \A w \in Workers : spawnQ[w] = <<>>
        BY DEF Init
    <2>2. \A w \in Workers : Queued(w) = {} /\ IsInjective(spawnQ[w])
        BY <2>1 DEF Queued, Range, IsInjective
    <2> QED BY <2>2 DEF Init, RouteInv, RoutingSound
<1>3. \A w \in Workers : LiveInv(w) /\ IdleInv(w)
    BY DEF Init, LiveInv, IdleInv, TickPhases, LatePhases
<1> QED BY <1>1, <1>2, <1>3, Zenon DEF WorkerInv

\* Every step of a client, a pass or a handler keeps the worker invariant.
LEMMA WorkerInvStep == WorkerInv /\ [Next]_vars => WorkerInv'
<1> SUFFICES ASSUME WorkerInv, [Next]_vars PROVE WorkerInv'
    OBVIOUS
<1>t. TypeInv /\ RouteInv /\ TypeRegistry /\ TypePools /\ TypePass /\ TypeMessages
    BY TypeParts DEF WorkerInv, TypeInv
<1>1. TypeInv'
    BY <1>t, TypeInvStep
<1>2. RouteInv'
    BY <1>t, RouteStep, Zenon
<1>3. ASSUME NEW v \in Workers PROVE LiveInv(v)' /\ IdleInv(v)'
    <2>i. LiveInv(v) /\ IdleInv(v)
        BY DEF WorkerInv
    <2>u. ASSUME UNCHANGED <<slots, hasBacklog, pc, count, didWork, visited, current>>
          PROVE  LiveInv(v)' /\ IdleInv(v)'
        <3>1. PassSame(v) /\ \A a \in pool[v] : SlotSame(a)
            BY <2>u DEF PassSame, SlotSame, slots
        <3> QED BY <2>i, <3>1, Undisturbed, Zenon
    <2>1. CASE ClientStep
        BY <2>1, <2>u, Zenon DEF ClientStep, SpawnMap, SpawnQueue, ClientSend, ClientAdmin,
            retained, scratch
    <2>2. ASSUME NEW w \in Workers, UserCode(w) PROVE LiveInv(v)' /\ IdleInv(v)'
        BY <2>2, <2>u DEF UserCode, HandlerSpawn, HandlerSend, retained, scratch
    <2>3. ASSUME NEW w \in Workers, PassStep(w) PROVE LiveInv(v)' /\ IdleInv(v)'
        <3>1. CASE w = v
            BY <1>t, <2>i, <2>3, <3>1, IngressIdle, TickingIdle, CleanupIdle, Zenon DEF PassStep
        <3>2. CASE w # v
            <4>1. LiveInv(w)
                BY DEF WorkerInv
            <4>2. PassSame(v) /\ \A a \in pool[v] : SlotSame(a)
                BY <1>t, <2>3, <3>2, <4>1, Isolation, Zenon
            <4> QED BY <2>i, <4>2, Undisturbed, Zenon
        <3> QED BY <3>1, <3>2
    <2>4. CASE UNCHANGED vars
        BY <2>4, <2>u DEF vars, retained, scratch
    <2> QED BY <2>1, <2>2, <2>3, <2>4, Zenon DEF Next
<1> QED BY <1>1, <1>2, <1>3, Zenon DEF WorkerInv

\* The inductive invariant of the runtime holds for any number of workers and actors
\* and any budgets; the three theorems below are read off it.
THEOREM WorkerInvariant == Spec => []WorkerInv
BY WorkerInvInit, WorkerInvStep, PTL DEF Spec

\* The address map and the pools agree (AddressMap, ActorPool): each pooled actor is
\* routed to its owner, and each routed actor is there, on its way or leaving.
THEOREM RoutingIsSound == Spec => []RoutingSound
<1>1. WorkerInv => RoutingSound
    BY DEF WorkerInv, RouteInv
<1> QED BY <1>1, WorkerInvariant, PTL

\* tick_all never runs a dead or suspended actor, or one of another worker (the
\* debug_assert "G4" of tick_all), whatever the other workers and clients do.
THEOREM OnlyLiveActorsAreRun == Spec => []OnlyLiveActorsRun
<1>1. WorkerInv => OnlyLiveActorsRun
    BY DEF WorkerInv, LiveInv, OnlyLiveActorsRun
<1> QED BY <1>1, WorkerInvariant, PTL

\* has_work of an idle worker is false only if no actor of its pool has anything to
\* do, so the fast path of try_tick strands nobody.
THEOREM IdleWorkersAreQuiet == Spec => []IdleIsQuiet
<1>1. WorkerInv => IdleIsQuiet
    BY DEF WorkerInv, IdleInv, IdleIsQuiet, HasWork
<1> QED BY <1>1, WorkerInvariant, PTL
================================================================================
