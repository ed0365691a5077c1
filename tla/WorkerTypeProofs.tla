---------------------------- MODULE WorkerTypeProofs ---------------------------
(* Every reachable state of Worker is well typed: queues hold the numbers of   *)
(* messages and commands that exist, and a phase that works on an actor has    *)
(* one. Types are all it takes to show that no admin command is lost, doubled  *)
(* or answered twice, which closes the module.                                 *)
EXTENDS Worker, SeqFacts

--------------------------------------------------------------------------------
(* Type correctness, in five parts *)

TypeRegistry ==
    /\ addressMap \in [Actors -> Workers \cup {NoWorker}]
    /\ unborn \subseteq Actors /\ spawning \subseteq Actors
    /\ rr \in Workers
    /\ spawnQ \in [Workers -> Seq(Actors)]

TypePools ==
    /\ pool \in [Workers -> SUBSET Actors]
    /\ started \subseteq Actors /\ suspended \subseteq Actors
    /\ stopping \subseteq Actors /\ poisoned \subseteq Actors
    /\ visited \in [Workers -> SUBSET Actors]
    /\ current \in [Workers -> Actors \cup {NoActor}]
    /\ removed \in [Workers -> SUBSET Actors]

TypePass ==
    /\ hasBacklog \in [Workers -> BOOLEAN]
    /\ pc \in [Workers -> Phases]
    /\ count \in [Workers -> Nat]
    /\ didWork \in [Workers -> BOOLEAN]

TypeMessages ==
    /\ transferQ \in [Workers -> Seq(DOMAIN msgs)]
    /\ mailbox \in [Actors -> Seq(DOMAIN msgs)]
    /\ deferred \in [Workers -> Seq(DOMAIN msgs)]
    /\ pendingLocal \in [Workers -> Seq(DOMAIN msgs)]
    /\ msgs \in Seq([from : Actors \cup {Client}, dest : Actors, kind : {"user", "stop"}])
    /\ fate \in [DOMAIN msgs -> {"transit", "handled", "discarded"}]

TypeCommands ==
    /\ adminQ \in [Workers -> Seq(DOMAIN cmds)]
    /\ deferredAdmin \in [Workers -> Seq(DOMAIN cmds)]
    /\ cmds \in Seq([op : AdminOps, dest : Actors])
    /\ replies \in [DOMAIN cmds -> Nat]

\* The type invariant, split by what the actions touch.
LEMMA TypeParts == TypeOK <=> /\ TypeRegistry /\ TypePools /\ TypePass
                              /\ TypeMessages /\ TypeCommands
BY Zenon DEF TypeOK, TypeRegistry, TypePools, TypePass, TypeMessages, TypeCommands

\* There is a worker 0, and NoWorker is none of the workers.
LEMMA WorkerFacts == 0 \in Workers /\ NoWorker \notin Workers
BY NumWorkersAssumption DEF Workers, NoWorker

--------------------------------------------------------------------------------
(* Which steps leave the registry and the spawn queues alone *)

\* Of the ingress steps only the spawn drain touches the address map or a spawn queue.
LEMMA IngressFrame ==
    ASSUME NEW w \in Workers, Ingress(w), ~DrainSpawn(w)
    PROVE  UNCHANGED <<registry, spawnQ>>
BY DEF Ingress, BeginPass, EndSpawns, RetryDeferred, EndDeferred, DrainTransfer,
       EndTransfers, RetryAdmin, EndDeferredAdmin, DrainAdmin, EndAdmin

\* No step of tick_all itself touches the address map or a spawn queue.
LEMMA TickingFrame ==
    ASSUME NEW w \in Workers, Ticking(w)
    PROVE  UNCHANGED <<registry, spawnQ>>
BY DEF Ticking, SkipActor, EnterActor, OnStartReturn, HandlerReturn, TakeMessage,
       LeaveActor, EndTicking

\* Of the cleanup steps only unmapping touches the address map or a spawn queue.
LEMMA CleanupFrame ==
    ASSUME NEW w \in Workers, Cleanup(w), \A a \in Actors : ~Unmap(w, a)
    PROVE  UNCHANGED <<registry, spawnQ>>
BY DEF Cleanup, DeliverLocal, EndLocal, OnStopReturn, RemoveDead, EndCleanup, EndPass

\* No send and no admin request touches the address map or a spawn queue.
LEMMA SendFrame ==
    ASSUME NEW a \in Actors, NEW kind,
           ClientSend(a, kind) \/ ClientAdmin(a, kind) \/ \E w \in Workers : HandlerSend(w, a, kind)
    PROVE  UNCHANGED <<registry, spawnQ>>
BY DEF ClientSend, ClientAdmin, HandlerSend

\* Every step keeps the types of the address map and the spawn state.
LEMMA RegistryStep == TypeRegistry /\ [Next]_vars => TypeRegistry'
<1> SUFFICES ASSUME TypeRegistry, [Next]_vars PROVE TypeRegistry'
    OBVIOUS
<1>u. ASSUME UNCHANGED <<registry, spawnQ>> PROVE TypeRegistry'
    BY <1>u DEF TypeRegistry, registry
<1>1. ASSUME NEW a \in Actors, SpawnMap(a) PROVE TypeRegistry'
    <2>1. rr' \in Workers
        BY <1>1, NumWorkersAssumption DEF SpawnMap, NextWorker, TypeRegistry, Workers
    <2> QED BY <1>1, <2>1 DEF SpawnMap, TypeRegistry
<1>2. ASSUME NEW a \in Actors, SpawnQueue(a) PROVE TypeRegistry'
    <2>1. spawnQ' \in [Workers -> Seq(Actors)]
        BY <1>2, AppendType, Zenon DEF SpawnQueue, TypeRegistry
    <2> QED BY <1>2, <2>1 DEF SpawnQueue, TypeRegistry
<1>3. ASSUME NEW w \in Workers, DrainSpawn(w) PROVE TypeRegistry'
    <2>1. Tail(spawnQ[w]) \in Seq(Actors)
        BY <1>3, TailType DEF DrainSpawn, TypeRegistry
    <2> QED BY <1>3, <2>1 DEF DrainSpawn, TypeRegistry, registry
<1>4. ASSUME NEW w \in Workers, NEW a \in Actors, HandlerSpawn(w, a) PROVE TypeRegistry'
    <2>1. Append(spawnQ[w], a) \in Seq(Actors)
        BY AppendType DEF TypeRegistry
    <2> QED BY <1>4, <2>1 DEF HandlerSpawn, TypeRegistry
<1>5. ASSUME NEW w \in Workers, NEW a \in Actors, Unmap(w, a) PROVE TypeRegistry'
    BY <1>5 DEF Unmap, TypeRegistry
<1>6. ASSUME UNCHANGED vars PROVE TypeRegistry'
    BY <1>6, <1>u DEF vars
<1>7. CASE ClientStep
    BY <1>7, <1>1, <1>2, <1>u, SendFrame DEF ClientStep
<1>8. ASSUME NEW w \in Workers, PassStep(w) PROVE TypeRegistry'
    BY <1>8, <1>3, <1>5, <1>u, IngressFrame, TickingFrame, CleanupFrame DEF PassStep
<1>9. ASSUME NEW w \in Workers, UserCode(w) PROVE TypeRegistry'
    BY <1>9, <1>4, <1>u, SendFrame DEF UserCode
<1> QED BY <1>6, <1>7, <1>8, <1>9 DEF Next
--------------------------------------------------------------------------------
(* The progress of the passes *)

\* Whoever runs, or has just been removed to run on_stop, is an actor.
CurrentIsActor == \A w \in Workers :
    pc[w] \in {"onStart", "mailbox", "handling", "onStop"} => current[w] \in Actors

PassInv == TypePass /\ CurrentIsActor /\ current \in [Workers -> Actors \cup {NoActor}]

\* Every step keeps the types of the pass state, and user code runs for an actor.
LEMMA PassTypeStep == PassInv /\ [Next]_vars => PassInv'
<1> SUFFICES ASSUME PassInv, [Next]_vars PROVE PassInv'
    OBVIOUS
<1> USE BudgetAssumption
    DEF PassInv, TypePass, CurrentIsActor, Goto, Counted, Phases, retained, scratch
<1>u. ASSUME UNCHANGED <<retained, pc, count, didWork, scratch>> PROVE PassInv'
    BY <1>u
<1>1. CASE ClientStep
    <2>1. UNCHANGED <<retained, pc, count, didWork, scratch>>
        BY <1>1, Zenon DEF ClientStep, SpawnMap, SpawnQueue, ClientSend, ClientAdmin
    <2> QED BY <2>1, <1>u
<1>2. ASSUME NEW w \in Workers, Ingress(w) PROVE PassInv'
    <2>1. CASE BeginPass(w)        BY <2>1 DEF BeginPass
    <2>2. CASE DrainSpawn(w)       BY <2>2 DEF DrainSpawn
    <2>3. CASE EndSpawns(w)        BY <2>3 DEF EndSpawns
    <2>4. CASE RetryDeferred(w)    BY <2>4 DEF RetryDeferred
    <2>5. CASE EndDeferred(w)      BY <2>5 DEF EndDeferred
    <2>6. CASE DrainTransfer(w)    BY <2>6 DEF DrainTransfer
    <2>7. CASE EndTransfers(w)     BY <2>7 DEF EndTransfers
    <2>8. CASE RetryAdmin(w)       BY <2>8 DEF RetryAdmin
    <2>9. CASE EndDeferredAdmin(w) BY <2>9 DEF EndDeferredAdmin
    <2>10. CASE DrainAdmin(w)      BY <2>10 DEF DrainAdmin
    <2>11. CASE EndAdmin(w)        BY <2>11, Zenon DEF EndAdmin
    <2> QED BY <1>2, <2>1, <2>2, <2>3, <2>4, <2>5, <2>6, <2>7, <2>8, <2>9, <2>10, <2>11, Zenon
            DEF Ingress
<1>3. ASSUME NEW w \in Workers, Ticking(w) PROVE PassInv'
    <2> USE DEF Visit
    <2>1. ASSUME NEW a \in Actors, SkipActor(w, a) PROVE PassInv'
        BY <2>1, Zenon DEF SkipActor
    <2>2. ASSUME NEW a \in Actors, EnterActor(w, a) PROVE PassInv'
        BY <2>2 DEF EnterActor
    <2>3. ASSUME NEW o \in Outcomes, OnStartReturn(w, o) PROVE PassInv'
        BY <2>3 DEF OnStartReturn
    <2>4. ASSUME NEW o \in Outcomes, HandlerReturn(w, o) PROVE PassInv'
        BY <2>4 DEF HandlerReturn
    <2>5. CASE TakeMessage(w)
        <3>1. /\ pc[w] = "mailbox" /\ UNCHANGED <<hasBacklog, didWork>>
              /\ \/ Visit(w, current[w])
                 \/ pc' = [pc EXCEPT ![w] = "handling"] /\ UNCHANGED <<count, current>>
            BY <2>5 DEF TakeMessage
        <3> QED BY <3>1
    <2>6. CASE LeaveActor(w)   BY <2>6, Zenon DEF LeaveActor
    <2>7. CASE EndTicking(w)   BY <2>7, Zenon DEF EndTicking
    <2> QED BY <1>3, <2>1, <2>2, <2>3, <2>4, <2>5, <2>6, <2>7, Zenon DEF Ticking
<1>4. ASSUME NEW w \in Workers, Cleanup(w) PROVE PassInv'
    <2>1. CASE DeliverLocal(w) BY <2>1, Zenon DEF DeliverLocal
    <2>2. CASE EndLocal(w)     BY <2>2 DEF EndLocal
    <2>3. CASE OnStopReturn(w) BY <2>3 DEF OnStopReturn
    <2>4. ASSUME NEW a \in Actors, RemoveDead(w, a) PROVE PassInv'
        BY <2>4 DEF RemoveDead
    <2>5. ASSUME NEW a \in Actors, Unmap(w, a) PROVE PassInv'
        BY <2>5 DEF Unmap
    <2>6. CASE EndCleanup(w)   BY <2>6, Zenon DEF EndCleanup
    <2>7. CASE EndPass(w)      BY <2>7, Zenon DEF EndPass
    <2> QED BY <1>4, <2>1, <2>2, <2>3, <2>4, <2>5, <2>6, <2>7, Zenon DEF Cleanup
<1>5. ASSUME NEW w \in Workers, UserCode(w) PROVE PassInv'
    BY <1>5 DEF UserCode, HandlerSpawn, HandlerSend
<1>6. CASE UNCHANGED vars
    BY <1>6, <1>u DEF vars
<1> QED BY <1>1, <1>2, <1>3, <1>4, <1>5, <1>6 DEF Next, PassStep
--------------------------------------------------------------------------------
(* Pools and slots *)

\* Delivery and admin commands reach no slot outside the worker's own pool.
LEMMA DeliverReaches ==
    ASSUME NEW w, NEW m, NEW rest, DeliverOrDefer(w, m, rest)
    PROVE  stopping \subseteq stopping' /\ stopping' \subseteq stopping \cup pool[w]
BY DEF DeliverOrDefer, PoolDeliver

\* An admin command reaches no slot outside the worker's own pool.
LEMMA AdminReaches ==
    ASSUME NEW w, NEW c, NEW rest, ApplyOrDeferAdmin(w, c, rest)
    PROVE  /\ stopping \subseteq stopping' /\ stopping' \subseteq stopping \cup pool[w]
           /\ suspended' \subseteq suspended \cup pool[w]
           /\ suspended \subseteq suspended' \cup pool[w]
<1>1. CASE Defers(w, cmds[c].dest)
    BY <1>1 DEF ApplyOrDeferAdmin
<1>2. CASE ApplyAdmin(w, c)
    BY <1>2 DEF ApplyAdmin
<1> QED BY <1>1, <1>2 DEF ApplyOrDeferAdmin

\* Every step keeps the types of pools and slot flags.
LEMMA PoolTypeStep == TypeRegistry /\ PassInv /\ TypePools /\ [Next]_vars => TypePools'
<1> SUFFICES ASSUME TypeRegistry, PassInv, TypePools, [Next]_vars PROVE TypePools'
    OBVIOUS
<1>c. (current \in [Workers -> Actors \cup {NoActor}])'
    BY PassTypeStep DEF PassInv
<1> USE <1>c DEF TypePools, slots, flags, scratch, retained
<1>u. ASSUME UNCHANGED <<slots, visited, removed>> PROVE TypePools'
    BY <1>u
<1>1. CASE ClientStep
    <2>1. UNCHANGED <<slots, scratch>>
        BY <1>1, Zenon DEF ClientStep, SpawnMap, SpawnQueue, ClientSend, ClientAdmin
    <2> QED BY <2>1, <1>u
<1>2. ASSUME NEW w \in Workers, Ingress(w) PROVE TypePools'
    <2>1. CASE DrainSpawn(w)
        <3>1. Head(spawnQ[w]) \in Actors
            BY <2>1, TailType, Zenon DEF DrainSpawn, TypeRegistry
        <3> QED BY <2>1, <3>1 DEF DrainSpawn
    <2>2. CASE RetryDeferred(w) BY <2>2, DeliverReaches DEF RetryDeferred
    <2>3. CASE DrainTransfer(w) BY <2>3, DeliverReaches DEF DrainTransfer
    <2>4. CASE RetryAdmin(w)    BY <2>4, AdminReaches DEF RetryAdmin
    <2>5. CASE DrainAdmin(w)    BY <2>5, AdminReaches DEF DrainAdmin
    <2>6. CASE \/ BeginPass(w) \/ EndSpawns(w) \/ EndDeferred(w) \/ EndTransfers(w)
               \/ EndDeferredAdmin(w) \/ EndAdmin(w)
        <3>1. UNCHANGED <<slots, scratch>>
            BY <2>6, Zenon DEF BeginPass, EndSpawns, EndDeferred, EndTransfers, EndDeferredAdmin,
                        EndAdmin
        <3> QED BY <1>u, <3>1, Zenon
    <2> QED BY <1>2, <2>1, <2>2, <2>3, <2>4, <2>5, <2>6, Zenon DEF Ingress
<1>3. ASSUME NEW w \in Workers, Ticking(w) PROVE TypePools'
    <2> USE DEF Visit, Conclude
    <2>1. ASSUME NEW a \in Actors, SkipActor(w, a) PROVE TypePools'
        BY <2>1 DEF SkipActor
    <2>2. ASSUME NEW a \in Actors, EnterActor(w, a) PROVE TypePools'
        BY <2>2 DEF EnterActor
    <2>3. ASSUME NEW o \in Outcomes, OnStartReturn(w, o) PROVE TypePools'
        <3>1. current[w] \in Actors
            BY <2>3 DEF OnStartReturn, PassInv, CurrentIsActor
        <3> QED BY <2>3, <3>1 DEF OnStartReturn
    <2>4. ASSUME NEW o \in Outcomes, HandlerReturn(w, o) PROVE TypePools'
        <3>1. current[w] \in Actors
            BY <2>4 DEF HandlerReturn, PassInv, CurrentIsActor
        <3> QED BY <2>4, <3>1 DEF HandlerReturn
    <2>5. CASE TakeMessage(w)
        <3>1. current[w] \in Actors
            BY <2>5, Zenon DEF TakeMessage, PassInv, CurrentIsActor
        <3>2. /\ stopping' \in {stopping, stopping \cup {current[w]}}
              /\ visited' \in {visited, [visited EXCEPT ![w] = @ \cup {current[w]}]}
              /\ UNCHANGED <<pool, started, suspended, poisoned, removed>>
            BY <2>5 DEF TakeMessage
        <3> QED BY <3>1, <3>2
    <2>6. CASE LeaveActor(w)
        <3>1. current[w] \in Actors
            BY <2>6 DEF LeaveActor, PassInv, CurrentIsActor
        <3> QED BY <2>6, <3>1, Zenon DEF LeaveActor
    <2>7. CASE EndTicking(w)
        BY <2>7, Zenon DEF EndTicking
    <2> QED BY <1>3, <2>1, <2>2, <2>3, <2>4, <2>5, <2>6, <2>7, Zenon DEF Ticking
<1>4. ASSUME NEW w \in Workers, Cleanup(w) PROVE TypePools'
    <2>1. CASE DeliverLocal(w)  BY <2>1, DeliverReaches DEF DeliverLocal
    <2>2. ASSUME NEW a \in Actors, RemoveDead(w, a) PROVE TypePools'
        BY <2>2 DEF RemoveDead
    <2>3. ASSUME NEW a \in Actors, Unmap(w, a) PROVE TypePools'
        BY <2>3, Zenon DEF Unmap
    <2>4. CASE EndLocal(w) \/ OnStopReturn(w) \/ EndCleanup(w) \/ EndPass(w)
        <3>1. UNCHANGED <<slots, visited, removed>>
            BY <2>4, Zenon DEF EndLocal, OnStopReturn, EndCleanup, EndPass
        <3> QED BY <1>u, <3>1, Zenon
    <2> QED BY <1>4, <2>1, <2>2, <2>3, <2>4, Zenon DEF Cleanup
<1>5. ASSUME NEW w \in Workers, UserCode(w) PROVE TypePools'
    <2>1. UNCHANGED <<slots, visited, removed>>
        BY <1>5 DEF UserCode, HandlerSpawn, HandlerSend
    <2> QED BY <1>u, <2>1
<1>6. CASE UNCHANGED vars
    BY <1>6, <1>u DEF vars
<1> QED BY <1>1, <1>2, <1>3, <1>4, <1>5, <1>6 DEF Next, PassStep
--------------------------------------------------------------------------------
(* Messages *)

Fates == {"transit", "handled", "discarded"}
Envelopes == [from : Actors \cup {Client}, dest : Actors, kind : {"user", "stop"}]

\* Accepting a message makes one more number, and all older ones stay valid.
LEMMA AcceptType ==
    ASSUME TypeMessages, NEW from \in Actors \cup {Client}, NEW dest \in Actors,
           NEW kind \in {"user", "stop"}, Accept(from, dest, kind)
    PROVE  /\ msgs' \in Seq(Envelopes) /\ fate' \in [DOMAIN msgs' -> Fates]
           /\ DOMAIN msgs \subseteq DOMAIN msgs' /\ Len(msgs) + 1 \in DOMAIN msgs'
<1> DEFINE e == [from |-> from, dest |-> dest, kind |-> kind]
<1>1. e \in Envelopes
    BY DEF Envelopes
<1>2. /\ msgs \in Seq(Envelopes) /\ fate \in [DOMAIN msgs -> Fates]
      /\ msgs' = Append(msgs, e) /\ fate' = Append(fate, "transit")
    BY DEF TypeMessages, Accept, Envelopes, Fates
<1> HIDE DEF e
<1>3. Len(msgs) \in Nat /\ DOMAIN msgs = 1..Len(msgs)
    BY <1>2
<1>4. msgs' \in Seq(Envelopes) /\ Len(msgs') = Len(msgs) + 1
    BY <1>1, <1>2
<1>5. DOMAIN msgs' = 1..(Len(msgs) + 1)
    BY <1>4
<1>6. fate \in Seq(Fates) /\ Len(fate) = Len(msgs)
    BY <1>2, <1>3
<1>7. fate' \in Seq(Fates) /\ Len(fate') = Len(msgs) + 1
    <2>1. "transit" \in Fates
        BY DEF Fates
    <2> QED BY <1>2, <1>6, <2>1
<1>8. fate' \in [1..(Len(msgs) + 1) -> Fates]
    BY <1>7
<1> QED BY <1>3, <1>4, <1>5, <1>8

\* The queues keep their type when messages are only added.
LEMMA QueuesWiden ==
    ASSUME NEW I, NEW A, NEW B, A \subseteq B, NEW q \in [I -> Seq(A)]
    PROVE  q \in [I -> Seq(B)]
BY SeqWiden

\* Settling messages keeps the type of fate.
LEMMA SettleType ==
    ASSUME NEW N, fate \in [N -> Fates], NEW S, NEW f \in Fates
    PROVE  Settle(S, f) \in [N -> Fates]
BY DEF Settle

\* Delivering or deferring a message keeps the types of queues and fates.
LEMMA DeliverType ==
    ASSUME TypeMessages, TypePools, NEW w \in Workers, NEW m \in DOMAIN msgs,
           NEW rest \in Seq(DOMAIN msgs), DeliverOrDefer(w, m, rest)
    PROVE  /\ mailbox' \in [Actors -> Seq(DOMAIN msgs)]
           /\ deferred' \in [Workers -> Seq(DOMAIN msgs)]
           /\ fate' \in [DOMAIN msgs -> Fates]
<1> DEFINE N == DOMAIN msgs
           a == msgs[m].dest
<1>t. /\ mailbox \in [Actors -> Seq(N)] /\ deferred \in [Workers -> Seq(N)]
      /\ fate \in [N -> Fates] /\ m \in N /\ rest \in Seq(N) /\ pool[w] \subseteq Actors
    BY DEF TypeMessages, TypePools, Fates
<1>d. /\ deferred' = [deferred EXCEPT ![w] = IF Defers(w, a) THEN Append(rest, m) ELSE rest]
      /\ \/ a \in pool[w] /\ PoolDeliver(a, m)
         \/ UNCHANGED <<mailbox, fate>>
         \/ fate' = Settle({m}, "discarded") /\ UNCHANGED mailbox
    BY DEF DeliverOrDefer
<1>f. "handled" \in Fates /\ "discarded" \in Fates
    BY DEF Fates
<1> HIDE DEF N
<1>1. deferred' \in [Workers -> Seq(N)]
    <2>1. Append(rest, m) \in Seq(N)
        BY <1>t, AppendType
    <2> QED BY <1>t, <1>d, <2>1
<1>2. CASE a \in pool[w] /\ PoolDeliver(a, m)
    <2>0. a \in Actors
        BY <1>t, <1>2
    <2> HIDE DEF a
    <2>1. CASE /\ mailbox' = [mailbox EXCEPT ![a] = <<>>]
               /\ fate' = [Settle(Range(mailbox[a]), "discarded") EXCEPT ![m] = "handled"]
        <3>1. Settle(Range(mailbox[a]), "discarded") \in [N -> Fates]
            BY <1>t, <1>f, SettleType
        <3>2. fate' \in [N -> Fates]
            BY <1>f, <2>1, <3>1, Zenon
        <3>3. mailbox' \in [Actors -> Seq(N)]
            <4>1. <<>> \in Seq(N)
                OBVIOUS
            <4>2. mailbox' = [mailbox EXCEPT ![a] = <<>>]
                BY <2>1
            <4> QED BY <1>t, <4>1, <4>2, Zenon
        <3> QED BY <1>1, <3>2, <3>3 DEF N
    <2>2. CASE mailbox' = [mailbox EXCEPT ![a] = Append(@, m)] /\ fate' = fate
        <3>1. Append(mailbox[a], m) \in Seq(N)
            BY <1>t, <2>0, AppendType
        <3> QED BY <1>t, <1>1, <2>2, <3>1, Zenon DEF N
    <2> QED BY <1>2, <2>1, <2>2 DEF PoolDeliver
<1>3. CASE UNCHANGED <<mailbox, fate>>
    BY <1>t, <1>1, <1>3 DEF N
<1>4. CASE fate' = Settle({m}, "discarded") /\ UNCHANGED mailbox
    <2>1. fate' \in [N -> Fates]
        BY <1>t, <1>f, <1>4, SettleType
    <2> QED BY <1>t, <1>1, <1>4, <2>1, Zenon DEF N
<1> QED BY <1>d, <1>2, <1>3, <1>4

\* Clearing a mailbox keeps the types of mailboxes and fates.
LEMMA ClearType ==
    ASSUME TypeMessages, NEW a \in Actors, Clear(a)
    PROVE  mailbox' \in [Actors -> Seq(DOMAIN msgs)] /\ fate' \in [DOMAIN msgs -> Fates]
<1>1. mailbox \in [Actors -> Seq(DOMAIN msgs)] /\ fate \in [DOMAIN msgs -> Fates]
    BY DEF TypeMessages, Fates
<1>2. <<>> \in Seq(DOMAIN msgs) /\ "discarded" \in Fates
    BY DEF Fates
<1>3. mailbox' = [mailbox EXCEPT ![a] = <<>>] /\ fate' = Settle(Range(mailbox[a]), "discarded")
    BY DEF Clear
<1>4. mailbox' \in [Actors -> Seq(DOMAIN msgs)]
    BY <1>1, <1>2, <1>3
<1>5. fate' \in [DOMAIN msgs -> Fates]
    BY <1>1, <1>2, <1>3, SettleType
<1> QED BY <1>4, <1>5

\* What the admin commands and the ends of hooks do to mailboxes and fates.
LEMMA MaybeClearType ==
    ASSUME TypeMessages,
           (\E a \in Actors : Clear(a)) \/ UNCHANGED <<mailbox, fate>>
    PROVE  mailbox' \in [Actors -> Seq(DOMAIN msgs)] /\ fate' \in [DOMAIN msgs -> Fates]
BY ClearType DEF TypeMessages, Fates

\* An admin command clears a mailbox or leaves all of them alone.
LEMMA AdminClears ==
    ASSUME TypePools, NEW w \in Workers, NEW c, NEW rest, ApplyOrDeferAdmin(w, c, rest)
    PROVE  (\E a \in Actors : Clear(a)) \/ UNCHANGED <<mailbox, fate>>
<1>1. CASE Defers(w, cmds[c].dest)
    BY <1>1 DEF ApplyOrDeferAdmin
<1>2. CASE ApplyAdmin(w, c)
    <2>1. CASE cmds[c].dest \in pool[w] /\ cmds[c].op = "stop"
        <3>1. cmds[c].dest \in Actors
            BY <2>1 DEF TypePools
        <3>2. Clear(cmds[c].dest)
            BY <1>2, <2>1 DEF ApplyAdmin, Clear
        <3> QED BY <3>1, <3>2
    <2>2. CASE ~(cmds[c].dest \in pool[w] /\ cmds[c].op = "stop")
        BY <1>2, <2>2 DEF ApplyAdmin
    <2> QED BY <2>1, <2>2
<1> QED BY <1>1, <1>2 DEF ApplyOrDeferAdmin

\* Every step keeps queued message numbers within the messages accepted.
LEMMA MessageTypeStep ==
    TypeRegistry /\ PassInv /\ TypePools /\ TypeMessages /\ [Next]_vars => TypeMessages'
<1> SUFFICES ASSUME TypeRegistry, PassInv, TypePools, TypeMessages, [Next]_vars
             PROVE  TypeMessages'
    OBVIOUS
<1> DEFINE N == DOMAIN msgs
<1>t. /\ transferQ \in [Workers -> Seq(N)] /\ deferred \in [Workers -> Seq(N)]
      /\ pendingLocal \in [Workers -> Seq(N)] /\ mailbox \in [Actors -> Seq(N)]
    BY DEF TypeMessages
<1> HIDE DEF N
\* Steps that accept no message need only keep the queues and fates in shape.
<1>s. ASSUME UNCHANGED msgs, mailbox' \in [Actors -> Seq(N)], fate' \in [N -> Fates],
             transferQ' \in [Workers -> Seq(N)], deferred' \in [Workers -> Seq(N)],
             pendingLocal' \in [Workers -> Seq(N)]
      PROVE  TypeMessages'
    BY <1>s DEF TypeMessages, Fates, N
<1>c. ASSUME UNCHANGED <<msgs, transferQ, deferred, pendingLocal>>,
             (\E a \in Actors : Clear(a)) \/ UNCHANGED <<mailbox, fate>>
      PROVE  TypeMessages'
    BY <1>c, <1>s, <1>t, MaybeClearType DEF N
\* Steps that accept one put its number in one queue.
<1>a. ASSUME NEW from \in Actors \cup {Client}, NEW a \in Actors,
             NEW kind \in {"user", "stop"}, Accept(from, a, kind),
             UNCHANGED <<mailbox, deferred>>,
             \/ /\ UNCHANGED pendingLocal
                /\ \E v \in Workers :
                      transferQ' = [transferQ EXCEPT ![v] = Append(@, Len(msgs) + 1)]
             \/ /\ UNCHANGED transferQ
                /\ \E v \in Workers :
                      pendingLocal' = [pendingLocal EXCEPT ![v] = Append(@, Len(msgs) + 1)]
      PROVE  TypeMessages'
    <2> DEFINE M == DOMAIN msgs'
               k == Len(msgs) + 1
    <2>1. /\ msgs' \in Seq(Envelopes) /\ fate' \in [M -> Fates] /\ N \subseteq M /\ k \in M
        BY <1>a, AcceptType DEF N
    <2> HIDE DEF M
    <2>2. /\ transferQ \in [Workers -> Seq(M)] /\ deferred \in [Workers -> Seq(M)]
          /\ pendingLocal \in [Workers -> Seq(M)] /\ mailbox \in [Actors -> Seq(M)]
        BY <1>t, <2>1, QueuesWiden
    <2>3. \A v \in Workers : /\ Append(transferQ[v], k) \in Seq(M)
                             /\ Append(pendingLocal[v], k) \in Seq(M)
        BY <2>1, <2>2, AppendType
    <2> HIDE DEF k
    <2>4. transferQ' \in [Workers -> Seq(M)] /\ pendingLocal' \in [Workers -> Seq(M)]
        BY <1>a, <2>2, <2>3, Zenon DEF k
    <2> QED BY <1>a, <2>1, <2>2, <2>4, Zenon DEF TypeMessages, Envelopes, Fates, M
<1>1. ASSUME NEW a \in Actors, NEW kind \in {"user", "stop"}, ClientSend(a, kind)
      PROVE  TypeMessages'
    <2>1. addressMap[a] \in Workers
        BY <1>1 DEF ClientSend, TypeRegistry
    <2>2. UNCHANGED <<mailbox, deferred, pendingLocal>>
        BY <1>1 DEF ClientSend, slots, retained, scratch
    <2> QED BY <1>1, <1>a, <2>1, <2>2, Zenon DEF ClientSend
<1>2. ASSUME NEW w \in Workers, NEW a \in Actors, NEW kind \in {"user", "stop"},
             HandlerSend(w, a, kind)
      PROVE  TypeMessages'
    <2>1. addressMap[a] \in Workers
        BY <1>2 DEF HandlerSend, TypeRegistry
    <2>2. UNCHANGED <<mailbox, deferred>> /\ Accept(current[w], a, kind)
        BY <1>2 DEF HandlerSend, slots, retained
    <2>3. current[w] \in Actors \cup {Client}
        BY DEF PassInv, NoActor
    <2>4. \/ /\ UNCHANGED pendingLocal
             /\ \E v \in Workers :
                   transferQ' = [transferQ EXCEPT ![v] = Append(@, Len(msgs) + 1)]
          \/ /\ UNCHANGED transferQ
             /\ \E v \in Workers :
                   pendingLocal' = [pendingLocal EXCEPT ![v] = Append(@, Len(msgs) + 1)]
        BY <1>2, <2>1, Zenon DEF HandlerSend
    <2> QED BY <1>a, <2>2, <2>3, <2>4
\* Deliveries take a number from one queue to a mailbox or to the deferred queue.
<1>d. ASSUME NEW w \in Workers, NEW m \in N, NEW rest \in Seq(N), DeliverOrDefer(w, m, rest),
             UNCHANGED msgs, transferQ' \in [Workers -> Seq(N)],
             pendingLocal' \in [Workers -> Seq(N)]
      PROVE  TypeMessages'
    BY <1>d, <1>s, DeliverType DEF N
<1>3. ASSUME NEW w \in Workers, RetryDeferred(w) PROVE TypeMessages'
    <2>1. Head(deferred[w]) \in N /\ Tail(deferred[w]) \in Seq(N)
        BY <1>3, <1>t, TailType DEF RetryDeferred
    <2>2. /\ DeliverOrDefer(w, Head(deferred[w]), Tail(deferred[w]))
          /\ UNCHANGED <<msgs, transferQ, pendingLocal>>
        BY <1>3 DEF RetryDeferred, scratch
    <2> QED BY <1>d, <1>t, <2>1, <2>2, Zenon
<1>4. ASSUME NEW w \in Workers, DrainTransfer(w) PROVE TypeMessages'
    <2>1. Head(transferQ[w]) \in N /\ Tail(transferQ[w]) \in Seq(N) /\ deferred[w] \in Seq(N)
        BY <1>4, <1>t, TailType, Zenon DEF DrainTransfer
    <2>2. /\ DeliverOrDefer(w, Head(transferQ[w]), deferred[w])
          /\ UNCHANGED <<msgs, pendingLocal>>
          /\ transferQ' = [transferQ EXCEPT ![w] = Tail(@)]
        BY <1>4 DEF DrainTransfer, scratch
    <2>3. transferQ' \in [Workers -> Seq(N)]
        BY <1>t, <2>1, <2>2, Zenon
    <2> QED BY <1>d, <1>t, <2>1, <2>2, <2>3, Zenon
<1>5. ASSUME NEW w \in Workers, DeliverLocal(w) PROVE TypeMessages'
    <2>1. /\ Head(pendingLocal[w]) \in N /\ Tail(pendingLocal[w]) \in Seq(N)
          /\ deferred[w] \in Seq(N)
        BY <1>5, <1>t, TailType DEF DeliverLocal
    <2>2. /\ DeliverOrDefer(w, Head(pendingLocal[w]), deferred[w])
          /\ UNCHANGED <<msgs, transferQ>>
          /\ pendingLocal' = [pendingLocal EXCEPT ![w] = Tail(@)]
        BY <1>5 DEF DeliverLocal
    <2>3. pendingLocal' \in [Workers -> Seq(N)]
        BY <1>t, <2>1, <2>2
    <2> QED BY <1>d, <1>t, <2>1, <2>2, <2>3, Zenon
<1>6. ASSUME NEW w \in Workers, RetryAdmin(w) \/ DrainAdmin(w) PROVE TypeMessages'
    <2>1. UNCHANGED <<msgs, transferQ, deferred, pendingLocal>>
        BY <1>6, Zenon DEF RetryAdmin, DrainAdmin, scratch
    <2>2. (\E a \in Actors : Clear(a)) \/ UNCHANGED <<mailbox, fate>>
        BY <1>6, AdminClears DEF RetryAdmin, DrainAdmin
    <2> QED BY <1>c, <2>1, <2>2, Zenon
<1>7. ASSUME NEW w \in Workers, TakeMessage(w) PROVE TypeMessages'
    <2> DEFINE a == current[w]
               m == Head(mailbox[a])
    <2>1. a \in Actors /\ mailbox[a] # <<>>
        BY <1>7 DEF TakeMessage, PassInv, CurrentIsActor
    <2>2. m \in N /\ Tail(mailbox[a]) \in Seq(N) /\ <<>> \in Seq(N)
        BY <1>t, <2>1, TailType
    <2>3. /\ UNCHANGED <<msgs, transferQ, deferred, pendingLocal>>
          /\ mailbox' \in {[mailbox EXCEPT ![a] = <<>>], [mailbox EXCEPT ![a] = Tail(@)]}
          /\ fate' \in {[Settle(Range(mailbox[a]), "discarded") EXCEPT ![m] = "handled"],
                        Settle({m}, "handled")}
        BY <1>7 DEF TakeMessage, retained
    <2>4. /\ Settle(Range(mailbox[a]), "discarded") \in [N -> Fates]
          /\ Settle({m}, "handled") \in [N -> Fates] /\ "handled" \in Fates
        <3>1. fate \in [N -> Fates] /\ "handled" \in Fates /\ "discarded" \in Fates
            BY DEF TypeMessages, Fates, N
        <3> QED BY <3>1, SettleType
    <2> HIDE DEF a, m
    <2>5. fate' \in [N -> Fates]
        BY <2>2, <2>3, <2>4, Zenon
    <2>6. mailbox' \in [Actors -> Seq(N)]
        BY <1>t, <2>1, <2>2, <2>3, Zenon
    <2> QED BY <1>s, <1>t, <2>3, <2>5, <2>6, Zenon
<1>8. ASSUME NEW w \in Workers, NEW o \in Outcomes, OnStartReturn(w, o) \/ HandlerReturn(w, o)
      PROVE  TypeMessages'
    <2>1. current[w] \in Actors
        BY <1>8, Zenon DEF OnStartReturn, HandlerReturn, PassInv, CurrentIsActor
    <2>2. UNCHANGED <<msgs, transferQ, deferred, pendingLocal>>
        BY <1>8, Zenon DEF OnStartReturn, HandlerReturn, retained
    <2>3. Clear(current[w]) \/ UNCHANGED <<mailbox, fate>>
        BY <1>8 DEF OnStartReturn, HandlerReturn, Conclude
    <2> QED BY <1>c, <2>1, <2>2, <2>3, Zenon
<1>9. ASSUME NEW w \in Workers, NEW a \in Actors, SkipActor(w, a) \/ RemoveDead(w, a)
      PROVE  TypeMessages'
    <2>1. UNCHANGED <<msgs, transferQ, deferred, pendingLocal>>
        BY <1>9 DEF SkipActor, RemoveDead, retained
    <2>2. Clear(a) \/ UNCHANGED <<mailbox, fate>>
        BY <1>9 DEF SkipActor, RemoveDead
    <2> QED BY <1>c, <2>1, <2>2, ZenonT(30)
<1>u. ASSUME UNCHANGED <<msgs, fate, transferQ, deferred, pendingLocal, mailbox>>
      PROVE  TypeMessages'
    BY <1>c, <1>u
<1> USE DEF slots, retained, scratch
<1>10. CASE ClientStep
    <2>1. ASSUME NEW a \in Actors,
                 SpawnMap(a) \/ SpawnQueue(a) \/ \E op \in AdminOps : ClientAdmin(a, op)
          PROVE  UNCHANGED <<msgs, fate, transferQ, deferred, pendingLocal, mailbox>>
        BY <2>1, Zenon DEF SpawnMap, SpawnQueue, ClientAdmin
    <2> QED BY <1>1, <1>10, <1>u, <2>1 DEF ClientStep
<1>11. ASSUME NEW w \in Workers, Ingress(w) PROVE TypeMessages'
    <2>1. ASSUME \/ BeginPass(w) \/ DrainSpawn(w) \/ EndSpawns(w) \/ EndDeferred(w)
                 \/ EndTransfers(w) \/ EndDeferredAdmin(w) \/ EndAdmin(w)
          PROVE  UNCHANGED <<msgs, fate, transferQ, deferred, pendingLocal, mailbox>>
        BY <2>1 DEF BeginPass, DrainSpawn, EndSpawns, EndDeferred, EndTransfers,
                    EndDeferredAdmin, EndAdmin
    <2> QED BY <1>3, <1>4, <1>6, <1>11, <1>u, <2>1 DEF Ingress
<1>12. ASSUME NEW w \in Workers, Ticking(w) PROVE TypeMessages'
    <2>1. ASSUME (\E a \in Actors : EnterActor(w, a)) \/ LeaveActor(w) \/ EndTicking(w)
          PROVE  UNCHANGED <<msgs, fate, transferQ, deferred, pendingLocal, mailbox>>
        BY <2>1, Zenon DEF EnterActor, LeaveActor, EndTicking
    <2> QED BY <1>7, <1>8, <1>9, <1>12, <1>u, <2>1, Zenon DEF Ticking
<1>13. ASSUME NEW w \in Workers, Cleanup(w) PROVE TypeMessages'
    <2>1. ASSUME \/ EndLocal(w) \/ OnStopReturn(w) \/ EndCleanup(w) \/ EndPass(w)
                 \/ \E a \in Actors : Unmap(w, a)
          PROVE  UNCHANGED <<msgs, fate, transferQ, deferred, pendingLocal, mailbox>>
        BY <2>1 DEF EndLocal, OnStopReturn, EndCleanup, EndPass, Unmap
    <2> QED BY <1>5, <1>9, <1>13, <1>u, <2>1 DEF Cleanup
<1>14. ASSUME NEW w \in Workers, UserCode(w) PROVE TypeMessages'
    <2>1. ASSUME NEW a \in Actors, HandlerSpawn(w, a)
          PROVE  UNCHANGED <<msgs, fate, transferQ, deferred, pendingLocal, mailbox>>
        BY <2>1 DEF HandlerSpawn
    <2> QED BY <1>2, <1>14, <1>u, <2>1, Zenon DEF UserCode
<1>15. CASE UNCHANGED vars
    BY <1>15, <1>u DEF vars
<1> QED BY <1>10, <1>11, <1>12, <1>13, <1>14, <1>15 DEF Next, PassStep
--------------------------------------------------------------------------------
(* Admin commands, and the whole type invariant *)

\* Applying or deferring a command keeps the types of commands and replies.
LEMMA AdminType ==
    ASSUME TypeCommands, NEW w \in Workers, NEW c \in DOMAIN cmds,
           NEW rest \in Seq(DOMAIN cmds), ApplyOrDeferAdmin(w, c, rest)
    PROVE  /\ deferredAdmin' \in [Workers -> Seq(DOMAIN cmds)]
           /\ replies' \in [DOMAIN cmds -> Nat]
<1>1. /\ deferredAdmin' \in {[deferredAdmin EXCEPT ![w] = rest],
                             [deferredAdmin EXCEPT ![w] = Append(rest, c)]}
      /\ replies' \in {replies, [replies EXCEPT ![c] = @ + 1]}
    BY DEF ApplyOrDeferAdmin, ApplyAdmin
<1>2. Append(rest, c) \in Seq(DOMAIN cmds)
    BY AppendType
<1>3. /\ deferredAdmin \in [Workers -> Seq(DOMAIN cmds)] /\ replies \in [DOMAIN cmds -> Nat]
    BY DEF TypeCommands
<1>4. deferredAdmin' \in [Workers -> Seq(DOMAIN cmds)]
    BY <1>1, <1>2, <1>3, Zenon
<1>5. replies' \in [DOMAIN cmds -> Nat]
    BY <1>1, <1>3
<1> QED BY <1>4, <1>5

\* Every step keeps queued command numbers within the commands issued.
LEMMA CommandTypeStep == TypeRegistry /\ TypeCommands /\ [Next]_vars => TypeCommands'
<1> SUFFICES ASSUME TypeRegistry, TypeCommands, [Next]_vars PROVE TypeCommands'
    OBVIOUS
<1> DEFINE N == DOMAIN cmds
<1>t. /\ adminQ \in [Workers -> Seq(N)] /\ deferredAdmin \in [Workers -> Seq(N)]
      /\ cmds \in Seq([op : AdminOps, dest : Actors]) /\ replies \in [N -> Nat]
    BY DEF TypeCommands
<1>u. ASSUME UNCHANGED <<adminQ, deferredAdmin, cmds, replies>> PROVE TypeCommands'
    BY <1>u DEF TypeCommands
<1>1. ASSUME NEW a \in Actors, NEW op \in AdminOps, ClientAdmin(a, op) PROVE TypeCommands'
    <2> DEFINE R == [op : AdminOps, dest : Actors]
               e == [op |-> op, dest |-> a]
               M == DOMAIN cmds'
               k == Len(cmds) + 1
    <2>1. e \in R
        OBVIOUS
    <2>2. /\ cmds' = Append(cmds, e) /\ replies' = Append(replies, 0)
          /\ adminQ' = [adminQ EXCEPT ![addressMap[a]] = Append(@, k)]
          /\ UNCHANGED deferredAdmin /\ addressMap[a] \in Workers
        BY <1>1 DEF ClientAdmin, TypeRegistry, retained
    <2>r. cmds \in Seq(R) /\ replies \in [N -> Nat]
        BY <1>t
    <2> HIDE DEF e, R
    <2>3. Len(cmds) \in Nat /\ N = 1..Len(cmds)
        BY <2>r
    <2>4. cmds' \in Seq(R) /\ Len(cmds') = k
        BY <2>1, <2>2, <2>r
    <2>5. M = 1..k
        BY <2>4
    <2>6. replies' \in [M -> Nat]
        <3>1. replies \in Seq(Nat) /\ Len(replies) = Len(cmds)
            BY <2>r, <2>3
        <3>2. Append(replies, 0) \in Seq(Nat) /\ Len(Append(replies, 0)) = Len(replies) + 1
            BY <3>1, AppendFacts
        <3>3. replies' \in Seq(Nat) /\ Len(replies') = k
            BY <2>2, <3>1, <3>2
        <3> QED BY <2>5, <3>3
    <2>7. N \subseteq M /\ k \in M
        BY <2>3, <2>5
    <2> HIDE DEF M, N, k
    <2>8. adminQ \in [Workers -> Seq(M)] /\ deferredAdmin \in [Workers -> Seq(M)]
        BY <1>t, <2>7, QueuesWiden
    <2>9. Append(adminQ[addressMap[a]], k) \in Seq(M)
        BY <2>2, <2>7, <2>8, AppendType
    <2>10. adminQ' \in [Workers -> Seq(M)]
        BY <2>2, <2>8, <2>9
    <2> QED BY <2>2, <2>4, <2>6, <2>8, <2>10, Zenon DEF TypeCommands, M, R
<1>2. ASSUME NEW w \in Workers, RetryAdmin(w) PROVE TypeCommands'
    <2>1. Head(deferredAdmin[w]) \in N /\ Tail(deferredAdmin[w]) \in Seq(N)
        BY <1>2, <1>t, TailType DEF RetryAdmin
    <2>2. /\ ApplyOrDeferAdmin(w, Head(deferredAdmin[w]), Tail(deferredAdmin[w]))
          /\ UNCHANGED <<cmds, adminQ>>
        BY <1>2 DEF RetryAdmin
    <2>3. deferredAdmin' \in [Workers -> Seq(N)] /\ replies' \in [N -> Nat]
        BY <2>1, <2>2, AdminType, Zenon
    <2> QED BY <1>t, <2>2, <2>3, Zenon DEF TypeCommands
<1>3. ASSUME NEW w \in Workers, DrainAdmin(w) PROVE TypeCommands'
    <2>1. Head(adminQ[w]) \in N /\ Tail(adminQ[w]) \in Seq(N) /\ deferredAdmin[w] \in Seq(N)
        BY <1>3, <1>t, TailType DEF DrainAdmin
    <2>2. /\ ApplyOrDeferAdmin(w, Head(adminQ[w]), deferredAdmin[w])
          /\ UNCHANGED cmds /\ adminQ' = [adminQ EXCEPT ![w] = Tail(@)]
        BY <1>3 DEF DrainAdmin
    <2>3. deferredAdmin' \in [Workers -> Seq(N)] /\ replies' \in [N -> Nat]
        BY <2>1, <2>2, AdminType
    <2>4. adminQ' \in [Workers -> Seq(N)]
        BY <1>t, <2>1, <2>2
    <2> QED BY <1>t, <2>2, <2>3, <2>4, Zenon DEF TypeCommands
<1> USE DEF retained, admin
<1>4. CASE ClientStep
    <2>1. ASSUME NEW a \in Actors,
                 SpawnMap(a) \/ SpawnQueue(a) \/ \E kind \in {"user", "stop"} : ClientSend(a, kind)
          PROVE  UNCHANGED <<adminQ, deferredAdmin, cmds, replies>>
        BY <2>1 DEF SpawnMap, SpawnQueue, ClientSend
    <2> QED BY <1>1, <1>4, <1>u, <2>1, Zenon DEF ClientStep
<1>5. ASSUME NEW w \in Workers, Ingress(w) PROVE TypeCommands'
    <2>1. ASSUME ~RetryAdmin(w), ~DrainAdmin(w)
          PROVE  UNCHANGED <<adminQ, deferredAdmin, cmds, replies>>
        BY <1>5, <2>1 DEF Ingress, BeginPass, DrainSpawn, EndSpawns, RetryDeferred, EndDeferred,
               DrainTransfer, EndTransfers, EndDeferredAdmin, EndAdmin
    <2> QED BY <1>2, <1>3, <1>u, <2>1
<1>6. ASSUME NEW w \in Workers, Ticking(w) PROVE TypeCommands'
    <2>1. UNCHANGED <<adminQ, deferredAdmin, cmds, replies>>
        BY <1>6 DEF Ticking, SkipActor, EnterActor, OnStartReturn, HandlerReturn, TakeMessage,
               LeaveActor, EndTicking
    <2> QED BY <1>u, <2>1
<1>7. ASSUME NEW w \in Workers, Cleanup(w) PROVE TypeCommands'
    <2>1. UNCHANGED <<adminQ, deferredAdmin, cmds, replies>>
        BY <1>7 DEF Cleanup, DeliverLocal, EndLocal, OnStopReturn, RemoveDead, Unmap,
               EndCleanup, EndPass
    <2> QED BY <1>u, <2>1, ZenonT(30)
<1>8. ASSUME NEW w \in Workers, UserCode(w) PROVE TypeCommands'
    <2>1. UNCHANGED <<adminQ, deferredAdmin, cmds, replies>>
        BY <1>8 DEF UserCode, HandlerSpawn, HandlerSend
    <2> QED BY <1>u, <2>1, ZenonT(30)
<1>9. CASE UNCHANGED vars
    BY <1>9, <1>u DEF vars
<1> QED BY <1>4, <1>5, <1>6, <1>7, <1>8, <1>9 DEF Next, PassStep

TypeInv == TypeOK /\ CurrentIsActor

\* Every step keeps the type invariant.
LEMMA TypeInvStep == TypeInv /\ [Next]_vars => TypeInv'
<1> SUFFICES ASSUME TypeInv, [Next]_vars PROVE TypeInv'
    OBVIOUS
<1>1. TypeRegistry /\ TypePools /\ TypePass /\ TypeMessages /\ TypeCommands
    BY TypeParts DEF TypeInv
<1>2. PassInv
    BY <1>1 DEF PassInv, TypeInv, TypePools
<1>3. TypeRegistry' /\ PassInv' /\ TypePools' /\ TypeMessages' /\ TypeCommands'
    BY <1>1, <1>2, RegistryStep, PassTypeStep, PoolTypeStep, MessageTypeStep, CommandTypeStep, Zenon
<1>4. TypeOK'
    BY <1>3, TypeParts, PTL DEF PassInv
<1> QED BY <1>3, <1>4 DEF TypeInv, PassInv

\* The runtime starts well typed.
LEMMA TypeInvInit == Init => TypeInv
<1> SUFFICES ASSUME Init PROVE TypeInv
    OBVIOUS
<1>1. TypeRegistry
    BY WorkerFacts DEF Init, TypeRegistry
<1>2. TypePools
    BY DEF Init, TypePools
<1>3. TypePass /\ CurrentIsActor
    BY DEF Init, TypePass, Phases, CurrentIsActor
<1>4. TypeMessages
    BY DEF Init, TypeMessages
<1>5. TypeCommands
    BY DEF Init, TypeCommands
<1> QED BY <1>1, <1>2, <1>3, <1>4, <1>5, TypeParts, Zenon DEF TypeInv

\* The state of the runtime core always has its declared shape, and a queued
\* number always names a message or command that exists.
THEOREM WorkerTypeCorrect == Spec => []TypeOK
<1>1. TypeInv => TypeOK
    BY DEF TypeInv
<1> QED BY <1>1, TypeInvInit, TypeInvStep, PTL DEF Spec

--------------------------------------------------------------------------------
(* Every command is where it should be *)

\* What is held once has one copy, and what is not held has none.
LEMMA ExactCopies ==
    ASSUME NEW q, NEW S, Exact(DOMAIN q, q, S), NEW x
    PROVE  /\ x \in S => Cardinality(Copies(q, x)) = 1
           /\ x \notin S => Cardinality(Copies(q, x)) = 0
<1>1. ASSUME x \in S PROVE Cardinality(Copies(q, x)) = 1
  <2>1. PICK p \in DOMAIN q : x \in Range(q[p])
      BY <1>1 DEF Exact
  <2>2. PICK i \in DOMAIN q[p] : x = q[p][i]
      BY <2>1 DEF Range
  <2>3. Copies(q, x) = {<<p, i>>}
    <3>1. ASSUME NEW at \in Copies(q, x) PROVE at = <<p, i>>
      <4>1. PICK r \in DOMAIN q : at \in {r} \X {j \in DOMAIN q[r] : q[r][j] = x}
          BY <3>1 DEF Copies
      <4>2. PICK j \in DOMAIN q[r] : q[r][j] = x /\ at = <<r, j>>
          BY <4>1
      <4>3. x \in Range(q[r])
          BY <4>2 DEF Range
      <4>4. r = p
          BY <2>1, <4>3 DEF Exact
      <4>5. j = i
          BY <2>2, <4>2, <4>4 DEF Exact, IsInjective
      <4> QED BY <4>2, <4>4, <4>5
    <3>2. <<p, i>> \in Copies(q, x)
        BY <2>2 DEF Copies
    <3> QED BY <3>1, <3>2
  <2> QED BY <2>3, CountFacts, Zenon
<1>2. ASSUME x \notin S PROVE Cardinality(Copies(q, x)) = 0
  <2>1. Copies(q, x) = {}
    <3> SUFFICES ASSUME NEW at \in Copies(q, x) PROVE FALSE
        OBVIOUS
    <3>1. PICK r \in DOMAIN q : at \in {r} \X {j \in DOMAIN q[r] : q[r][j] = x}
        BY DEF Copies
    <3>2. x \in Range(q[r])
        BY <3>1 DEF Range
    <3> QED BY <1>2, <3>2 DEF Exact
  <2> QED BY <2>1, CountFacts
<1> QED BY <1>1, <1>2

Open == {c \in DOMAIN cmds : replies[c] = 0}

\* A command waits in one queue until it is answered, and it is answered once.
CommandInv ==
    /\ Exact(CommandPlaces, CommandQueues, Open)
    /\ \A c \in DOMAIN cmds : replies[c] \in {0, 1}

\* CommandQueues collects the two families of queues, and nothing else.
CommandQueuesAre ==
    /\ \A w \in Workers :
          /\ <<"admin", w>> \in CommandPlaces /\ CommandQueues[<<"admin", w>>] = adminQ[w]
          /\ <<"deferred", w>> \in CommandPlaces
          /\ CommandQueues[<<"deferred", w>>] = deferredAdmin[w]
    /\ DOMAIN CommandQueues = CommandPlaces

\* So it does.
LEMMA CommandQueueAt == CommandQueuesAre
BY DEF CommandQueuesAre, CommandQueues, CommandPlaces

\* The next queues agree with a family f outside of x if those of each kind do.
LEMMA CommandElsewhere ==
    ASSUME NEW f, NEW x,
           \A w \in Workers : <<"admin", w>> # x => adminQ'[w] = f[<<"admin", w>>],
           \A w \in Workers : <<"deferred", w>> # x => deferredAdmin'[w] = f[<<"deferred", w>>]
    PROVE  \A p \in CommandPlaces \ {x} : CommandQueues'[p] = f[p]
<1> SUFFICES ASSUME NEW p \in CommandPlaces, p # x PROVE CommandQueues'[p] = f[p]
    OBVIOUS
<1>0. CommandQueuesAre'
    BY CommandQueueAt, PTL
<1>1. PICK w \in Workers : p \in {<<"admin", w>>, <<"deferred", w>>}
    BY DEF CommandPlaces
<1>2. CASE p = <<"admin", w>>     BY <1>0, <1>2, Zenon DEF CommandQueuesAre
<1>3. CASE p = <<"deferred", w>>  BY <1>0, <1>3, Zenon DEF CommandQueuesAre
<1> QED BY <1>1, <1>2, <1>3

\* The queues hold numbers of commands.
LEMMA CommandQueuesType ==
    ASSUME TypeCommands PROVE CommandQueues \in [CommandPlaces -> Seq(DOMAIN cmds)]
<1>1. ASSUME NEW p \in CommandPlaces PROVE CommandQueues[p] \in Seq(DOMAIN cmds)
    <2>1. PICK w \in Workers : p \in {<<"admin", w>>, <<"deferred", w>>}
        BY DEF CommandPlaces
    <2>2. adminQ[w] \in Seq(DOMAIN cmds) /\ deferredAdmin[w] \in Seq(DOMAIN cmds)
        BY DEF TypeCommands
    <2>3. CommandQueues[p] \in {adminQ[w], deferredAdmin[w]}
        BY <2>1, CommandQueueAt, Zenon DEF CommandQueuesAre
    <2> QED BY <2>2, <2>3
<1> QED BY <1>1 DEF CommandQueues

\* Steps that touch no command.
LEMMA QuietCommands ==
    ASSUME CommandInv, UNCHANGED <<cmds, replies, adminQ, deferredAdmin>>
    PROVE  CommandInv'
BY DEF CommandInv, CommandQueues, Open

\* One queue gains a number that no queue holds.
LEMMA GainCommand ==
    ASSUME NEW q, NEW S, Exact(CommandPlaces, q, S), NEW x \in CommandPlaces, NEW c, c \notin S,
           NEW M, c \in M, q[x] \in Seq(M), NEW t, t[x] = Append(q[x], c),
           \A r \in CommandPlaces \ {x} : t[r] = q[r]
    PROVE  Exact(CommandPlaces, t, S \cup {c})
<1> DEFINE P == CommandPlaces
<1> HIDE DEF P
<1>1. c \notin Range(q[x]) /\ IsInjective(q[x])
    BY DEF Exact
<1>2. IsInjective(Append(q[x], c)) /\ Range(Append(q[x], c)) = Range(q[x]) \cup {c}
    BY <1>1, RangeAppend
<1>3. IsInjective(t[x])
    BY <1>2
<1>4. Range(t[x]) = Range(q[x]) \cup {c}
    BY <1>2
<1>5. Exact(P, q, S) /\ x \in P /\ c \notin S
    BY DEF P
<1>6. \A r \in P \ {x} : t[r] = q[r]
    BY DEF P
<1>7. Exact(P, t, S \cup {c})
    BY <1>3, <1>4, <1>5, <1>6, GainExact, ZenonT(30)
<1> QED BY <1>7 DEF P

\* A new command joins the admin queue of the worker that its target is mapped to.
LEMMA IssueCommand ==
    ASSUME TypeRegistry, TypeCommands, CommandInv, NEW a \in Actors, NEW op \in AdminOps,
           ClientAdmin(a, op)
    PROVE  CommandInv'
<1> DEFINE v == addressMap[a]
           k == Len(cmds) + 1
           e == [op |-> op, dest |-> a]
           x == <<"admin", v>>
           P == CommandPlaces
           q == CommandQueues
           t == CommandQueues'
           S == Open
           C == [op : AdminOps, dest : Actors]
<1>0. CommandQueuesAre /\ CommandQueuesAre'
    BY CommandQueueAt, PTL
<1>1. v \in Workers /\ adminQ' = [adminQ EXCEPT ![v] = Append(@, k)] /\ UNCHANGED deferredAdmin
    BY DEF ClientAdmin, TypeRegistry, retained
<1>2. x \in P /\ t[x] = Append(q[x], k)
    BY <1>0, <1>1, Zenon DEF CommandQueuesAre, TypeCommands
<1>3. \A r \in P \ {x} : t[r] = q[r]
    <2>1. \A w \in Workers : <<"admin", w>> # x => adminQ'[w] = q[<<"admin", w>>]
        BY <1>0, <1>1, Zenon DEF CommandQueuesAre, TypeCommands
    <2>2. \A w \in Workers : <<"deferred", w>> # x => deferredAdmin'[w] = q[<<"deferred", w>>]
        BY <1>0, <1>1, Zenon DEF CommandQueuesAre
    <2> HIDE DEF x, q
    <2> QED BY <2>1, <2>2, CommandElsewhere
<1>4. /\ DOMAIN cmds' = DOMAIN cmds \cup {k} /\ k \notin DOMAIN cmds
      /\ \A c \in DOMAIN cmds : replies'[c] = replies[c]
      /\ replies'[k] = 0
    <2>1. /\ cmds \in Seq(C) /\ replies \in [DOMAIN cmds -> Nat] /\ e \in C
          /\ cmds' = Append(cmds, e) /\ replies' = Append(replies, 0)
        BY DEF TypeCommands, ClientAdmin
    <2> HIDE DEF e, C
    <2>2. Len(cmds) \in Nat /\ DOMAIN cmds = 1..Len(cmds) /\ DOMAIN cmds' = 1..k
        BY <2>1, AppendFacts
    <2>3. replies \in Seq(Nat) /\ Len(replies) = Len(cmds)
        BY <2>1, <2>2
    <2>4. (\A c \in 1..Len(cmds) : replies'[c] = replies[c]) /\ replies'[k] = 0
        BY <2>1, <2>3, AppendFacts
    <2> QED BY <2>2, <2>4
<1>5. Open' = S \cup {k} /\ k \notin S
    BY <1>4 DEF Open
<1>6. Exact(P, t, S \cup {k})
    <2> DEFINE M == DOMAIN cmds'
    <2>1. q[x] \in Seq(DOMAIN cmds)
        BY <1>2, CommandQueuesType
    <2>2. q[x] \in Seq(M) /\ k \in M
        BY <1>4, <2>1, SeqWiden
    <2>3. Exact(P, q, S)
        BY DEF CommandInv
    <2>4. x \in P
        BY <1>2
    <2>5. t[x] = Append(q[x], k)
        BY <1>2
    <2> HIDE DEF x, q, t, S, k, M
    <2> QED BY <1>3, <1>5, <2>2, <2>3, <2>4, <2>5, GainCommand, Zenon
<1> HIDE DEF k
<1> QED BY <1>4, <1>5, <1>6 DEF CommandInv

\* A command taken from the queue of kind k of w is put off or answered.
LEMMA AnswerCommand ==
    ASSUME TypeCommands, CommandInv, UNCHANGED cmds,
           NEW w \in Workers, NEW k \in {"admin", "deferred"}, CommandQueues[<<k, w>>] # <<>>,
           adminQ' = IF k = "admin" THEN [adminQ EXCEPT ![w] = Tail(@)] ELSE adminQ,
           ApplyOrDeferAdmin(w, Head(CommandQueues[<<k, w>>]),
                             IF k = "deferred" THEN Tail(deferredAdmin[w]) ELSE deferredAdmin[w])
    PROVE  CommandInv'
<1> DEFINE x == <<k, w>>
           P == CommandPlaces
           f == CommandQueues
           q == [f EXCEPT ![x] = Tail(@)]
           t == CommandQueues'
           c == Head(f[x])
           d == <<"deferred", w>>
           M == DOMAIN cmds
           S == Open
<1>0. CommandQueuesAre /\ CommandQueuesAre'
    BY CommandQueueAt, PTL
<1>1. x \in P /\ d \in P /\ f[x] # <<>>
    BY DEF CommandPlaces
<1>2. q[x] = Tail(f[x]) /\ \A r \in P \ {x} : q[r] = f[r]
    BY <1>0, <1>1 DEF CommandQueuesAre
<1>3. /\ c \in S /\ Exact(P, q, S \ {c}) /\ \A r \in P : q[r] \in Seq(M)
    <2>1. f \in [P -> Seq(M)]
        BY CommandQueuesType
    <2>2. Exact(P, f, S)
        BY DEF CommandInv
    <2>3. f[x] # <<>> /\ q[x] = Tail(f[x]) /\ \A r \in P \ {x} : q[r] = f[r]
        BY <1>1, <1>2
    <2>4. x \in P
        BY <1>1
    <2> HIDE DEF x, P, f, q, M, S
    <2>5. /\ Head(f[x]) \in S /\ Head(f[x]) \in M /\ Head(f[x]) \in Range(f[x])
          /\ \A r \in P : q[r] \in Seq(M) /\ Range(q[r]) \subseteq Range(f[r])
          /\ Exact(P, q, S \ {Head(f[x])})
        BY <2>1, <2>2, <2>3, <2>4, PopExact, Zenon
    <2> QED BY <2>5
<1>4. c \in M /\ replies[c] = 0
    BY <1>3 DEF Open
<1>5. q[d] = IF k = "deferred" THEN Tail(deferredAdmin[w]) ELSE deferredAdmin[w]
    <2>1. f[d] = deferredAdmin[w]
        BY <1>0, Zenon DEF CommandQueuesAre
    <2>2. CASE k = "deferred"
        BY <1>2, <2>1, <2>2
    <2>3. CASE k # "deferred"
        <3>1. d \in P \ {x}
            BY <1>1, <2>3
        <3>2. q[d] = f[d]
            BY <1>2, <3>1
        <3> QED BY <2>1, <2>3, <3>2
    <2> QED BY <2>2, <2>3
<1>6. \A v \in Workers : <<"admin", v>> # d => adminQ'[v] = q[<<"admin", v>>]
    <2>1. ASSUME NEW v \in Workers PROVE adminQ'[v] = q[<<"admin", v>>]
        <3>1. <<"admin", v>> \in P /\ f[<<"admin", v>>] = adminQ[v]
            BY <1>0, Zenon DEF CommandQueuesAre
        <3>2. CASE v = w
            <4>1. adminQ'[v] = IF k = "admin" THEN Tail(adminQ[v]) ELSE adminQ[v]
                BY <3>2 DEF TypeCommands
            <4> QED BY <1>2, <3>1, <3>2, <4>1
        <3>3. CASE v # w
            <4>1. adminQ'[v] = adminQ[v]
                BY <3>3 DEF TypeCommands
            <4> QED BY <1>2, <3>1, <3>3, <4>1
        <3> QED BY <3>2, <3>3
    <2> QED BY <2>1
<1>7. /\ t[d] = deferredAdmin'[w]
      /\ \A v \in Workers : <<"deferred", v>> # d => deferredAdmin'[v] = q[<<"deferred", v>>]
    <2>1. \A v \in Workers \ {w} : deferredAdmin'[v] = deferredAdmin[v]
        BY DEF ApplyOrDeferAdmin, TypeCommands
    <2>2. \A v \in Workers \ {w} : q[<<"deferred", v>>] = deferredAdmin[v]
        BY <1>0, <1>2, Zenon DEF CommandQueuesAre
    <2> QED BY <1>0, <2>1, <2>2, Zenon DEF CommandQueuesAre
<1>8. \A r \in P \ {d} : t[r] = q[r]
    <2>1. \A v \in Workers : <<"deferred", v>> # d => deferredAdmin'[v] = q[<<"deferred", v>>]
        BY <1>7
    <2> HIDE DEF d, q
    <2> QED BY <1>6, <2>1, CommandElsewhere
<1>9. CASE deferredAdmin' = [deferredAdmin EXCEPT ![w] = Append(q[d], c)] /\ UNCHANGED replies
    <2>1. t[d] = Append(q[d], c)
        BY <1>7, <1>9, Zenon DEF TypeCommands
    <2>2. Exact(P, t, (S \ {c}) \cup {c})
        <3>1. Exact(P, q, S \ {c})
            BY <1>3
        <3>2. d \in P
            BY <1>1
        <3>3. q[d] \in Seq(M)
            BY <1>1, <1>3, Zenon
        <3>4. c \in M
            BY <1>4
        <3> DEFINE R == S \ {c}
        <3>5. Exact(P, q, R) /\ c \notin R
            BY <3>1
        <3> HIDE DEF q, S, c, M, t, d, R
        <3>6. Exact(P, t, R \cup {c})
            BY <1>8, <2>1, <3>2, <3>3, <3>4, <3>5, GainCommand, Zenon
        <3> QED BY <3>6 DEF R
    <2>3. Open' = (S \ {c}) \cup {c}
        BY <1>3, <1>9 DEF Open
    <2> QED BY <1>9, <2>2, <2>3, Zenon DEF CommandInv
<1>10. CASE /\ deferredAdmin' = [deferredAdmin EXCEPT ![w] = q[d]]
            /\ replies' = [replies EXCEPT ![c] = @ + 1]
    <2>1. t[d] = q[d]
        BY <1>7, <1>10 DEF TypeCommands
    <2>2. \A r \in P : t[r] = q[r]
        BY <1>8, <2>1
    <2>3. Exact(P, t, S \ {c})
        <3>1. Exact(P, q, S \ {c})
            BY <1>3
        <3> HIDE DEF P, q, t, S, c
        <3> QED BY <2>2, <3>1, Zenon DEF Exact
    <2> HIDE DEF c
    <2>4. replies'[c] = 1 /\ \A i \in M \ {c} : replies'[i] = replies[i]
        BY <1>4, <1>10 DEF TypeCommands
    <2>5. Open' = S \ {c}
        BY <2>4 DEF Open
    <2>6. \A i \in DOMAIN cmds' : replies'[i] \in {0, 1}
        BY <2>4 DEF CommandInv
    <2> QED BY <2>3, <2>5, <2>6 DEF CommandInv
<1>11. \/ deferredAdmin' = [deferredAdmin EXCEPT ![w] = Append(q[d], c)] /\ UNCHANGED replies
       \/ /\ deferredAdmin' = [deferredAdmin EXCEPT ![w] = q[d]]
          /\ replies' = [replies EXCEPT ![c] = @ + 1]
    BY <1>5, Zenon DEF ApplyOrDeferAdmin, ApplyAdmin
<1> QED BY <1>9, <1>10, <1>11, Zenon

\* Every step issues, puts off or answers commands as it should.
LEMMA CommandStep == ASSUME TypeInv, CommandInv, [Next]_vars PROVE CommandInv'
<1>t. TypeRegistry /\ TypeCommands
    BY TypeParts DEF TypeInv
<1>0. CommandQueuesAre
    BY CommandQueueAt
<1>u. ASSUME UNCHANGED <<cmds, replies, adminQ, deferredAdmin>> PROVE CommandInv'
    BY <1>u, QuietCommands
<1>1. ASSUME NEW w \in Workers, RetryAdmin(w) PROVE CommandInv'
    <2> DEFINE k == "deferred"
    <2>1. UNCHANGED <<cmds, adminQ>> /\ CommandQueues[<<k, w>>] # <<>>
        BY <1>0, <1>1, Zenon DEF RetryAdmin, CommandQueuesAre
    <2>2. ApplyOrDeferAdmin(w, Head(CommandQueues[<<k, w>>]),
                            IF k = "deferred" THEN Tail(deferredAdmin[w]) ELSE deferredAdmin[w])
        BY <1>0, <1>1, Zenon DEF RetryAdmin, CommandQueuesAre
    <2>3. adminQ' = IF k = "admin" THEN [adminQ EXCEPT ![w] = Tail(@)] ELSE adminQ
        BY <2>1
    <2>4. k \in {"admin", "deferred"}
        OBVIOUS
    <2> HIDE DEF k
    <2> QED BY <1>t, <2>1, <2>2, <2>3, <2>4, AnswerCommand, Zenon
<1>2. ASSUME NEW w \in Workers, DrainAdmin(w) PROVE CommandInv'
    <2> DEFINE k == "admin"
    <2>1. UNCHANGED cmds /\ CommandQueues[<<k, w>>] # <<>>
        BY <1>0, <1>2, Zenon DEF DrainAdmin, CommandQueuesAre
    <2>2. ApplyOrDeferAdmin(w, Head(CommandQueues[<<k, w>>]),
                            IF k = "deferred" THEN Tail(deferredAdmin[w]) ELSE deferredAdmin[w])
        BY <1>0, <1>2, Zenon DEF DrainAdmin, CommandQueuesAre
    <2>3. adminQ' = IF k = "admin" THEN [adminQ EXCEPT ![w] = Tail(@)] ELSE adminQ
        BY <1>2 DEF DrainAdmin
    <2>4. k \in {"admin", "deferred"}
        OBVIOUS
    <2> HIDE DEF k
    <2> QED BY <1>t, <2>1, <2>2, <2>3, <2>4, AnswerCommand, Zenon
<1> USE DEF retained, admin
<1>3. CASE ClientStep
    <2>1. ASSUME NEW a \in Actors, NEW op \in AdminOps, ClientAdmin(a, op) PROVE CommandInv'
        BY <1>t, <2>1, IssueCommand, Zenon
    <2> QED BY <1>3, <1>u, <2>1 DEF ClientStep, SpawnMap, SpawnQueue, ClientSend
<1>4. ASSUME NEW w \in Workers, Ingress(w) PROVE CommandInv'
    BY <1>1, <1>2, <1>4, <1>u, Zenon DEF Ingress, BeginPass, DrainSpawn, EndSpawns, RetryDeferred,
        EndDeferred, DrainTransfer, EndTransfers, EndDeferredAdmin, EndAdmin
<1>5. ASSUME NEW w \in Workers, Ticking(w) PROVE CommandInv'
    BY <1>5, <1>u, Zenon DEF Ticking, SkipActor, EnterActor, OnStartReturn, HandlerReturn,
        TakeMessage, LeaveActor, EndTicking
<1>6. ASSUME NEW w \in Workers, Cleanup(w) PROVE CommandInv'
    BY <1>6, <1>u, Zenon DEF Cleanup, DeliverLocal, EndLocal, OnStopReturn, RemoveDead, Unmap,
        EndCleanup, EndPass
<1>7. ASSUME NEW w \in Workers, UserCode(w) PROVE CommandInv'
    BY <1>7, <1>u DEF UserCode, HandlerSpawn, HandlerSend
<1>8. CASE UNCHANGED vars
    BY <1>8, <1>u DEF vars
<1> QED BY <1>3, <1>4, <1>5, <1>6, <1>7, <1>8 DEF Next, PassStep

\* No command waits at first.
LEMMA CommandInit == Init => CommandInv
<1> SUFFICES ASSUME Init PROVE CommandInv
    OBVIOUS
<1>1. \A p \in CommandPlaces : CommandQueues[p] = <<>>
    <2> SUFFICES ASSUME NEW p \in CommandPlaces PROVE CommandQueues[p] = <<>>
        OBVIOUS
    <2>1. \A w \in Workers : adminQ[w] = <<>> /\ deferredAdmin[w] = <<>>
        BY DEF Init
    <2>2. PICK w \in Workers : p \in {<<"admin", w>>, <<"deferred", w>>}
        BY DEF CommandPlaces
    <2> QED BY <2>1, <2>2, CommandQueueAt, Zenon DEF CommandQueuesAre
<1>2. DOMAIN cmds = {} /\ Open = {}
    BY DEF Init, Open
<1>3. Exact(CommandPlaces, CommandQueues, Open)
    BY <1>1, <1>2, EmptyExact
<1> QED BY <1>2, <1>3 DEF CommandInv

\* An admin command is in one queue of one worker, or it has been answered, and then
\* once (apply_or_defer_admin_command, deferred_admin).
THEOREM CommandsAreConserved == Spec => []CommandsConserved
<1>1. CommandInv => CommandsConserved
    <2> SUFFICES ASSUME CommandInv, NEW c \in DOMAIN cmds
                 PROVE  Cardinality(Copies(CommandQueues, c)) + replies[c] = 1
        BY DEF CommandsConserved
    <2>1. Exact(DOMAIN CommandQueues, CommandQueues, Open)
        BY CommandQueueAt DEF CommandQueuesAre, CommandInv
    <2>2. /\ c \in Open => Cardinality(Copies(CommandQueues, c)) = 1
          /\ c \notin Open => Cardinality(Copies(CommandQueues, c)) = 0
        BY <2>1, ExactCopies
    <2>3. (replies[c] = 0 /\ c \in Open) \/ (replies[c] = 1 /\ c \notin Open)
        BY DEF Open, CommandInv
    <2> QED BY <2>2, <2>3
<1> QED BY <1>1, TypeInvInit, TypeInvStep, CommandInit, CommandStep, PTL DEF Spec
================================================================================
