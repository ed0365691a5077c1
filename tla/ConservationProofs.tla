--------------------------- MODULE ConservationProofs --------------------------
(* No message is lost, doubled or wrongly discarded: for every number of       *)
(* workers and actors, every budget and any amount of traffic.                 *)
EXTENDS WorkerProofs

--------------------------------------------------------------------------------
(* Where messages wait *)

\* MessageQueues collects the four families of queues, and nothing else.
QueuesAre ==
    /\ \A w \in Workers :
          /\ <<"transfer", w>> \in MessagePlaces /\ MessageQueues[<<"transfer", w>>] = transferQ[w]
          /\ <<"deferred", w>> \in MessagePlaces /\ MessageQueues[<<"deferred", w>>] = deferred[w]
          /\ <<"local", w>> \in MessagePlaces /\ MessageQueues[<<"local", w>>] = pendingLocal[w]
    /\ \A a \in Actors :
          <<"mailbox", a>> \in MessagePlaces /\ MessageQueues[<<"mailbox", a>>] = mailbox[a]
    /\ DOMAIN MessageQueues = MessagePlaces

\* So it does.
LEMMA QueueAt == QueuesAre
BY DEF QueuesAre, MessageQueues, MessagePlaces

\* A place of a message is one of four kinds.
LEMMA PlaceKinds ==
    ASSUME NEW p \in MessagePlaces
    PROVE  \/ \E w \in Workers : p \in {<<"transfer", w>>, <<"deferred", w>>, <<"local", w>>}
           \/ \E a \in Actors : p = <<"mailbox", a>>
BY DEF MessagePlaces

\* The next queues agree with a family f outside of x if those of each kind do.
LEMMA Elsewhere ==
    ASSUME NEW f, NEW x,
           \A w \in Workers : <<"transfer", w>> # x => transferQ'[w] = f[<<"transfer", w>>],
           \A w \in Workers : <<"deferred", w>> # x => deferred'[w] = f[<<"deferred", w>>],
           \A w \in Workers : <<"local", w>> # x => pendingLocal'[w] = f[<<"local", w>>],
           \A a \in Actors : <<"mailbox", a>> # x => mailbox'[a] = f[<<"mailbox", a>>]
    PROVE  \A p \in MessagePlaces \ {x} : MessageQueues'[p] = f[p]
<1> SUFFICES ASSUME NEW p \in MessagePlaces, p # x PROVE MessageQueues'[p] = f[p]
    OBVIOUS
<1>0. QueuesAre'
    BY QueueAt, PTL
<1>1. CASE \E w \in Workers : p \in {<<"transfer", w>>, <<"deferred", w>>, <<"local", w>>}
    <2>1. PICK w \in Workers : p \in {<<"transfer", w>>, <<"deferred", w>>, <<"local", w>>}
        BY <1>1
    <2>2. CASE p = <<"transfer", w>>  BY <1>0, <2>2, Zenon DEF QueuesAre
    <2>3. CASE p = <<"deferred", w>>  BY <1>0, <2>3, Zenon DEF QueuesAre
    <2>4. CASE p = <<"local", w>>     BY <1>0, <2>4, Zenon DEF QueuesAre
    <2> QED BY <2>1, <2>2, <2>3, <2>4, Zenon
<1>2. CASE \E a \in Actors : p = <<"mailbox", a>>
    <2>1. PICK a \in Actors : p = <<"mailbox", a>>
        BY <1>2
    <2> QED BY <1>0, <2>1 DEF QueuesAre
<1> QED BY <1>1, <1>2, PlaceKinds, Zenon

--------------------------------------------------------------------------------
(* The dead *)

\* An actor that has been removed is dead, and an address is drawn before its actor
\* can die.
GraveInv == (\A w \in Workers : removed[w] \subseteq Dead) /\ unborn \cap Dead = {}

\* Nobody comes back to life.
LEMMA DeadStay == ASSUME [Next]_vars PROVE Dead \subseteq Dead'
<1> SUFFICES stopping \subseteq stopping' /\ poisoned \subseteq poisoned'
    BY DEF Dead
<1> USE DEF slots, flags
<1>1. CASE ClientStep
    BY <1>1, Zenon DEF ClientStep, SpawnMap, SpawnQueue, ClientSend, ClientAdmin
<1>2. ASSUME NEW w \in Workers, Ingress(w)
      PROVE  stopping \subseteq stopping' /\ poisoned \subseteq poisoned'
    <2>1. CASE RetryDeferred(w) \/ DrainTransfer(w)
        BY <2>1, DeliverReaches, Zenon DEF RetryDeferred, DrainTransfer
    <2>2. CASE RetryAdmin(w) \/ DrainAdmin(w)
        BY <2>2, AdminReaches, Zenon DEF RetryAdmin, DrainAdmin
    <2> QED BY <1>2, <2>1, <2>2, Zenon DEF Ingress, BeginPass, DrainSpawn, EndSpawns, EndDeferred,
                EndTransfers, EndDeferredAdmin, EndAdmin
<1>3. ASSUME NEW w \in Workers, Ticking(w)
      PROVE  stopping \subseteq stopping' /\ poisoned \subseteq poisoned'
    BY <1>3, Zenon DEF Ticking, SkipActor, EnterActor, OnStartReturn, HandlerReturn, TakeMessage,
        LeaveActor, EndTicking, Conclude
<1>4. ASSUME NEW w \in Workers, Cleanup(w)
      PROVE  stopping \subseteq stopping' /\ poisoned \subseteq poisoned'
    BY <1>4, DeliverReaches, ZenonT(30) DEF Cleanup, DeliverLocal, EndLocal, OnStopReturn,
        RemoveDead, Unmap, EndCleanup, EndPass
<1>5. ASSUME NEW w \in Workers, UserCode(w)
      PROVE  stopping \subseteq stopping' /\ poisoned \subseteq poisoned'
    BY <1>5 DEF UserCode, HandlerSpawn, HandlerSend
<1>6. CASE UNCHANGED vars
    BY <1>6 DEF vars
<1> QED BY <1>1, <1>2, <1>3, <1>4, <1>5, <1>6, Zenon DEF Next, PassStep

\* Who dies in a step was in a pool, and so had been drawn.
LEMMA TheDyingWereBorn ==
    ASSUME WorkerInv, [Next]_vars PROVE Dead' \subseteq Dead \cup (Actors \ unborn)
<1>t. /\ TypePools /\ TypeMessages /\ RouteInv /\ \A w \in Workers : LiveInv(w)
      /\ unborn \subseteq Actors
    BY TypeParts DEF WorkerInv, TypeInv, TypeRegistry
<1>d. Dead' \subseteq Actors
    <2>1. TypePools'
        BY WorkerInvStep, TypeParts, PTL DEF WorkerInv, TypeInv
    <2> QED BY <2>1 DEF TypePools, Dead
<1>1. ASSUME NEW w \in Workers, PassStep(w) \/ UserCode(w)
      PROVE  Dead' \subseteq Dead \cup (Actors \ unborn)
    <2>1. ASSUME NEW a \in Dead', a \notin Dead PROVE a \notin unborn
        <3>1. a \in Actors
            BY <1>d
        <3>2. a \in pool[w]
            <4>1. a \in Actors \ pool[w] => SlotSame(a)
                BY <1>1, <1>t, OtherSlots, Zenon
            <4> QED BY <2>1, <3>1, <4>1, Zenon DEF SlotSame, Dead
        <3>3. addressMap[a] = w
            BY <1>t, <3>2 DEF RouteInv, RoutingSound
        <3> QED BY <1>t, <3>3, WorkerFacts DEF RouteInv
    <2> QED BY <1>d, <2>1
<1>2. CASE ClientStep \/ UNCHANGED vars
    BY <1>2, Zenon DEF ClientStep, SpawnMap, SpawnQueue, ClientSend, ClientAdmin, vars, slots, Dead
<1> QED BY <1>1, <1>2 DEF Next

\* Every step keeps the removed among the dead, and the unborn apart from them.
LEMMA GraveStep == ASSUME WorkerInv, GraveInv, [Next]_vars PROVE GraveInv'
<1>t. /\ removed \in [Workers -> SUBSET Actors] /\ unborn \subseteq Actors
    BY Zenon DEF WorkerInv, TypeInv, TypeOK
<1>1. unborn' \subseteq unborn
    <2>1. CASE ClientStep
        BY <2>1, SendFrame DEF ClientStep, SpawnMap, SpawnQueue, registry
    <2>2. ASSUME NEW w \in Workers, PassStep(w) PROVE unborn' \subseteq unborn
        BY <2>2, IngressFrame, TickingFrame, CleanupFrame DEF PassStep, DrainSpawn, Unmap, registry
    <2>3. ASSUME NEW w \in Workers, UserCode(w) PROVE unborn' \subseteq unborn
        BY <2>3, SendFrame, Zenon DEF UserCode, HandlerSpawn, registry
    <2>4. CASE UNCHANGED vars
        BY <2>4, Zenon DEF vars, registry
    <2> QED BY <2>1, <2>2, <2>3, <2>4 DEF Next
<1>2. ASSUME NEW v \in Workers PROVE removed'[v] \subseteq removed[v] \cup Dead
    <2>1. ASSUME NEW w \in Workers, NEW a \in Actors, RemoveDead(w, a) \/ Unmap(w, a)
          PROVE  removed'[v] \subseteq removed[v] \cup Dead
        BY <1>t, <2>1 DEF RemoveDead, Unmap
    <2>2. ASSUME NEW w \in Workers, PassStep(w) \/ UserCode(w),
                 \A a \in Actors : ~RemoveDead(w, a) /\ ~Unmap(w, a)
          PROVE  UNCHANGED removed
        <3>1. CASE DrainSpawn(w) \/ \E a \in Actors : HandlerSpawn(w, a)
            BY <3>1 DEF DrainSpawn, HandlerSpawn, scratch
        <3> QED BY <2>2, <3>1, RoutingFrame, Zenon DEF routing
    <2>3. CASE ClientStep \/ UNCHANGED vars
        BY <2>3, Zenon DEF ClientStep, SpawnMap, SpawnQueue, ClientSend, ClientAdmin, vars, scratch
    <2> QED BY <2>1, <2>2, <2>3, Zenon DEF Next
<1>3. Dead \subseteq Dead' /\ Dead' \subseteq Dead \cup (Actors \ unborn)
    BY DeadStay, TheDyingWereBorn
<1> QED BY <1>1, <1>2, <1>3 DEF GraveInv

--------------------------------------------------------------------------------
(* Every message is where it should be *)

Transit == {m \in DOMAIN msgs : fate[m] = "transit"}

\* A message for a that waits with worker w has come to the right place, or too late.
Bound(w, a) == addressMap[a] = w \/ (addressMap[a] = NoWorker /\ a \in Dead)

Addressed(p, a) == IF p[1] = "mailbox" THEN a = p[2] ELSE Bound(p[2], a)

MessageInv ==
    /\ Exact(MessagePlaces, MessageQueues, Transit)
    /\ \A p \in MessagePlaces :
          \A m \in Range(MessageQueues[p]) : Addressed(p, msgs[m].dest)
    /\ \A m \in DOMAIN msgs : fate[m] = "discarded" => msgs[m].dest \in Dead

\* What a step may do with the messages.
Moves ==
    /\ Exact(MessagePlaces, MessageQueues', Transit')
    /\ \A p \in MessagePlaces : \A m \in Range(MessageQueues'[p]) :
          m \in Range(MessageQueues[p]) \/ Addressed(p, msgs'[m].dest)
    /\ \A m \in DOMAIN msgs :
          fate'[m] = "discarded" => fate[m] = "discarded" \/ msgs[m].dest \in Dead'
    /\ \A m \in DOMAIN msgs : msgs'[m] = msgs[m]
    /\ \A m \in DOMAIN msgs' \ DOMAIN msgs :
          fate'[m] = "transit" /\ msgs'[m].dest \in Actors

\* The queues hold numbers of messages.
LEMMA QueuesType ==
    ASSUME TypeMessages PROVE MessageQueues \in [MessagePlaces -> Seq(DOMAIN msgs)]
<1>1. ASSUME NEW p \in MessagePlaces PROVE MessageQueues[p] \in Seq(DOMAIN msgs)
    <2>1. CASE \E w \in Workers : p \in {<<"transfer", w>>, <<"deferred", w>>, <<"local", w>>}
        <3>1. PICK w \in Workers : p \in {<<"transfer", w>>, <<"deferred", w>>, <<"local", w>>}
            BY <2>1
        <3>2. /\ transferQ[w] \in Seq(DOMAIN msgs) /\ deferred[w] \in Seq(DOMAIN msgs)
              /\ pendingLocal[w] \in Seq(DOMAIN msgs)
            BY DEF TypeMessages
        <3>3. MessageQueues[p] \in {transferQ[w], deferred[w], pendingLocal[w]}
            BY <3>1, QueueAt, Zenon DEF QueuesAre
        <3> QED BY <3>2, <3>3
    <2>2. CASE \E a \in Actors : p = <<"mailbox", a>>
        BY <2>2, QueueAt DEF QueuesAre, TypeMessages
    <2> QED BY <2>1, <2>2, PlaceKinds
<1> QED BY <1>1 DEF MessageQueues

\* A message is for an actor.
LEMMA MessageDest ==
    ASSUME TypeMessages, NEW m \in DOMAIN msgs PROVE msgs[m].dest \in Actors
<1>1. msgs \in Seq(Envelopes)
    BY DEF TypeMessages, Envelopes
<1>2. msgs[m] \in Envelopes
    BY <1>1
<1> QED BY <1>2 DEF Envelopes

\* A command is for an actor.
LEMMA CommandDest ==
    ASSUME TypeCommands, NEW c \in DOMAIN cmds PROVE cmds[c].dest \in Actors
<1> DEFINE C == [op : AdminOps, dest : Actors]
<1>1. cmds \in Seq(C)
    BY DEF TypeCommands
<1> HIDE DEF C
<1>2. cmds[c] \in C
    BY <1>1
<1> QED BY <1>2 DEF C

\* Spawns take new addresses and cleanup unmaps the dead, so a message stays bound.
LEMMA BoundStays ==
    ASSUME WorkerInv, GraveInv, [Next]_vars, NEW w \in Workers, NEW a \in Actors, Bound(w, a)
    PROVE  Bound(w, a)'
<1>t. /\ addressMap \in [Actors -> Workers \cup {NoWorker}] /\ unborn \subseteq Actors
      /\ \A x \in unborn : addressMap[x] = NoWorker
      /\ w # NoWorker
    BY WorkerFacts, ZenonT(30) DEF WorkerInv, TypeInv, TypeOK, RouteInv
<1>d. Dead \subseteq Dead'
    BY DeadStay
<1>b. a \notin unborn
    BY <1>t DEF GraveInv, Bound
<1>u. ASSUME UNCHANGED addressMap PROVE Bound(w, a)'
    BY <1>u, <1>d DEF Bound
<1> USE DEF registry
<1>1. ASSUME NEW x \in Actors, SpawnMap(x) \/ \E v \in Workers : HandlerSpawn(v, x)
      PROVE  Bound(w, a)'
    <2>1. addressMap'[a] = addressMap[a]
        BY <1>1, <1>t, <1>b, Zenon DEF SpawnMap, HandlerSpawn
    <2> QED BY <1>d, <2>1, Zenon DEF Bound
<1>2. ASSUME NEW v \in Workers, NEW x \in Actors, Unmap(v, x) PROVE Bound(w, a)'
    <2>1. x \in Dead /\ addressMap' = [addressMap EXCEPT ![x] = NoWorker]
        BY <1>2, Zenon DEF Unmap, GraveInv
    <2> QED BY <1>t, <1>d, <2>1, Zenon DEF Bound
<1>3. CASE ClientStep
    BY <1>3, <1>1, <1>u, SendFrame, Zenon DEF ClientStep, SpawnQueue
<1>4. ASSUME NEW v \in Workers, PassStep(v) PROVE Bound(w, a)'
    BY <1>4, <1>2, <1>u, IngressFrame, TickingFrame, CleanupFrame, Zenon DEF PassStep, DrainSpawn
<1>5. ASSUME NEW v \in Workers, UserCode(v) PROVE Bound(w, a)'
    BY <1>5, <1>1, <1>u, SendFrame, Zenon DEF UserCode
<1>6. CASE UNCHANGED vars
    BY <1>6, <1>u DEF vars
<1> QED BY <1>3, <1>4, <1>5, <1>6, Zenon DEF Next

\* Moving messages that way keeps the message invariant.
LEMMA MovesEnough ==
    ASSUME WorkerInv, GraveInv, MessageInv, [Next]_vars, Moves PROVE MessageInv'
<1>t. TypeMessages /\ Dead \subseteq Dead'
    BY TypeParts, DeadStay DEF WorkerInv, TypeInv
<1>q. MessageQueues \in [MessagePlaces -> Seq(DOMAIN msgs)]
    BY <1>t, QueuesType, Zenon
<1>m. \A m \in DOMAIN msgs : msgs[m].dest \in Actors
    BY <1>t, MessageDest
<1>f. TypeMessages'
    BY WorkerInvStep, TypeParts, PTL DEF WorkerInv, TypeInv
<1>1. ASSUME NEW p \in MessagePlaces, NEW a \in Actors, Addressed(p, a)
      PROVE  Addressed(p, a)'
    <2>1. CASE p[1] = "mailbox"
        BY <1>1, <2>1 DEF Addressed
    <2>2. CASE p[1] # "mailbox"
        <3>1. p[2] \in Workers
            BY <2>2, Zenon DEF MessagePlaces
        <3>2. Bound(p[2], a)'
            BY <1>1, <2>2, <3>1, BoundStays, Zenon DEF Addressed
        <3> QED BY <2>2, <3>2 DEF Addressed
    <2> QED BY <2>1, <2>2
<1>2. ASSUME NEW p \in MessagePlaces, NEW m \in Range(MessageQueues'[p])
      PROVE  Addressed(p, msgs[m].dest)'
    <2>1. m \in Transit'
        BY <1>2 DEF Moves, Exact
    <2>2. m \in DOMAIN msgs'
        BY <2>1 DEF Transit
    <2>3. PICK a \in Actors : a = msgs'[m].dest
        BY <1>m, <2>2 DEF Moves
    <2>4. Addressed(p, a)
        <3>1. CASE m \in Range(MessageQueues[p])
            <4>1. Addressed(p, msgs[m].dest) /\ m \in DOMAIN msgs
                BY <3>1 DEF MessageInv, Exact, Transit
            <4> QED BY <2>3, <4>1 DEF Moves
        <3> QED BY <1>2, <2>3, <3>1, Zenon DEF Moves
    <2>5. Addressed(p, a)'
        BY <1>1, <2>4
    <2> QED BY <2>3, <2>5
<1>3. ASSUME NEW m \in DOMAIN msgs', fate'[m] = "discarded" PROVE msgs'[m].dest \in Dead'
    <2>1. m \in DOMAIN msgs
        BY <1>3 DEF Moves
    <2> QED BY <1>t, <1>3, <2>1, Zenon DEF Moves, MessageInv
<1> QED BY <1>2, <1>3 DEF MessageInv, Moves

\* Steps that touch no message.
LEMMA QuietMoves ==
    ASSUME MessageInv, UNCHANGED <<msgs, fate, transferQ, deferred, pendingLocal, mailbox>>
    PROVE  Moves
<1>1. MessageQueues' = MessageQueues /\ Transit' = Transit
    BY DEF MessageQueues, Transit
<1> QED BY <1>1 DEF MessageInv, Moves

\* What settling does to the messages on their way.
LEMMA SettleFacts ==
    ASSUME TypeMessages, NEW S, NEW f
    PROVE  /\ DOMAIN Settle(S, f) = DOMAIN msgs
           /\ \A m \in DOMAIN msgs : Settle(S, f)[m] = IF m \in S THEN f ELSE fate[m]
BY DEF TypeMessages, Settle

\* A step that replaces one mailbox.
LEMMA MailboxOnly ==
    ASSUME TypeMessages, NEW a \in Actors, NEW s, mailbox' = [mailbox EXCEPT ![a] = s],
           UNCHANGED <<transferQ, deferred, pendingLocal>>
    PROVE  /\ <<"mailbox", a>> \in MessagePlaces
           /\ MessageQueues[<<"mailbox", a>>] = mailbox[a]
           /\ MessageQueues'[<<"mailbox", a>>] = s
           /\ \A r \in MessagePlaces \ {<<"mailbox", a>>} : MessageQueues'[r] = MessageQueues[r]
<1> DEFINE x == <<"mailbox", a>>
           q == MessageQueues
<1>0. QueuesAre /\ QueuesAre'
    BY QueueAt, PTL
<1>1. x \in MessagePlaces /\ q[x] = mailbox[a] /\ MessageQueues'[x] = s
    BY <1>0 DEF QueuesAre, TypeMessages
<1>2. \A b \in Actors : <<"mailbox", b>> # x => mailbox'[b] = q[<<"mailbox", b>>]
    BY <1>0 DEF QueuesAre, TypeMessages
<1>3. \A w \in Workers : <<"transfer", w>> # x => transferQ'[w] = q[<<"transfer", w>>]
    BY <1>0, Zenon DEF QueuesAre
<1>4. \A w \in Workers : <<"deferred", w>> # x => deferred'[w] = q[<<"deferred", w>>]
    BY <1>0, Zenon DEF QueuesAre
<1>5. \A w \in Workers : <<"local", w>> # x => pendingLocal'[w] = q[<<"local", w>>]
    BY <1>0, Zenon DEF QueuesAre
<1> HIDE DEF x, q
<1>6. \A r \in MessagePlaces \ {x} : MessageQueues'[r] = q[r]
    BY <1>2, <1>3, <1>4, <1>5, Elsewhere
<1> QED BY <1>1, <1>6 DEF x, q

\* The mailbox of a is cleared and nothing else happens to messages.
Drops(a) ==
    /\ mailbox' = [mailbox EXCEPT ![a] = <<>>]
    /\ \A m \in DOMAIN msgs : IF m \in Range(mailbox[a])
                              THEN fate'[m] \in {"handled", "discarded"}
                              ELSE fate'[m] = fate[m]
    /\ UNCHANGED <<msgs, transferQ, deferred, pendingLocal>>

\* That is right if a is dead by the end of the step.
LEMMA DropMoves ==
    ASSUME TypeMessages, MessageInv, NEW a \in Actors, a \in Dead', Drops(a)
    PROVE  Moves
<1> DEFINE x == <<"mailbox", a>>
           P == MessagePlaces
           q == MessageQueues
           t == MessageQueues'
           S == Transit
<1>1. x \in P /\ q[x] = mailbox[a] /\ t[x] = <<>> /\ \A r \in P \ {x} : t[r] = q[r]
    BY MailboxOnly, Zenon DEF Drops
<1>2. Exact(P, q, S)
    BY DEF MessageInv
<1>3. Exact(P, t, S \ Range(q[x])) /\ \A r \in P : Range(t[r]) \subseteq Range(q[r])
    <2>1. x \in P
        BY <1>1
    <2>2. t[x] = <<>>
        BY <1>1
    <2>3. \A r \in P \ {x} : t[r] = q[r]
        BY <1>1
    <2> HIDE DEF x, P, q, t, S
    <2> QED BY <1>2, <2>1, <2>2, <2>3, ClearExact, Zenon
<1>4. Transit' = Transit \ Range(q[x])
    BY <1>1 DEF Transit, Drops
<1>5. \A m \in Range(mailbox[a]) : msgs[m].dest = a
    BY <1>1 DEF MessageInv, Addressed
<1>6. \A m \in DOMAIN msgs :
          fate'[m] = "discarded" => fate[m] = "discarded" \/ msgs[m].dest \in Dead'
    BY <1>5 DEF Drops
<1>7. UNCHANGED msgs
    BY DEF Drops
<1> QED BY <1>3, <1>4, <1>6, <1>7, Zenon DEF Moves

\* The same for an operation that clears it.
LEMMA ClearMoves ==
    ASSUME TypeMessages, MessageInv, NEW a \in Actors, Clear(a), a \in Dead',
           UNCHANGED <<msgs, transferQ, deferred, pendingLocal>>
    PROVE  Moves
<1>1. \A m \in DOMAIN msgs : IF m \in Range(mailbox[a])
                             THEN fate'[m] \in {"handled", "discarded"}
                             ELSE fate'[m] = fate[m]
    BY SettleFacts DEF Clear
<1>2. Drops(a)
    BY <1>1 DEF Clear, Drops
<1> QED BY <1>2, DropMoves

\* Taking the oldest message out of one queue.
LEMMA PopMessage ==
    ASSUME TypeMessages, MessageInv, NEW x \in MessagePlaces, MessageQueues[x] # <<>>,
           NEW t, t[x] = Tail(MessageQueues[x]),
           \A r \in MessagePlaces \ {x} : t[r] = MessageQueues[r]
    PROVE  /\ Head(MessageQueues[x]) \in Transit
           /\ Head(MessageQueues[x]) \in Range(MessageQueues[x])
           /\ Exact(MessagePlaces, t, Transit \ {Head(MessageQueues[x])})
           /\ \A r \in MessagePlaces : t[r] \in Seq(DOMAIN msgs)
           /\ \A r \in MessagePlaces : Range(t[r]) \subseteq Range(MessageQueues[r])
<1> DEFINE P == MessagePlaces
           q == MessageQueues
           M == DOMAIN msgs
           S == Transit
<1>1. q \in [P -> Seq(M)]
    BY QueuesType
<1>2. Exact(P, q, S)
    BY DEF MessageInv
<1> HIDE DEF P, q, M, S
<1>3. x \in P /\ q[x] # <<>> /\ t[x] = Tail(q[x]) /\ \A r \in P \ {x} : t[r] = q[r]
    BY DEF P, q
<1>4. /\ Head(q[x]) \in S /\ Head(q[x]) \in M /\ Head(q[x]) \in Range(q[x])
      /\ \A r \in P : t[r] \in Seq(M) /\ Range(t[r]) \subseteq Range(q[r])
      /\ Exact(P, t, S \ {Head(q[x])})
    BY <1>1, <1>2, <1>3, PopExact, Zenon
<1> QED BY <1>4 DEF P, q, M, S

\* The message loop takes one message, or a stop signal takes them all.
LEMMA TakeMoves ==
    ASSUME TypeMessages, PassInv, MessageInv, NEW w \in Workers, TakeMessage(w)
    PROVE  Moves
<1> DEFINE a == current[w]
           m == Head(mailbox[a])
           x == <<"mailbox", a>>
           P == MessagePlaces
           q == MessageQueues
           t == MessageQueues'
           S == Transit
           N == DOMAIN msgs
<1>1. a \in Actors /\ mailbox[a] # <<>> /\ UNCHANGED <<msgs, transferQ, deferred, pendingLocal>>
    BY DEF TakeMessage, PassInv, CurrentIsActor, retained
<1>2. x \in P /\ q[x] = mailbox[a] /\ q \in [P -> Seq(N)] /\ Exact(P, q, S)
    BY <1>1, QueueAt, QueuesType, Zenon DEF QueuesAre, MessageInv
<1>3. m \in Range(mailbox[a]) /\ m \in N
    <2>1. mailbox[a] \in Seq(N) /\ IsInjective(mailbox[a])
        BY <1>2 DEF Exact
    <2> HIDE DEF a, N
    <2> QED BY <1>1, <2>1, RangeTail, Zenon
<1>4. CASE /\ stopping' = stopping \cup {a}
           /\ mailbox' = [mailbox EXCEPT ![a] = <<>>]
           /\ fate' = [Settle(Range(mailbox[a]), "discarded") EXCEPT ![m] = "handled"]
    <2>1. a \in Dead'
        BY <1>4 DEF Dead
    <2>2. /\ DOMAIN Settle(Range(mailbox[a]), "discarded") = N
          /\ \A i \in N : Settle(Range(mailbox[a]), "discarded")[i] =
                             IF i \in Range(mailbox[a]) THEN "discarded" ELSE fate[i]
        BY SettleFacts
    <2>3. \A i \in N : IF i \in Range(mailbox[a]) THEN fate'[i] \in {"handled", "discarded"}
                                                   ELSE fate'[i] = fate[i]
        <3> HIDE DEF a, m, N
        <3> QED BY <1>3, <1>4, <2>2, ZenonT(30)
    <2>4. Drops(a)
        BY <1>1, <1>4, <2>3, Zenon DEF Drops
    <2> HIDE DEF a
    <2> QED BY <1>1, <2>1, <2>4, DropMoves, Zenon
<1>5. CASE /\ mailbox' = [mailbox EXCEPT ![a] = Tail(@)]
           /\ fate' = Settle({m}, "handled")
    <2>1. t[x] = Tail(q[x]) /\ \A r \in P \ {x} : t[r] = q[r]
        <3>1. mailbox' = [mailbox EXCEPT ![a] = Tail(mailbox[a])]
            BY <1>5
        <3> HIDE DEF a
        <3>2. /\ MessageQueues'[<<"mailbox", a>>] = Tail(mailbox[a])
              /\ \A r \in MessagePlaces \ {<<"mailbox", a>>} : MessageQueues'[r] = MessageQueues[r]
            BY <1>1, <3>1, MailboxOnly, Zenon
        <3> QED BY <1>2, <3>2
    <2>2. q[x] # <<>> /\ m = Head(q[x])
        BY <1>1, <1>2, Zenon
    <2>3. Exact(P, t, S \ {m}) /\ \A r \in P : Range(t[r]) \subseteq Range(q[r])
        <3>1. x \in MessagePlaces /\ MessageQueues[x] # <<>>
            BY <1>2, <2>2
        <3>2. t[x] = Tail(MessageQueues[x])
            BY <2>1
        <3>3. \A r \in MessagePlaces \ {x} : t[r] = MessageQueues[r]
            BY <2>1
        <3> HIDE DEF x, t, m
        <3>7. /\ Exact(MessagePlaces, t, Transit \ {Head(MessageQueues[x])})
              /\ \A r \in MessagePlaces : Range(t[r]) \subseteq Range(MessageQueues[r])
            BY <3>1, <3>2, <3>3, PopMessage, Zenon
        <3> QED BY <2>2, <3>7, Zenon
    <2>4. \A i \in N : fate'[i] = IF i = m THEN "handled" ELSE fate[i]
        BY <1>5, SettleFacts
    <2>5. Transit' = Transit \ {m}
        <3> HIDE DEF m
        <3> QED BY <1>1, <2>4 DEF Transit
    <2> HIDE DEF m
    <2> QED BY <1>1, <2>3, <2>4, <2>5, Zenon DEF Moves
<1> QED BY <1>4, <1>5, Zenon DEF TakeMessage

\* A new message joins a queue of the worker that its target is mapped to.
LEMMA AcceptMoves ==
    ASSUME TypeMessages, MessageInv, NEW from \in Actors \cup {Client}, NEW a \in Actors,
           NEW kind \in {"user", "stop"}, Accept(from, a, kind),
           NEW v \in Workers, addressMap[a] = v, UNCHANGED <<mailbox, deferred>>,
           \/ /\ UNCHANGED pendingLocal
              /\ transferQ' = [transferQ EXCEPT ![v] = Append(@, Len(msgs) + 1)]
           \/ /\ UNCHANGED transferQ
              /\ pendingLocal' = [pendingLocal EXCEPT ![v] = Append(@, Len(msgs) + 1)]
    PROVE  Moves
<1> DEFINE k == Len(msgs) + 1
           e == [from |-> from, dest |-> a, kind |-> kind]
           P == MessagePlaces
           q == MessageQueues
<1>0. QueuesAre /\ QueuesAre'
    BY QueueAt, PTL
<1>1. PICK x \in {<<"transfer", v>>, <<"local", v>>} :
          /\ q'[x] = Append(q[x], k)
          /\ \A r \in P \ {x} : q'[r] = q[r]
    <2>1. CASE transferQ' = [transferQ EXCEPT ![v] = Append(@, k)] /\ UNCHANGED pendingLocal
        <3> DEFINE x == <<"transfer", v>>
        <3>1. q'[x] = Append(q[x], k)
            BY <1>0, <2>1, ZenonT(30) DEF QueuesAre, TypeMessages
        <3>2. \A w \in Workers : <<"transfer", w>> # x => transferQ'[w] = q[<<"transfer", w>>]
            BY <1>0, <2>1, Zenon DEF QueuesAre, TypeMessages
        <3>3. \A w \in Workers : <<"local", w>> # x => pendingLocal'[w] = q[<<"local", w>>]
            BY <1>0, <2>1, Zenon DEF QueuesAre
        <3>4. \A w \in Workers : <<"deferred", w>> # x => deferred'[w] = q[<<"deferred", w>>]
            BY <1>0, Zenon DEF QueuesAre
        <3>a. \A b \in Actors : <<"mailbox", b>> # x => mailbox'[b] = q[<<"mailbox", b>>]
            BY <1>0 DEF QueuesAre
        <3>5. x \in {<<"transfer", v>>, <<"local", v>>}
            OBVIOUS
        <3> HIDE DEF x, q, k
        <3>6. \A r \in P \ {x} : MessageQueues'[r] = q[r]
            BY <3>2, <3>3, <3>4, <3>a, Elsewhere
        <3> QED BY <3>1, <3>5, <3>6, Zenon DEF q
    <2>2. CASE pendingLocal' = [pendingLocal EXCEPT ![v] = Append(@, k)] /\ UNCHANGED transferQ
        <3> DEFINE x == <<"local", v>>
        <3>1. q'[x] = Append(q[x], k)
            BY <1>0, <2>2, ZenonT(30) DEF QueuesAre, TypeMessages
        <3>2. \A w \in Workers : <<"local", w>> # x => pendingLocal'[w] = q[<<"local", w>>]
            BY <1>0, <2>2, Zenon DEF QueuesAre, TypeMessages
        <3>3. \A w \in Workers : <<"transfer", w>> # x => transferQ'[w] = q[<<"transfer", w>>]
            BY <1>0, <2>2, Zenon DEF QueuesAre
        <3>4. \A w \in Workers : <<"deferred", w>> # x => deferred'[w] = q[<<"deferred", w>>]
            BY <1>0, Zenon DEF QueuesAre
        <3>a. \A b \in Actors : <<"mailbox", b>> # x => mailbox'[b] = q[<<"mailbox", b>>]
            BY <1>0, Zenon DEF QueuesAre
        <3>5. x \in {<<"transfer", v>>, <<"local", v>>}
            OBVIOUS
        <3> HIDE DEF x, q, k
        <3>6. \A r \in P \ {x} : MessageQueues'[r] = q[r]
            BY <3>2, <3>3, <3>4, <3>a, Elsewhere
        <3> QED BY <3>1, <3>5, <3>6, Zenon DEF q
    <2> QED BY <2>1, <2>2, Zenon
<1>2. x \in P /\ x[1] # "mailbox" /\ x[2] = v
    <2>1. CASE x = <<"transfer", v>>
        BY <1>0, <2>1, Zenon DEF QueuesAre
    <2>2. CASE x = <<"local", v>>
        BY <1>0, <2>2, Zenon DEF QueuesAre
    <2> QED BY <2>1, <2>2, Zenon
<1>3. /\ DOMAIN msgs' = DOMAIN msgs \cup {k} /\ k \notin DOMAIN msgs
      /\ \A m \in DOMAIN msgs : msgs'[m] = msgs[m] /\ fate'[m] = fate[m]
      /\ msgs'[k].dest = a /\ fate'[k] = "transit"
    <2>1. /\ msgs \in Seq(Envelopes) /\ fate \in [DOMAIN msgs -> Fates] /\ e \in Envelopes
          /\ msgs' = Append(msgs, e) /\ fate' = Append(fate, "transit")
        BY DEF TypeMessages, Accept, Envelopes, Fates
    <2>2. e.dest = a
        OBVIOUS
    <2> HIDE DEF e
    <2>3. /\ Len(msgs) \in Nat /\ DOMAIN msgs = 1..Len(msgs) /\ DOMAIN msgs' = 1..k
          /\ \A m \in 1..Len(msgs) : msgs'[m] = msgs[m]
          /\ msgs'[k] = e
        BY <2>1, AppendFacts
    <2>4. fate \in Seq(Fates) /\ Len(fate) = Len(msgs) /\ "transit" \in Fates
        BY <2>1, <2>3 DEF Fates
    <2>5. (\A m \in 1..Len(msgs) : fate'[m] = fate[m]) /\ fate'[k] = "transit"
        BY <2>1, <2>4, AppendFacts
    <2> QED BY <2>2, <2>3, <2>5
<1>4. Transit' = Transit \cup {k} /\ k \notin Transit
    BY <1>3, Zenon DEF Transit
<1>5. /\ Exact(P, q', Transit \cup {k})
      /\ Range(q'[x]) = Range(q[x]) \cup {k}
      /\ \A r \in P \ {x} : Range(q'[r]) = Range(q[r])
    <2>1. q[x] \in Seq(DOMAIN msgs)
        BY <1>2, QueuesType, Zenon
    <2>2. q[x] \in Seq(DOMAIN msgs') /\ k \in DOMAIN msgs'
        BY <1>3, <2>1, SeqWiden, ZenonT(30)
    <2>3. Exact(P, q, Transit)
        BY DEF MessageInv
    <2> DEFINE M == DOMAIN msgs'
               S == Transit
               t == MessageQueues'
    <2>4. t[x] = Append(q[x], k) /\ \A r \in P \ {x} : t[r] = q[r]
        BY <1>1
    <2>5. q[x] \in Seq(M) /\ k \in M /\ k \notin S /\ x \in P
        BY <1>2, <1>4, <2>2, Zenon
    <2> HIDE DEF P, q, k, M, S, t
    <2>6. Exact(P, q, S)
        BY <2>3, Zenon DEF S
    <2>a. IsInjective(t[x]) /\ Range(t[x]) = Range(q[x]) \cup {k}
        <3>1. k \notin Range(q[x]) /\ IsInjective(q[x])
            BY <2>5, <2>6, Zenon DEF Exact
        <3>2. IsInjective(Append(q[x], k)) /\ Range(Append(q[x], k)) = Range(q[x]) \cup {k}
            BY <2>5, <3>1, RangeAppend
        <3> QED BY <2>4, <3>2, Zenon
    <2>b. \A r \in P \ {x} : t[r] = q[r]
        BY <2>4
    <2>c. x \in P /\ k \notin S
        BY <2>5, Zenon
    <2>7. /\ Exact(P, t, S \cup {k})
          /\ Range(t[x]) = Range(q[x]) \cup {k}
          /\ \A r \in P \ {x} : Range(t[r]) = Range(q[r])
        BY <2>6, <2>a, <2>b, <2>c, GainExact
    <2> QED BY <2>7 DEF t, S, q
<1>6. Addressed(x, msgs'[k].dest)
    BY <1>2, <1>3, Zenon DEF Addressed, Bound
<1>7. \A p \in P : \A m \in Range(q'[p]) :
          m \in Range(q[p]) \/ Addressed(p, msgs'[m].dest)
    BY <1>2, <1>5, <1>6, Zenon
<1> HIDE DEF k
<1> QED BY <1>3, <1>4, <1>5, <1>7, Zenon DEF Moves

\* Worker w takes message m out of a queue to deliver it; q is what the queues hold
\* besides it.
InHand(w, m, q) ==
    /\ Exact(MessagePlaces, q, Transit \ {m})
    /\ \A p \in MessagePlaces : /\ q[p] \in Seq(DOMAIN msgs)
                               /\ Range(q[p]) \subseteq Range(MessageQueues[p])
    /\ \A v \in Workers : /\ transferQ'[v] = q[<<"transfer", v>>]
                          /\ pendingLocal'[v] = q[<<"local", v>>]
                          /\ v # w => deferred[v] = q[<<"deferred", v>>]
    /\ \A a \in Actors : mailbox[a] = q[<<"mailbox", a>>]
    /\ UNCHANGED msgs

\* The message in hand is delivered, deferred or, if its target is dead, discarded.
LEMMA DeliverMoves ==
    ASSUME TypeMessages, MessageInv, Dead \subseteq Dead', NEW w \in Workers, NEW m \in Transit,
           Bound(w, msgs[m].dest), NEW q, InHand(w, m, q),
           DeliverOrDefer(w, m, q[<<"deferred", w>>])
    PROVE  Moves
<1> DEFINE a == msgs[m].dest
           P == MessagePlaces
           t == MessageQueues'
           S == Transit \ {m}
           d == <<"deferred", w>>
           b == <<"mailbox", a>>
<1>0. QueuesAre /\ QueuesAre'
    BY QueueAt, PTL
<1>a. a \in Actors /\ m \in DOMAIN msgs /\ fate[m] = "transit"
    BY MessageDest DEF Transit
<1>p. d \in P /\ b \in P /\ t[d] = deferred'[w] /\ t[b] = mailbox'[a]
      /\ MessageQueues[b] = mailbox[a]
    BY <1>0, <1>a, Zenon DEF QueuesAre
<1>w. deferred'[w] = IF Defers(w, a) THEN Append(q[d], m) ELSE q[d]
    BY DEF DeliverOrDefer, TypeMessages
\* Which queues stay, if the mailboxes other than y do.
<1>e. ASSUME NEW x, \A v \in Workers : <<"deferred", v>> # x => deferred'[v] = q[<<"deferred", v>>],
             \A c \in Actors : <<"mailbox", c>> # x => mailbox'[c] = q[<<"mailbox", c>>]
      PROVE  \A r \in P \ {x} : t[r] = q[r]
    <2>1. \A v \in Workers : <<"transfer", v>> # x => transferQ'[v] = q[<<"transfer", v>>]
        BY Zenon DEF InHand
    <2>2. \A v \in Workers : <<"local", v>> # x => pendingLocal'[v] = q[<<"local", v>>]
        BY Zenon DEF InHand
    <2> HIDE DEF d, b, a, S
    <2> QED BY <1>e, <2>1, <2>2, Elsewhere
<1>v. \A v \in Workers : <<"deferred", v>> # d => deferred'[v] = q[<<"deferred", v>>]
    BY Zenon DEF DeliverOrDefer, TypeMessages, InHand
\* The message joins the queue at x.
<1>g. ASSUME NEW x \in P, t[x] = Append(q[x], m), \A r \in P \ {x} : t[r] = q[r],
             UNCHANGED fate, Addressed(x, a)
      PROVE  Moves
    <2> DEFINE M == DOMAIN msgs
    <2>1. q[x] \in Seq(M) /\ m \in M
        BY <1>a DEF InHand
    <2>2. Exact(P, q, S)
        BY DEF InHand
    <2>3. m \notin S /\ Transit' = S \cup {m}
        BY <1>g DEF Transit, InHand
    <2>4. Exact(P, t, S \cup {m}) /\ Range(t[x]) = Range(q[x]) \cup {m}
          /\ \A r \in P \ {x} : Range(t[r]) = Range(q[r])
        <3>1. m \notin S
            BY <2>3
        <3>2. \A r \in P \ {x} : t[r] = q[r]
            BY <1>g, Zenon
        <3> HIDE DEF P, M, S, t
        <3>3. m \notin Range(q[x]) /\ IsInjective(q[x])
            BY <2>2, <3>1, <1>g, Zenon DEF Exact
        <3>4. IsInjective(Append(q[x], m)) /\ Range(Append(q[x], m)) = Range(q[x]) \cup {m}
            BY <2>1, <3>3, RangeAppend
        <3>5. IsInjective(t[x])
            BY <1>g, <3>4, Zenon
        <3>6. Range(t[x]) = Range(q[x]) \cup {m}
            BY <1>g, <3>4, Zenon
        <3>7. Exact(P, t, S \cup {m}) /\ \A r \in P \ {x} : Range(t[r]) = Range(q[r])
            BY <2>2, <3>1, <3>2, <3>5, <3>6, GainExact
        <3> QED BY <3>6, <3>7
    <2>5. \A p \in P : \A i \in Range(t[p]) :
              i \in Range(MessageQueues[p]) \/ Addressed(p, msgs'[i].dest)
        <3>1. \A p \in P : Range(q[p]) \subseteq Range(MessageQueues[p])
            BY Zenon DEF InHand
        <3>2. Addressed(x, msgs'[m].dest)
            BY <1>g, Zenon DEF InHand
        <3> HIDE DEF P, t
        <3> QED BY <2>4, <3>1, <3>2, Zenon
    <2> QED BY <1>g, <2>3, <2>4, <2>5, Zenon DEF Moves, InHand
<1>1. CASE Defers(w, a)
    <2>1. UNCHANGED <<mailbox, fate>>
        BY <1>1, Zenon DEF DeliverOrDefer, Defers
    <2>2. t[d] = Append(q[d], m)
        BY <1>p, <1>w, <1>1, Zenon
    <2>3. \A c \in Actors : <<"mailbox", c>> # d => mailbox'[c] = q[<<"mailbox", c>>]
        BY <2>1 DEF InHand
    <2>4. \A r \in P \ {d} : t[r] = q[r]
        BY <1>e, <1>v, <2>3, Zenon
    <2>5. Addressed(d, a)
        BY DEF Addressed
    <2> HIDE DEF P, t, d, a
    <2> QED BY <1>g, <1>p, <2>1, <2>2, <2>4, <2>5, ZenonT(30)
<1>2. CASE /\ a \in pool[w] /\ mailbox' = [mailbox EXCEPT ![a] = Append(@, m)]
           /\ UNCHANGED fate
    <2>1. \A v \in Workers : <<"deferred", v>> # b => deferred'[v] = q[<<"deferred", v>>]
        BY <1>v, <1>w, <1>2, Zenon DEF Defers
    <2>2. \A c \in Actors : <<"mailbox", c>> # b => mailbox'[c] = q[<<"mailbox", c>>]
        BY <1>2, Zenon DEF TypeMessages, InHand
    <2>3. t[b] = Append(q[b], m)
        BY <1>a, <1>p, <1>2, Zenon DEF TypeMessages, InHand
    <2>4. \A r \in P \ {b} : t[r] = q[r]
        BY <1>e, <2>1, <2>2, Zenon
    <2>5. Addressed(b, a)
        BY DEF Addressed
    <2>6. UNCHANGED fate
        BY <1>2, Zenon
    <2> HIDE DEF P, t, b, a
    <2> QED BY <1>g, <1>p, <2>3, <2>4, <2>5, <2>6
<1>3. CASE /\ a \in pool[w] /\ stopping' = stopping \cup {a}
           /\ mailbox' = [mailbox EXCEPT ![a] = <<>>]
           /\ fate' = [Settle(Range(mailbox[a]), "discarded") EXCEPT ![m] = "handled"]
    <2>1. \A v \in Workers : <<"deferred", v>> # b => deferred'[v] = q[<<"deferred", v>>]
        BY <1>v, <1>w, <1>3, Zenon DEF Defers
    <2>2. \A c \in Actors : <<"mailbox", c>> # b => mailbox'[c] = q[<<"mailbox", c>>]
        BY <1>3, Zenon DEF TypeMessages, InHand
    <2>3. t[b] = <<>>
        BY <1>a, <1>p, <1>3 DEF TypeMessages
    <2>4. \A r \in P \ {b} : t[r] = q[r]
        BY <1>e, <2>1, <2>2
    <2>5. Exact(P, t, S \ Range(q[b])) /\ \A r \in P : Range(t[r]) \subseteq Range(q[r])
        <3>1. Exact(P, q, S)
            BY DEF InHand
        <3>2. b \in P
            BY <1>p, Zenon
        <3> HIDE DEF P, t, b, S
        <3> QED BY <2>3, <2>4, <3>1, <3>2, ClearExact, ZenonT(30)
    <2>6. q[b] = mailbox[a]
        BY <1>a, Zenon DEF InHand
    <2>7. /\ DOMAIN Settle(Range(mailbox[a]), "discarded") = DOMAIN msgs
          /\ \A i \in DOMAIN msgs : Settle(Range(mailbox[a]), "discarded")[i] =
                             IF i \in Range(mailbox[a]) THEN "discarded" ELSE fate[i]
        BY SettleFacts
    <2>8. \A i \in DOMAIN msgs : fate'[i] = IF i = m THEN "handled"
                                 ELSE IF i \in Range(q[b]) THEN "discarded" ELSE fate[i]
        <3> HIDE DEF a, b
        <3> QED BY <1>a, <1>3, <2>6, <2>7, ZenonT(30)
    <2>9. Transit' = S \ Range(q[b])
        <3> HIDE DEF b
        <3> QED BY <2>8 DEF Transit, InHand
    <2>10. \A i \in Range(q[b]) : msgs[i].dest = a
        BY <1>p, <2>6, Zenon DEF MessageInv, Addressed
    <2>11. a \in Dead'
        BY <1>3, Zenon DEF Dead
    <2>12. \A i \in DOMAIN msgs :
              fate'[i] = "discarded" => fate[i] = "discarded" \/ msgs[i].dest \in Dead'
        <3> HIDE DEF a, b
        <3> QED BY <2>8, <2>10, <2>11, Zenon
    <2>13. \A p \in P : \A i \in Range(t[p]) : i \in Range(MessageQueues[p])
        BY <2>5, Zenon DEF InHand
    <2> HIDE DEF a, b
    <2> QED BY <2>5, <2>9, <2>12, <2>13, ZenonT(30) DEF Moves, InHand
<1>4. CASE /\ a \notin pool[w] /\ addressMap[a] # w /\ UNCHANGED mailbox
           /\ fate' = Settle({m}, "discarded")
    <2>1. \A c \in Actors : <<"mailbox", c>> # d => mailbox'[c] = q[<<"mailbox", c>>]
        BY <1>4, Zenon DEF InHand
    <2>2. \A r \in P \ {d} : t[r] = q[r]
        BY <1>e, <1>v, <2>1
    <2>3. t[d] = q[d]
        BY <1>p, <1>w, <1>4, Zenon DEF Defers
    <2>4. \A r \in P : t[r] = q[r]
        BY <2>2, <2>3, Zenon
    <2>5. Exact(P, t, S)
        <3>1. Exact(P, q, S)
            BY DEF InHand
        <3> HIDE DEF P, t, S
        <3> QED BY <2>4, <3>1, Zenon DEF Exact
    <2>6. \A i \in DOMAIN msgs : fate'[i] = IF i = m THEN "discarded" ELSE fate[i]
        BY <1>4, SettleFacts
    <2>7. Transit' = S
        BY <2>6, Zenon DEF Transit, InHand
    <2>8. a \in Dead'
        BY <1>4 DEF Bound
    <2>9. \A i \in DOMAIN msgs :
              fate'[i] = "discarded" => fate[i] = "discarded" \/ msgs[i].dest \in Dead'
        BY <2>6, <2>8, Zenon
    <2>10. \A p \in P : \A i \in Range(t[p]) : i \in Range(MessageQueues[p])
        BY <2>4 DEF InHand
    <2> QED BY <2>5, <2>7, <2>9, <2>10, ZenonT(30) DEF Moves, InHand
<1> QED BY <1>1, <1>2, <1>3, <1>4, Zenon DEF DeliverOrDefer, PoolDeliver

\* The same from the queue of kind k of w, with what it does to the queues of w.
LEMMA HandMoves ==
    ASSUME TypeMessages, MessageInv, Dead \subseteq Dead', UNCHANGED msgs,
           NEW w \in Workers, NEW k \in {"transfer", "deferred", "local"},
           MessageQueues[<<k, w>>] # <<>>,
           transferQ' = IF k = "transfer" THEN [transferQ EXCEPT ![w] = Tail(@)] ELSE transferQ,
           pendingLocal' = IF k = "local" THEN [pendingLocal EXCEPT ![w] = Tail(@)]
                                          ELSE pendingLocal,
           DeliverOrDefer(w, Head(MessageQueues[<<k, w>>]),
                          IF k = "deferred" THEN Tail(deferred[w]) ELSE deferred[w])
    PROVE  Moves
<1> DEFINE x == <<k, w>>
           P == MessagePlaces
           q == [MessageQueues EXCEPT ![x] = Tail(@)]
           m == Head(MessageQueues[x])
<1>0. QueuesAre
    BY QueueAt, Zenon
<1>1. x \in P /\ x[1] # "mailbox" /\ x[2] = w
    BY DEF MessagePlaces
<1>2. q[x] = Tail(MessageQueues[x]) /\ \A r \in P \ {x} : q[r] = MessageQueues[r]
    BY <1>0, <1>1, Zenon DEF QueuesAre
<1>3. /\ m \in Transit /\ m \in Range(MessageQueues[x])
      /\ Exact(P, q, Transit \ {m})
      /\ \A r \in P : q[r] \in Seq(DOMAIN msgs)
      /\ \A r \in P : Range(q[r]) \subseteq Range(MessageQueues[r])
    <2>1. q[x] = Tail(MessageQueues[x])
        BY <1>2, Zenon
    <2>2. \A r \in MessagePlaces \ {x} : q[r] = MessageQueues[r]
        BY <1>2
    <2>3. x \in MessagePlaces /\ MessageQueues[x] # <<>>
        BY <1>1, Zenon
    <2> HIDE DEF x, q
    <2> QED BY <2>1, <2>2, <2>3, PopMessage, Zenon
<1>4. Bound(w, msgs[m].dest)
    BY <1>1, <1>3, Zenon DEF MessageInv, Addressed
<1>5. ASSUME NEW v \in Workers
      PROVE  /\ transferQ'[v] = q[<<"transfer", v>>]
             /\ pendingLocal'[v] = q[<<"local", v>>]
             /\ v # w => deferred[v] = q[<<"deferred", v>>]
    <2>1. /\ <<"transfer", v>> \in P /\ MessageQueues[<<"transfer", v>>] = transferQ[v]
          /\ <<"deferred", v>> \in P /\ MessageQueues[<<"deferred", v>>] = deferred[v]
          /\ <<"local", v>> \in P /\ MessageQueues[<<"local", v>>] = pendingLocal[v]
        BY <1>0 DEF QueuesAre
    <2>2. CASE v = w
        <3>1. transferQ'[v] = IF k = "transfer" THEN Tail(transferQ[v]) ELSE transferQ[v]
            BY <2>2 DEF TypeMessages
        <3>2. pendingLocal'[v] = IF k = "local" THEN Tail(pendingLocal[v]) ELSE pendingLocal[v]
            BY <2>2, Zenon DEF TypeMessages
        <3>3. transferQ'[v] = q[<<"transfer", v>>]
            BY <1>0, <2>1, <2>2, <3>1, ZenonT(30) DEF QueuesAre
        <3>4. pendingLocal'[v] = q[<<"local", v>>]
            BY <1>0, <2>1, <2>2, <3>2, Zenon DEF QueuesAre
        <3> QED BY <2>2, <3>3, <3>4, Zenon
    <2>3. CASE v # w
        <3>1. transferQ'[v] = transferQ[v] /\ pendingLocal'[v] = pendingLocal[v]
            BY <2>3, Zenon DEF TypeMessages
        <3>2. /\ q[<<"transfer", v>>] = transferQ[v] /\ q[<<"local", v>>] = pendingLocal[v]
              /\ q[<<"deferred", v>>] = deferred[v]
            BY <1>2, <2>1, <2>3, Zenon
        <3> QED BY <3>1, <3>2, Zenon
    <2> QED BY <2>2, <2>3
<1>6. \A a \in Actors : mailbox[a] = q[<<"mailbox", a>>]
    BY <1>0, <1>2, Zenon DEF QueuesAre
<1>7. q[<<"deferred", w>>] = IF k = "deferred" THEN Tail(deferred[w]) ELSE deferred[w]
    BY <1>0, <1>2, ZenonT(30) DEF QueuesAre
<1>8. InHand(w, m, q)
    BY <1>3, <1>5, <1>6, Zenon DEF InHand
<1> HIDE DEF q
<1>9. DeliverOrDefer(w, m, q[<<"deferred", w>>])
    BY <1>7
<1> HIDE DEF m
<1> QED BY <1>3, <1>4, <1>8, <1>9, DeliverMoves

\* A command that does something to messages clears the mailbox of who it stops.
LEMMA AdminStops ==
    ASSUME TypeCommands, NEW w \in Workers, NEW c \in DOMAIN cmds, NEW rest,
           ApplyOrDeferAdmin(w, c, rest)
    PROVE  (\E a \in Actors : Clear(a) /\ a \in Dead') \/ UNCHANGED <<mailbox, fate>>
<1> DEFINE a == cmds[c].dest
           stops == a \in pool[w] /\ cmds[c].op = "stop"
<1>1. a \in Actors
    BY CommandDest
<1>2. CASE ApplyAdmin(w, c) /\ stops
    BY <1>1, <1>2, Zenon DEF ApplyAdmin, Clear, Dead
<1>3. CASE ApplyAdmin(w, c) /\ ~stops
    BY <1>3 DEF ApplyAdmin
<1> QED BY <1>2, <1>3 DEF ApplyOrDeferAdmin

\* Every step moves messages as it should.
LEMMA MessageStep ==
    ASSUME WorkerInv, GraveInv, MessageInv, [Next]_vars PROVE MessageInv'
<1>t. TypeRegistry /\ TypePools /\ TypeMessages /\ TypeCommands /\ PassInv
    <2>1. /\ TypeRegistry /\ TypePools /\ TypePass /\ TypeMessages /\ TypeCommands
          /\ CurrentIsActor
        BY TypeParts DEF WorkerInv, TypeInv
    <2> QED BY <2>1 DEF PassInv, TypePools
<1>d. Dead \subseteq Dead'
    BY DeadStay
<1> SUFFICES Moves
    BY MovesEnough
<1>c. ASSUME UNCHANGED <<msgs, transferQ, deferred, pendingLocal>>,
             (\E a \in Actors : Clear(a) /\ a \in Dead') \/ UNCHANGED <<mailbox, fate>>
      PROVE  Moves
    BY <1>c, <1>t, ClearMoves, QuietMoves, Zenon
<1>u. ASSUME UNCHANGED <<msgs, fate, transferQ, deferred, pendingLocal, mailbox>>
      PROVE  Moves
    BY <1>u, QuietMoves
<1>0. QueuesAre
    BY QueueAt
<1>1. ASSUME NEW a \in Actors, NEW kind \in {"user", "stop"}, ClientSend(a, kind)
      PROVE  Moves
    <2>1. PICK v \in Workers : addressMap[a] = v
        BY <1>1, <1>t, Zenon DEF ClientSend, TypeRegistry
    <2>2. UNCHANGED <<mailbox, deferred, pendingLocal>> /\ Accept(Client, a, kind)
          /\ transferQ' = [transferQ EXCEPT ![v] = Append(@, Len(msgs) + 1)]
        BY <1>1, <2>1, Zenon DEF ClientSend, slots, retained, scratch
    <2> QED BY <1>t, <2>1, <2>2, AcceptMoves, ZenonT(30)
<1>2. ASSUME NEW w \in Workers, NEW a \in Actors, NEW kind \in {"user", "stop"},
             HandlerSend(w, a, kind)
      PROVE  Moves
    <2>1. PICK v \in Workers : addressMap[a] = v
        BY <1>2, <1>t, Zenon DEF HandlerSend, TypeRegistry
    <2>2. UNCHANGED <<mailbox, deferred>>
        BY <1>2, Zenon DEF HandlerSend, slots, retained
    <2>3. PICK from \in Actors \cup {Client} : from = current[w]
        BY <1>t, Zenon DEF TypePools, NoActor
    <2>4. Accept(from, a, kind)
        BY <1>2, <2>3, Zenon DEF HandlerSend
    <2>5. \/ /\ UNCHANGED pendingLocal
             /\ transferQ' = [transferQ EXCEPT ![v] = Append(@, Len(msgs) + 1)]
          \/ /\ UNCHANGED transferQ
             /\ pendingLocal' = [pendingLocal EXCEPT ![v] = Append(@, Len(msgs) + 1)]
        BY <1>2, <2>1 DEF HandlerSend
    <2> QED BY <1>t, <2>1, <2>2, <2>4, <2>5, AcceptMoves
<1>3. ASSUME NEW w \in Workers, RetryDeferred(w) PROVE Moves
    <2> DEFINE k == "deferred"
    <2>1. UNCHANGED <<msgs, transferQ, pendingLocal>> /\ MessageQueues[<<k, w>>] # <<>>
        BY <1>0, <1>3, Zenon DEF RetryDeferred, scratch, QueuesAre
    <2>2. DeliverOrDefer(w, Head(MessageQueues[<<k, w>>]),
                         IF k = "deferred" THEN Tail(deferred[w]) ELSE deferred[w])
        BY <1>0, <1>3, Zenon DEF RetryDeferred, QueuesAre
    <2>3. transferQ' = IF k = "transfer" THEN [transferQ EXCEPT ![w] = Tail(@)] ELSE transferQ
        BY <2>1
    <2>4. pendingLocal' = IF k = "local" THEN [pendingLocal EXCEPT ![w] = Tail(@)]
                                         ELSE pendingLocal
        BY <2>1
    <2>5. k \in {"transfer", "deferred", "local"}
        OBVIOUS
    <2> HIDE DEF k
    <2> QED BY <1>t, <1>d, <2>1, <2>2, <2>3, <2>4, <2>5, HandMoves, ZenonT(30)
<1>4. ASSUME NEW w \in Workers, DrainTransfer(w) PROVE Moves
    <2> DEFINE k == "transfer"
    <2>1. UNCHANGED <<msgs, pendingLocal>> /\ MessageQueues[<<k, w>>] # <<>>
        BY <1>0, <1>4, Zenon DEF DrainTransfer, scratch, QueuesAre
    <2>2. DeliverOrDefer(w, Head(MessageQueues[<<k, w>>]),
                         IF k = "deferred" THEN Tail(deferred[w]) ELSE deferred[w])
        BY <1>0, <1>4, Zenon DEF DrainTransfer, QueuesAre
    <2>3. transferQ' = IF k = "transfer" THEN [transferQ EXCEPT ![w] = Tail(@)] ELSE transferQ
        BY <1>4 DEF DrainTransfer
    <2>4. pendingLocal' = IF k = "local" THEN [pendingLocal EXCEPT ![w] = Tail(@)]
                                         ELSE pendingLocal
        BY <2>1
    <2>5. k \in {"transfer", "deferred", "local"}
        OBVIOUS
    <2> HIDE DEF k
    <2> QED BY <1>t, <1>d, <2>1, <2>2, <2>3, <2>4, <2>5, HandMoves, ZenonT(30)
<1>5. ASSUME NEW w \in Workers, DeliverLocal(w) PROVE Moves
    <2> DEFINE k == "local"
    <2>1. UNCHANGED <<msgs, transferQ>> /\ MessageQueues[<<k, w>>] # <<>>
        BY <1>0, <1>5, Zenon DEF DeliverLocal, QueuesAre
    <2>2. DeliverOrDefer(w, Head(MessageQueues[<<k, w>>]),
                         IF k = "deferred" THEN Tail(deferred[w]) ELSE deferred[w])
        BY <1>0, <1>5, Zenon DEF DeliverLocal, QueuesAre
    <2>3. transferQ' = IF k = "transfer" THEN [transferQ EXCEPT ![w] = Tail(@)] ELSE transferQ
        BY <2>1
    <2>4. pendingLocal' = IF k = "local" THEN [pendingLocal EXCEPT ![w] = Tail(@)]
                                         ELSE pendingLocal
        BY <1>5 DEF DeliverLocal
    <2>5. k \in {"transfer", "deferred", "local"}
        OBVIOUS
    <2> HIDE DEF k
    <2> QED BY <1>t, <1>d, <2>1, <2>2, <2>3, <2>4, <2>5, HandMoves, ZenonT(30)
<1>6. ASSUME NEW w \in Workers, RetryAdmin(w) \/ DrainAdmin(w) PROVE Moves
    <2>1. UNCHANGED <<msgs, transferQ, deferred, pendingLocal>>
        BY <1>6 DEF RetryAdmin, DrainAdmin, scratch
    <2>2. PICK c \in DOMAIN cmds, rest \in Seq(DOMAIN cmds) : ApplyOrDeferAdmin(w, c, rest)
        BY <1>6, <1>t, TailType, Zenon DEF RetryAdmin, DrainAdmin, TypeCommands
    <2>3. (\E a \in Actors : Clear(a) /\ a \in Dead') \/ UNCHANGED <<mailbox, fate>>
        BY <1>t, <2>2, AdminStops, Zenon
    <2> QED BY <1>c, <2>1, <2>3
<1>7. ASSUME NEW w \in Workers, TakeMessage(w) PROVE Moves
    BY <1>t, <1>7, TakeMoves, Zenon
<1>8. ASSUME NEW w \in Workers, NEW o \in Outcomes, OnStartReturn(w, o) \/ HandlerReturn(w, o)
      PROVE  Moves
    <2>1. current[w] \in Actors
        BY <1>8, <1>t, Zenon DEF OnStartReturn, HandlerReturn, PassInv, CurrentIsActor
    <2>2. UNCHANGED <<msgs, transferQ, deferred, pendingLocal>>
        BY <1>8, Zenon DEF OnStartReturn, HandlerReturn, retained
    <2>3. (Clear(current[w]) /\ current[w] \in Dead') \/ UNCHANGED <<mailbox, fate>>
        BY <1>8 DEF OnStartReturn, HandlerReturn, Conclude, Dead
    <2> QED BY <1>c, <2>1, <2>2, <2>3, Zenon
<1>9. ASSUME NEW w \in Workers, NEW a \in Actors, SkipActor(w, a) \/ RemoveDead(w, a)
      PROVE  Moves
    <2>1. UNCHANGED <<msgs, transferQ, deferred, pendingLocal>>
        BY <1>9, Zenon DEF SkipActor, RemoveDead, retained
    <2>2. (Clear(a) /\ a \in Dead') \/ UNCHANGED <<mailbox, fate>>
        BY <1>9, <1>d, Zenon DEF SkipActor, RemoveDead
    <2> QED BY <1>c, <2>1, <2>2, Zenon
<1> USE DEF slots, retained, scratch
<1>10. CASE ClientStep
    <2>1. ASSUME NEW a \in Actors,
                 SpawnMap(a) \/ SpawnQueue(a) \/ \E op \in AdminOps : ClientAdmin(a, op)
          PROVE  UNCHANGED <<msgs, fate, transferQ, deferred, pendingLocal, mailbox>>
        BY <2>1, Zenon DEF SpawnMap, SpawnQueue, ClientAdmin
    <2> QED BY <1>1, <1>10, <1>u, <2>1, Zenon DEF ClientStep
<1>11. ASSUME NEW w \in Workers, Ingress(w) PROVE Moves
    <2>1. ASSUME \/ BeginPass(w) \/ DrainSpawn(w) \/ EndSpawns(w) \/ EndDeferred(w)
                 \/ EndTransfers(w) \/ EndDeferredAdmin(w) \/ EndAdmin(w)
          PROVE  UNCHANGED <<msgs, fate, transferQ, deferred, pendingLocal, mailbox>>
        BY <2>1, Zenon DEF BeginPass, DrainSpawn, EndSpawns, EndDeferred, EndTransfers,
                    EndDeferredAdmin, EndAdmin
    <2> QED BY <1>3, <1>4, <1>6, <1>11, <1>u, <2>1 DEF Ingress
<1>12. ASSUME NEW w \in Workers, Ticking(w) PROVE Moves
    <2>1. ASSUME (\E a \in Actors : EnterActor(w, a)) \/ LeaveActor(w) \/ EndTicking(w)
          PROVE  UNCHANGED <<msgs, fate, transferQ, deferred, pendingLocal, mailbox>>
        BY <2>1, Zenon DEF EnterActor, LeaveActor, EndTicking
    <2> QED BY <1>7, <1>8, <1>9, <1>12, <1>u, <2>1 DEF Ticking
<1>13. ASSUME NEW w \in Workers, Cleanup(w) PROVE Moves
    <2>1. ASSUME \/ EndLocal(w) \/ OnStopReturn(w) \/ EndCleanup(w) \/ EndPass(w)
                 \/ \E a \in Actors : Unmap(w, a)
          PROVE  UNCHANGED <<msgs, fate, transferQ, deferred, pendingLocal, mailbox>>
        BY <2>1 DEF EndLocal, OnStopReturn, EndCleanup, EndPass, Unmap
    <2> QED BY <1>5, <1>9, <1>13, <1>u, <2>1 DEF Cleanup
<1>14. ASSUME NEW w \in Workers, UserCode(w) PROVE Moves
    <2>1. ASSUME NEW a \in Actors, HandlerSpawn(w, a)
          PROVE  UNCHANGED <<msgs, fate, transferQ, deferred, pendingLocal, mailbox>>
        BY <2>1, Zenon DEF HandlerSpawn
    <2> QED BY <1>2, <1>14, <1>u, <2>1, ZenonT(30) DEF UserCode
<1>15. CASE UNCHANGED vars
    BY <1>15, <1>u DEF vars
<1> QED BY <1>10, <1>11, <1>12, <1>13, <1>14, <1>15 DEF Next, PassStep

--------------------------------------------------------------------------------
(* The theorems *)

ConservationInv == WorkerInv /\ GraveInv /\ MessageInv

\* The runtime starts without messages, commands and dead actors.
LEMMA ConservationInit == Init => ConservationInv
<1> SUFFICES ASSUME Init PROVE ConservationInv
    OBVIOUS
<1>1. WorkerInv
    BY WorkerInvInit
<1>2. GraveInv
    BY DEF Init, GraveInv, Dead
<1>3. MessageInv
    <2>1. \A p \in MessagePlaces : MessageQueues[p] = <<>>
        <3> SUFFICES ASSUME NEW p \in MessagePlaces PROVE MessageQueues[p] = <<>>
            OBVIOUS
        <3>1. /\ \A w \in Workers : /\ transferQ[w] = <<>> /\ deferred[w] = <<>>
                                    /\ pendingLocal[w] = <<>>
              /\ \A a \in Actors : mailbox[a] = <<>>
            BY DEF Init
        <3>2. QueuesAre
            BY QueueAt
        <3>3. CASE \E w \in Workers : p \in {<<"transfer", w>>, <<"deferred", w>>, <<"local", w>>}
            BY <3>1, <3>2, <3>3, ZenonT(30) DEF QueuesAre
        <3>4. CASE \E a \in Actors : p = <<"mailbox", a>>
            BY <3>1, <3>2, <3>4 DEF QueuesAre
        <3> QED BY <3>3, <3>4, PlaceKinds, Zenon
    <2>2. DOMAIN msgs = {} /\ Transit = {}
        BY DEF Init, Transit
    <2>3. Exact(MessagePlaces, MessageQueues, Transit)
        BY <2>1, <2>2, EmptyExact, Zenon
    <2>4. \A p \in MessagePlaces : Range(MessageQueues[p]) = {}
        BY <2>2, <2>3 DEF Exact
    <2> QED BY <2>2, <2>3, <2>4, Zenon DEF MessageInv
<1> QED BY <1>1, <1>2, <1>3 DEF ConservationInv

\* Every step conserves the messages.
LEMMA ConservationStep == ConservationInv /\ [Next]_vars => ConservationInv'
<1> SUFFICES ASSUME WorkerInv, GraveInv, MessageInv, [Next]_vars
             PROVE  WorkerInv' /\ GraveInv' /\ MessageInv'
    BY DEF ConservationInv
<1> QED BY WorkerInvStep, GraveStep, MessageStep, Zenon

\* A message on its way is in one queue of the runtime, once; a message that is not
\* is in none, and it was handled unless its target is dead (deliver_or_defer_transfer,
\* deferred_transfers, tick_all, cleanup_dead).
THEOREM MessagesAreConserved == Spec => []MessagesConserved
<1>1. ConservationInv => MessagesConserved
    <2> SUFFICES ASSUME MessageInv, NEW m \in DOMAIN msgs
                 PROVE  /\ Cardinality(Copies(MessageQueues, m)) =
                              (IF fate[m] = "transit" THEN 1 ELSE 0)
                        /\ fate[m] = "discarded" => msgs[m].dest \in Dead
        BY DEF ConservationInv, MessagesConserved
    <2>1. Exact(DOMAIN MessageQueues, MessageQueues, Transit)
        BY QueueAt DEF QueuesAre, MessageInv
    <2>2. /\ m \in Transit => Cardinality(Copies(MessageQueues, m)) = 1
          /\ m \notin Transit => Cardinality(Copies(MessageQueues, m)) = 0
        BY <2>1, ExactCopies
    <2>3. m \in Transit <=> fate[m] = "transit"
        BY DEF Transit
    <2> QED BY <2>2, <2>3 DEF MessageInv
<1> QED BY <1>1, ConservationInit, ConservationStep, PTL DEF Spec
--------------------------------------------------------------------------------
(* The runtime implements ActorMail *)

MailStep == [Mail!Next]_(Mail!vars)

\* Nobody is spawned or dies and no message is touched: ActorMail stutters.
LEMMA MailStutters ==
    ASSUME UNCHANGED <<unborn, stopping, poisoned, msgs, fate>> PROVE MailStep
BY DEF MailStep, Mail!vars, Dead

\* Drawing an address spawns its actor.
LEMMA MailSpawns ==
    ASSUME NEW a \in Actors, a \in unborn, unborn' = unborn \ {a},
           UNCHANGED <<stopping, poisoned, msgs, fate>>
    PROVE  MailStep
<1>1. Mail!Spawn(a)
    BY DEF Mail!Spawn, Dead
<1> QED BY <1>1 DEF MailStep, Mail!Next

\* Accepting a message to a mapped address sends it to an actor that exists.
LEMMA MailSends ==
    ASSUME RouteInv, NEW from \in Actors \cup {Client}, NEW a \in Actors,
           NEW kind \in {"user", "stop"}, addressMap[a] # NoWorker, Accept(from, a, kind),
           UNCHANGED <<unborn, stopping, poisoned>>
    PROVE  MailStep
<1>1. a \notin unborn
    BY Zenon DEF RouteInv
<1>2. Mail!Send(from, a, kind)
    BY <1>1 DEF Mail!Send, Accept, Dead
<1> QED BY <1>2 DEF MailStep, Mail!Next

\* What lies in a queue is a message on its way, and in the right queue.
LEMMA QueuedWaits ==
    ASSUME TypeMessages, MessageInv, NEW p \in MessagePlaces, NEW m \in Range(MessageQueues[p])
    PROVE  /\ m \in DOMAIN fate /\ m \in Mail!Waiting(msgs[m].dest)
           /\ msgs[m].dest \in Actors /\ msgs[m].kind \in {"user", "stop"}
           /\ Addressed(p, msgs[m].dest)
<1>1. m \in Transit /\ Addressed(p, msgs[m].dest)
    BY Zenon DEF MessageInv, Exact
<1>2. DOMAIN fate = DOMAIN msgs
    BY DEF TypeMessages
<1>3. m \in DOMAIN fate /\ m \in Mail!Waiting(msgs[m].dest)
    BY <1>1, <1>2, Zenon DEF Transit, Mail!Waiting
<1>4. msgs \in Seq(Envelopes)
    BY DEF TypeMessages, Envelopes
<1>5. msgs[m] \in Envelopes
    BY <1>2, <1>3, <1>4
<1>6. msgs[m].dest \in Actors /\ msgs[m].kind \in {"user", "stop"}
    BY <1>5 DEF Envelopes
<1> QED BY <1>1, <1>3, <1>6, Zenon

\* The message at the head of a queue is in it.
LEMMA HeadInRange ==
    ASSUME NEW S, NEW s \in Seq(S), s # <<>> PROVE Head(s) \in Range(s)
BY TailFacts DEF Range

\* A mailbox holds messages on their way to its owner.
LEMMA MailboxWaits ==
    ASSUME TypeMessages, MessageInv, NEW a \in Actors
    PROVE  Range(mailbox[a]) \in SUBSET Mail!Waiting(a)
<1>1. <<"mailbox", a>> \in MessagePlaces /\ MessageQueues[<<"mailbox", a>>] = mailbox[a]
    BY QueueAt, Zenon DEF QueuesAre
<1>2. ASSUME NEW m \in Range(mailbox[a]) PROVE m \in Mail!Waiting(a)
    <2>1. m \in Mail!Waiting(msgs[m].dest) /\ Addressed(<<"mailbox", a>>, msgs[m].dest)
        BY <1>1, QueuedWaits, Zenon
    <2>2. msgs[m].dest = a
        BY <2>1 DEF Addressed
    <2> QED BY <2>1, <2>2, Zenon
<1> QED BY <1>2, Zenon

\* Messages to an actor are discarded as it dies, or after.
LEMMA MailDies ==
    ASSUME GraveInv', NEW a \in Actors, Dead' = Dead \cup {a}, UNCHANGED <<unborn, msgs>>,
           NEW S \in SUBSET Mail!Waiting(a), fate' = Settle(S, "discarded")
    PROVE  MailStep
<1>1. a \in Actors \ unborn
    BY DEF GraveInv
<1>2. fate' = Mail!Discard(S)
    BY DEF Settle, Mail!Discard
<1>3. Mail!Die(a)
    BY <1>1, <1>2 DEF Mail!Die
<1> QED BY <1>3 DEF MailStep, Mail!Next

\* Clearing a mailbox is such a death.
LEMMA ClearDies ==
    ASSUME TypeMessages, MessageInv, GraveInv', NEW a \in Actors, Clear(a),
           Dead' = Dead \cup {a}, UNCHANGED <<unborn, msgs>>
    PROVE  MailStep
BY MailboxWaits, MailDies, Zenon DEF Clear

\* A stop signal that takes effect.
LEMMA MailStops ==
    ASSUME NEW m \in DOMAIN fate, NEW a \in Actors, msgs[m].dest = a, m \in Mail!Waiting(a),
           msgs[m].kind = "stop", stopping' = stopping \cup {a},
           UNCHANGED <<unborn, poisoned, msgs>>, NEW S \in SUBSET Mail!Waiting(a),
           fate' = [Settle(S, "discarded") EXCEPT ![m] = "handled"]
    PROVE  MailStep
<1>1. fate' = [Mail!Discard(S) EXCEPT ![m] = "handled"]
    BY DEF Settle, Mail!Discard
<1>2. Dead' = Dead \cup {a}
    BY DEF Dead
<1>3. Mail!Stop(m)
    BY <1>1, <1>2 DEF Mail!Stop
<1> QED BY <1>3 DEF MailStep, Mail!Next

\* A message that a live actor takes out of its mailbox.
LEMMA TakeMails ==
    ASSUME TypeMessages, MessageInv, NEW w \in Workers, LiveInv(w), current[w] \in Actors,
           TakeMessage(w)
    PROVE  MailStep
<1> DEFINE a == current[w]
           m == Head(mailbox[a])
<1>1. a \notin Dead /\ UNCHANGED <<unborn, poisoned, msgs>> /\ mailbox[a] # <<>>
    BY Zenon DEF TakeMessage, LiveInv, registry
<1>2. m \in Range(mailbox[a])
    BY <1>1, HeadInRange DEF TypeMessages
<1>3. <<"mailbox", a>> \in MessagePlaces /\ MessageQueues[<<"mailbox", a>>] = mailbox[a]
    BY QueueAt, Zenon DEF QueuesAre
<1>4. m \in DOMAIN fate /\ msgs[m].kind \in {"user", "stop"}
    BY <1>2, <1>3, QueuedWaits, Zenon
<1>5. Range(mailbox[a]) \in SUBSET Mail!Waiting(a) /\ m \in Mail!Waiting(a)
    BY <1>2, MailboxWaits, Zenon
<1>6. msgs[m].dest = a
    BY <1>5 DEF Mail!Waiting
<1>7. CASE msgs[m].kind = "stop"
    <2>1. /\ stopping' = stopping \cup {a}
          /\ fate' = [Settle(Range(mailbox[a]), "discarded") EXCEPT ![m] = "handled"]
        BY <1>7, Zenon DEF TakeMessage
    <2> HIDE DEF m, a
    <2>2. a \in Actors
        BY DEF a
    <2> QED BY <1>1, <1>4, <1>5, <1>6, <1>7, <2>1, <2>2, MailStops, Zenon
<1>8. CASE msgs[m].kind # "stop"
    <2>1. fate' = Settle({m}, "handled") /\ UNCHANGED stopping
        BY <1>8, Zenon DEF TakeMessage
    <2>2. msgs[m].kind = "user"
        BY <1>4, <1>8
    <2> HIDE DEF m, a
    <2>3. fate' = [fate EXCEPT ![m] = "handled"]
        <3>1. fate = [i \in DOMAIN fate |-> fate[i]]
            BY DEF TypeMessages
        <3> QED BY <2>1, <3>1, Zenon DEF Settle
    <2>4. UNCHANGED <<Actors \ unborn, Dead, msgs>> /\ msgs[m].dest \notin Dead
          /\ m \in Mail!Waiting(msgs[m].dest)
        BY <1>1, <1>5, <1>6, <2>1, Zenon DEF Dead
    <2>5. Mail!Handle(m)
        BY <2>2, <2>3, <2>4, Zenon DEF Mail!Handle
    <2> QED BY <1>4, <2>5 DEF MailStep, Mail!Next
<1> QED BY <1>7, <1>8

\* A message that reaches a pool or finds its target gone.
LEMMA DeliverMails ==
    ASSUME TypeMessages, MessageInv, GraveInv', NEW w \in Workers,
           NEW k \in {"transfer", "deferred", "local"}, MessageQueues[<<k, w>>] # <<>>,
           NEW rest, DeliverOrDefer(w, Head(MessageQueues[<<k, w>>]), rest),
           UNCHANGED <<unborn, poisoned, msgs>>
    PROVE  MailStep
<1>0. PICK m : m = Head(MessageQueues[<<k, w>>])
    OBVIOUS
<1>1. <<k, w>> \in MessagePlaces
    BY DEF MessagePlaces
<1>2. m \in Range(MessageQueues[<<k, w>>])
    BY <1>0, <1>1, QueuesType, HeadInRange
<1>3. /\ m \in DOMAIN fate /\ m \in Mail!Waiting(msgs[m].dest) /\ msgs[m].dest \in Actors
      /\ Addressed(<<k, w>>, msgs[m].dest)
    BY <1>1, <1>2, QueuedWaits, Zenon
<1>4. PICK a \in Actors : a = msgs[m].dest
    BY <1>3
<1>5. \/ UNCHANGED <<stopping, fate>>
      \/ /\ msgs[m].kind = "stop" /\ stopping' = stopping \cup {a}
         /\ fate' = [Settle(Range(mailbox[a]), "discarded") EXCEPT ![m] = "handled"]
      \/ addressMap[a] # w /\ fate' = Settle({m}, "discarded") /\ UNCHANGED stopping
    BY <1>0, <1>4, Zenon DEF DeliverOrDefer, PoolDeliver
<1>6. ASSUME msgs[m].kind = "stop", stopping' = stopping \cup {a},
             fate' = [Settle(Range(mailbox[a]), "discarded") EXCEPT ![m] = "handled"]
      PROVE  MailStep
    BY <1>3, <1>4, <1>6, MailboxWaits, MailStops, Zenon
<1>7. ASSUME addressMap[a] # w, fate' = Settle({m}, "discarded"), UNCHANGED stopping
      PROVE  MailStep
    <2>1. a \in Dead
        BY <1>3, <1>4, <1>7 DEF Addressed, Bound
    <2>2. Dead' = Dead \cup {a}
        BY <1>7, <2>1 DEF Dead
    <2>3. {m} \in SUBSET Mail!Waiting(a)
        BY <1>3, <1>4, Zenon
    <2> QED BY <1>7, <2>2, <2>3, MailDies, Zenon
<1> QED BY <1>5, <1>6, <1>7, MailStutters, Zenon

\* An admin command stops its target or changes nothing ActorMail can see.
LEMMA AdminMails ==
    ASSUME TypeMessages, TypeCommands, MessageInv, GraveInv', NEW w \in Workers,
           NEW c \in DOMAIN cmds, NEW rest, ApplyOrDeferAdmin(w, c, rest),
           UNCHANGED <<unborn, poisoned, msgs>>
    PROVE  MailStep
<1>1. PICK a \in Actors : a = cmds[c].dest
    BY CommandDest
<1>2. \/ UNCHANGED <<stopping, fate>>
      \/ stopping' = stopping \cup {a} /\ Clear(a)
    BY <1>1 DEF ApplyOrDeferAdmin, ApplyAdmin, Clear
<1>3. ASSUME stopping' = stopping \cup {a}, Clear(a) PROVE MailStep
    <2>1. Dead' = Dead \cup {a}
        BY <1>3 DEF Dead
    <2> QED BY <1>3, <2>1, ClearDies, Zenon
<1> QED BY <1>2, <1>3, MailStutters, Zenon

\* Every step of the runtime is a step of ActorMail or a stutter.
LEMMA RuntimeMails == ConservationInv /\ [Next]_vars => MailStep
<1> SUFFICES ASSUME WorkerInv, GraveInv, MessageInv, [Next]_vars PROVE MailStep
    BY DEF ConservationInv
<1>t. /\ TypeRegistry /\ TypePools /\ TypeMessages /\ TypeCommands /\ CurrentIsActor
      /\ RouteInv /\ \A w \in Workers : LiveInv(w)
    BY TypeParts DEF WorkerInv, TypeInv
<1>g. GraveInv'
    BY GraveStep
<1>0. QueuesAre
    BY QueueAt
<1> USE DEF registry, slots, flags, retained, scratch
<1>1. CASE ClientStep
    <2>1. ASSUME NEW a \in Actors, SpawnMap(a) PROVE MailStep
        BY <2>1, MailSpawns, Zenon DEF SpawnMap
    <2>2. ASSUME NEW a \in Actors, NEW kind \in {"user", "stop"}, ClientSend(a, kind)
          PROVE  MailStep
        <3>1. Client \in Actors \cup {Client}
            OBVIOUS
        <3> QED BY <1>t, <2>2, <3>1, MailSends, Zenon DEF ClientSend
    <2>3. ASSUME NEW a \in Actors, SpawnQueue(a) \/ \E op \in AdminOps : ClientAdmin(a, op)
          PROVE  MailStep
        BY <2>3, MailStutters, Zenon DEF SpawnQueue, ClientAdmin
    <2> QED BY <1>1, <2>1, <2>2, <2>3, Zenon DEF ClientStep
<1>2. ASSUME NEW w \in Workers, Ingress(w) PROVE MailStep
    <2>1. ASSUME RetryDeferred(w) PROVE MailStep
        <3>1. /\ MessageQueues[<<"deferred", w>>] # <<>> /\ UNCHANGED <<unborn, poisoned, msgs>>
              /\ DeliverOrDefer(w, Head(MessageQueues[<<"deferred", w>>]), Tail(deferred[w]))
            BY <1>0, <2>1, Zenon DEF RetryDeferred, QueuesAre
        <3>2. "deferred" \in {"transfer", "deferred", "local"}
            OBVIOUS
        <3> QED BY <1>t, <1>g, <3>1, <3>2, DeliverMails, ZenonT(30)
    <2>2. ASSUME DrainTransfer(w) PROVE MailStep
        <3>1. /\ MessageQueues[<<"transfer", w>>] # <<>> /\ UNCHANGED <<unborn, poisoned, msgs>>
              /\ DeliverOrDefer(w, Head(MessageQueues[<<"transfer", w>>]), deferred[w])
            BY <1>0, <2>2, Zenon DEF DrainTransfer, QueuesAre
        <3>2. "transfer" \in {"transfer", "deferred", "local"}
            OBVIOUS
        <3> QED BY <1>t, <1>g, <3>1, <3>2, DeliverMails, ZenonT(30)
    <2>3. ASSUME RetryAdmin(w) \/ DrainAdmin(w) PROVE MailStep
        <3>1. UNCHANGED <<unborn, poisoned, msgs>>
            BY <2>3, Zenon DEF RetryAdmin, DrainAdmin
        <3>2. PICK c \in DOMAIN cmds, rest \in Seq(DOMAIN cmds) : ApplyOrDeferAdmin(w, c, rest)
            BY <2>3, <1>t, TailType, Zenon DEF RetryAdmin, DrainAdmin, TypeCommands
        <3> QED BY <1>t, <1>g, <3>1, <3>2, AdminMails, Zenon
    <2>4. ASSUME \/ BeginPass(w) \/ DrainSpawn(w) \/ EndSpawns(w) \/ EndDeferred(w)
                 \/ EndTransfers(w) \/ EndDeferredAdmin(w) \/ EndAdmin(w)
          PROVE  MailStep
        BY <2>4, MailStutters, Zenon DEF BeginPass, DrainSpawn, EndSpawns, EndDeferred,
                    EndTransfers, EndDeferredAdmin, EndAdmin
    <2> QED BY <1>2, <2>1, <2>2, <2>3, <2>4, Zenon DEF Ingress
<1>3. ASSUME NEW w \in Workers, Ticking(w) PROVE MailStep
    <2>1. ASSUME TakeMessage(w) PROVE MailStep
        <3>1. current[w] \in Actors
            BY <1>t, <2>1, Zenon DEF TakeMessage, CurrentIsActor
        <3> QED BY <1>t, <2>1, <3>1, TakeMails, Zenon
    <2>2. ASSUME NEW o \in Outcomes, OnStartReturn(w, o) \/ HandlerReturn(w, o) PROVE MailStep
        <3>1. PICK a \in Actors : a = current[w]
            BY <1>t, <2>2, Zenon DEF OnStartReturn, HandlerReturn, CurrentIsActor
        <3>2. UNCHANGED <<unborn, msgs>> /\ Conclude(a, o)
            BY <2>2, <3>1, Zenon DEF OnStartReturn, HandlerReturn
        <3>3. \/ Clear(a) /\ Dead' = Dead \cup {a}
              \/ UNCHANGED <<stopping, poisoned, fate>>
            BY <3>2 DEF Conclude, Dead
        <3> QED BY <1>t, <1>g, <3>2, <3>3, ClearDies, MailStutters, Zenon
    <2>3. ASSUME NEW a \in Actors, SkipActor(w, a) PROVE MailStep
        <3>1. UNCHANGED <<unborn, stopping, poisoned, msgs>>
            BY <2>3, Zenon DEF SkipActor
        <3>2. (a \in Dead /\ Clear(a)) \/ UNCHANGED fate
            BY <2>3, Zenon DEF SkipActor
        <3>3. a \in Dead => Dead' = Dead \cup {a}
            BY <3>1 DEF Dead
        <3> QED BY <1>t, <1>g, <3>1, <3>2, <3>3, ClearDies, MailStutters, Zenon
    <2>4. ASSUME (\E a \in Actors : EnterActor(w, a)) \/ LeaveActor(w) \/ EndTicking(w)
          PROVE  MailStep
        BY <2>4, MailStutters, Zenon DEF EnterActor, LeaveActor, EndTicking
    <2> QED BY <1>3, <2>1, <2>2, <2>3, <2>4, Zenon DEF Ticking
<1>4. ASSUME NEW w \in Workers, Cleanup(w) PROVE MailStep
    <2>1. ASSUME DeliverLocal(w) PROVE MailStep
        <3>1. /\ MessageQueues[<<"local", w>>] # <<>> /\ UNCHANGED <<unborn, poisoned, msgs>>
              /\ DeliverOrDefer(w, Head(MessageQueues[<<"local", w>>]), deferred[w])
            BY <1>0, <2>1, Zenon DEF DeliverLocal, QueuesAre
        <3>2. "local" \in {"transfer", "deferred", "local"}
            OBVIOUS
        <3> QED BY <1>t, <1>g, <3>1, <3>2, DeliverMails, ZenonT(30)
    <2>2. ASSUME NEW a \in Actors, RemoveDead(w, a) PROVE MailStep
        <3>1. UNCHANGED <<unborn, stopping, poisoned, msgs>> /\ a \in Dead /\ Clear(a)
            BY <2>2 DEF RemoveDead
        <3>2. Dead' = Dead \cup {a}
            BY <3>1 DEF Dead
        <3> QED BY <1>t, <1>g, <3>1, <3>2, ClearDies, Zenon
    <2>3. ASSUME \/ EndLocal(w) \/ OnStopReturn(w) \/ EndCleanup(w) \/ EndPass(w)
                 \/ \E a \in Actors : Unmap(w, a)
          PROVE  MailStep
        BY <2>3, MailStutters, Zenon DEF EndLocal, OnStopReturn, EndCleanup, EndPass, Unmap
    <2> QED BY <1>4, <2>1, <2>2, <2>3, Zenon DEF Cleanup
<1>5. ASSUME NEW w \in Workers, UserCode(w) PROVE MailStep
    <2>1. ASSUME NEW a \in Actors, HandlerSpawn(w, a) PROVE MailStep
        BY <2>1, MailSpawns, Zenon DEF HandlerSpawn
    <2>2. ASSUME NEW a \in Actors, NEW kind \in {"user", "stop"}, HandlerSend(w, a, kind)
          PROVE  MailStep
        <3>1. current[w] \in Actors \cup {Client}
            BY <1>t, Zenon DEF TypePools, NoActor
        <3> QED BY <1>t, <2>2, <3>1, MailSends, Zenon DEF HandlerSend
    <2> QED BY <1>5, <2>1, <2>2, Zenon DEF UserCode
<1>6. CASE UNCHANGED vars
    BY <1>6, MailStutters, Zenon DEF vars
<1> QED BY <1>1, <1>2, <1>3, <1>4, <1>5, <1>6, Zenon DEF Next, PassStep

\* Whatever the workers do, senders and actors see ActorMail: a message to an existing
\* actor is handled at most once and by a live actor, and is discarded only with its
\* target's death; nobody dies before being spawned and nobody is revived
\* (deliver_or_defer_transfer, tick_all, apply_admin_command, cleanup_dead).
THEOREM RuntimeImplementsMail == Spec => ImplementsMail
<1>1. Init => Mail!Init
    BY DEF Init, Mail!Init, Dead
<1> QED BY <1>1, ConservationInit, ConservationStep, RuntimeMails, PTL
        DEF Spec, ImplementsMail, Mail!Spec, MailStep
================================================================================
