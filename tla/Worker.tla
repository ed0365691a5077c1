--------------------------------- MODULE Worker --------------------------------
(* The actor runtime core: Worker::try_tick and ActorPool (src/src/worker.rs), *)
(* the routing state they share (src/src/delivery.rs) and the Runtime handle   *)
(* that feeds them (src/src/runtime.rs).  Every worker repeats one pass; a     *)
(* pass is a sequence of phases, and one action is one item of one phase, so   *)
(* that the passes of several workers, their handlers and an external client   *)
(* interleave as finely as the code lets them.                                 *)
(* The per-worker ingress channels are FIFO queues: fewer messages are in      *)
(* flight than a ring holds (DEFAULT_CHANNEL_BUFFER_SIZE is 1000), and Channel *)
(* shows that order is only at risk once a ring overflows.                     *)
EXTENDS Naturals, Sequences, FiniteSets, Functions

CONSTANTS NumWorkers,     \* RuntimeConfig::worker_count
          Actors,         \* the addresses new_random can return
          Client,         \* the external thread, as a sender
          IngressBudget,  \* RuntimeConfig::worker_ingress_budget, 0 is unlimited
          ActorBudget,    \* RuntimeConfig::actor_message_budget, 0 is unlimited
          AdminOps,       \* the admin operations the client uses
          MaxTraffic      \* bound: messages sent and admin commands issued, in all

\* RuntimeParts::new rejects a worker_count of zero.
ASSUME NumWorkersAssumption == NumWorkers \in Nat \ {0}
ASSUME ClientAssumption == Client \notin Actors
ASSUME BudgetAssumption == IngressBudget \in Nat /\ ActorBudget \in Nat
ASSUME AdminOpsAssumption == AdminOps \subseteq {"inspect", "stop", "suspend", "resume"}
ASSUME BoundAssumption == MaxTraffic \in Nat

Workers == 0 .. NumWorkers - 1

NoWorker == NumWorkers
NoActor == Client

VARIABLES
    addressMap,    \* AddressMap: the worker that owns an address, or NoWorker
    unborn,        \* addresses no spawn has drawn yet
    spawning,      \* addresses Runtime::spawn has mapped and not yet queued
    rr,            \* rr_worker modulo the worker count
    spawnQ,        \* spawn_rx of each worker
    transferQ,     \* transfer_rx of each worker, as message numbers
    adminQ,        \* admin_rx of each worker, as command numbers
    pool,          \* ActorPool::actors of each worker
    mailbox,       \* ActorSlot::mailbox, as message numbers
    started,       \* ActorSlot::started
    suspended,     \* ActorSlot::suspended
    stopping,      \* ActorSlot::stopping
    poisoned,      \* ActorSlot::poisoned
    deferred,      \* deferred_transfers of each worker
    deferredAdmin, \* deferred_admin of each worker
    hasBacklog,    \* has_backlog of each worker
    pc,            \* the phase each worker's pass is in
    count,         \* items taken in the current drain, or by the current actor
    didWork,       \* did_work of the pass
    visited,       \* actors tick_all has passed
    current,       \* the actor whose hook or handler is running, or NoActor
    pendingLocal,  \* pending_local, and cleanup_pending during cleanup
    removed,       \* actors cleanup_dead has removed and not yet unmapped
    msgs,          \* every message accepted so far
    fate,          \* what has become of each of them
    cmds,          \* every admin command issued so far
    replies        \* how often each of them has been answered

registry == <<addressMap, unborn, spawning, rr>>
slots == <<pool, mailbox, started, suspended, stopping, poisoned>>
flags == <<started, suspended, stopping, poisoned>>
retained == <<deferred, deferredAdmin, hasBacklog>>
scratch == <<visited, current, pendingLocal, removed>>
admin == <<cmds, replies>>
vars == <<registry, spawnQ, transferQ, adminQ, slots, retained, pc, count,
          didWork, scratch, msgs, fate, admin>>

Dead == poisoned \cup stopping

\* A pass moves on to another phase with a fresh item count.
Goto(w, phase) == /\ pc' = [pc EXCEPT ![w] = phase]
                  /\ count' = [count EXCEPT ![w] = 0]

\* Whether a drain or an actor with this budget may take another item.
Within(budget, w) == budget = 0 \/ count[w] < budget
Counted(budget, w) == [count EXCEPT ![w] = IF budget = 0 THEN 0 ELSE @ + 1]

Init ==
    /\ addressMap = [a \in Actors |-> NoWorker]
    /\ unborn = Actors
    /\ spawning = {}
    /\ rr = 0
    /\ spawnQ = [w \in Workers |-> <<>>]
    /\ transferQ = [w \in Workers |-> <<>>]
    /\ adminQ = [w \in Workers |-> <<>>]
    /\ pool = [w \in Workers |-> {}]
    /\ mailbox = [a \in Actors |-> <<>>]
    /\ started = {} /\ suspended = {} /\ stopping = {} /\ poisoned = {}
    /\ deferred = [w \in Workers |-> <<>>]
    /\ deferredAdmin = [w \in Workers |-> <<>>]
    /\ hasBacklog = [w \in Workers |-> FALSE]
    /\ pc = [w \in Workers |-> "idle"]
    /\ count = [w \in Workers |-> 0]
    /\ didWork = [w \in Workers |-> FALSE]
    /\ visited = [w \in Workers |-> {}]
    /\ current = [w \in Workers |-> NoActor]
    /\ pendingLocal = [w \in Workers |-> <<>>]
    /\ removed = [w \in Workers |-> {}]
    /\ msgs = <<>> /\ fate = <<>>
    /\ cmds = <<>> /\ replies = <<>>

--------------------------------------------------------------------------------
(* The Runtime handle, used by an external thread *)

\* A mutant of NextWorker: the round-robin cursor is not reduced to a worker index.
NextWorkerNoWrap == rr + 1

\* next_worker: the cursor only grows and is reduced when it is used; its residue
\* is all that matters.
NextWorker == (rr + 1) % NumWorkers

\* Runtime::spawn and spawn_with_env draw an address, pick the next worker
\* and map the address ...
SpawnMap(a) ==
    /\ a \in unborn
    /\ unborn' = unborn \ {a}
    /\ addressMap' = [addressMap EXCEPT ![a] = rr]
    /\ rr' = NextWorker
    /\ spawning' = spawning \cup {a}
    /\ UNCHANGED <<spawnQ, transferQ, adminQ, slots, retained, pc, count, didWork,
                   scratch, msgs, fate, admin>>

\* ... and then queue the spawn request with that worker.
SpawnQueue(a) ==
    /\ a \in spawning
    /\ spawning' = spawning \ {a}
    /\ spawnQ' = [spawnQ EXCEPT ![addressMap[a]] = Append(@, a)]
    /\ UNCHANGED <<addressMap, unborn, rr, transferQ, adminQ, slots, retained, pc,
                   count, didWork, scratch, msgs, fate, admin>>

\* A message is accepted; its number is its place in msgs.
Accept(from, dest, kind) ==
    /\ Len(msgs) + Len(cmds) < MaxTraffic
    /\ msgs' = Append(msgs, [from |-> from, dest |-> dest, kind |-> kind])
    /\ fate' = Append(fate, "transit")

\* Runtime::send_to and Runtime::stop_actor to a mapped address: the message goes
\* to the owner's transfer queue.  stats() lists mapped addresses, so a client may
\* know one whose spawn request is not queued yet.  (The map is read and the
\* queue written in one step: a message queued just after its target died is
\* dropped exactly as one queued just before.)
ClientSend(a, kind) ==
    /\ addressMap[a] # NoWorker
    /\ Accept(Client, a, kind)
    /\ transferQ' = [transferQ EXCEPT ![addressMap[a]] = Append(@, Len(msgs) + 1)]
    /\ UNCHANGED <<registry, spawnQ, adminQ, slots, retained, pc, count, didWork,
                   scratch, admin>>

\* RuntimeAdmin: inspect, get and replace state ("inspect"), stop, suspend, resume.
\* An unmapped address is answered at once, without a command.
ClientAdmin(a, op) ==
    /\ addressMap[a] # NoWorker
    /\ Len(msgs) + Len(cmds) < MaxTraffic
    /\ cmds' = Append(cmds, [op |-> op, dest |-> a])
    /\ replies' = Append(replies, 0)
    /\ adminQ' = [adminQ EXCEPT ![addressMap[a]] = Append(@, Len(cmds) + 1)]
    /\ UNCHANGED <<registry, spawnQ, transferQ, slots, retained, pc, count, didWork,
                   scratch, msgs, fate>>

--------------------------------------------------------------------------------
(* Delivery to a worker's own pool *)

Settle(S, f) == [i \in DOMAIN fate |-> IF i \in S THEN f ELSE fate[i]]

\* ActorPool::deliver: a stop signal takes effect at once on a suspended actor,
\* which no tick would show it to; anything else joins the mailbox.
PoolDeliver(a, m) ==
    \/ /\ a \in suspended /\ msgs[m].kind = "stop"
       /\ stopping' = stopping \cup {a}
       /\ mailbox' = [mailbox EXCEPT ![a] = <<>>]
       /\ fate' = [Settle(Range(mailbox[a]), "discarded") EXCEPT ![m] = "handled"]
    \/ /\ a \notin suspended \/ msgs[m].kind # "stop"
       /\ mailbox' = [mailbox EXCEPT ![a] = Append(@, m)]
       /\ UNCHANGED <<stopping, fate>>

\* Whether deliver_or_defer_transfer returns false: the target is mapped to this
\* worker but its spawn request has not reached the pool.
Defers(w, a) == a \notin pool[w] /\ addressMap[a] = w

\* A mutant of DeliverOrDefer: a message that arrives before its target's spawn is
\* dropped.
DeliverOrDrop(w, m, rest) ==
    LET a == msgs[m].dest IN
    /\ deferred' = [deferred EXCEPT ![w] = rest]
    /\ \/ a \in pool[w] /\ PoolDeliver(a, m)
       \/ a \notin pool[w] /\ fate' = Settle({m}, "discarded") /\ UNCHANGED <<mailbox, stopping>>

\* deliver_or_defer_transfer, where rest is what deferred_transfers holds.
DeliverOrDefer(w, m, rest) ==
    LET a == msgs[m].dest IN
    /\ deferred' = [deferred EXCEPT ![w] = IF Defers(w, a) THEN Append(rest, m) ELSE rest]
    /\ \/ a \in pool[w] /\ PoolDeliver(a, m)
       \/ Defers(w, a) /\ UNCHANGED <<mailbox, stopping, fate>>
       \/ /\ a \notin pool[w] /\ addressMap[a] # w
          /\ fate' = Settle({m}, "discarded")
          /\ UNCHANGED <<mailbox, stopping>>

--------------------------------------------------------------------------------
(* Phases 1 to 3 of a pass: ingress *)


HasWork(w) ==
    \/ hasBacklog[w]
    \/ spawnQ[w] # <<>> \/ transferQ[w] # <<>> \/ deferred[w] # <<>>
    \/ adminQ[w] # <<>> \/ deferredAdmin[w] # <<>>

\* try_tick past its idle fast path.  A pass of a worker without work changes
\* nothing.
BeginPass(w) ==
    /\ pc[w] = "idle"
    /\ HasWork(w)
    /\ Goto(w, "spawns")
    /\ UNCHANGED <<registry, spawnQ, transferQ, adminQ, slots, retained, didWork,
                   scratch, msgs, fate, admin>>

\* A mutant of DrainSpawn: installing an actor does not count as work.
DrainSpawnSilently(w) ==
    /\ pc[w] \in {"spawns", "respawns"}
    /\ spawnQ[w] # <<>> /\ Within(IngressBudget, w)
    /\ spawnQ' = [spawnQ EXCEPT ![w] = Tail(@)]
    /\ pool' = [pool EXCEPT ![w] = @ \cup {Head(spawnQ[w])}]
    /\ count' = Counted(IngressBudget, w)
    /\ UNCHANGED <<registry, transferQ, adminQ, mailbox, flags, retained, pc, didWork,
                   scratch, msgs, fate, admin>>

\* drain_spawns, before (phase 1) and after (phase 6) the handlers; insert makes a
\* fresh slot.
DrainSpawn(w) ==
    LET a == Head(spawnQ[w]) IN
    /\ pc[w] \in {"spawns", "respawns"}
    /\ spawnQ[w] # <<>> /\ Within(IngressBudget, w)
    /\ spawnQ' = [spawnQ EXCEPT ![w] = Tail(@)]
    /\ pool' = [pool EXCEPT ![w] = @ \cup {a}]
    /\ didWork' = [didWork EXCEPT ![w] = TRUE]
    /\ count' = Counted(IngressBudget, w)
    /\ UNCHANGED <<registry, transferQ, adminQ, mailbox, flags, retained, pc, scratch,
                   msgs, fate, admin>>

EndSpawns(w) ==
    /\ pc[w] \in {"spawns", "respawns"}
    /\ spawnQ[w] = <<>> \/ ~Within(IngressBudget, w)
    /\ Goto(w, IF pc[w] = "spawns" THEN "deferred" ELSE "local")
    /\ UNCHANGED <<registry, spawnQ, transferQ, adminQ, slots, retained, didWork,
                   scratch, msgs, fate, admin>>

\* drain_transfers, first loop: retained transfers are tried again, in order; one
\* whose target is still missing goes to the back.
RetryDeferred(w) ==
    LET m == Head(deferred[w]) IN
    /\ pc[w] = "deferred"
    /\ deferred[w] # <<>> /\ Within(IngressBudget, w)
    /\ DeliverOrDefer(w, m, Tail(deferred[w]))
    /\ didWork' = [didWork EXCEPT ![w] = @ \/ ~Defers(w, msgs[m].dest)]
    /\ count' = Counted(IngressBudget, w)
    /\ UNCHANGED <<registry, spawnQ, transferQ, adminQ, pool, started, suspended,
                   poisoned, deferredAdmin, hasBacklog, pc, scratch, msgs, admin>>

\* The two loops share one count.
EndDeferred(w) ==
    /\ pc[w] = "deferred"
    /\ deferred[w] = <<>> \/ ~Within(IngressBudget, w)
    /\ pc' = [pc EXCEPT ![w] = "transfers"]
    /\ UNCHANGED <<registry, spawnQ, transferQ, adminQ, slots, retained, count,
                   didWork, scratch, msgs, fate, admin>>

\* drain_transfers, second loop: the transfer queue.
DrainTransfer(w) ==
    LET m == Head(transferQ[w]) IN
    /\ pc[w] = "transfers"
    /\ transferQ[w] # <<>> /\ Within(IngressBudget, w)
    /\ transferQ' = [transferQ EXCEPT ![w] = Tail(@)]
    /\ DeliverOrDefer(w, m, deferred[w])
    /\ didWork' = [didWork EXCEPT ![w] = TRUE]
    /\ count' = Counted(IngressBudget, w)
    /\ UNCHANGED <<registry, spawnQ, adminQ, pool, started, suspended, poisoned,
                   deferredAdmin, hasBacklog, pc, scratch, msgs, admin>>

EndTransfers(w) ==
    /\ pc[w] = "transfers"
    /\ transferQ[w] = <<>> \/ ~Within(IngressBudget, w)
    /\ Goto(w, "deferredAdmin")
    /\ UNCHANGED <<registry, spawnQ, transferQ, adminQ, slots, retained, didWork,
                   scratch, msgs, fate, admin>>

--------------------------------------------------------------------------------
(* Phase 3: admin commands *)

\* A mutant of ApplyAdmin: a resume also takes back a stop.
ApplyAdminReviving(w, c) ==
    LET a == cmds[c].dest
        does(op) == a \in pool[w] /\ cmds[c].op = op
    IN
    /\ suspended' = CASE does("suspend") -> suspended \cup {a}
                      [] does("resume")  -> suspended \ {a}
                      [] OTHER           -> suspended
    /\ stopping' = CASE does("stop")   -> stopping \cup {a}
                     [] does("resume") -> stopping \ {a}
                     [] OTHER          -> stopping
    /\ mailbox' = IF does("stop") THEN [mailbox EXCEPT ![a] = <<>>] ELSE mailbox
    /\ fate' = IF does("stop") THEN Settle(Range(mailbox[a]), "discarded") ELSE fate
    /\ replies' = [replies EXCEPT ![c] = @ + 1]

\* apply_admin_command on a target in the pool; on any other it changes no slot
\* and answers ActorNotFound.  Either way the command is answered.
ApplyAdmin(w, c) ==
    LET a == cmds[c].dest
        does(op) == a \in pool[w] /\ cmds[c].op = op
    IN
    /\ suspended' = CASE does("suspend") -> suspended \cup {a}
                      [] does("resume")  -> suspended \ {a}
                      [] OTHER           -> suspended
    /\ stopping' = IF does("stop") THEN stopping \cup {a} ELSE stopping
    /\ mailbox' = IF does("stop") THEN [mailbox EXCEPT ![a] = <<>>] ELSE mailbox
    /\ fate' = IF does("stop") THEN Settle(Range(mailbox[a]), "discarded") ELSE fate
    /\ replies' = [replies EXCEPT ![c] = @ + 1]

\* A mutant of ApplyOrDeferAdmin: a command is kept for later although it has been
\* answered.
ApplyAndDeferAdmin(w, c, rest) ==
    /\ deferredAdmin' = [deferredAdmin EXCEPT ![w] =
                            IF Defers(w, cmds[c].dest) THEN Append(rest, c) ELSE rest]
    /\ ApplyAdmin(w, c)

\* apply_or_defer_admin_command, where rest is what deferred_admin holds.
ApplyOrDeferAdmin(w, c, rest) ==
    \/ /\ Defers(w, cmds[c].dest)
       /\ deferredAdmin' = [deferredAdmin EXCEPT ![w] = Append(rest, c)]
       /\ UNCHANGED <<suspended, stopping, mailbox, fate, replies>>
    \/ /\ ~Defers(w, cmds[c].dest)
       /\ deferredAdmin' = [deferredAdmin EXCEPT ![w] = rest]
       /\ ApplyAdmin(w, c)

\* drain_admin, first loop
RetryAdmin(w) ==
    LET c == Head(deferredAdmin[w]) IN
    /\ pc[w] = "deferredAdmin"
    /\ deferredAdmin[w] # <<>> /\ Within(IngressBudget, w)
    /\ ApplyOrDeferAdmin(w, c, Tail(deferredAdmin[w]))
    /\ didWork' = [didWork EXCEPT ![w] = @ \/ ~Defers(w, cmds[c].dest)]
    /\ count' = Counted(IngressBudget, w)
    /\ UNCHANGED <<registry, spawnQ, transferQ, adminQ, pool, started, poisoned,
                   deferred, hasBacklog, pc, scratch, msgs, cmds>>

EndDeferredAdmin(w) ==
    /\ pc[w] = "deferredAdmin"
    /\ deferredAdmin[w] = <<>> \/ ~Within(IngressBudget, w)
    /\ pc' = [pc EXCEPT ![w] = "admin"]
    /\ UNCHANGED <<registry, spawnQ, transferQ, adminQ, slots, retained, count,
                   didWork, scratch, msgs, fate, admin>>

\* drain_admin, second loop
DrainAdmin(w) ==
    LET c == Head(adminQ[w]) IN
    /\ pc[w] = "admin"
    /\ adminQ[w] # <<>> /\ Within(IngressBudget, w)
    /\ adminQ' = [adminQ EXCEPT ![w] = Tail(@)]
    /\ ApplyOrDeferAdmin(w, c, deferredAdmin[w])
    /\ didWork' = [didWork EXCEPT ![w] = TRUE]
    /\ count' = Counted(IngressBudget, w)
    /\ UNCHANGED <<registry, spawnQ, transferQ, pool, started, poisoned, deferred,
                   hasBacklog, pc, scratch, msgs, cmds>>

EndAdmin(w) ==
    /\ pc[w] = "admin"
    /\ adminQ[w] = <<>> \/ ~Within(IngressBudget, w)
    /\ Goto(w, "ticking")
    /\ UNCHANGED <<registry, spawnQ, transferQ, adminQ, slots, retained, didWork,
                   scratch, msgs, fate, admin>>

--------------------------------------------------------------------------------
(* Phase 5: tick_all visits the pool in no particular order *)

\* The actor leaves tick_all for this pass.
Visit(w, a) ==
    /\ visited' = [visited EXCEPT ![w] = @ \cup {a}]
    /\ current' = [current EXCEPT ![w] = NoActor]
    /\ Goto(w, "ticking")

\* The current actor's mailbox is cleared.
Clear(a) ==
    /\ mailbox' = [mailbox EXCEPT ![a] = <<>>]
    /\ fate' = Settle(Range(mailbox[a]), "discarded")

\* should_skip_actor; a suspended actor keeps its messages.
SkipActor(w, a) ==
    /\ pc[w] = "ticking" /\ a \in pool[w] \ visited[w]
    /\ a \in Dead \cup suspended
    /\ IF a \in Dead THEN Clear(a) ELSE UNCHANGED <<mailbox, fate>>
    /\ Visit(w, a)
    /\ UNCHANGED <<registry, spawnQ, transferQ, adminQ, pool, flags, retained, didWork,
                   pendingLocal, removed, msgs, admin>>

\* A mutant of EnterActor: a suspended actor runs.
EnterSuspendedActor(w, a) ==
    /\ pc[w] = "ticking" /\ a \in pool[w] \ visited[w]
    /\ a \notin Dead
    /\ current' = [current EXCEPT ![w] = a]
    /\ Goto(w, IF a \in started THEN "mailbox" ELSE "onStart")
    /\ UNCHANGED <<registry, spawnQ, transferQ, adminQ, slots, retained, didWork,
                   visited, pendingLocal, removed, msgs, fate, admin>>

\* An actor that may run: on_start first, if it has never run.
EnterActor(w, a) ==
    /\ pc[w] = "ticking" /\ a \in pool[w] \ visited[w]
    /\ a \notin Dead \cup suspended
    /\ current' = [current EXCEPT ![w] = a]
    /\ Goto(w, IF a \in started THEN "mailbox" ELSE "onStart")
    /\ UNCHANGED <<registry, spawnQ, transferQ, adminQ, slots, retained, didWork,
                   visited, pendingLocal, removed, msgs, fate, admin>>

\* A hook or handler is running user code.
InHandler(w) == pc[w] \in {"onStart", "handling", "onStop"}

\* Ctx::send and Ctx::stop_actor: a target on this worker waits in pending_local,
\* one on another worker gets the message through its transfer queue.
HandlerSend(w, a, kind) ==
    /\ InHandler(w)
    /\ addressMap[a] # NoWorker
    /\ Accept(current[w], a, kind)
    /\ \/ /\ addressMap[a] = w
          /\ pendingLocal' = [pendingLocal EXCEPT ![w] = Append(@, Len(msgs) + 1)]
          /\ UNCHANGED transferQ
       \/ /\ addressMap[a] # w
          /\ transferQ' = [transferQ EXCEPT ![addressMap[a]] = Append(@, Len(msgs) + 1)]
          /\ UNCHANGED pendingLocal
    /\ UNCHANGED <<registry, spawnQ, adminQ, slots, retained, pc, count, didWork,
                   visited, current, removed, admin>>

\* A mutant of HandlerSpawn: the child is queued here but mapped round-robin.
HandlerSpawnElsewhere(w, a) ==
    /\ InHandler(w)
    /\ a \in unborn
    /\ unborn' = unborn \ {a}
    /\ addressMap' = [addressMap EXCEPT ![a] = rr]
    /\ spawnQ' = [spawnQ EXCEPT ![w] = Append(@, a)]
    /\ UNCHANGED <<spawning, rr, transferQ, adminQ, slots, retained, pc, count, didWork,
                   scratch, msgs, fate, admin>>

\* Ctx::spawn pins the child to this worker.  Mapping and queueing are one step:
\* only this worker installs the child, and it is busy here.
HandlerSpawn(w, a) ==
    /\ InHandler(w)
    /\ a \in unborn
    /\ unborn' = unborn \ {a}
    /\ addressMap' = [addressMap EXCEPT ![a] = w]
    /\ spawnQ' = [spawnQ EXCEPT ![w] = Append(@, a)]
    /\ UNCHANGED <<spawning, rr, transferQ, adminQ, slots, retained, pc, count, didWork,
                   scratch, msgs, fate, admin>>

\* How a hook or handler can end: normally (a message of the wrong type too), with
\* stop_self or stop_with, with suspend_self, or by a panic.  A stop wins over a
\* suspend.
Outcomes == {"ok", "stop", "suspend", "panic"}

\* What an outcome does to the slot of a; a stop or a panic clears the mailbox.
Conclude(a, outcome) ==
    /\ stopping' = IF outcome = "stop" THEN stopping \cup {a} ELSE stopping
    /\ poisoned' = IF outcome = "panic" THEN poisoned \cup {a} ELSE poisoned
    /\ suspended' = IF outcome = "suspend" THEN suspended \cup {a} ELSE suspended
    /\ IF outcome \in {"stop", "panic"} THEN Clear(a) ELSE UNCHANGED <<mailbox, fate>>

\* on_start returns: only a normal return goes on to the mailbox in this pass.
OnStartReturn(w, outcome) ==
    LET a == current[w] IN
    /\ pc[w] = "onStart"
    /\ started' = started \cup {a}
    /\ Conclude(a, outcome)
    /\ IF outcome = "ok" THEN Goto(w, "mailbox") /\ UNCHANGED <<visited, current>>
                         ELSE Visit(w, a)
    /\ UNCHANGED <<registry, spawnQ, transferQ, adminQ, pool, retained, didWork,
                   pendingLocal, removed, msgs, admin>>

\* The message loop takes the oldest message: a stop signal ends the actor, any
\* other message goes to the handler.
TakeMessage(w) ==
    LET a == current[w]
        m == Head(mailbox[a])
    IN
    /\ pc[w] = "mailbox"
    /\ mailbox[a] # <<>> /\ Within(ActorBudget, w)
    /\ \/ /\ msgs[m].kind = "stop"
          /\ stopping' = stopping \cup {a}
          /\ mailbox' = [mailbox EXCEPT ![a] = <<>>]
          /\ fate' = [Settle(Range(mailbox[a]), "discarded") EXCEPT ![m] = "handled"]
          /\ Visit(w, a)
       \/ /\ msgs[m].kind # "stop"
          /\ mailbox' = [mailbox EXCEPT ![a] = Tail(@)]
          /\ fate' = Settle({m}, "handled")
          /\ pc' = [pc EXCEPT ![w] = "handling"]
          /\ UNCHANGED <<stopping, count, visited, current>>
    /\ UNCHANGED <<registry, spawnQ, transferQ, adminQ, pool, started, suspended,
                   poisoned, retained, didWork, pendingLocal, removed, msgs, admin>>

\* The handler returns.  A panic leaves the loop before the message is counted.
HandlerReturn(w, outcome) ==
    LET a == current[w] IN
    /\ pc[w] = "handling"
    /\ Conclude(a, outcome)
    /\ didWork' = [didWork EXCEPT ![w] = @ \/ outcome # "panic"]
    /\ \/ /\ outcome = "ok"
          /\ pc' = [pc EXCEPT ![w] = "mailbox"]
          /\ count' = Counted(ActorBudget, w)
          /\ UNCHANGED <<visited, current>>
       \/ outcome # "ok" /\ Visit(w, a)
    /\ UNCHANGED <<registry, spawnQ, transferQ, adminQ, pool, started, retained,
                   pendingLocal, removed, msgs, admin>>

\* The mailbox is empty or the actor's budget is spent.
LeaveActor(w) ==
    /\ pc[w] = "mailbox"
    /\ mailbox[current[w]] = <<>> \/ ~Within(ActorBudget, w)
    /\ Visit(w, current[w])
    /\ UNCHANGED <<registry, spawnQ, transferQ, adminQ, slots, retained, didWork,
                   pendingLocal, removed, msgs, fate, admin>>

EndTicking(w) ==
    /\ pc[w] = "ticking" /\ pool[w] \subseteq visited[w]
    /\ visited' = [visited EXCEPT ![w] = {}]
    /\ Goto(w, "respawns")
    /\ UNCHANGED <<registry, spawnQ, transferQ, adminQ, slots, retained, didWork,
                   current, pendingLocal, removed, msgs, fate, admin>>

--------------------------------------------------------------------------------
(* Phases 7 and 9: local delivery and cleanup *)

\* Messages staged by handlers (phase 7) or by on_stop hooks (end of cleanup).
DeliverLocal(w) ==
    LET m == Head(pendingLocal[w]) IN
    /\ pc[w] \in {"local", "flush"}
    /\ pendingLocal[w] # <<>>
    /\ pendingLocal' = [pendingLocal EXCEPT ![w] = Tail(@)]
    /\ DeliverOrDefer(w, m, deferred[w])
    /\ didWork' = [didWork EXCEPT ![w] = TRUE]
    /\ UNCHANGED <<registry, spawnQ, transferQ, adminQ, pool, started, suspended,
                   poisoned, deferredAdmin, hasBacklog, pc, count, visited, current,
                   removed, msgs, admin>>

EndLocal(w) ==
    /\ pc[w] = "local" /\ pendingLocal[w] = <<>>
    /\ Goto(w, "cleanup")
    /\ UNCHANGED <<registry, spawnQ, transferQ, adminQ, slots, retained, didWork,
                   scratch, msgs, fate, admin>>

\* cleanup_dead takes a dead actor out of the pool, mailbox and all, and calls
\* on_stop unless the actor is poisoned.
RemoveDead(w, a) ==
    /\ pc[w] = "cleanup" /\ a \in pool[w] \cap Dead
    /\ pool' = [pool EXCEPT ![w] = @ \ {a}]
    /\ Clear(a)
    /\ removed' = [removed EXCEPT ![w] = @ \cup {a}]
    /\ didWork' = [didWork EXCEPT ![w] = TRUE]
    /\ \/ /\ a \notin poisoned
          /\ current' = [current EXCEPT ![w] = a]
          /\ pc' = [pc EXCEPT ![w] = "onStop"]
       \/ a \in poisoned /\ UNCHANGED <<pc, current>>
    /\ UNCHANGED <<registry, spawnQ, transferQ, adminQ, flags, retained, count, visited,
                   pendingLocal, msgs, admin>>

\* on_stop returns or panics; its stop and suspend requests are not looked at.
OnStopReturn(w) ==
    /\ pc[w] = "onStop"
    /\ current' = [current EXCEPT ![w] = NoActor]
    /\ pc' = [pc EXCEPT ![w] = "cleanup"]
    /\ UNCHANGED <<registry, spawnQ, transferQ, adminQ, slots, retained, count, didWork,
                   visited, pendingLocal, removed, msgs, fate, admin>>

\* A mutant of Unmap: the address of a dead actor stays mapped.
UnmapNothing(w, a) ==
    /\ pc[w] = "cleanup" /\ pool[w] \cap Dead = {} /\ a \in removed[w]
    /\ removed' = [removed EXCEPT ![w] = @ \ {a}]
    /\ UNCHANGED <<registry, spawnQ, transferQ, adminQ, slots, retained, pc, count,
                   didWork, visited, current, pendingLocal, msgs, fate, admin>>

\* cleanup_dead_actors: address_map.remove for each actor cleanup_dead returned.
Unmap(w, a) ==
    /\ pc[w] = "cleanup" /\ pool[w] \cap Dead = {} /\ a \in removed[w]
    /\ addressMap' = [addressMap EXCEPT ![a] = NoWorker]
    /\ removed' = [removed EXCEPT ![w] = @ \ {a}]
    /\ UNCHANGED <<unborn, spawning, rr, spawnQ, transferQ, adminQ, slots, retained, pc,
                   count, didWork, visited, current, pendingLocal, msgs, fate, admin>>

\* The messages of the on_stop hooks come last.  One of them may stop a suspended
\* actor, which then stays in the pool until the next pass.
EndCleanup(w) ==
    /\ pc[w] = "cleanup" /\ pool[w] \cap Dead = {} /\ removed[w] = {}
    /\ Goto(w, "flush")
    /\ UNCHANGED <<registry, spawnQ, transferQ, adminQ, slots, retained, didWork,
                   scratch, msgs, fate, admin>>

\* A mutant of EndPass: has_backlog is not carried over.
EndPassForgetful(w) ==
    /\ pc[w] = "flush" /\ pendingLocal[w] = <<>>
    /\ hasBacklog' = [hasBacklog EXCEPT ![w] = FALSE]
    /\ didWork' = [didWork EXCEPT ![w] = FALSE]
    /\ Goto(w, "idle")
    /\ UNCHANGED <<registry, spawnQ, transferQ, adminQ, slots, deferred, deferredAdmin,
                   scratch, msgs, fate, admin>>

\* The pass ends; has_backlog makes sure a productive pass is followed by another.
EndPass(w) ==
    /\ pc[w] = "flush" /\ pendingLocal[w] = <<>>
    /\ hasBacklog' = [hasBacklog EXCEPT ![w] = didWork[w]]
    /\ didWork' = [didWork EXCEPT ![w] = FALSE]
    /\ Goto(w, "idle")
    /\ UNCHANGED <<registry, spawnQ, transferQ, adminQ, slots, deferred, deferredAdmin,
                   scratch, msgs, fate, admin>>

--------------------------------------------------------------------------------
ClientStep ==
    \E a \in Actors :
        \/ SpawnMap(a) \/ SpawnQueue(a)
        \/ \E kind \in {"user", "stop"} : ClientSend(a, kind)
        \/ \E op \in AdminOps : ClientAdmin(a, op)

Ingress(w) ==
    \/ BeginPass(w) \/ DrainSpawn(w) \/ EndSpawns(w)
    \/ RetryDeferred(w) \/ EndDeferred(w) \/ DrainTransfer(w) \/ EndTransfers(w)
    \/ RetryAdmin(w) \/ EndDeferredAdmin(w) \/ DrainAdmin(w) \/ EndAdmin(w)

Ticking(w) ==
    \/ \E a \in Actors : SkipActor(w, a) \/ EnterActor(w, a)
    \/ \E outcome \in Outcomes : OnStartReturn(w, outcome) \/ HandlerReturn(w, outcome)
    \/ TakeMessage(w) \/ LeaveActor(w) \/ EndTicking(w)

Cleanup(w) ==
    \/ DeliverLocal(w) \/ EndLocal(w) \/ OnStopReturn(w)
    \/ \E a \in Actors : RemoveDead(w, a) \/ Unmap(w, a)
    \/ EndCleanup(w) \/ EndPass(w)

\* What user code does inside a hook or handler.
UserCode(w) ==
    \E a \in Actors :
        \/ HandlerSpawn(w, a)
        \/ \E kind \in {"user", "stop"} : HandlerSend(w, a, kind)

PassStep(w) == Ingress(w) \/ Ticking(w) \/ Cleanup(w)

Next == ClientStep \/ \E w \in Workers : PassStep(w) \/ UserCode(w)

\* Hosts call try_tick again and again (SingleThreadRuntime::try_tick, CoreDriver),
\* hooks and handlers return, and a Runtime::spawn that has begun finishes.
Fairness == /\ \A w \in Workers : WF_vars(PassStep(w))
            /\ \A a \in Actors : WF_vars(SpawnQueue(a))

Spec == Init /\ [][Next]_vars
FairSpec == Spec /\ Fairness

--------------------------------------------------------------------------------
(* Properties *)

Phases == {"idle", "spawns", "deferred", "transfers", "deferredAdmin", "admin",
           "ticking", "onStart", "mailbox", "handling", "respawns", "local",
           "cleanup", "onStop", "flush"}

\* The state has its declared shape, and queued numbers refer to messages and
\* commands that exist.
TypeOK ==
    /\ addressMap \in [Actors -> Workers \cup {NoWorker}]
    /\ unborn \subseteq Actors /\ spawning \subseteq Actors
    /\ rr \in Workers
    /\ spawnQ \in [Workers -> Seq(Actors)]
    /\ transferQ \in [Workers -> Seq(DOMAIN msgs)]
    /\ adminQ \in [Workers -> Seq(DOMAIN cmds)]
    /\ pool \in [Workers -> SUBSET Actors]
    /\ mailbox \in [Actors -> Seq(DOMAIN msgs)]
    /\ started \subseteq Actors /\ suspended \subseteq Actors
    /\ stopping \subseteq Actors /\ poisoned \subseteq Actors
    /\ deferred \in [Workers -> Seq(DOMAIN msgs)]
    /\ deferredAdmin \in [Workers -> Seq(DOMAIN cmds)]
    /\ hasBacklog \in [Workers -> BOOLEAN]
    /\ pc \in [Workers -> Phases]
    /\ count \in [Workers -> Nat]
    /\ didWork \in [Workers -> BOOLEAN]
    /\ visited \in [Workers -> SUBSET Actors]
    /\ current \in [Workers -> Actors \cup {NoActor}]
    /\ pendingLocal \in [Workers -> Seq(DOMAIN msgs)]
    /\ removed \in [Workers -> SUBSET Actors]
    /\ msgs \in Seq([from : Actors \cup {Client}, dest : Actors, kind : {"user", "stop"}])
    /\ fate \in [DOMAIN msgs -> {"transit", "handled", "discarded"}]
    /\ cmds \in Seq([op : AdminOps, dest : Actors])
    /\ replies \in [DOMAIN cmds -> Nat]

\* The address map and the pools agree.  A pooled actor is mapped to the worker
\* that holds it, so it has one owner; and a mapped actor is in its worker's pool,
\* on its way there, or being removed by that worker, so a transfer deferred for
\* it never waits for nothing.
RoutingSound ==
    /\ \A w \in Workers : \A a \in pool[w] : addressMap[a] = w
    /\ \A a \in Actors : addressMap[a] # NoWorker =>
          LET w == addressMap[a] IN
          \/ a \in pool[w] \/ a \in spawning \/ a \in Range(spawnQ[w]) \/ a \in removed[w]

\* An actor with nothing to do until something reaches its worker.
Quiet(a) == a \notin Dead /\ (a \in suspended \/ (a \in started /\ mailbox[a] = <<>>))

\* The idle fast path of try_tick skips no runnable actor: a worker between passes
\* that reports no work holds no actor with a message to handle, an on_start to
\* run or a death to clean up.
IdleIsQuiet ==
    \A w \in Workers : pc[w] = "idle" /\ ~HasWork(w) => \A a \in pool[w] : Quiet(a)

\* G4 of worker.rs: only a live, unsuspended actor of the worker's own pool runs
\* on_start or a handler.
OnlyLiveActorsRun ==
    \A w \in Workers : pc[w] \in {"onStart", "mailbox", "handling"} =>
        current[w] \in pool[w] \ (Dead \cup suspended)

\* Every queue that holds messages, and every queue that holds commands.
MessagePlaces == ({"transfer", "deferred", "local"} \X Workers) \cup ({"mailbox"} \X Actors)

MessageQueues ==
    [p \in MessagePlaces |-> [transfer |-> transferQ, deferred |-> deferred,
                              local |-> pendingLocal, mailbox |-> mailbox][p[1]][p[2]]]

CommandPlaces == {"admin", "deferred"} \X Workers

CommandQueues ==
    [p \in CommandPlaces |-> [admin |-> adminQ, deferred |-> deferredAdmin][p[1]][p[2]]]

\* The places a message or command x has in a family q of queues.
Copies(q, x) == UNION {{p} \X {i \in DOMAIN q[p] : q[p][i] = x} : p \in DOMAIN q}

\* No accepted message is lost or doubled on its way through transfer queues,
\* deferral, local staging and mailboxes: until it is handled or discarded it is
\* in exactly one of them, afterwards in none, and it is discarded only when its
\* target has stopped or panicked.
MessagesConserved ==
    \A m \in DOMAIN msgs :
        /\ Cardinality(Copies(MessageQueues, m)) = (IF fate[m] = "transit" THEN 1 ELSE 0)
        /\ fate[m] = "discarded" => msgs[m].dest \in Dead

\* The runtime keeps the promise of ActorMail through spawns that are late, deferrals,
\* budgets, stops, suspensions, panics and admin commands: only live actors handle user
\* messages, each once, only those of the dead are discarded, and nobody is revived.
Mail == INSTANCE ActorMail WITH born <- Actors \ unborn, dead <- Dead
ImplementsMail == Mail!Spec

\* An admin command waits in exactly one queue or has been answered exactly once.
CommandsConserved ==
    \A c \in DOMAIN cmds : Cardinality(Copies(CommandQueues, c)) + replies[c] = 1


\* Runtime::stop_actor says the stop takes effect on the owning worker's next
\* pass; at the very least the actor must eventually go.
StopTakesEffect ==
    \A m \in 1..MaxTraffic :
        m \in DOMAIN msgs /\ msgs[m].kind = "stop"
            ~> m \in DOMAIN msgs /\ addressMap[msgs[m].dest] = NoWorker

\* config.rs says each drain is bounded, so that a backlog in one queue cannot
\* permanently block another: every pass that begins ends.
EveryPassEnds == \A w \in Workers : []<>(pc[w] = "idle")

================================================================================
