-------------------------------- MODULE Swim --------------------------------
(***************************************************************************)
(* SWIM failure detection: SwimActor, SwimNode and SwimProbe on every      *)
(* node, and a network that loses, delays and reorders messages.           *)
(*                                                                         *)
(* Time is counted in ticks of the node's own clock: a tick ages the probe *)
(* in flight and the suspicion timers, and counts the intervals down.      *)
(* Sequence numbers are compared for equality only, so a number of a node  *)
(* is taken again once nothing carries it any more.                        *)
(***************************************************************************)
EXTENDS Membership, Sequences, Functions

CONSTANTS
    None,               \* no node
    Reactive,           \* the nodes in ProbeMode::Reactive, the others are Periodic
    ProbeInterval,      \* probe_interval
    ProbeTimeout,       \* probe_timeout
    SuspicionTimeout,   \* suspicion_timeout
    ReprobeInterval,    \* dead_reprobe_interval, 0 to disable
    SweepInterval,      \* safety_sweep_interval
    IndirectProbes,     \* indirect_probes
    MaxDemand,          \* MAX_DEMAND_QUEUE
    MaxRelays,          \* pending relays a node remembers
    Ticking,            \* bound: the nodes whose clock runs; the others only answer
    Asking,             \* bound: the nodes whose application joins or leaves
    MaxSeq,             \* bound: sequence numbers a node has in use at once
    MaxInc,             \* bound: a live node is suspected below this incarnation only
    MaxNet,             \* bound: messages in the network when a tick or join adds one
    MaxFaults,          \* bound: messages lost or rejected, and crashes
    MaxRequests         \* bound: joins and leaves asked for by the application

ASSUME NoneIsNoNode == None \notin Nodes
ASSUME Timing == /\ {ProbeTimeout, SuspicionTimeout, IndirectProbes} \subseteq Nat \ {0}
                 /\ {ProbeInterval, ReprobeInterval, SweepInterval} \subseteq Nat
ASSUME Bounds == /\ MaxRelays \in Nat \ {0}
                 /\ {MaxDemand, MaxSeq, MaxInc, MaxNet, MaxFaults, MaxRequests} \subseteq Nat

VARIABLES
    node,       \* the state of every node's SwimNode
    net,        \* the messages on their way
    up,         \* the nodes that have not crashed
    faults,     \* losses, rejections and crashes so far
    requests    \* joins and leaves so far

vars == <<node, net, up, faults, requests>>

NoTimer == -1

Idle == [kind |-> "idle", target |-> None, seq |-> 0, age |-> 0]

Probing(kind, t, q) == [kind |-> kind, target |-> t, seq |-> q, age |-> 0]

\* A member of a running cluster: everybody is known to everybody, nothing to tell.
Settled(n) ==
    [inc    |-> 0,
     view   |-> [m \in Nodes |-> IF m = n THEN Unknown ELSE Alive(0)],
     gossip |-> [m \in Nodes |-> NoUpdate],
     phase  |-> Idle,
     timer  |-> [m \in Nodes |-> NoTimer],
     demand |-> << >>,
     relays |-> << >>,
     round  |-> {},
     size   |-> 0,
     next   |-> [probe |-> ProbeInterval, reprobe |-> ReprobeInterval,
                 sweep |-> SweepInterval]]

Init ==
    /\ node = [n \in Nodes |-> Settled(n)]
    /\ net = {}
    /\ up = Nodes
    /\ faults = 0
    /\ requests = 0

-----------------------------------------------------------------------------
(* Messages *)

\* "of" is the node whose counter the number is from: it is not sent.
Message(kind, from, to, target, of, seq, news) ==
    [kind |-> kind, from |-> from, to |-> to, target |-> target, of |-> of, seq |-> seq,
     news |-> news]

\* The numbers of n that something still carries: its probe in flight, its own messages
\* and the answers to them, and the relays that others remember for it.
InUse(n) ==
    {node[n].phase.seq}
    \cup {msg.seq : msg \in {x \in net : x.of = n}}
    \cup {r.seq : r \in {x \in UNION {Range(node[k].relays) : k \in Nodes} :
                            x.requester = n}}

FreeSeq(n) == (1..MaxSeq) \ InUse(n)

-----------------------------------------------------------------------------
(* Membership news *)

\* A mutant of Demand: the queue is not capped.
DemandUnbounded(n, s, m) ==
    IF n \in Reactive /\ m # s.phase.target /\ m \notin Range(s.demand)
    THEN [s EXCEPT !.demand = Append(@, m)]
    ELSE s

\* enqueue_demand_probe, a no-op in Periodic mode.
Demand(n, s, m) ==
    IF /\ n \in Reactive
       /\ m # s.phase.target /\ m \notin Range(s.demand)
       /\ Len(s.demand) < MaxDemand
    THEN [s EXCEPT !.demand = Append(@, m)]
    ELSE s

\* apply_membership_update about n itself: the self-refute gate answers only news at the
\* current incarnation or above.
Refute(n, s, e) ==
    IF e.st \in {"suspect", "dead"} /\ e.inc >= s.inc
    THEN [s EXCEPT !.inc = @ + 1,
                   !.gossip = Enqueue(@, n, Alive(s.inc + 1), Budget(s.view))]
    ELSE s

\* A mutant of ApplyUpdate: news about the node itself is stored like any other.
ApplyUpdateToSelf(n, s, m, e) ==
    IF e.st = "unknown" \/ ~Newer(e, s.view[m]) THEN s
    ELSE LET v == [s.view EXCEPT ![m] = e]
         IN  [s EXCEPT !.view = v, !.gossip = Enqueue(@, m, e, Budget(v))]

\* apply_membership_update: what changes the member list is passed on.
ApplyUpdate(n, s, m, e) ==
    IF e.st = "unknown" THEN s
    ELSE IF m = n THEN Refute(n, s, e)
    ELSE LET merged == Merge(s.view[m], e)
             v == [s.view EXCEPT ![m] = merged]
             d == IF e.st = "alive" THEN Demand(n, s, m) ELSE s
         IN  IF merged = s.view[m] THEN s
             ELSE [d EXCEPT !.view = v, !.gossip = Enqueue(@, m, merged, Budget(v))]

\* The ways to go through a set, one element after the other.
Enumerations(S) == Injection(1..Cardinality(S), S)

\* The orders in which take() may have put the updates: sorted by state, Dead first, and
\* those of one state as they were queued, which may be any way.
Orders(news) ==
    {o \in Enumerations({m \in Nodes : news[m].st # "unknown"}) :
        \A i, j \in DOMAIN o : i < j => Rank[news[o[i]].st] >= Rank[news[o[j]].st]}

\* apply_piggyback: one update after the other.
ApplyNews(n, s, news, o) ==
    LET after[i \in 0..Len(o)] ==
            IF i = 0 THEN s ELSE ApplyUpdate(n, after[i - 1], o[i], news[o[i]])
    IN  after[Len(o)]

-----------------------------------------------------------------------------
(* The probe cycle: SwimProbe::step on a tick *)

Elapse(s) ==
    [s EXCEPT !.phase.age = IF s.phase.kind = "idle" THEN 0 ELSE Min({@ + 1, ProbeTimeout}),
              !.timer = [m \in Nodes |-> IF @[m] = NoTimer THEN NoTimer
                                         ELSE Min({@[m] + 1, SuspicionTimeout})],
              !.next = [k \in DOMAIN @ |-> Max({@[k] - 1, 0})]]

TimesOut(s, kind) == s.phase.kind = kind /\ s.phase.age >= ProbeTimeout

\* check_probe_timeout: from the direct to the indirect phase, and from there to a
\* suspicion timer, unless one is running. The member list changes later, in Accuse.
CheckProbeTimeout(s) ==
    IF TimesOut(s, "direct")
    THEN [s EXCEPT !.phase = Probing("indirect", s.phase.target, s.phase.seq)]
    ELSE IF TimesOut(s, "indirect")
    THEN [s EXCEPT !.phase = Idle,
                   !.timer[s.phase.target] = IF @ = NoTimer THEN 0 ELSE @]
    ELSE s

Expired(s) == {m \in Nodes : s.timer[m] >= SuspicionTimeout}

Condemned(s) == {m \in Expired(s) : s.view[m].st = "suspect"}

\* check_suspicion_timeouts: who is still suspect is dead; expired timers go.
CheckSuspicionTimeouts(s) ==
    [s EXCEPT !.view = [m \in Nodes |-> IF m \in Condemned(s) THEN [@[m] EXCEPT !.st = "dead"]
                                        ELSE @[m]],
              !.timer = [m \in Nodes |-> IF m \in Expired(s) THEN NoTimer ELSE @[m]],
              !.phase = IF @.target \in Condemned(s) THEN Idle ELSE @]

\* pick_probe_target: round robin over a shuffled list that is made anew when it is used
\* up or has the wrong length.
RoundOver(s) == s.round = {} \/ s.size # Cardinality(AliveMembers(s.view))

Candidates(s) == IF RoundOver(s) THEN AliveMembers(s.view) ELSE s.round


Picked(s, t) ==
    [s EXCEPT !.round = Candidates(s) \ {t},
              !.size = IF RoundOver(s) THEN Cardinality(AliveMembers(s.view)) ELSE @]

\* start_probe_for
Probe(s, t, q) == [s EXCEPT !.phase = Probing("direct", t, q)]

OrNone(S) == IF S = {} THEN {None} ELSE S

\* Whom maybe_start_probe, maybe_start_demand_probe or maybe_safety_sweep will probe.
ByDemand(n, s) == n \in Reactive /\ s.phase = Idle /\ s.demand # << >>

ByRound(n, s) ==
    /\ s.phase = Idle
    /\ IF n \in Reactive THEN s.next.sweep = 0 /\ s.demand = << >> ELSE s.next.probe = 0

ProbeTargets(n, s) ==
    IF ByDemand(n, s) THEN {Head(s.demand)}
    ELSE IF ByRound(n, s) THEN OrNone(Candidates(s)) ELSE {None}

StartProbe(n, s, t, q) ==
    LET timed == IF n \in Reactive
                 THEN [s EXCEPT !.next.sweep = IF @ = 0 THEN SweepInterval ELSE @]
                 ELSE [s EXCEPT !.next.probe = IF @ = 0 /\ s.phase = Idle
                                               THEN ProbeInterval ELSE @]
    IN  IF t = None THEN timed
        ELSE IF ByDemand(n, s) THEN [Probe(timed, t, q) EXCEPT !.demand = Tail(@)]
        ELSE Probe(Picked(timed, t), t, q)

\* maybe_reprobe_dead
ReprobeDue(s) == ReprobeInterval # 0 /\ s.next.reprobe = 0

ReprobeTargets(s) == IF ReprobeDue(s) THEN OrNone(DeadMembers(s.view)) ELSE {None}

Reprobe(s) == IF ReprobeDue(s) THEN [s EXCEPT !.next.reprobe = ReprobeInterval] ELSE s

-----------------------------------------------------------------------------
(* translate_probe_actions *)

\* A mutant of Accuse: the accuser raises the incarnation.
AccuseAtNext(s, t) ==
    IF t = None \/ s.view[t].st # "alive" THEN s
    ELSE LET e == [st |-> "suspect", inc |-> s.view[t].inc + 1]
             v == [s.view EXCEPT ![t] = e]
         IN  [s EXCEPT !.view = v, !.gossip = Enqueue(@, t, e, Budget(v))]

\* Suspect(t): only a member believed alive becomes suspect; the news is queued.
Accuse(s, t) ==
    IF t = None \/ s.view[t].st # "alive" THEN s
    ELSE LET e == [s.view[t] EXCEPT !.st = "suspect"]
             v == [s.view EXCEPT ![t] = e]
         IN  [s EXCEPT !.view = v, !.gossip = Enqueue(@, t, e, Budget(v))]

\* DeclareDead for each of the condemned.
Announce(s, dead) ==
    [s EXCEPT !.gossip = [m \in Nodes |-> IF m \in dead
                                          THEN Enqueue(@, m, s.view[m], Budget(s.view))[m]
                                          ELSE @[m]]]

\* SendPing: a suspect or dead target is told what is believed of it.
TellTarget(s, t) ==
    IF t # None /\ s.view[t].st \in {"suspect", "dead"}
    THEN [s EXCEPT !.gossip = Enqueue(@, t, s.view[t], Budget(s.view))]
    ELSE s

Sent(s, k) == [s EXCEPT !.gossip = Taken(@, k)]

Ping(n, s, t, q) ==
    IF t = None THEN {}
    ELSE {Message("ping", n, t, None, n, q, Piggyback(TellTarget(s, t).gossip))}

Pinged(s, t) == IF t = None THEN s ELSE Sent(TellTarget(s, t), 1)

\* pick_relays: a rotation of the other live members, cut to indirect_probes.
Relays(s) ==
    IF TimesOut(s, "direct")
    THEN LET others == AliveMembers(s.view) \ {s.phase.target}
             k == Min({IndirectProbes, Cardinality(others)})
         IN  {r \in [1..k -> others] : \A i, j \in 1..k : r[i] = r[j] => i = j}
    ELSE {<< >>}

PingReqs(n, s, relays) ==
    {Message("pingreq", n, relays[i], s.phase.target, n, s.phase.seq,
             Piggyback(Taken(s.gossip, i - 1))) : i \in DOMAIN relays}

\* Bound: a live node that has refuted MaxInc times is not suspected while an answer to the
\* probe may still arrive.
FalseAlarm(s, t) ==
    t \in up /\ node[t].inc >= MaxInc /\ \E msg \in net : msg.seq = s.phase.seq

\* SwimNode::tick. The suspicion of the probe's target enters the member list only after
\* timeouts have been checked and the next targets picked.
Tick(n) ==
    /\ n \in up \cap Ticking
    /\ \E s0 \in {Elapse(node[n])} :
       \E s1 \in {CheckProbeTimeout(s0)} :
       \E s2 \in {CheckSuspicionTimeouts(s1)} :
       \E t \in ProbeTargets(n, s2), d \in ReprobeTargets(s2), r \in Relays(s0) :
       \E q \in IF t = None THEN {0} ELSE FreeSeq(n) :
       \E p \in IF d = None THEN {0} ELSE FreeSeq(n) \ {q} :
          LET accused == IF TimesOut(s0, "indirect") THEN s0.phase.target ELSE None
              s3 == Sent(Reprobe(StartProbe(n, s2, t, q)), Len(r))
          IN  /\ ~FalseAlarm(s0, accused)
              /\ \E s4 \in {Announce(Accuse(s3, accused), Condemned(s1))} :
                 \E s5 \in {Pinged(s4, t)} :
                    /\ net' = net \cup PingReqs(n, s0, r) \cup Ping(n, s4, t, q)
                                  \cup Ping(n, s5, d, p)
                    /\ Cardinality(net') <= MaxNet
                    /\ node' = [node EXCEPT ![n] = Pinged(s5, d)]
    /\ UNCHANGED <<up, faults, requests>>

-----------------------------------------------------------------------------
(* Messages arrive *)

\* The sender of a ping or join request is learnt at incarnation 0.
Learn(s, m) == [s EXCEPT !.view[m] = Merge(@, Alive(0))]

Answer(n, msg, s, out) ==
    /\ n = msg.to
    /\ n \in up
    /\ node' = [node EXCEPT ![n] = s]
    /\ net' = (net \ {msg}) \cup out
    /\ UNCHANGED <<up, faults, requests>>

\* handle_ping
HandlePing(n, msg) ==
    /\ msg.kind = "ping"
    /\ \E o \in Orders(msg.news) :
       \E s \in {Learn(ApplyNews(n, node[n], msg.news, o), msg.from)} :
          Answer(n, msg, Sent(s, 1),
                 {Message("ack", n, msg.from, None, msg.of, msg.seq, Piggyback(s.gossip))})

\* The ack ends the probe it answers, and the suspicion timer of its target.
EndProbe(s) == [s EXCEPT !.phase = Idle, !.timer[s.phase.target] = NoTimer]

Answers(s, m, q, kinds) ==
    s.phase.kind \in kinds /\ s.phase.target = m /\ s.phase.seq = q

\* Vec::remove.
Without(s, i) == SubSeq(s, 1, i - 1) \o SubSeq(s, i + 1, Len(s))

\* handle_ack: the probe first, then the oldest relay that waits for this ack.
HandleAck(n, msg) ==
    /\ msg.kind = "ack"
    /\ \E o \in Orders(msg.news) :
       \E s \in {ApplyNews(n, node[n], msg.news, o)} :
       \E p \in {IF Answers(s, msg.from, msg.seq, {"direct", "indirect"})
                 THEN EndProbe(s) ELSE s} :
          LET waiting == {i \in DOMAIN p.relays : /\ p.relays[i].target = msg.from
                                                   /\ p.relays[i].seq = msg.seq}
              at == Min(waiting)
          IN  IF waiting = {}
              THEN Answer(n, msg, p, {})
              ELSE Answer(n, msg, Sent([p EXCEPT !.relays = Without(@, at)], 1),
                          {Message("indirectack", n, p.relays[at].requester, msg.from,
                                   p.relays[at].requester, msg.seq, Piggyback(p.gossip))})

\* handle_ping_req: remember the requester and ping the target with its number.
HandlePingReq(n, msg) ==
    /\ msg.kind = "pingreq"
    /\ \E o \in Orders(msg.news) :
       \E s \in {ApplyNews(n, node[n], msg.news, o)} :
          LET kept == IF Len(s.relays) >= MaxRelays THEN Tail(s.relays) ELSE s.relays
              relay == [requester |-> msg.from, target |-> msg.target, seq |-> msg.seq]
          IN  Answer(n, msg, Sent([s EXCEPT !.relays = Append(kept, relay)], 1),
                     {Message("ping", n, msg.target, None, msg.of, msg.seq,
                              Piggyback(s.gossip))})

\* handle_indirect_ack
HandleIndirectAck(n, msg) ==
    /\ msg.kind = "indirectack"
    /\ \E o \in Orders(msg.news) :
       \E s \in {ApplyNews(n, node[n], msg.news, o)} :
          Answer(n, msg, IF Answers(s, msg.target, msg.seq, {"indirect"})
                         THEN EndProbe(s) ELSE s, {})

\* handle_join_request: the joiner is learnt and announced, the roster is sent to it.
HandleJoinRequest(n, msg) ==
    LET s == Learn(node[n], msg.from)
        v == s.view
        g == IF v # node[n].view
             THEN Enqueue(s.gossip, msg.from, Alive(0), Budget(v)) ELSE s.gossip
    IN  /\ msg.kind = "join"
        /\ Answer(n, msg, [s EXCEPT !.gossip = g],
                  {Message("roster", n, msg.from, None, n, 0, [v EXCEPT ![n] = Alive(s.inc)])})

\* clear_dead_member removes a dead member and what is queued about it.
ClearDead(s, m) ==
    IF s.view[m].st = "dead"
    THEN [s EXCEPT !.view[m] = Unknown, !.gossip[m] = NoUpdate]
    ELSE s

\* One record of handle_join_response: alive clears dead; nothing is passed on.
ApplyRecord(n, s, m, e) ==
    IF e.st = "unknown" \/ m = n THEN s
    ELSE LET c == IF e.st = "alive" THEN ClearDead(s, m) ELSE s
             merged == Merge(c.view[m], e)
             d == IF e.st = "alive" THEN Demand(n, c, m) ELSE c
         IN  IF merged = c.view[m] THEN c ELSE [d EXCEPT !.view[m] = merged]

\* handle_join_response: the members of the seed, in the order of its map, then the seed.
ApplyRoster(n, s, news, o) ==
    LET after[i \in 0..Len(o)] ==
            IF i = 0 THEN s ELSE ApplyRecord(n, after[i - 1], o[i], news[o[i]])
    IN  after[Len(o)]

HandleJoinResponse(n, msg) ==
    /\ msg.kind = "roster"
    /\ \E o \in Enumerations(Nodes \ {msg.from}) :
          Answer(n, msg, ApplyRoster(n, node[n], msg.news, Append(o, msg.from)), {})

Deliver(msg) ==
    \/ HandlePing(msg.to, msg)
    \/ HandleAck(msg.to, msg)
    \/ HandlePingReq(msg.to, msg)
    \/ HandleIndirectAck(msg.to, msg)
    \/ HandleJoinRequest(msg.to, msg)
    \/ HandleJoinResponse(msg.to, msg)

-----------------------------------------------------------------------------
(* The application and the faults *)

\* SwimIn::Join with one seed, and SwimIn::Leave.
Join(n, seed) ==
    /\ n \in up \cap Asking /\ seed # n
    /\ requests < MaxRequests
    /\ requests' = requests + 1
    /\ net' = net \cup {Message("join", n, seed, None, n, 0, NoNews)}
    /\ Cardinality(net') <= MaxNet
    /\ UNCHANGED <<node, up, faults>>

Leave(n) ==
    /\ n \in up \cap Asking
    /\ requests < MaxRequests /\ node[n].inc < MaxInc
    /\ requests' = requests + 1
    /\ node' = [node EXCEPT ![n].gossip =
                   Enqueue(@, n, [st |-> "dead", inc |-> node[n].inc], Budget(node[n].view))]
    /\ UNCHANGED <<net, up, faults>>

Lose(msg) ==
    /\ faults < MaxFaults
    /\ faults' = faults + 1
    /\ net' = net \ {msg}
    /\ UNCHANGED <<node, up, requests>>

Crash(n) ==
    /\ n \in up
    /\ faults < MaxFaults
    /\ faults' = faults + 1
    /\ up' = up \ {n}
    /\ UNCHANGED <<node, net, requests>>

\* Nobody receives what is sent to a node that is down.
Undeliverable(msg) ==
    /\ msg.to \notin up
    /\ net' = net \ {msg}
    /\ UNCHANGED <<node, up, faults, requests>>

\* A send that the transport rejects comes back as SendFailed: handle_send_failed probes
\* the peer at once or queues it.
SendFails(msg) ==
    LET n == msg.from
        s == node[n]
        t == msg.to
        ignored == \/ s.view[t].st \in {"unknown", "dead"}
                   \/ s.phase.target = t
                   \/ t \in Range(s.demand)
    IN  /\ n \in up
        /\ faults < MaxFaults
        /\ faults' = faults + 1
        /\ \/ ignored /\ net' = net \ {msg} /\ UNCHANGED node
           \/ /\ ~ignored /\ s.phase = Idle
              /\ \E q \in FreeSeq(n) :
                   LET p == Probe(s, t, q)
                   IN  /\ node' = [node EXCEPT ![n] = Pinged(p, t)]
                       /\ net' = (net \ {msg}) \cup Ping(n, p, t, q)
           \/ /\ ~ignored /\ s.phase # Idle
              /\ node' = [node EXCEPT ![n].demand =
                             IF Len(@) < MaxDemand THEN Append(@, t) ELSE @]
              /\ net' = net \ {msg}
        /\ UNCHANGED <<up, requests>>

Next ==
    \/ \E n \in Nodes : Tick(n) \/ Leave(n) \/ Crash(n)
    \/ \E n, seed \in Nodes : Join(n, seed)
    \/ \E msg \in net : \/ Deliver(msg) \/ Lose(msg) \/ SendFails(msg) \/ Undeliverable(msg)

Spec == Init /\ [][Next]_vars

\* The clock of a node that is up ticks for ever, whatever the bounds postpone.
ClocksTick == \A n \in Ticking : []<>(n \notin up) \/ []<><<Tick(n)>>_vars

\* What is sent arrives or is lost: again and again the network is empty, as it is when a
\* message takes less time than lies between ticks.
LiveSpec == Spec /\ ClocksTick /\ []<>(net = {})

\* All that is assumed of the network is that what is sent and not lost arrives.
Arrive == \E msg \in net : Deliver(msg) \/ Undeliverable(msg)

FairSpec == Spec /\ ClocksTick /\ WF_vars(Arrive)

-----------------------------------------------------------------------------
(* Properties *)

News == [Nodes -> Entries \cup {Unknown}]

TypeOK ==
    /\ DOMAIN node = Nodes
    /\ \A n \in Nodes :
          /\ node[n].inc \in Nat
          /\ node[n].view \in News
          /\ \A m \in Nodes : /\ node[n].gossip[m].entry \in Entries \cup {Unknown}
                              /\ node[n].gossip[m].left \in Nat
          /\ node[n].phase.kind \in {"idle", "direct", "indirect"}
          /\ node[n].phase.kind # "idle" => node[n].phase.target \in Nodes
          /\ node[n].timer \in [Nodes -> {NoTimer} \cup 0..SuspicionTimeout]
          /\ node[n].demand \in Seq(Nodes) /\ Len(node[n].demand) <= MaxDemand
          /\ Len(node[n].relays) <= MaxRelays
          /\ node[n].round \subseteq Nodes
    /\ \A msg \in net : msg.from \in Nodes /\ msg.to \in Nodes /\ msg.news \in News
    /\ up \subseteq Nodes
    /\ faults \in 0..MaxFaults /\ requests \in 0..MaxRequests

\* Incarnations are made by the node they are about: no member list, no queued update and
\* no message has a node at an incarnation that the node itself has not reached.
NoFutureIncarnation ==
    \A m \in Nodes :
        /\ \A n \in Nodes : /\ node[n].view[m].inc <= node[m].inc
                             /\ node[n].gossip[m].entry.inc <= node[m].inc
        /\ \A msg \in net : msg.news[m].inc <= node[m].inc

\* probe.rs: "a node never probes or suspects itself". Neither its member list, its
\* probe, its timers nor its demand queue ever names the node itself.
NeverAboutSelf ==
    \A n \in Nodes : /\ node[n].view[n] = Unknown
                     /\ node[n].phase.target # n
                     /\ node[n].timer[n] = NoTimer
                     /\ n \notin Range(node[n].demand) \cup node[n].round

\* What one step may do to n's belief about m.
BeliefStep(n, m) ==
    \/ node'[n].view[m] = node[n].view[m]
    \/ Newer(node'[n].view[m], node[n].view[m])
    \/ /\ node[n].view[m].st = "dead" /\ node'[n].view[m].st = "alive"
       /\ \E msg \in net \ net' : msg.kind = "roster" /\ msg.to = n

\* What a node believes of another only moves up the merge order, whatever the order in
\* which news arrives; only a roster it asked for can bring a dead member back.
BeliefsOnlyAdvance == [][\A n, m \in Nodes : BeliefStep(n, m)]_vars


\* node.rs, translate_probe_actions: pinging a dead member with what is believed of it "is
\* the key mechanism for partition-heal recovery: the target learns it was
\* suspected/declared dead and refutes by bumping its incarnation". A live node is not
\* believed dead for ever.
PartitionsHeal ==
    \A n, m \in Nodes : node[n].view[m].st = "dead" ~> node[n].view[m].st # "dead"
                                                       \/ ~({n, m} \subseteq up)

=============================================================================
