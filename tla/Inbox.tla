--------------------------------- MODULE Inbox ---------------------------------
(* AsyncInboxQueue (src/src/channel.rs): the channel behind an external inbox. *)
(* A push ends by waking the receiver's registered waker; a poll that finds    *)
(* nothing registers its waker and looks once more before it returns Pending.  *)
(* AtomicWaker is the atomic-waker crate: register stores a waker, wake takes  *)
(* the stored one, each in one step.  The executor polls a task again after    *)
(* every wake that arrives since the start of the last poll.                   *)
EXTENDS Channel

VARIABLES waking,      \* producers between queue.push and waker.wake
          waker,       \* whether AtomicWaker holds the receiver's waker
          woken,       \* a wake has reached the executor since the last poll began
          tpc          \* where the receiving task is in poll_pop

inboxVars == <<vars, waking, waker, woken, tpc>>

InboxInit == /\ Init
             /\ waking = {}
             /\ waker = FALSE
             /\ woken = FALSE
             /\ tpc = "first"

--------------------------------------------------------------------------------
(* AsyncInboxQueue::push *)

\* queue.push(value); the step that stores the value leaves the wake still to do.
InboxPush(p) ==
    /\ p \notin waking
    /\ Push(p)
    /\ waking' = IF sent'[p] # sent[p] THEN waking \cup {p} ELSE waking
    /\ UNCHANGED <<waker, woken, tpc>>

\* A mutant of Wake: the waker is taken but not woken while the task is polling.
WakeOnlyParked(p) ==
    /\ p \in waking
    /\ waking' = waking \ {p}
    /\ woken' = (woken \/ (waker /\ tpc = "parked"))
    /\ waker' = FALSE
    /\ UNCHANGED <<vars, tpc>>

\* waker.wake()
Wake(p) ==
    /\ p \in waking
    /\ waking' = waking \ {p}
    /\ woken' = (woken \/ waker)
    /\ waker' = FALSE
    /\ UNCHANGED <<vars, tpc>>

--------------------------------------------------------------------------------
(* AsyncInboxQueue::poll_pop, called in a loop by the task that owns the inbox *)

\* try_pop returns a value: Poll::Ready, and the task asks for the next one.
PollReady ==
    /\ tpc \in {"first", "second"}
    /\ \/ cpc = "idle" /\ ring # <<>> /\ PopRing
       \/ overflow # <<>> /\ PopOverflow
    /\ tpc' = "first"
    /\ UNCHANGED <<waking, waker, woken>>

\* try_pop finds the ring empty and goes on to the overflow.
PollRingEmpty ==
    /\ tpc \in {"first", "second"}
    /\ ring = <<>>
    /\ PopRing
    /\ UNCHANGED <<waking, waker, woken, tpc>>

\* A mutant of PollNone: Pending straight after registering, no second look.
PollNoneNoRecheck ==
    /\ tpc \in {"first", "second"}
    /\ overflow = <<>>
    /\ PopOverflow
    /\ tpc' = "parked"
    /\ waker' = TRUE
    /\ UNCHANGED <<waking, woken>>

\* try_pop returns None: the first time the waker is registered next, the second
\* time the poll returns Pending.
PollNone ==
    /\ tpc \in {"first", "second"}
    /\ overflow = <<>>
    /\ PopOverflow
    /\ tpc' = IF tpc = "first" THEN "register" ELSE "parked"
    /\ UNCHANGED <<waking, waker, woken>>

\* waker.register(cx.waker())
Register ==
    /\ tpc = "register"
    /\ waker' = TRUE
    /\ tpc' = "second"
    /\ UNCHANGED <<vars, waking, woken>>

\* The executor polls the woken task again.
Repoll ==
    /\ tpc = "parked"
    /\ woken
    /\ woken' = FALSE
    /\ tpc' = "first"
    /\ UNCHANGED <<vars, waking, waker>>

--------------------------------------------------------------------------------
Poll == PollReady \/ PollRingEmpty \/ PollNone \/ Register \/ Repoll

InboxNext == Poll \/ \E p \in Producers : InboxPush(p) \/ Wake(p)

\* A push that has begun completes with its wake; the executor runs woken tasks.
\* No producer is obliged to send, and a parked task is not polled unprompted.
InboxFairness ==
    /\ WF_inboxVars(Poll)
    /\ \A p \in Producers :
          /\ WF_inboxVars(ppc[p] # "idle" /\ InboxPush(p))
          /\ WF_inboxVars(Wake(p))

InboxSpec == InboxInit /\ [][InboxNext]_inboxVars
FairInboxSpec == InboxSpec /\ InboxFairness

--------------------------------------------------------------------------------
(* Properties *)

\* The channel's own type invariant, and the shape of the wake protocol's state.
InboxTypeOK == /\ TypeOK
               /\ waking \subseteq Producers
               /\ waker \in BOOLEAN
               /\ woken \in BOOLEAN
               /\ tpc \in {"first", "register", "second", "parked"}

\* A receiver never sleeps on a message: when the task is parked, no wake has
\* reached it and something is stored, some producer has yet to wake it and will
\* find its waker.  (tests/inbox_wake_loom.rs checks one send against one poll.)
NoLostWakeup ==
    tpc = "parked" /\ ~woken /\ (ring # <<>> \/ overflow # <<>>)
        => waker /\ waking # {}

\* Every message sent to an inbox that keeps receiving is eventually received.
EverySendIsReceived ==
    \A p \in Producers : \A n \in 1..MaxSends :
        sent[p] >= n ~> [from |-> p, seq |-> n] \in Range(received)
================================================================================
