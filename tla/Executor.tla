------------------------------ MODULE Executor ------------------------------
(***************************************************************************)
(* The idempotent effect executor of the cluster reconciler: a ledger of   *)
(* operations shared by the driver, which submits, expires and drains, and *)
(* by the blocking tasks that run the backend. A task whose operation has  *)
(* expired goes on; a retry of its attempt is queued behind it.            *)
(*                                                                         *)
(* A BTreeMap from attempts to operations is a set of operations, at most  *)
(* one of each attempt.                                                    *)
(***************************************************************************)
EXTENDS Naturals, Sequences

CONSTANTS
    Attempts,       \* node attempts
    Seqs,           \* sequence numbers of the operations of an attempt
    MaxResults      \* bound: results waiting to be drained

\* The commands that change what is live, and the rest.
Commands == {"create", "start", "cancel", "destroy", "other"}

Ops == Attempts \X Seqs

Attempt(o) == o[1]

VARIABLES
    state,      \* of the ledger's entry; "unknown" without one
    effect,     \* what was submitted
    result,     \* what completed it
    inflight, running, queued,  \* the maps by attempt
    resources,  \* what is live of every attempt
    phase,      \* of the blocking task of every operation
    returned,   \* what the backend has returned to it
    promoted,   \* operations some task is about to spawn
    unsent,     \* operations whose task is about to send their result
    results     \* the channel to the driver

ledger == <<state, effect, result, inflight, running, queued, resources>>
tasks == <<phase, returned, promoted, unsent>>
vars == <<ledger, tasks, results>>

Outcomes == {"ok", "definite", "ambiguous"}

Uncompleted == {"running", "queued"}

Init ==
    /\ state = [o \in Ops |-> "unknown"]
    /\ effect = [o \in Ops |-> "other"]
    /\ result = [o \in Ops |-> "definite"]
    /\ inflight = {} /\ running = {} /\ queued = {}
    /\ resources = [a \in Attempts |-> {}]
    /\ phase = [o \in Ops |-> "none"]
    /\ returned = [o \in Ops |-> "definite"]
    /\ promoted = {} /\ unsent = {}
    /\ results = <<>>

Of(S, a) == {o \in S : Attempt(o) = a}

-----------------------------------------------------------------------------
(* The driver *)

\* submit_inner of an operation that is not in the ledger, when none of its attempt is in
\* flight. A submission that is refused, or whose task cannot be spawned, leaves no trace.
Accept(o, c) ==
    /\ state[o] = "unknown"
    /\ Of(inflight, Attempt(o)) = {}
    /\ effect' = [effect EXCEPT ![o] = c]
    /\ inflight' = inflight \cup {o}
    /\ UNCHANGED <<result, resources, returned, promoted, unsent, results>>

SubmitAndSpawn(o, c) ==
    /\ Accept(o, c)
    /\ Of(running, Attempt(o)) = {}
    /\ running' = running \cup {o}
    /\ state' = [state EXCEPT ![o] = "running"]
    /\ phase' = [phase EXCEPT ![o] = "spawned"]
    /\ UNCHANGED queued

SubmitAndQueue(o, c) ==
    /\ Accept(o, c)
    /\ Of(running, Attempt(o)) # {}
    /\ Of(queued, Attempt(o)) = {}
    /\ queued' = queued \cup {o}
    /\ state' = [state EXCEPT ![o] = "queued"]
    /\ UNCHANGED <<running, phase>>

\* submit_inner of a completed operation: the recorded result once more.
Resubmit(o) ==
    /\ state[o] = "completed"
    /\ Len(results) < MaxResults
    /\ results' = Append(results, <<o, result[o]>>)
    /\ UNCHANGED <<ledger, tasks>>

\* expire
Expire(o) ==
    /\ state[o] \in Uncompleted
    /\ state' = [state EXCEPT ![o] = "completed"]
    /\ result' = [result EXCEPT ![o] = "ambiguous"]
    /\ inflight' = inflight \ {o}
    /\ queued' = queued \ {o}
    /\ results' = Append(results, <<o, "ambiguous">>)
    /\ UNCHANGED <<effect, running, resources, tasks>>

DrainResults ==
    /\ results # <<>>
    /\ results' = <<>>
    /\ UNCHANGED <<ledger, tasks>>

-----------------------------------------------------------------------------
(* The blocking tasks *)

Begin(o) ==
    /\ phase[o] = "spawned"
    /\ phase' = [phase EXCEPT ![o] = "executing"]
    /\ UNCHANGED <<ledger, returned, promoted, unsent, results>>

\* The backend returns; a panic and an outcome of the wrong kind are definite errors.
Return(o, r) ==
    /\ phase[o] = "executing"
    /\ phase' = [phase EXCEPT ![o] = "returned"]
    /\ returned' = [returned EXCEPT ![o] = r]
    /\ UNCHANGED <<ledger, promoted, unsent, results>>

\* update_resources
Updated(live, c) ==
    CASE c = "create"  -> live \cup {"lease"}
      [] c = "start"   -> live \cup {"bootstrap"}
      [] c = "cancel"  -> live \ {"bootstrap"}
      [] c = "destroy" -> {}
      [] OTHER         -> live

\* What the ledger has once o is completed with r, if that is to be published, and its
\* attempt's queued operation is promoted by promote_queued.
Complete(o, r, publish) ==
    LET next == Of(queued, Attempt(o))
    IN  /\ state' = [p \in Ops |-> IF p = o /\ publish THEN "completed"
                                   ELSE IF p \in next /\ state[p] = "queued" THEN "running"
                                   ELSE state[p]]
        /\ result' = IF publish THEN [result EXCEPT ![o] = r] ELSE result
        /\ running' = running \ {o}
        /\ queued' = queued \ next
        /\ promoted' = (promoted \ {o}) \cup {p \in next : state[p] = "queued"}
        /\ unsent' = IF publish THEN unsent \cup {o} ELSE unsent

\* The end of the task: the result is discarded if the operation has expired.
Settle(o) ==
    LET publish == state[o] = "running"
    IN  /\ phase[o] = "returned"
        /\ phase' = [phase EXCEPT ![o] = "none"]
        /\ Complete(o, returned[o], publish)
        /\ inflight' = IF publish THEN inflight \ {o} ELSE inflight
        /\ resources' = IF publish /\ returned[o] = "ok"
                        THEN [resources EXCEPT ![Attempt(o)] = Updated(@, effect[o])]
                        ELSE resources
        /\ UNCHANGED <<effect, returned, results>>

Send(o) ==
    /\ o \in unsent
    /\ unsent' = unsent \ {o}
    /\ results' = Append(results, <<o, result[o]>>)
    /\ UNCHANGED <<ledger, phase, returned, promoted>>

\* spawn_promoted
SpawnPromoted(o) ==
    /\ o \in promoted
    /\ promoted' = promoted \ {o}
    /\ phase' = [phase EXCEPT ![o] = "spawned"]
    /\ UNCHANGED <<ledger, returned, unsent, results>>

\* record_spawn_failure
SpawnPromotedFails(o) ==
    /\ o \in promoted
    /\ Complete(o, "definite", state[o] = "running")
    /\ inflight' = inflight \ {o}
    /\ UNCHANGED <<effect, resources, phase, returned, results>>

Next ==
    \/ \E o \in Ops, c \in Commands : SubmitAndSpawn(o, c) \/ SubmitAndQueue(o, c)
    \/ \E o \in Ops : Resubmit(o) \/ Expire(o) \/ Begin(o) \/ Settle(o) \/ Send(o)
    \/ \E o \in Ops, r \in Outcomes : Return(o, r)
    \/ \E o \in Ops : SpawnPromoted(o) \/ SpawnPromotedFails(o)
    \/ DrainResults

Spec == Init /\ [][Next]_vars

-----------------------------------------------------------------------------
(* Properties *)

TypeOK ==
    /\ state \in [Ops -> {"unknown", "running", "queued", "completed"}]
    /\ effect \in [Ops -> Commands]
    /\ result \in [Ops -> Outcomes]
    /\ inflight \subseteq Ops /\ running \subseteq Ops /\ queued \subseteq Ops
    /\ resources \in [Attempts -> SUBSET {"lease", "bootstrap"}]
    /\ phase \in [Ops -> {"none", "spawned", "executing", "returned"}]
    /\ returned \in [Ops -> Outcomes]
    /\ promoted \subseteq Ops /\ unsent \subseteq Ops
    /\ results \in Seq(Ops \X Outcomes)

\* An attempt has at most one operation that is not completed: the in_flight_by_attempt map
\* refuses a second one until the first has a result or has expired.
OneUncompleted ==
    \A o, p \in Ops : /\ Attempt(o) = Attempt(p)
                      /\ state[o] \in Uncompleted /\ state[p] \in Uncompleted
                      => o = p

\* "Completed outcomes remain cached": whatever the driver is sent for an operation is the
\* one result in the ledger, however late the task returns after it expired.
ResultsAreRecorded ==
    \A i \in DOMAIN results : LET o == results[i][1]
                              IN  state[o] = "completed" /\ result[o] = results[i][2]

\* A completed operation keeps its result.
CompletedIsFinal ==
    [][\A o \in Ops : state[o] = "completed" =>
                          state'[o] = "completed" /\ result'[o] = result[o]]_vars

\* A queued operation is behind a task that will promote it, so that it is not forgotten.
QueuedHasATask ==
    \A o \in Ops : state[o] = "queued" =>
        \E p \in running : Attempt(p) = Attempt(o) /\ phase[p] # "none"

\* tests/executor.rs: "retry must wait for the ambiguous physical operation to finish", and
\* one_attempt_cannot_run_two_distinct_operations_concurrently.
OneAtATime ==
    \A o, p \in Ops : /\ Attempt(o) = Attempt(p)
                      /\ phase[o] = "executing" /\ phase[p] = "executing"
                      => o = p

=============================================================================
