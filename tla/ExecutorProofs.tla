---------------------------- MODULE ExecutorProofs ----------------------------
(* What the effect executor keeps for any attempts and operations: one         *)
(* operation of an attempt at a time is not completed, a completed one keeps   *)
(* its result and is reported with it, and a queued one has a task before it.  *)
EXTENDS Executor, TLAPS

\* The three maps and the states of the entries say the same, a task that is about to send
\* has completed its operation, and what is about to be spawned is no longer queued.
Maps ==
    /\ \A o \in Ops : (state[o] \in Uncompleted) <=> (o \in inflight)
    /\ \A o \in Ops : (state[o] = "queued") <=> (o \in queued)
    /\ \A o, p \in inflight : Attempt(o) = Attempt(p) => o = p
    /\ \A o \in running : phase[o] # "none"
    /\ \A o \in queued : \E p \in running : Attempt(p) = Attempt(o)
    /\ \A o \in unsent : state[o] = "completed"
    /\ \A o \in promoted : state[o] \in {"running", "completed"}

\* The inductive invariant: the agreement of the maps is what the three invariants need.
Inv == TypeOK /\ Maps /\ ResultsAreRecorded

\* What a step may do to a completed operation.
KeepsCompleted ==
    \A o \in Ops : state[o] = "completed" => state'[o] = "completed" /\ result'[o] = result[o]

LEMMA InvInit == Init => Inv
BY DEF Init, Inv, TypeOK, Maps, ResultsAreRecorded, Uncompleted, Commands, Outcomes

\* The results in the channel stay true when completed operations keep their results.
LEMMA ResultsKept ==
    ASSUME Inv, KeepsCompleted, results' = results
    PROVE  ResultsAreRecorded'
<1>1. results \in Seq(Ops \X Outcomes) /\ ResultsAreRecorded
    BY DEF Inv, TypeOK
<1>2. \A i \in DOMAIN results : results[i][1] \in Ops
    BY <1>1
<1> QED BY <1>1, <1>2 DEF ResultsAreRecorded, KeepsCompleted

\* One more result, of an operation that has it in the ledger.
LEMMA ResultAdded ==
    ASSUME Inv, KeepsCompleted, NEW o \in Ops, NEW r \in Outcomes,
           state'[o] = "completed", result'[o] = r, results' = Append(results, <<o, r>>)
    PROVE  ResultsAreRecorded' /\ results' \in Seq(Ops \X Outcomes)
<1>1. results \in Seq(Ops \X Outcomes) /\ ResultsAreRecorded
    BY DEF Inv, TypeOK
<1>2. /\ results' \in Seq(Ops \X Outcomes) /\ DOMAIN results' = 1..(Len(results) + 1)
      /\ DOMAIN results = 1..Len(results) /\ Len(results) \in Nat
      /\ \A i \in DOMAIN results : results'[i] = results[i]
      /\ results'[Len(results) + 1] = <<o, r>>
    BY <1>1
<1>3. \A i \in DOMAIN results : results[i][1] \in Ops
    BY <1>1
<1>4. ASSUME NEW i \in DOMAIN results'
      PROVE  state'[results'[i][1]] = "completed" /\ result'[results'[i][1]] = results'[i][2]
  <2>1. CASE i \in DOMAIN results
      BY <1>1, <1>2, <1>3, <2>1 DEF ResultsAreRecorded, KeepsCompleted
  <2>2. CASE i \notin DOMAIN results
    <3>1. i = Len(results) + 1
        BY <1>2, <2>2
    <3> QED BY <1>2, <3>1
  <2> QED BY <2>1, <2>2
<1> QED BY <1>2, <1>4 DEF ResultsAreRecorded

--------------------------------------------------------------------------------
(* The steps of the driver *)

\* A new operation, spawned at once or queued behind its predecessor's task.
LEMMA SubmitStep ==
    ASSUME Inv, NEW o \in Ops, NEW c \in Commands, SubmitAndSpawn(o, c) \/ SubmitAndQueue(o, c)
    PROVE  Inv' /\ KeepsCompleted
<1>1. KeepsCompleted
    BY DEF SubmitAndSpawn, SubmitAndQueue, Accept, KeepsCompleted, Inv, TypeOK
<1>2. ResultsAreRecorded'
    BY <1>1, ResultsKept DEF SubmitAndSpawn, SubmitAndQueue, Accept
<1>3. TypeOK'
    BY DEF SubmitAndSpawn, SubmitAndQueue, Accept, Inv, TypeOK
<1>4. Maps'
  <2>1. TypeOK /\ Maps /\ Accept(o, c)
      BY DEF Inv, SubmitAndSpawn, SubmitAndQueue
  <2>2. /\ \A p \in inflight : Attempt(p) # Attempt(o)
        /\ \A p \in Ops \ {o} : state'[p] = state[p]
        /\ inflight' = inflight \cup {o} /\ unsent' = unsent /\ promoted' = promoted
        /\ state[o] = "unknown" /\ o \notin queued /\ o \notin unsent /\ o \notin promoted
      BY <2>1 DEF Accept, Of, SubmitAndSpawn, SubmitAndQueue, TypeOK, Maps
  <2>3. CASE SubmitAndSpawn(o, c)
    <3>1. /\ state'[o] = "running" /\ running' = running \cup {o} /\ queued' = queued
          /\ phase' = [phase EXCEPT ![o] = "spawned"]
        BY <2>1, <2>3 DEF SubmitAndSpawn, TypeOK
    <3> QED BY <2>1, <2>2, <3>1 DEF Maps, TypeOK, Uncompleted
  <2>4. CASE SubmitAndQueue(o, c)
    <3>1. /\ state'[o] = "queued" /\ running' = running /\ queued' = queued \cup {o}
          /\ phase' = phase /\ \E p \in running : Attempt(p) = Attempt(o)
        BY <2>1, <2>4 DEF SubmitAndQueue, Of, TypeOK
    <3> QED BY <2>1, <2>2, <3>1 DEF Maps, TypeOK, Uncompleted
  <2> QED BY <2>3, <2>4
<1> QED BY <1>1, <1>2, <1>3, <1>4 DEF Inv

\* The recorded result once more.
LEMMA ResubmitStep ==
    ASSUME Inv, NEW o \in Ops, Resubmit(o)
    PROVE  Inv' /\ KeepsCompleted
<1>1. /\ UNCHANGED <<ledger, tasks>> /\ state[o] = "completed" /\ result[o] \in Outcomes
      /\ results' = Append(results, <<o, result[o]>>)
    BY DEF Resubmit, Inv, TypeOK
<1>2. KeepsCompleted
    BY <1>1 DEF KeepsCompleted, ledger
<1>3. ResultsAreRecorded' /\ results' \in Seq(Ops \X Outcomes)
    BY <1>1, <1>2, ResultAdded DEF ledger
<1>4. TypeOK' /\ Maps'
    BY <1>1, <1>3 DEF Inv, TypeOK, Maps, ledger, tasks
<1> QED BY <1>2, <1>3, <1>4 DEF Inv

\* A deadline.
LEMMA ExpireStep ==
    ASSUME Inv, NEW o \in Ops, Expire(o)
    PROVE  Inv' /\ KeepsCompleted
<1>1. TypeOK /\ Maps
    BY DEF Inv
<1>2. /\ state[o] \in Uncompleted /\ state'[o] = "completed" /\ result'[o] = "ambiguous"
      /\ \A p \in Ops \ {o} : state'[p] = state[p] /\ result'[p] = result[p]
      /\ inflight' = inflight \ {o} /\ queued' = queued \ {o}
      /\ results' = Append(results, <<o, "ambiguous">>)
      /\ UNCHANGED <<effect, running, resources, phase, returned, promoted, unsent>>
    BY <1>1 DEF Expire, TypeOK, tasks
<1>3. KeepsCompleted
    BY <1>2 DEF KeepsCompleted, Uncompleted
<1>4. ResultsAreRecorded' /\ results' \in Seq(Ops \X Outcomes)
    BY <1>2, <1>3, ResultAdded DEF Outcomes
<1>5. TypeOK'
    BY <1>1, <1>2, <1>4 DEF Expire, TypeOK, Outcomes
<1>6. Maps'
    BY <1>1, <1>2 DEF Maps, TypeOK, Uncompleted
<1> QED BY <1>3, <1>4, <1>5, <1>6 DEF Inv

--------------------------------------------------------------------------------
(* The steps of the tasks *)

\* A task starts, or its backend returns.
LEMMA BackendStep ==
    ASSUME Inv, NEW o \in Ops, NEW r \in Outcomes, Begin(o) \/ Return(o, r)
    PROVE  Inv' /\ KeepsCompleted
<1>1. /\ UNCHANGED <<ledger, promoted, unsent, results>>
      /\ phase' \in [Ops -> {"none", "spawned", "executing", "returned"}]
      /\ \A p \in Ops : phase[p] # "none" => phase'[p] # "none"
      /\ returned' \in [Ops -> Outcomes]
    BY DEF Begin, Return, Inv, TypeOK
<1>2. KeepsCompleted
    BY <1>1 DEF KeepsCompleted, ledger
<1>3. ResultsAreRecorded'
    BY <1>1, <1>2, ResultsKept
<1>4. TypeOK' /\ Maps'
    BY <1>1 DEF Inv, TypeOK, Maps, ledger
<1> QED BY <1>2, <1>3, <1>4 DEF Inv

\* Completing an operation and promoting the one behind it.
LEMMA CompleteFacts ==
    ASSUME Inv, NEW o \in Ops, NEW r \in Outcomes, NEW publish \in BOOLEAN,
           publish <=> state[o] = "running", Complete(o, r, publish), results' = results,
           inflight' = IF publish THEN inflight \ {o} ELSE inflight,
           \A p \in Ops \ {o} : phase'[p] = phase[p]
    PROVE  /\ KeepsCompleted /\ Maps' /\ ResultsAreRecorded'
           /\ state' \in [Ops -> {"unknown", "running", "queued", "completed"}]
           /\ result' \in [Ops -> Outcomes]
           /\ running' \subseteq Ops /\ queued' \subseteq Ops
           /\ promoted' \subseteq Ops /\ unsent' \subseteq Ops
<1> DEFINE next == Of(queued, Attempt(o))
<1>1. TypeOK /\ Maps
    BY DEF Inv
<1>2. next \subseteq queued /\ \A p \in queued : p \in next <=> Attempt(p) = Attempt(o)
    BY DEF Of
<1>3. /\ state' = [p \in Ops |-> IF p = o /\ publish THEN "completed"
                                 ELSE IF p \in next /\ state[p] = "queued" THEN "running"
                                 ELSE state[p]]
      /\ result' = IF publish THEN [result EXCEPT ![o] = r] ELSE result
      /\ running' = running \ {o}
      /\ queued' = queued \ next
      /\ promoted' = (promoted \ {o}) \cup {p \in next : state[p] = "queued"}
      /\ unsent' = IF publish THEN unsent \cup {o} ELSE unsent
    BY DEF Complete
<1> HIDE DEF next
<1>4. \A p \in next : state[p] = "queued" /\ p \in Ops
    BY <1>1, <1>2 DEF Maps, TypeOK
<1>5. /\ state' \in [Ops -> {"unknown", "running", "queued", "completed"}]
      /\ running' \subseteq Ops /\ queued' \subseteq Ops
      /\ promoted' \subseteq Ops /\ unsent' \subseteq Ops
    BY <1>1, <1>3, <1>4 DEF TypeOK
<1>6. result' \in [Ops -> Outcomes]
    BY <1>1, <1>3 DEF TypeOK
<1>7. KeepsCompleted
  <2> SUFFICES ASSUME NEW p \in Ops, state[p] = "completed"
               PROVE  state'[p] = "completed" /\ result'[p] = result[p]
      BY DEF KeepsCompleted
  <2>1. p \notin next /\ (p = o => ~publish)
      BY <1>4
  <2> QED BY <1>1, <1>3, <2>1 DEF TypeOK
<1>8. ResultsAreRecorded'
    BY <1>7, ResultsKept
<1>9. Maps'
  <2>1. \A p \in Ops : (state'[p] \in Uncompleted) <=> (p \in inflight')
    <3> SUFFICES ASSUME NEW p \in Ops PROVE (state'[p] \in Uncompleted) <=> (p \in inflight')
        OBVIOUS
    <3>1. (state[p] \in Uncompleted) <=> (p \in inflight)
        BY <1>1 DEF Maps
    <3>2. CASE p = o /\ publish
        BY <1>3, <3>2 DEF Uncompleted
    <3>3. CASE ~(p = o /\ publish)
        BY <1>3, <1>4, <3>1, <3>3 DEF Uncompleted
    <3> QED BY <3>2, <3>3
  <2>2. \A p \in Ops : (state'[p] = "queued") <=> (p \in queued')
    <3> SUFFICES ASSUME NEW p \in Ops PROVE (state'[p] = "queued") <=> (p \in queued')
        OBVIOUS
    <3>1. (state[p] = "queued") <=> (p \in queued)
        BY <1>1 DEF Maps
    <3>2. p = o /\ publish => p \notin queued
        BY <3>1
    <3> QED BY <1>3, <1>4, <3>1, <3>2
  <2>3. \A p, q \in inflight' : Attempt(p) = Attempt(q) => p = q
      BY <1>1 DEF Maps
  <2>4. \A p \in running' : phase'[p] # "none"
      BY <1>1, <1>3 DEF Maps, TypeOK
  <2>5. \A p \in queued' : \E q \in running' : Attempt(q) = Attempt(p)
      BY <1>1, <1>2, <1>3 DEF Maps
  <2>6. \A p \in unsent' : state'[p] = "completed"
    <3> SUFFICES ASSUME NEW p \in unsent' PROVE state'[p] = "completed"
        OBVIOUS
    <3>1. CASE p = o /\ publish
        BY <1>3, <3>1
    <3>2. CASE ~(p = o /\ publish)
      <4>1. p \in unsent /\ p \in Ops
          BY <1>1, <1>3, <3>2 DEF TypeOK
      <4>2. state[p] = "completed"
          BY <1>1, <4>1 DEF Maps
      <4> QED BY <1>7, <4>1, <4>2 DEF KeepsCompleted
    <3> QED BY <3>1, <3>2
  <2>7. \A p \in promoted' : state'[p] \in {"running", "completed"}
    <3> SUFFICES ASSUME NEW p \in promoted' PROVE state'[p] \in {"running", "completed"}
        OBVIOUS
    <3>1. p \in Ops
        BY <1>5
    <3>2. CASE p \in next
        BY <1>3, <1>4, <3>1, <3>2
    <3>3. CASE p \notin next
      <4>1. state[p] \in {"running", "completed"}
          BY <1>1, <1>3, <3>3 DEF Maps
      <4> QED BY <1>3, <3>1, <3>3, <4>1
    <3> QED BY <3>2, <3>3
  <2> QED BY <2>1, <2>2, <2>3, <2>4, <2>5, <2>6, <2>7 DEF Maps
<1> QED BY <1>5, <1>6, <1>7, <1>8, <1>9

\* The end of a task.
LEMMA SettleStep ==
    ASSUME Inv, NEW o \in Ops, Settle(o)
    PROVE  Inv' /\ KeepsCompleted
<1> DEFINE publish == state[o] = "running"
<1>1. TypeOK /\ returned[o] \in Outcomes /\ Attempt(o) \in Attempts
    BY DEF Inv, TypeOK, Ops, Attempt
<1>2. /\ Complete(o, returned[o], publish) /\ results' = results
      /\ inflight' = IF publish THEN inflight \ {o} ELSE inflight
      /\ phase' = [phase EXCEPT ![o] = "none"] /\ UNCHANGED <<effect, returned>>
    BY DEF Settle
<1>3. \A p \in Ops \ {o} : phase'[p] = phase[p]
    BY <1>1, <1>2 DEF TypeOK
<1>4. publish \in BOOLEAN
    OBVIOUS
<1>5. /\ KeepsCompleted /\ Maps' /\ ResultsAreRecorded'
      /\ state' \in [Ops -> {"unknown", "running", "queued", "completed"}]
      /\ result' \in [Ops -> Outcomes]
      /\ running' \subseteq Ops /\ queued' \subseteq Ops
      /\ promoted' \subseteq Ops /\ unsent' \subseteq Ops
    BY <1>1, <1>2, <1>3, <1>4, CompleteFacts
<1>6. resources' \in [Attempts -> SUBSET {"lease", "bootstrap"}]
  <2>1. resources \in [Attempts -> SUBSET {"lease", "bootstrap"}]
      BY <1>1 DEF TypeOK
  <2>2. Updated(resources[Attempt(o)], effect[o]) \in SUBSET {"lease", "bootstrap"}
      BY <1>1, <2>1 DEF Updated
  <2> QED BY <1>1, <2>1, <2>2 DEF Settle
<1>7. inflight' \subseteq Ops /\ phase' \in [Ops -> {"none", "spawned", "executing", "returned"}]
    BY <1>1, <1>2 DEF TypeOK
<1>8. TypeOK'
    BY <1>1, <1>2, <1>5, <1>6, <1>7 DEF TypeOK
<1> QED BY <1>5, <1>8 DEF Inv

\* A task sends the result that it has recorded.
LEMMA SendStep ==
    ASSUME Inv, NEW o \in Ops, Send(o)
    PROVE  Inv' /\ KeepsCompleted
<1>1. /\ UNCHANGED <<ledger, phase, returned, promoted>> /\ unsent' = unsent \ {o}
      /\ state[o] = "completed" /\ result[o] \in Outcomes
      /\ results' = Append(results, <<o, result[o]>>)
    BY DEF Send, Inv, TypeOK, Maps
<1>2. KeepsCompleted
    BY <1>1 DEF KeepsCompleted, ledger
<1>3. ResultsAreRecorded' /\ results' \in Seq(Ops \X Outcomes)
    BY <1>1, <1>2, ResultAdded DEF ledger
<1>4. TypeOK' /\ Maps'
    BY <1>1, <1>3 DEF Inv, TypeOK, Maps, ledger
<1> QED BY <1>2, <1>3, <1>4 DEF Inv

\* A promoted operation is spawned.
LEMMA SpawnStep ==
    ASSUME Inv, NEW o \in Ops, SpawnPromoted(o)
    PROVE  Inv' /\ KeepsCompleted
<1>1. /\ UNCHANGED <<ledger, returned, unsent, results>> /\ promoted' = promoted \ {o}
      /\ phase' = [phase EXCEPT ![o] = "spawned"]
    BY DEF SpawnPromoted
<1>2. KeepsCompleted
    BY <1>1 DEF KeepsCompleted, ledger
<1>3. ResultsAreRecorded'
    BY <1>1, <1>2, ResultsKept
<1>4. TypeOK' /\ Maps'
    BY <1>1 DEF Inv, TypeOK, Maps, ledger
<1> QED BY <1>2, <1>3, <1>4 DEF Inv

\* A promoted operation that cannot be spawned. If it has expired it is not in flight.
LEMMA SpawnFailsStep ==
    ASSUME Inv, NEW o \in Ops, SpawnPromotedFails(o)
    PROVE  Inv' /\ KeepsCompleted
<1> DEFINE publish == state[o] = "running"
<1>1. TypeOK /\ Maps /\ o \in promoted
    BY DEF Inv, SpawnPromotedFails
<1>2. publish \/ o \notin inflight
    BY <1>1 DEF Maps, Uncompleted
<1>3. /\ Complete(o, "definite", publish) /\ results' = results
      /\ inflight' = inflight \ {o} /\ UNCHANGED <<effect, resources, phase, returned>>
    BY DEF SpawnPromotedFails
<1>4. inflight' = IF publish THEN inflight \ {o} ELSE inflight
    BY <1>2, <1>3
<1>5. publish \in BOOLEAN /\ "definite" \in Outcomes
    BY DEF Outcomes
<1>6. /\ KeepsCompleted /\ Maps' /\ ResultsAreRecorded'
      /\ state' \in [Ops -> {"unknown", "running", "queued", "completed"}]
      /\ result' \in [Ops -> Outcomes]
      /\ running' \subseteq Ops /\ queued' \subseteq Ops
      /\ promoted' \subseteq Ops /\ unsent' \subseteq Ops
    BY <1>3, <1>4, <1>5, CompleteFacts
<1>7. TypeOK'
    BY <1>1, <1>3, <1>6 DEF TypeOK
<1> QED BY <1>6, <1>7 DEF Inv

--------------------------------------------------------------------------------

LEMMA InvNext == Inv /\ [Next]_vars => Inv' /\ KeepsCompleted
<1> SUFFICES ASSUME Inv, [Next]_vars PROVE Inv' /\ KeepsCompleted
    OBVIOUS
<1>1. ASSUME NEW o \in Ops, NEW c \in Commands, SubmitAndSpawn(o, c) \/ SubmitAndQueue(o, c)
      PROVE  Inv' /\ KeepsCompleted
    BY <1>1, SubmitStep
<1>2. ASSUME NEW o \in Ops, Resubmit(o) PROVE Inv' /\ KeepsCompleted
    BY <1>2, ResubmitStep
<1>3. ASSUME NEW o \in Ops, Expire(o) PROVE Inv' /\ KeepsCompleted
    BY <1>3, ExpireStep
<1>4. ASSUME NEW o \in Ops, Begin(o) PROVE Inv' /\ KeepsCompleted
  <2>1. "ok" \in Outcomes
      BY DEF Outcomes
  <2> QED BY <1>4, <2>1, BackendStep
<1>5. ASSUME NEW o \in Ops, NEW r \in Outcomes, Return(o, r) PROVE Inv' /\ KeepsCompleted
    BY <1>5, BackendStep
<1>6. ASSUME NEW o \in Ops, Settle(o) PROVE Inv' /\ KeepsCompleted
    BY <1>6, SettleStep
<1>7. ASSUME NEW o \in Ops, Send(o) PROVE Inv' /\ KeepsCompleted
    BY <1>7, SendStep
<1>8. ASSUME NEW o \in Ops, SpawnPromoted(o) PROVE Inv' /\ KeepsCompleted
    BY <1>8, SpawnStep
<1>9. ASSUME NEW o \in Ops, SpawnPromotedFails(o) PROVE Inv' /\ KeepsCompleted
    BY <1>9, SpawnFailsStep
<1>10. CASE DrainResults
    BY <1>10 DEF DrainResults, Inv, TypeOK, Maps, ResultsAreRecorded, KeepsCompleted, ledger, tasks
<1>11. CASE UNCHANGED vars
    BY <1>11 DEF vars, Inv, TypeOK, Maps, ResultsAreRecorded, KeepsCompleted, ledger, tasks
<1> QED BY <1>1, <1>2, <1>3, <1>4, <1>5, <1>6, <1>7, <1>8, <1>9, <1>10, <1>11 DEF Next

LEMMA Invariance == Spec => []Inv
<1>1. Inv /\ [Next]_vars => Inv'
    BY InvNext
<1> QED BY <1>1, InvInit, PTL DEF Spec

\* The maps of ExecutorLedger never let a second operation of an attempt be accepted before
\* submit_inner's first one has a result: whatever tasks of expired operations still run.
THEOREM AttemptsAreSerial == Spec => []OneUncompleted
<1>1. Inv => OneUncompleted
    BY DEF Inv, Maps, OneUncompleted
<1> QED BY <1>1, Invariance, PTL

\* Every result that drain_results returns is the one in the ledger, for any number of
\* resubmissions, expiries and late returns.
THEOREM OneResult == Spec => []ResultsAreRecorded
<1>1. Inv => ResultsAreRecorded
    BY DEF Inv
<1> QED BY <1>1, Invariance, PTL

\* A queued operation always has, in running_by_attempt, a predecessor whose task has not yet
\* ended, and promote_queued runs at its end: no operation is queued behind nothing.
THEOREM QueuedIsPromoted == Spec => []QueuedHasATask
<1>1. Inv => QueuedHasATask
    BY DEF Inv, Maps, QueuedHasATask
<1> QED BY <1>1, Invariance, PTL

\* A late return never replaces the result with which expire completed an operation.
THEOREM ResultsAreFinal == Spec => CompletedIsFinal
<1>1. Inv /\ [Next]_vars => [\A o \in Ops : state[o] = "completed" =>
                                 state'[o] = "completed" /\ result'[o] = result[o]]_vars
    BY InvNext DEF KeepsCompleted
<1> QED BY <1>1, Invariance, PTL DEF Spec, CompletedIsFinal

================================================================================
