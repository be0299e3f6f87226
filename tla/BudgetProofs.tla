---------------------------- MODULE BudgetProofs ----------------------------
(***************************************************************************)
(* Theorems about Budget, for every set of keys, requests and workers,     *)
(* every cost and limit, and any number of faults.                         *)
(***************************************************************************)
EXTENDS Budget, SumsProofs

(***************************************************************************)
(* The inductive invariant.  What a caller or a worker does next tells     *)
(* which of its effects are already in PostgreSQL and in Redis, and a value*)
(* read of the durable spend stays between the row it serves and the spend.*)
(***************************************************************************)
Unsettled == {"idle", "reserve", "denied", "freed"}
Carrying == {"settled", "finish", "mark", "done"}

RequestInv(r) ==
    /\ phase[r] \in Unsettled => row[r] = "none" /\ reservation[r] = Absent
    /\ phase[r] \in Carrying => row[r] # "none"
    /\ phase[r] \in {"mark", "done"} => reservation[r] = Absent
    /\ row[r] # "none" => after[r] <= spend[KeyOf[r]]
    /\ row[r] = "processed" => reservation[r] = Absent
    /\ r \in reconciled => row[r] # "none" /\ reservation[r] = Absent
    /\ phase[r] = "reserve" => Tracked(r)
    /\ ~Tracked(r) => reservation[r] = Absent
    /\ seen[r] <= spend[KeyOf[r]]
    /\ phase[r] = "finish" => after[r] <= seen[r]

WorkerInv(w) ==
    /\ \A r \in todo[w] : row[r] # "none"
    /\ current[w] # NoRequest => row[current[w]] # "none"
    /\ step[w] = "write" => /\ after[current[w]] <= fetched[w]
                            /\ fetched[w] <= spend[KeyOf[current[w]]]
    /\ step[w] = "complete" => reservation[current[w]] = Absent

IInv ==
    /\ TypeOK
    /\ \A r \in Requests : RequestInv(r)
    /\ \A w \in Workers : WorkerInv(w)
    /\ CounterNeverAhead

(* Freeing a reservation and the scripts built on it keep the Redis types.  *)
LEMMA FreeReservationType ==
    ASSUME RedisTypeOK, NEW r \in Requests, FreeReservation(r)
    PROVE  /\ reserved' \in [Keys -> Int]
           /\ reservation' \in [Requests -> Nat \union {Absent}]
<1> USE BudgetAssumption DEF RedisTypeOK, FreeReservation
<1>1. CASE reservation[r] = Absent
  BY <1>1
<1>2. CASE reservation[r] # Absent
  <2>1. KeyOf[r] \in Keys /\ reserved[KeyOf[r]] \in Int /\ reservation[r] \in Nat
    BY <1>2
  <2> HIDE DEF RedisTypeOK
  <2>2. reserved[KeyOf[r]] - reservation[r] \in Int
    BY <2>1
  <2> USE DEF RedisTypeOK
  <2> QED
    BY <1>2, <2>2
<1> QED
  BY <1>1, <1>2

LEMMA ReconcileScriptType ==
    ASSUME RedisTypeOK, NEW r \in Requests, NEW durable \in Nat, ReconcileScript(r, durable)
    PROVE  RedisTypeOK'
<1>1. CASE r \in reconciled
  BY <1>1 DEF ReconcileScript, RedisTypeOK, redisVars
<1>2. CASE r \notin reconciled
  BY <1>2, FreeReservationType, BudgetAssumption DEF ReconcileScript, RedisTypeOK
<1> QED
  BY <1>1, <1>2

(* A step of the service keeps every type.                                 *)
LEMMA TypeStep ==
    ASSUME TypeOK, [Next]_vars
    PROVE  TypeOK'
<1> USE BudgetAssumption
    DEF TypeOK, RedisTypeOK, LedgerTypeOK, CallTypeOK, WorkerTypeOK, Phases, RowStates
<1>1. ASSUME NEW r \in Requests, RequestStep(r) PROVE TypeOK'
  <2>1. ASSUME NEW cost \in Estimates, NEW limit \in Limits, StartReserve(r, cost, limit)
        PROVE  TypeOK'
    <3>1. [cost |-> cost, limit |-> limit] \in [cost : Nat, limit : Nat \union {NoLimit}]
      OBVIOUS
    <3>2. ask' \in [Requests -> [cost : Nat, limit : Nat \union {NoLimit}]]
      BY <2>1, <3>1 DEF StartReserve
    <3>3. CASE limit = NoLimit
      <4>1. phase' \in [Requests -> Phases] /\ seen' \in [Requests -> Nat]
        BY <2>1, <3>3 DEF StartReserve
      <4> QED
        BY <2>1, <3>2, <4>1 DEF StartReserve, redisVars, rowVars, workerVars
    <3>4. CASE limit # NoLimit
      <4>1. spend[KeyOf[r]] \in Nat
        OBVIOUS
      <4>2. phase' \in [Requests -> Phases] /\ seen' \in [Requests -> Nat]
        BY <2>1, <3>4, <4>1 DEF StartReserve
      <4> QED
        BY <2>1, <3>2, <3>4, <4>2 DEF StartReserve, redisVars, rowVars, workerVars
    <3> QED
      BY <3>3, <3>4
  <2>2. CASE RunReserve(r)
    <3>1. RedisTypeOK'
      <4>1. CASE UNCHANGED <<reserved, reservation>>
        BY <2>2, <4>1 DEF RunReserve, ReserveScript
      <4>2. CASE /\ reserved' = [reserved EXCEPT ![KeyOf[r]] = @ + ask[r].cost]
                 /\ reservation' = [reservation EXCEPT ![r] = ask[r].cost]
        BY <2>2, <4>2 DEF RunReserve, ReserveScript
      <4> QED
        BY <2>2, <4>1, <4>2 DEF RunReserve, ReserveScript
    <3>2. phase' \in [Requests -> Phases] /\ seen' \in [Requests -> Nat]
      BY <2>2 DEF RunReserve, ReserveScript
    <3> QED
      BY <2>2, <3>1, <3>2 DEF RunReserve, rowVars, workerVars
  <2>3. CASE Release(r)
    <3>1. RedisTypeOK'
      <4>1. CASE Tracked(r)
        BY <2>3, <4>1, FreeReservationType DEF Release, ReleaseScript
      <4>2. CASE ~Tracked(r)
        BY <2>3, <4>2 DEF Release, redisVars
      <4> QED
        BY <4>1, <4>2
    <3>2. phase' \in [Requests -> Phases]
      BY <2>3 DEF Release
    <3> QED
      BY <2>3, <3>1, <3>2 DEF Release, rowVars, workerVars
  <2>4. ASSUME NEW cost \in Costs, Settle(r, cost) PROVE TypeOK'
    <3>1. cost \in Nat /\ spend[KeyOf[r]] + cost \in Nat
      OBVIOUS
    <3>2. CASE row[r] # "none"
      BY <2>4, <3>2 DEF Settle, redisVars, workerVars
    <3>3. CASE row[r] = "none"
      <4>1. /\ spend' = [spend EXCEPT ![KeyOf[r]] = spend[KeyOf[r]] + cost]
            /\ after' = [after EXCEPT ![r] = spend[KeyOf[r]] + cost]
        BY <2>4, <3>3 DEF Settle
      <4>2. spend' \in [Keys -> Nat]
        BY <3>1, <4>1
      <4>3. after' \in [Requests -> Nat] /\ amount' \in [Requests -> Nat]
        <5>1. after' \in [Requests -> Nat]
          BY <3>1, <4>1
        <5>2. amount' = [amount EXCEPT ![r] = cost]
          BY <2>4, <3>3 DEF Settle
        <5> QED
          BY <3>1, <5>1, <5>2
      <4>4. row' \in [Requests -> RowStates] /\ phase' \in [Requests -> Phases]
        BY <2>4, <3>3 DEF Settle
      <4> QED
        BY <2>4, <4>2, <4>3, <4>4 DEF Settle, redisVars, workerVars
    <3> QED
      BY <3>2, <3>3
  <2>5. CASE ReadActual(r)
    <3>1. spend[KeyOf[r]] \in Nat
      OBVIOUS
    <3>2. CASE Tracked(r)
      BY <2>5, <3>1, <3>2 DEF ReadActual, redisVars, rowVars, workerVars
    <3>3. CASE ~Tracked(r)
      BY <2>5, <3>3 DEF ReadActual, redisVars, rowVars, workerVars
    <3> QED
      BY <3>2, <3>3
  <2>6. CASE RunReconcile(r)
    <3>1. RedisTypeOK'
      BY <2>6, ReconcileScriptType DEF RunReconcile
    <3> QED
      BY <2>6, <3>1 DEF RunReconcile, rowVars, workerVars
  <2>7. CASE MarkProcessed(r)
    BY <2>7 DEF MarkProcessed, redisVars, workerVars
  <2>8. CASE RepeatSettle(r)
    BY <2>8 DEF RepeatSettle, redisVars, rowVars, workerVars
  <2>9. CASE RequestDies(r)
    BY <2>9 DEF RequestDies, Fault, redisVars, rowVars, workerVars
  <2>10. CASE LeaseExpires(r)
    BY <2>10 DEF LeaseExpires, Fault, redisVars, callVars, workerVars
  <2>11. CASE MarkerExpires(r)
    BY <2>11 DEF MarkerExpires, rowVars, callVars, workerVars
  <2> QED
    BY <1>1, <2>1, <2>2, <2>3, <2>4, <2>5, <2>6, <2>7, <2>8, <2>9, <2>10, <2>11
       DEF RequestStep
<1>2. ASSUME NEW w \in Workers, WorkerStep(w) PROVE TypeOK'
  <2>1. CASE Claim(w)
    BY <2>1 DEF Claim, redisVars, callVars
  <2>2. ASSUME NEW r \in Requests, WorkerRead(w, r) PROVE TypeOK'
    BY <2>2 DEF WorkerRead, redisVars, rowVars, callVars
  <2>3. CASE WorkerReconcile(w)
    <3>1. RedisTypeOK'
      BY <2>3, ReconcileScriptType DEF WorkerReconcile
    <3> QED
      BY <2>3, <3>1 DEF WorkerReconcile, rowVars, callVars
  <2>4. CASE WorkerComplete(w)
    <3>1. /\ row' \in [Requests -> RowStates]
          /\ lease' \in [Requests -> {"none", "live", "expired"}]
      <4>1. CASE UNCHANGED <<row, lease>>
        BY <4>1
      <4>2. CASE /\ row' = [row EXCEPT ![current[w]] = "processed"]
                 /\ lease' = [lease EXCEPT ![current[w]] = "none"]
        BY <4>2
      <4> QED
        BY <2>4, <4>1, <4>2 DEF WorkerComplete
    <3>2. WorkerTypeOK'
      BY <2>4 DEF WorkerComplete
    <3> QED
      BY <2>4, <3>1, <3>2 DEF WorkerComplete, redisVars, callVars
  <2>5. CASE WorkerFails(w)
    <3>1. LedgerTypeOK'
      <4>1. owner' \in [Requests -> Workers \union {NoWorker}]
        BY <2>5 DEF WorkerFails
      <4>2. lease' \in [Requests -> {"none", "live", "expired"}]
        <5>1. \/ lease' = lease
              \/ lease' = [lease EXCEPT ![current[w]] = "none"]
          BY <2>5 DEF WorkerFails
        <5> QED
          BY <5>1
      <4> QED
        BY <2>5, <4>1, <4>2 DEF WorkerFails
    <3>2. WorkerTypeOK'
      BY <2>5 DEF WorkerFails, DropBatch
    <3> QED
      BY <2>5, <3>1, <3>2 DEF WorkerFails, Fault, redisVars, callVars
  <2>6. CASE WorkerCrashes(w)
    BY <2>6 DEF WorkerCrashes, DropBatch, Fault, redisVars, rowVars, callVars
  <2> QED
    BY <1>2, <2>1, <2>2, <2>3, <2>4, <2>5, <2>6 DEF WorkerStep
<1>3. CASE RedisLoss
  BY <1>3 DEF RedisLoss, Fault, rowVars, callVars, workerVars
<1>4. CASE UNCHANGED vars
  BY <1>4 DEF vars, redisVars, rowVars, callVars, workerVars
<1> QED
  BY <1>1, <1>2, <1>3, <1>4 DEF Next

LEMMA InitType == Init => TypeOK
  BY BudgetAssumption DEF Init, TypeOK, RedisTypeOK, LedgerTypeOK, CallTypeOK, WorkerTypeOK,
     Phases, RowStates

(* Every variable keeps its type: in particular durable spend and what is   *)
(* read of it stay natural numbers.                                        *)
THEOREM TypeCorrect == Spec => []TypeOK
<1> QED
  BY InitType, TypeStep, PTL DEF Spec

-----------------------------------------------------------------------------
(* What _RECONCILE leaves behind, whether or not it ran before.             *)
LEMMA ReconcileEffect ==
    ASSUME RedisTypeOK, NEW r \in Requests, NEW durable \in Nat, ReconcileScript(r, durable),
           r \in reconciled => reservation[r] = Absent
    PROVE  /\ reservation'[r] = Absent
           /\ \A q \in Requests : q # r => reservation'[q] = reservation[q]
           /\ \A q \in Requests : reservation[q] = Absent => reservation'[q] = Absent
           /\ reconciled' \subseteq reconciled \union {r}
           /\ \A k \in Keys : actual'[k] = actual[k] \/ (k = KeyOf[r] /\ actual'[k] = durable)
<1> USE BudgetAssumption DEF RedisTypeOK, ReconcileScript, FreeReservation, redisVars
<1>1. CASE r \in reconciled
  BY <1>1
<1>2. CASE r \notin reconciled /\ reservation[r] = Absent
  BY <1>2
<1>3. CASE r \notin reconciled /\ reservation[r] # Absent
  BY <1>3
<1> QED
  BY <1>1, <1>2, <1>3

(* A step of a request, of a worker or of the environment preserves IInv.  *)
Preserved ==
    /\ \A r \in Requests : RequestInv(r)
    /\ \A w \in Workers : WorkerInv(w)
    /\ CounterNeverAhead

LEMMA InvStep ==
    ASSUME IInv, [Next]_vars
    PROVE  IInv'
<1> USE BudgetAssumption
<1>0. TypeOK /\ TypeOK' /\ Preserved
  BY TypeStep DEF IInv, Preserved
<1> SUFFICES Preserved'
  BY <1>0 DEF IInv, Preserved
<1> USE <1>0 DEF Preserved, Unsettled, Carrying, Tracked
<1> USE DEF TypeOK, RedisTypeOK, LedgerTypeOK, CallTypeOK, WorkerTypeOK
<1>1. ASSUME NEW r \in Requests, RequestStep(r) PROVE Preserved'
  <2>1. ASSUME NEW cost \in Estimates, NEW limit \in Limits, StartReserve(r, cost, limit)
        PROVE  Preserved'
    <3>1. ASSUME NEW q \in Requests PROVE RequestInv(q)'
      BY <2>1 DEF RequestInv, StartReserve, redisVars, rowVars, workerVars
    <3>2. ASSUME NEW v \in Workers PROVE WorkerInv(v)'
      BY <2>1 DEF WorkerInv, RequestInv, StartReserve, redisVars, rowVars, workerVars
    <3>3. CounterNeverAhead'
      BY <2>1
         DEF CounterNeverAhead, RequestInv, WorkerInv, StartReserve, redisVars, rowVars,
             workerVars
    <3> QED
      BY <3>1, <3>2, <3>3
  <2>2. CASE RunReserve(r)
    <3>1. ASSUME NEW q \in Requests PROVE RequestInv(q)'
      <4>1. /\ ask' = ask /\ row' = row /\ after' = after /\ spend' = spend
            /\ reconciled' = reconciled /\ seen' = [seen EXCEPT ![r] = 0]
        BY <2>2 DEF RunReserve, ReserveScript, rowVars
      <4>2. \/ phase' = [phase EXCEPT ![r] = "denied"] /\ reservation' = reservation
            \/ /\ phase' = [phase EXCEPT ![r] = "held"]
               /\ reservation' = [reservation EXCEPT ![r] = ask[r].cost]
        BY <2>2 DEF RunReserve, ReserveScript
      <4>3. phase[r] = "reserve" /\ spend[KeyOf[q]] \in Nat
        BY <2>2 DEF RunReserve
      <4>4. CASE q = r
        BY <4>1, <4>2, <4>3, <4>4 DEF RequestInv
      <4>5. CASE q # r
        BY <4>1, <4>2, <4>5 DEF RequestInv
      <4> QED
        BY <4>4, <4>5
    <3>2. ASSUME NEW v \in Workers PROVE WorkerInv(v)'
      BY <2>2 DEF WorkerInv, RequestInv, RunReserve, ReserveScript, rowVars, workerVars
    <3>3. CounterNeverAhead'
      BY <2>2
         DEF CounterNeverAhead, RequestInv, WorkerInv, RunReserve, ReserveScript, rowVars,
             workerVars
    <3> QED
      BY <3>1, <3>2, <3>3
  <2>3. CASE Release(r)
    <3>1. ASSUME NEW q \in Requests PROVE RequestInv(q)'
      BY <2>3
         DEF RequestInv, Release, ReleaseScript, FreeReservation, redisVars, rowVars, workerVars
    <3>2. ASSUME NEW v \in Workers PROVE WorkerInv(v)'
      BY <2>3
         DEF WorkerInv, RequestInv, Release, ReleaseScript, FreeReservation, redisVars, rowVars,
             workerVars
    <3>3. CounterNeverAhead'
      BY <2>3
         DEF CounterNeverAhead, RequestInv, WorkerInv, Release, ReleaseScript, FreeReservation,
             redisVars, rowVars, workerVars
    <3> QED
      BY <3>1, <3>2, <3>3
  <2>4. ASSUME NEW cost \in Costs, Settle(r, cost) PROVE Preserved'
    <3>0. /\ \A k \in Keys : spend[k] \in Nat /\ spend'[k] \in Nat /\ spend[k] <= spend'[k]
          /\ row[r] = "none" => after'[r] = spend'[KeyOf[r]]
      <4>1. cost \in Nat /\ KeyOf[r] \in Keys /\ spend[KeyOf[r]] \in Nat
        OBVIOUS
      <4>2. CASE row[r] # "none"
        BY <2>4, <4>2 DEF Settle
      <4>3. CASE row[r] = "none"
        <5>1. /\ spend' = [spend EXCEPT ![KeyOf[r]] = spend[KeyOf[r]] + cost]
              /\ after' = [after EXCEPT ![r] = spend[KeyOf[r]] + cost]
          BY <2>4, <4>3 DEF Settle
        <5> QED
          BY <4>1, <5>1
      <4> QED
        BY <4>2, <4>3
    <3>1. ASSUME NEW q \in Requests PROVE RequestInv(q)'
      <4>1. CASE row[r] # "none"
        BY <2>4, <4>1 DEF RequestInv, Settle, redisVars
      <4>2. CASE row[r] = "none" /\ q = r
        BY <2>4, <4>2, <3>0 DEF RequestInv, Settle, redisVars
      <4>3. CASE row[r] = "none" /\ q # r
        BY <2>4, <4>3, <3>0 DEF RequestInv, Settle, redisVars
      <4> QED
        BY <4>1, <4>2, <4>3
    <3>2. ASSUME NEW v \in Workers PROVE WorkerInv(v)'
      <4>1. current[v] \in Requests => KeyOf[current[v]] \in Keys
        OBVIOUS
      <4>2. row' = row \/ row' = [row EXCEPT ![r] = "pending"]
        BY <2>4 DEF Settle
      <4>3. \A q \in Requests : row[q] # "none" => row'[q] # "none" /\ after'[q] = after[q]
        BY <2>4 DEF Settle
      <4> QED
        BY <2>4, <3>0, <4>1, <4>2, <4>3 DEF WorkerInv, Settle, redisVars, workerVars
    <3>3. CounterNeverAhead'
      BY <2>4, <3>0 DEF CounterNeverAhead, Settle, redisVars
    <3> QED
      BY <3>1, <3>2, <3>3
  <2>5. CASE ReadActual(r)
    <3>1. ASSUME NEW q \in Requests PROVE RequestInv(q)'
      BY <2>5 DEF RequestInv, ReadActual, redisVars, rowVars, workerVars
    <3>2. ASSUME NEW v \in Workers PROVE WorkerInv(v)'
      BY <2>5 DEF WorkerInv, RequestInv, ReadActual, redisVars, rowVars, workerVars
    <3>3. CounterNeverAhead'
      BY <2>5
         DEF CounterNeverAhead, RequestInv, WorkerInv, ReadActual, redisVars, rowVars,
             workerVars
    <3> QED
      BY <3>1, <3>2, <3>3
  <2>6. CASE RunReconcile(r)
    <3>1. ASSUME NEW q \in Requests PROVE RequestInv(q)'
      BY <2>6
         DEF RequestInv, RunReconcile, ReconcileScript, FreeReservation, redisVars, rowVars,
             workerVars
    <3>2. ASSUME NEW v \in Workers PROVE WorkerInv(v)'
      BY <2>6
         DEF WorkerInv, RequestInv, RunReconcile, ReconcileScript, FreeReservation, redisVars,
             rowVars, workerVars
    <3>3. CounterNeverAhead'
      BY <2>6
         DEF CounterNeverAhead, RequestInv, WorkerInv, RunReconcile, ReconcileScript,
             FreeReservation, redisVars, rowVars, workerVars
    <3> QED
      BY <3>1, <3>2, <3>3
  <2>7. CASE MarkProcessed(r)
    <3>1. ASSUME NEW q \in Requests PROVE RequestInv(q)'
      BY <2>7 DEF RequestInv, MarkProcessed, redisVars, workerVars
    <3>2. ASSUME NEW v \in Workers PROVE WorkerInv(v)'
      BY <2>7 DEF WorkerInv, RequestInv, MarkProcessed, redisVars, workerVars
    <3>3. CounterNeverAhead'
      BY <2>7 DEF CounterNeverAhead, RequestInv, WorkerInv, MarkProcessed, redisVars, workerVars
    <3> QED
      BY <3>1, <3>2, <3>3
  <2>8. CASE RepeatSettle(r)
    <3>1. ASSUME NEW q \in Requests PROVE RequestInv(q)'
      BY <2>8 DEF RequestInv, RepeatSettle, redisVars, rowVars, workerVars
    <3>2. ASSUME NEW v \in Workers PROVE WorkerInv(v)'
      BY <2>8 DEF WorkerInv, RequestInv, RepeatSettle, redisVars, rowVars, workerVars
    <3>3. CounterNeverAhead'
      BY <2>8
         DEF CounterNeverAhead, RequestInv, WorkerInv, RepeatSettle, redisVars, rowVars,
             workerVars
    <3> QED
      BY <3>1, <3>2, <3>3
  <2>9. CASE RequestDies(r)
    <3>1. ASSUME NEW q \in Requests PROVE RequestInv(q)'
      BY <2>9 DEF RequestInv, RequestDies, redisVars, rowVars, workerVars
    <3>2. ASSUME NEW v \in Workers PROVE WorkerInv(v)'
      BY <2>9 DEF WorkerInv, RequestInv, RequestDies, redisVars, rowVars, workerVars
    <3>3. CounterNeverAhead'
      BY <2>9
         DEF CounterNeverAhead, RequestInv, WorkerInv, RequestDies, redisVars, rowVars,
             workerVars
    <3> QED
      BY <3>1, <3>2, <3>3
  <2>10. CASE LeaseExpires(r)
    <3>1. ASSUME NEW q \in Requests PROVE RequestInv(q)'
      BY <2>10 DEF RequestInv, LeaseExpires, redisVars, callVars, workerVars
    <3>2. ASSUME NEW v \in Workers PROVE WorkerInv(v)'
      BY <2>10 DEF WorkerInv, RequestInv, LeaseExpires, redisVars, callVars, workerVars
    <3>3. CounterNeverAhead'
      BY <2>10
         DEF CounterNeverAhead, RequestInv, WorkerInv, LeaseExpires, redisVars, callVars,
             workerVars
    <3> QED
      BY <3>1, <3>2, <3>3
  <2>11. CASE MarkerExpires(r)
    <3>1. ASSUME NEW q \in Requests PROVE RequestInv(q)'
      BY <2>11 DEF RequestInv, MarkerExpires, rowVars, callVars, workerVars
    <3>2. ASSUME NEW v \in Workers PROVE WorkerInv(v)'
      BY <2>11 DEF WorkerInv, RequestInv, MarkerExpires, rowVars, callVars, workerVars
    <3>3. CounterNeverAhead'
      BY <2>11
         DEF CounterNeverAhead, RequestInv, WorkerInv, MarkerExpires, rowVars, callVars,
             workerVars
    <3> QED
      BY <3>1, <3>2, <3>3
  <2> QED
    BY <1>1, <2>1, <2>2, <2>3, <2>4, <2>5, <2>6, <2>7, <2>8, <2>9, <2>10, <2>11 DEF RequestStep
<1>2. ASSUME NEW w \in Workers, WorkerStep(w) PROVE Preserved'
  <2>1. CASE Claim(w)
    <3>1. ASSUME NEW q \in Requests PROVE RequestInv(q)'
      BY <2>1 DEF RequestInv, Claim, Claimable, redisVars, callVars
    <3>2. ASSUME NEW v \in Workers PROVE WorkerInv(v)'
      BY <2>1 DEF WorkerInv, RequestInv, Claim, Claimable, redisVars, callVars
    <3>3. CounterNeverAhead'
      BY <2>1 DEF CounterNeverAhead, RequestInv, WorkerInv, Claim, Claimable, redisVars,
          callVars
    <3> QED
      BY <3>1, <3>2, <3>3
  <2>2. ASSUME NEW r \in Requests, WorkerRead(w, r) PROVE Preserved'
    <3>1. ASSUME NEW q \in Requests PROVE RequestInv(q)'
      BY <2>2 DEF RequestInv, WorkerRead, redisVars, rowVars, callVars
    <3>2. ASSUME NEW v \in Workers PROVE WorkerInv(v)'
      BY <2>2 DEF WorkerInv, RequestInv, WorkerRead, redisVars, rowVars, callVars
    <3>3. CounterNeverAhead'
      BY <2>2 DEF CounterNeverAhead, RequestInv, WorkerInv, WorkerRead, redisVars,
          rowVars, callVars
    <3> QED
      BY <3>1, <3>2, <3>3
  <2>3. CASE WorkerReconcile(w)
    <3>0. /\ current[w] \in Requests /\ fetched[w] \in Nat
          /\ fetched[w] <= spend[KeyOf[current[w]]]
          /\ row[current[w]] # "none"
          /\ current[w] \in reconciled => reservation[current[w]] = Absent
          /\ ReconcileScript(current[w], fetched[w])
      BY <2>3 DEF WorkerReconcile, WorkerInv, RequestInv
    <3> DEFINE c == current[w]
    <3>1. /\ reservation'[c] = Absent
          /\ \A q \in Requests : q # c => reservation'[q] = reservation[q]
          /\ \A q \in Requests : reservation[q] = Absent => reservation'[q] = Absent
          /\ reconciled' \subseteq reconciled \union {c}
          /\ \A k \in Keys : actual'[k] = actual[k] \/ (k = KeyOf[c] /\ actual'[k] = fetched[w])
      BY <3>0, ReconcileEffect
    <3>2. ASSUME NEW q \in Requests PROVE RequestInv(q)'
      BY <2>3, <3>0, <3>1 DEF RequestInv, WorkerReconcile, rowVars, callVars
    <3>3. ASSUME NEW v \in Workers PROVE WorkerInv(v)'
      BY <2>3, <3>0, <3>1 DEF WorkerInv, WorkerReconcile, rowVars
    <3>4. CounterNeverAhead'
      BY <2>3, <3>0, <3>1 DEF CounterNeverAhead, WorkerReconcile
    <3> QED
      BY <3>2, <3>3, <3>4
  <2>4. CASE WorkerComplete(w)
    <3>1. ASSUME NEW q \in Requests PROVE RequestInv(q)'
      <4>1. current[w] \in Requests /\ reservation[current[w]] = Absent
        BY <2>4 DEF WorkerComplete, WorkerInv
      <4> QED
        BY <2>4, <4>1 DEF RequestInv, WorkerComplete, redisVars, callVars
    <3>2. ASSUME NEW v \in Workers PROVE WorkerInv(v)'
      BY <2>4 DEF WorkerInv, RequestInv, WorkerComplete, redisVars, callVars
    <3>3. CounterNeverAhead'
      BY <2>4 DEF CounterNeverAhead, RequestInv, WorkerInv, WorkerComplete, redisVars, callVars
    <3> QED
      BY <3>1, <3>2, <3>3
  <2>5. CASE WorkerFails(w)
    <3>1. ASSUME NEW q \in Requests PROVE RequestInv(q)'
      BY <2>5 DEF RequestInv, WorkerFails, DropBatch, redisVars, callVars
    <3>2. ASSUME NEW v \in Workers PROVE WorkerInv(v)'
      BY <2>5 DEF WorkerInv, RequestInv, WorkerFails, DropBatch, redisVars, callVars
    <3>3. CounterNeverAhead'
      BY <2>5
         DEF CounterNeverAhead, RequestInv, WorkerInv, WorkerFails, DropBatch, redisVars,
             callVars
    <3> QED
      BY <3>1, <3>2, <3>3
  <2>6. CASE WorkerCrashes(w)
    <3>1. ASSUME NEW q \in Requests PROVE RequestInv(q)'
      BY <2>6 DEF RequestInv, WorkerCrashes, DropBatch, redisVars, rowVars, callVars
    <3>2. ASSUME NEW v \in Workers PROVE WorkerInv(v)'
      BY <2>6 DEF WorkerInv, RequestInv, WorkerCrashes, DropBatch, redisVars, rowVars, callVars
    <3>3. CounterNeverAhead'
      BY <2>6
         DEF CounterNeverAhead, RequestInv, WorkerInv, WorkerCrashes, DropBatch, redisVars,
             rowVars, callVars
    <3> QED
      BY <3>1, <3>2, <3>3
  <2> QED
    BY <1>2, <2>1, <2>2, <2>3, <2>4, <2>5, <2>6 DEF WorkerStep
<1>3. CASE RedisLoss
  BY <1>3 DEF RedisLoss, RequestInv, WorkerInv, CounterNeverAhead, rowVars, callVars, workerVars
<1>4. CASE UNCHANGED vars
  BY <1>4 DEF vars, RequestInv, WorkerInv, CounterNeverAhead, redisVars, rowVars, callVars,
     workerVars
<1> QED
  BY <1>1, <1>2, <1>3, <1>4 DEF Next

-----------------------------------------------------------------------------
(* The inductive invariant holds in every reachable state.                 *)
THEOREM Invariance == Spec => []IInv
<1>1. Init => IInv
  BY InitType, BudgetAssumption
     DEF Init, IInv, RequestInv, WorkerInv, CounterNeverAhead, Unsettled, Carrying, Tracked
<1> QED
  BY <1>1, InvStep, PTL DEF Spec

(* Redis never reports more spend than PostgreSQL settled, with any number *)
(* of requests and workers writing what they read at different moments.    *)
THEOREM CounterSafe == Spec => []CounterNeverAhead
<1>1. IInv => CounterNeverAhead
  BY DEF IInv
<1> QED
  BY <1>1, Invariance, PTL

(* No outbox row is closed while its reservation is still held in Redis.   *)
THEOREM ProcessedSafe == Spec => []ProcessedIsFreed
<1>1. IInv => ProcessedIsFreed
  BY DEF IInv, RequestInv, ProcessedIsFreed
<1> QED
  BY <1>1, Invariance, PTL

(* A charge that the counter lacks was put out by another caller's write.  *)
(* The invariant that carries it also speaks of reservations about to be   *)
(* settled: one that Redis lost did not write the counter since.           *)
Lacking(r) ==
    \/ Missing(r)
    \/ /\ Tracked(r)
       /\ row[r] = "none"
       /\ phase[r] = "held"
       /\ reservation[r] = Absent
       /\ actual[KeyOf[r]] # Absent
WriterInv == \A r \in Requests : Lacking(r) => writer[KeyOf[r]] # r

LEMMA ReconcileWriter ==
    ASSUME RedisTypeOK, LedgerTypeOK, WriterInv, NEW c \in Requests, NEW durable \in Nat,
           ReconcileScript(c, durable), row[c] # "none", after[c] <= durable,
           UNCHANGED <<row, after, ask, phase>>
    PROVE  WriterInv'
<1> USE BudgetAssumption DEF RedisTypeOK, LedgerTypeOK
<1> SUFFICES ASSUME NEW r \in Requests, Lacking(r)' PROVE writer'[KeyOf[r]] # r
  BY DEF WriterInv
<1>1. CASE c \in reconciled
  BY <1>1 DEF ReconcileScript, redisVars, WriterInv, Lacking, Missing, Tracked
<1>2. CASE c \notin reconciled
  <2>1. /\ actual' = [actual EXCEPT ![KeyOf[c]] = durable]
        /\ writer' = [writer EXCEPT ![KeyOf[c]] = c]
    BY <1>2 DEF ReconcileScript
  <2>2. CASE KeyOf[r] = KeyOf[c]
    <3>1. actual'[KeyOf[r]] = durable /\ writer'[KeyOf[r]] = c
      BY <2>1, <2>2
    <3>2. ~Lacking(c)'
      BY <2>1 DEF Lacking, Missing
    <3> QED
      BY <3>1, <3>2
  <2>3. CASE KeyOf[r] # KeyOf[c]
    <3>1. actual'[KeyOf[r]] = actual[KeyOf[r]] /\ writer'[KeyOf[r]] = writer[KeyOf[r]]
      BY <2>1, <2>3
    <3>2. r # c /\ reservation'[r] = reservation[r]
      BY <1>2, <2>3 DEF ReconcileScript, FreeReservation
    <3>3. Lacking(r)
      BY <3>1, <3>2 DEF Lacking, Missing, Tracked
    <3> QED
      BY <3>1, <3>3 DEF WriterInv
  <2> QED
    BY <2>2, <2>3
<1> QED
  BY <1>1, <1>2

LEMMA WriterStep ==
    ASSUME IInv, WriterInv, [Next]_vars
    PROVE  WriterInv'
<1> USE BudgetAssumption
<1>0. /\ TypeOK /\ RedisTypeOK /\ LedgerTypeOK /\ CallTypeOK /\ WorkerTypeOK
      /\ \A q \in Requests : RequestInv(q)
      /\ \A w \in Workers : WorkerInv(w)
  BY DEF IInv, TypeOK
<1> DEFINE Same(r) ==
      /\ actual'[KeyOf[r]] # Absent => /\ actual'[KeyOf[r]] = actual[KeyOf[r]]
                                       /\ writer'[KeyOf[r]] = writer[KeyOf[r]]
      /\ Lacking(r)' => Lacking(r)
<1>1. (\A r \in Requests : Same(r)) => WriterInv'
  BY DEF WriterInv, Lacking, Missing
<1>2. ASSUME NEW q \in Requests, RequestStep(q) PROVE WriterInv'
  <2> USE <1>0 DEF RedisTypeOK, LedgerTypeOK, CallTypeOK
  <2>1. ASSUME NEW cost \in Estimates, NEW limit \in Limits, StartReserve(q, cost, limit)
        PROVE  \A r \in Requests : Same(r)
    BY <2>1 DEF StartReserve, RequestInv, Unsettled, Lacking, Missing, Tracked, redisVars, rowVars
  <2>2. CASE RunReserve(q)
    <3>1. /\ ask' = ask /\ row' = row /\ after' = after /\ row[q] = "none" /\ Tracked(q)
          /\ \/ phase' = [phase EXCEPT ![q] = "denied"] /\ reservation' = reservation
             \/ /\ phase' = [phase EXCEPT ![q] = "held"]
                /\ reservation' = [reservation EXCEPT ![q] = ask[q].cost]
      BY <2>2 DEF RunReserve, ReserveScript, rowVars, RequestInv, Unsettled
    <3>2. ~Lacking(q)'
      BY <3>1 DEF Lacking, Missing
    <3>3. CASE actual[KeyOf[q]] = Absent
      <4>1. /\ writer' = [writer EXCEPT ![KeyOf[q]] = q]
            /\ \A k \in Keys : k # KeyOf[q] => actual'[k] = actual[k]
        BY <2>2, <3>3 DEF RunReserve, ReserveScript
      <4>2. ASSUME NEW r \in Requests, Lacking(r)' PROVE writer'[KeyOf[r]] # r
        <5>1. r # q /\ reservation'[r] = reservation[r] /\ phase'[r] = phase[r]
          BY <3>1, <3>2, <4>2
        <5>2. CASE KeyOf[r] = KeyOf[q]
          BY <4>1, <5>1, <5>2
        <5>3. CASE KeyOf[r] # KeyOf[q]
          BY <3>1, <4>1, <4>2, <5>1, <5>3 DEF WriterInv, Lacking, Missing, Tracked
        <5> QED
          BY <5>2, <5>3
      <4> QED
        BY <4>2 DEF WriterInv
    <3>4. CASE actual[KeyOf[q]] # Absent
      <4>1. actual' = actual /\ writer' = writer
        BY <2>2, <3>4 DEF RunReserve, ReserveScript
      <4>2. ASSUME NEW r \in Requests, Lacking(r)' PROVE Lacking(r)
        <5>1. r # q /\ reservation'[r] = reservation[r] /\ phase'[r] = phase[r]
          BY <3>1, <3>2, <4>2
        <5> QED
          BY <3>1, <4>1, <4>2, <5>1 DEF Lacking, Missing, Tracked
      <4> QED
        BY <4>1, <4>2 DEF WriterInv
    <3> QED
      BY <3>3, <3>4
  <2>3. CASE Release(q)
    <3>1. /\ actual' = actual /\ writer' = writer /\ ask' = ask /\ row' = row /\ after' = after
          /\ row[q] = "none" /\ phase' = [phase EXCEPT ![q] = "freed"]
      BY <2>3 DEF Release, ReleaseScript, redisVars, rowVars
    <3>2. \A r \in Requests : r # q => reservation'[r] = reservation[r]
      BY <2>3 DEF Release, ReleaseScript, FreeReservation, redisVars
    <3>3. ~Lacking(q)'
      BY <3>1 DEF Lacking, Missing
    <3>4. \A r \in Requests : r # q => phase'[r] = phase[r]
      BY <3>1
    <3>5. ASSUME NEW r \in Requests, Lacking(r)' PROVE Lacking(r)
      BY <3>1, <3>2, <3>3, <3>4, <3>5 DEF Lacking, Missing, Tracked
    <3> QED
      BY <3>1, <3>5 DEF WriterInv
  <2>4. ASSUME NEW cost \in Costs, Settle(q, cost) PROVE \A r \in Requests : Same(r)
    <3>1. /\ actual' = actual /\ writer' = writer /\ ask' = ask /\ reservation' = reservation
          /\ phase[q] = "held" /\ phase' = [phase EXCEPT ![q] = "settled"]
      BY <2>4 DEF Settle, redisVars
    <3>2. \A r \in Requests : r # q => row'[r] = row[r] /\ after'[r] = after[r]
      BY <2>4 DEF Settle
    <3>3. row[q] # "none" => row'[q] = row[q] /\ after'[q] = after[q]
      BY <2>4 DEF Settle
    <3>4. ASSUME NEW r \in Requests, Lacking(r)' PROVE Lacking(r)
      <4>1. CASE r = q
        BY <3>1, <3>3, <3>4, <4>1 DEF Lacking, Missing, Tracked
      <4>2. CASE r # q
        BY <3>1, <3>2, <3>4, <4>2 DEF Lacking, Missing, Tracked
      <4> QED
        BY <4>1, <4>2
    <3> QED
      BY <3>1, <3>4
  <2>5. CASE ReadActual(q)
    BY <1>1, <2>5 DEF ReadActual, Lacking, Missing, Tracked, redisVars, rowVars
  <2>6. CASE RunReconcile(q)
    <3>1. /\ ReconcileScript(q, seen[q]) /\ row[q] # "none" /\ after[q] <= seen[q]
          /\ row' = row /\ after' = after /\ ask' = ask
          /\ phase' = [phase EXCEPT ![q] = "mark"]
      BY <2>6 DEF RunReconcile, rowVars, RequestInv, Carrying
    <3>2. ASSUME NEW r \in Requests, Lacking(r)' PROVE writer'[KeyOf[r]] # r
      <4>1. phase'[r] = "held" => phase[r] = "held"
        BY <3>1
      <4>2. CASE q \in reconciled
        BY <3>1, <3>2, <4>1, <4>2 DEF ReconcileScript, redisVars, WriterInv, Lacking, Missing, Tracked
      <4>3. CASE q \notin reconciled /\ KeyOf[r] = KeyOf[q]
        <5>1. actual'[KeyOf[r]] = seen[q] /\ writer'[KeyOf[r]] = q
          BY <3>1, <4>3 DEF ReconcileScript
        <5>2. ~Lacking(q)'
          BY <3>1, <4>3, <5>1 DEF Lacking, Missing
        <5> QED
          BY <3>2, <5>1, <5>2
      <4>4. CASE q \notin reconciled /\ KeyOf[r] # KeyOf[q]
        <5>1. actual'[KeyOf[r]] = actual[KeyOf[r]] /\ writer'[KeyOf[r]] = writer[KeyOf[r]]
          BY <3>1, <4>4 DEF ReconcileScript
        <5>2. reservation'[r] = reservation[r]
          BY <3>1, <4>4 DEF ReconcileScript, FreeReservation
        <5> QED
          BY <3>1, <3>2, <4>1, <5>1, <5>2 DEF WriterInv, Lacking, Missing, Tracked
      <4> QED
        BY <4>2, <4>3, <4>4
    <3> QED
      BY <3>2 DEF WriterInv
  <2>7. CASE MarkProcessed(q)
    <3>1. UNCHANGED <<actual, writer, reservation, ask, after>>
      BY <2>7 DEF MarkProcessed, redisVars
    <3>2. \A r \in Requests : (row'[r] = "none" <=> row[r] = "none")
                              /\ (phase'[r] = "held" => phase[r] = "held")
      BY <2>7 DEF MarkProcessed
    <3> QED
      BY <3>1, <3>2 DEF WriterInv, Lacking, Missing, Tracked
  <2>8. CASE RepeatSettle(q)
    <3>1. UNCHANGED <<actual, writer, reservation, ask, row, after>> /\ row[q] # "none"
      BY <2>8 DEF RepeatSettle, redisVars, rowVars
    <3>2. \A r \in Requests : r # q => phase'[r] = phase[r]
      BY <2>8 DEF RepeatSettle
    <3> QED
      BY <3>1, <3>2 DEF WriterInv, Lacking, Missing, Tracked
  <2>9. CASE RequestDies(q)
    <3>1. UNCHANGED <<actual, writer, reservation, ask, row, after>>
      BY <2>9 DEF RequestDies, redisVars, rowVars
    <3>2. \A r \in Requests : phase'[r] = "held" => phase[r] = "held"
      BY <2>9 DEF RequestDies
    <3> QED
      BY <3>1, <3>2 DEF WriterInv, Lacking, Missing, Tracked
  <2>10. CASE LeaseExpires(q) \/ MarkerExpires(q)
    BY <2>10 DEF LeaseExpires, MarkerExpires, WriterInv, Lacking, Missing, Tracked, redisVars,
       rowVars, callVars
  <2> QED
    BY <1>1, <1>2, <2>1, <2>2, <2>3, <2>4, <2>5, <2>6, <2>7, <2>8, <2>9, <2>10 DEF RequestStep
<1>3. ASSUME NEW w \in Workers, WorkerStep(w) PROVE WriterInv'
  <2>1. CASE WorkerReconcile(w)
    <3>1. /\ current[w] \in Requests /\ fetched[w] \in Nat
          /\ ReconcileScript(current[w], fetched[w])
          /\ row[current[w]] # "none" /\ after[current[w]] <= fetched[w]
      BY <1>0, <2>1 DEF WorkerReconcile, WorkerTypeOK, WorkerInv
    <3>2. UNCHANGED <<row, after, ask, phase>>
      BY <2>1 DEF WorkerReconcile, rowVars, callVars
    <3> QED
      BY <1>0, <3>1, <3>2, ReconcileWriter
  <2>2. CASE WorkerComplete(w)
    <3>1. UNCHANGED <<actual, writer, reservation, ask, after, phase>>
      BY <2>2 DEF WorkerComplete, redisVars, callVars
    <3>2. \A r \in Requests : row'[r] = "none" <=> row[r] = "none"
      BY <1>0, <2>2 DEF WorkerComplete, LedgerTypeOK
    <3> QED
      BY <3>1, <3>2 DEF WriterInv, Lacking, Missing, Tracked
  <2>3. CASE UNCHANGED <<actual, writer, reservation, ask, after, phase, row>>
    BY <2>3 DEF WriterInv, Lacking, Missing, Tracked
  <2> QED
    BY <1>3, <2>1, <2>2, <2>3
       DEF WorkerStep, Claim, WorkerRead, WorkerFails, WorkerCrashes, redisVars, rowVars, callVars
<1>4. CASE RedisLoss
  BY <1>4 DEF RedisLoss, WriterInv, Lacking, Missing
<1>5. CASE UNCHANGED vars
  BY <1>5 DEF vars, redisVars, rowVars, callVars, WriterInv, Lacking, Missing, Tracked
<1> QED
  BY <1>2, <1>3, <1>4, <1>5 DEF Next

(* A settled charge that is in no reservation and not in the counter was   *)
(* put out by another caller's older reading; its own reconciliation, once *)
(* run by anybody, included it.                                            *)
THEOREM OnlyOverlapsHide == Spec => []MissingOnlyByOverlap
<1>1. Init => WriterInv
  BY BudgetAssumption DEF Init, WriterInv, Lacking, Missing
<1>2. WriterInv => MissingOnlyByOverlap
  BY DEF WriterInv, Lacking, MissingOnlyByOverlap
<1> QED
  BY <1>1, <1>2, WriterStep, Invariance, PTL DEF Spec

-----------------------------------------------------------------------------
(* The service implements SpendLedger: every step is a charge, a waiver or *)
(* invisible, and no request is both charged and waived or charged twice.  *)
THEOREM Refinement == Spec => LedgerSpec
<1> DEFINE fates == [r \in Requests |-> Fate(r)]
<1>1. Init => Ledger!Init
  BY BudgetAssumption DEF Init, Ledger!Init, Fate
<1>2. ASSUME IInv, [Next]_vars PROVE [Ledger!Next]_<<spend, fates>>
  <2> USE BudgetAssumption
  <2>0. /\ TypeOK /\ LedgerTypeOK /\ CallTypeOK
        /\ \A q \in Requests : RequestInv(q)
    BY <1>2 DEF IInv, TypeOK
  <2>1. ASSUME NEW r \in Requests, RunReserve(r)
        PROVE  Ledger!Waive(r) \/ UNCHANGED <<spend, fates>>
    <3>1. /\ phase[r] = "reserve" /\ row' = row /\ spend' = spend
          /\ \/ phase' = [phase EXCEPT ![r] = "held"]
             \/ phase' = [phase EXCEPT ![r] = "denied"]
      BY <2>1 DEF RunReserve, ReserveScript, rowVars
    <3>2. CASE phase' = [phase EXCEPT ![r] = "held"]
      BY <2>0, <3>1, <3>2 DEF Fate, CallTypeOK
    <3>3. CASE phase' = [phase EXCEPT ![r] = "denied"]
      <4>1. row[r] = "none"
        BY <2>0, <3>1 DEF RequestInv, Unsettled
      <4> QED
        BY <2>0, <3>1, <3>3, <4>1 DEF Ledger!Waive, Fate, CallTypeOK
    <3> QED
      BY <3>1, <3>2, <3>3
  <2>2. ASSUME NEW r \in Requests, Release(r) PROVE Ledger!Waive(r)
    BY <2>0, <2>2 DEF Release, rowVars, Ledger!Waive, Fate, LedgerTypeOK, CallTypeOK
  <2>3. ASSUME NEW r \in Requests, NEW cost \in Costs, Settle(r, cost)
        PROVE  Ledger!Charge(r, cost) \/ UNCHANGED <<spend, fates>>
    <3>1. CASE row[r] # "none"
      BY <2>3, <3>1 DEF Settle, Fate
    <3>2. CASE row[r] = "none"
      <4>1. /\ row' = [row EXCEPT ![r] = "pending"]
            /\ phase' = [phase EXCEPT ![r] = "settled"]
            /\ spend' = [spend EXCEPT ![KeyOf[r]] = @ + cost]
            /\ phase[r] = "held"
        BY <2>3, <3>2 DEF Settle
      <4>2. fates[r] = "open"
        BY <3>2, <4>1 DEF Fate
      <4>3. /\ row'[r] = "pending"
            /\ \A q \in Requests \ {r} : row'[q] = row[q] /\ phase'[q] = phase[q]
        BY <2>0, <4>1 DEF LedgerTypeOK, CallTypeOK
      <4>4. fates' = [fates EXCEPT ![r] = "charged"]
        BY <4>3 DEF Fate
      <4> QED
        BY <4>1, <4>2, <4>4 DEF Ledger!Charge
    <3> QED
      BY <3>1, <3>2
  <2> DEFINE Kept == /\ UNCHANGED spend
                     /\ \A q \in Requests : Fate(q)' = Fate(q)
  <2>4. Kept => UNCHANGED <<spend, fates>>
    OBVIOUS
  <2>5. ASSUME NEW r \in Requests,
               \/ \E cost \in Estimates, limit \in Limits : StartReserve(r, cost, limit)
               \/ ReadActual(r) \/ RunReconcile(r) \/ MarkProcessed(r)
               \/ RepeatSettle(r) \/ RequestDies(r) \/ LeaseExpires(r) \/ MarkerExpires(r)
        PROVE  Kept
    <3>1. CASE LeaseExpires(r) \/ MarkerExpires(r)
      BY <3>1 DEF LeaseExpires, MarkerExpires, callVars, rowVars, Fate
    <3>2. CASE MarkProcessed(r)
      <4>1. \A q \in Requests : (row'[q] # "none") <=> (row[q] # "none")
        BY <2>0, <3>2 DEF MarkProcessed, LedgerTypeOK
      <4>2. \A q \in Requests :
               phase'[q] \in {"denied", "freed"} <=> phase[q] \in {"denied", "freed"}
        BY <2>0, <3>2 DEF MarkProcessed, CallTypeOK
      <4> QED
        BY <3>2, <4>1, <4>2 DEF MarkProcessed, Fate
    <3>3. CASE ~(LeaseExpires(r) \/ MarkerExpires(r) \/ MarkProcessed(r))
      <4>1. spend' = spend /\ row' = row
        BY <2>5, <3>3 DEF StartReserve, ReadActual, RunReconcile, RepeatSettle,
            RequestDies, rowVars
      <4>2. \A q \in Requests :
               phase'[q] \in {"denied", "freed"} <=> phase[q] \in {"denied", "freed"}
        BY <2>0, <2>5, <3>3
           DEF StartReserve, ReadActual, RunReconcile, RepeatSettle, RequestDies, CallTypeOK
      <4> QED
        BY <4>1, <4>2 DEF Fate
    <3> QED
      BY <3>1, <3>2, <3>3
  <2>6. ASSUME NEW w \in Workers, WorkerStep(w) PROVE Kept
    <3>1. phase' = phase /\ spend' = spend
      BY <2>6 DEF WorkerStep, Claim, WorkerRead, WorkerReconcile, WorkerComplete, WorkerFails,
         WorkerCrashes, callVars
    <3>2. \A q \in Requests : (row'[q] # "none") <=> (row[q] # "none")
      <4>1. CASE WorkerComplete(w)
        BY <2>0, <4>1 DEF WorkerComplete, LedgerTypeOK
      <4>2. CASE row' = row
        BY <4>2
      <4> QED
        BY <2>6, <4>1, <4>2
           DEF WorkerStep, Claim, WorkerRead, WorkerReconcile, WorkerFails,
               WorkerCrashes, rowVars
    <3> QED
      BY <3>1, <3>2 DEF Fate
  <2>7. CASE RedisLoss \/ UNCHANGED vars
    BY <2>7 DEF RedisLoss, vars, rowVars, callVars, Fate
  <2> HIDE DEF Kept, fates
  <2>8. ASSUME NEW r \in Requests, RequestStep(r)
        PROVE  Ledger!Next \/ UNCHANGED <<spend, fates>>
    BY <2>1, <2>2, <2>3, <2>4, <2>5, <2>8 DEF RequestStep, Ledger!Next
  <2> QED
    BY <1>2, <2>4, <2>6, <2>7, <2>8 DEF Next
<1> QED
  BY <1>1, <1>2, Invariance, PTL DEF Spec, LedgerSpec, Ledger!Spec

-----------------------------------------------------------------------------
(* The sums.                                                               *)

\* What a step does to the reservations of Redis and the rows of PostgreSQL.
ReservationsStay == UNCHANGED <<reserved, reservation>>
Reserves(r, cost) ==
    /\ reservation[r] = Absent
    /\ reserved' = [reserved EXCEPT ![KeyOf[r]] = @ + cost]
    /\ reservation' = [reservation EXCEPT ![r] = cost]
Frees(r) ==
    /\ reservation[r] # Absent
    /\ reserved' = [reserved EXCEPT ![KeyOf[r]] = @ - reservation[r]]
    /\ reservation' = [reservation EXCEPT ![r] = Absent]

RowsStay ==
    /\ UNCHANGED <<spend, amount>>
    /\ \A r \in Requests : row'[r] # "none" <=> row[r] # "none"
Settles(r, cost) ==
    /\ row[r] = "none"
    /\ spend' = [spend EXCEPT ![KeyOf[r]] = @ + cost]
    /\ row' = [row EXCEPT ![r] = "pending"]
    /\ amount' = [amount EXCEPT ![r] = cost]

LEMMA ReservationEffect ==
    ASSUME IInv, [Next]_vars
    PROVE  \/ ReservationsStay
           \/ \E r \in Requests : \E cost \in Nat : Reserves(r, cost)
           \/ \E r \in Requests : Frees(r)
           \/ RedisLoss
<1> DEFINE Effect == \/ ReservationsStay
                     \/ \E r \in Requests : \E cost \in Nat : Reserves(r, cost)
                     \/ \E r \in Requests : Frees(r)
<1>1. ASSUME NEW r \in Requests, FreeReservation(r) PROVE Effect
  BY <1>1 DEF FreeReservation, ReservationsStay, Frees
<1>2. ASSUME NEW r \in Requests, NEW durable, ReconcileScript(r, durable) PROVE Effect
  BY <1>1, <1>2 DEF ReconcileScript, ReservationsStay, redisVars
<1>3. ASSUME NEW r \in Requests, RequestStep(r) PROVE Effect
  <2>1. CASE RunReserve(r)
    <3>1. reservation[r] = Absent /\ ask[r].cost \in Nat
      BY <2>1 DEF RunReserve, IInv, RequestInv, Unsettled, TypeOK, CallTypeOK
    <3>2. ReservationsStay \/ Reserves(r, ask[r].cost)
      BY <2>1, <3>1 DEF RunReserve, ReserveScript, ReservationsStay, Reserves
    <3> QED
      BY <3>1, <3>2
  <2>2. CASE Release(r)
    BY <1>1, <2>2 DEF Release, ReleaseScript, ReservationsStay, redisVars
  <2>3. CASE RunReconcile(r)
    BY <1>2, <2>3 DEF RunReconcile
  <2>4. CASE ~RunReserve(r) /\ ~Release(r) /\ ~RunReconcile(r)
    BY <1>3, <2>4
    DEF RequestStep, StartReserve, Settle, ReadActual, MarkProcessed, RepeatSettle, RequestDies,
        LeaseExpires, MarkerExpires, ReservationsStay, redisVars
  <2> QED
    BY <2>1, <2>2, <2>3, <2>4
<1>4. ASSUME NEW w \in Workers, WorkerStep(w) PROVE Effect
  <2>1. CASE WorkerReconcile(w)
    <3>1. current[w] \in Requests
      BY <2>1 DEF WorkerReconcile, IInv, TypeOK, WorkerTypeOK
    <3> QED
      BY <1>2, <2>1, <3>1 DEF WorkerReconcile
  <2>2. CASE ~WorkerReconcile(w)
    BY <1>4, <2>2
    DEF WorkerStep, Claim, WorkerRead, WorkerComplete, WorkerFails, WorkerCrashes,
        ReservationsStay, redisVars
  <2> QED
    BY <2>1, <2>2
<1>5. CASE UNCHANGED vars
  BY <1>5 DEF vars, redisVars, ReservationsStay
<1> QED
  BY <1>3, <1>4, <1>5 DEF Next

LEMMA LedgerEffect ==
    ASSUME IInv, [Next]_vars
    PROVE  RowsStay \/ \E r \in Requests : \E cost \in Costs : Settles(r, cost)
<1> USE DEF RowsStay, rowVars
<1>1. ASSUME NEW r \in Requests, RequestStep(r)
      PROVE  RowsStay \/ \E cost \in Costs : Settles(r, cost)
  <2>1. CASE \E cost \in Costs : Settle(r, cost)
    BY <2>1 DEF Settle, Settles
  <2>2. CASE MarkProcessed(r)
    BY <2>2 DEF MarkProcessed, IInv, TypeOK, LedgerTypeOK
  <2>3. CASE ~MarkProcessed(r) /\ ~\E cost \in Costs : Settle(r, cost)
    BY <1>1, <2>3
    DEF RequestStep, StartReserve, RunReserve, Release, ReadActual, RunReconcile, RepeatSettle,
        RequestDies, LeaseExpires, MarkerExpires
  <2> QED
    BY <2>1, <2>2, <2>3
<1>2. ASSUME NEW w \in Workers, WorkerStep(w) PROVE RowsStay
  <2>1. CASE WorkerComplete(w)
    BY <2>1 DEF WorkerComplete, IInv, TypeOK, LedgerTypeOK
  <2>2. CASE ~WorkerComplete(w)
    BY <1>2, <2>2
    DEF WorkerStep, Claim, WorkerRead, WorkerReconcile, WorkerFails, WorkerCrashes
  <2> QED
    BY <2>1, <2>2
<1>3. RedisLoss \/ UNCHANGED vars => RowsStay
  BY DEF RedisLoss, vars
<1> QED
  BY <1>1, <1>2, <1>3 DEF Next

LEMMA ReservedStep ==
    ASSUME IInv, ReservedIsHeld, [Next]_vars
    PROVE  ReservedIsHeld'
<1> SUFFICES ASSUME NEW k \in Keys PROVE reserved'[k] = SumOf(reservation', HeldOn(k)')
  BY DEF ReservedIsHeld
<1>1. /\ reserved \in [Keys -> Int]
      /\ reservation \in [Requests -> Nat \union {Absent}]
      /\ reserved[k] = SumOf(reservation, HeldOn(k))
  BY DEF IInv, TypeOK, RedisTypeOK, ReservedIsHeld
<1>2. /\ HeldOn(k) \subseteq Requests /\ IsFiniteSet(HeldOn(k))
      /\ \A q \in HeldOn(k) : reservation[q] \in Int
  BY <1>1, FS_Subset, BudgetAssumption DEF HeldOn
<1>3. CASE ReservationsStay
  BY <1>1, <1>3 DEF ReservationsStay, HeldOn
<1>4. ASSUME NEW r \in Requests, NEW cost \in Nat, Reserves(r, cost)
      PROVE  reserved'[k] = SumOf(reservation', HeldOn(k)')
  <2>1. \A q \in HeldOn(k) : q # r /\ reservation'[q] = reservation[q]
    BY <1>1, <1>4 DEF Reserves, HeldOn
  <2>2. SumOf(reservation', HeldOn(k)) = SumOf(reservation, HeldOn(k))
    BY <1>2, <2>1, SumAgrees
  <2>3. CASE KeyOf[r] # k
    <3>1. HeldOn(k)' = HeldOn(k) /\ reserved'[k] = reserved[k]
      BY <1>1, <1>4, <2>3 DEF Reserves, HeldOn
    <3> QED
      BY <1>1, <2>2, <3>1
  <2>4. CASE KeyOf[r] = k
    <3>1. HeldOn(k)' = HeldOn(k) \union {r} /\ r \notin HeldOn(k)
      BY <1>1, <1>4, <2>4, BudgetAssumption DEF Reserves, HeldOn
    <3>2. reserved'[k] = reserved[k] + cost /\ reservation'[r] = cost
      BY <1>1, <1>4, <2>4 DEF Reserves
    <3>3. \A q \in HeldOn(k) \union {r} : reservation'[q] \in Int
      BY <1>2, <2>1, <3>2
    <3>4. SumOf(reservation', HeldOn(k) \union {r}) = cost + SumOf(reservation', HeldOn(k))
      BY <1>2, <3>1, <3>2, <3>3, SumAdd
    <3>5. SumOf(reservation', HeldOn(k)') = cost + reserved[k]
      BY <1>1, <2>2, <3>1, <3>4
    <3> QED
      BY <1>1, <3>2, <3>5
  <2> QED
    BY <2>3, <2>4
<1>5. ASSUME NEW r \in Requests, Frees(r)
      PROVE  reserved'[k] = SumOf(reservation', HeldOn(k)')
  <2>1. HeldOn(k)' = HeldOn(k) \ {r}
    BY <1>1, <1>5, BudgetAssumption DEF Frees, HeldOn
  <2>2. SumOf(reservation', HeldOn(k) \ {r}) = SumOf(reservation, HeldOn(k) \ {r})
    <3>1. IsFiniteSet(HeldOn(k) \ {r})
      BY <1>2, FS_RemoveElement
    <3>2. \A q \in HeldOn(k) \ {r} : reservation'[q] = reservation[q]
      BY <1>1, <1>2, <1>5 DEF Frees
    <3> QED
      BY <3>1, <3>2, SumAgrees
  <2>3. CASE KeyOf[r] # k
    <3>1. r \notin HeldOn(k) /\ reserved'[k] = reserved[k]
      BY <1>1, <1>5, <2>3 DEF Frees, HeldOn
    <3>2. HeldOn(k) \ {r} = HeldOn(k)
      BY <3>1
    <3> QED
      BY <1>1, <2>1, <2>2, <3>1, <3>2
  <2>4. CASE KeyOf[r] = k
    <3>1. r \in HeldOn(k) /\ reservation[r] \in Nat
      BY <1>1, <1>5, <2>4 DEF Frees, HeldOn
    <3>2. reserved'[k] = reserved[k] - reservation[r]
      BY <1>1, <1>5, <2>4 DEF Frees
    <3>3. SumOf(reservation, HeldOn(k)) = reservation[r] + SumOf(reservation, HeldOn(k) \ {r})
      BY <1>2, <3>1, SumRemove
    <3>4. SumOf(reservation, HeldOn(k) \ {r}) \in Int
      BY <1>2, FS_RemoveElement, SumInt
    <3> QED
      BY <1>1, <2>1, <2>2, <3>1, <3>2, <3>3, <3>4
  <2> QED
    BY <2>3, <2>4
<1>6. CASE RedisLoss
  <2>1. reserved'[k] = 0 /\ HeldOn(k)' = {}
    BY <1>6 DEF RedisLoss, HeldOn
  <2> QED
    BY <2>1, SumEmpty
<1> QED
  BY <1>3, <1>4, <1>5, <1>6, ReservationEffect

LEMMA SpendStep ==
    ASSUME IInv, SpendIsLedger, [Next]_vars
    PROVE  SpendIsLedger'
<1> SUFFICES ASSUME NEW k \in Keys PROVE spend'[k] = SumOf(amount', SettledOn(k)')
  BY DEF SpendIsLedger
<1>1. /\ spend \in [Keys -> Nat]
      /\ amount \in [Requests -> Nat] /\ row \in [Requests -> RowStates]
      /\ spend[k] = SumOf(amount, SettledOn(k))
  BY DEF IInv, TypeOK, LedgerTypeOK, SpendIsLedger
<1>2. /\ SettledOn(k) \subseteq Requests /\ IsFiniteSet(SettledOn(k))
      /\ \A q \in SettledOn(k) : amount[q] \in Int
  BY <1>1, FS_Subset, BudgetAssumption DEF SettledOn
<1>3. CASE RowsStay
  <2>1. SettledOn(k)' = SettledOn(k)
    BY <1>3 DEF RowsStay, SettledOn
  <2> QED
    BY <1>1, <1>3, <2>1 DEF RowsStay
<1>4. ASSUME NEW r \in Requests, NEW cost \in Costs, Settles(r, cost)
      PROVE  spend'[k] = SumOf(amount', SettledOn(k)')
  <2>1. \A q \in SettledOn(k) : q # r /\ amount'[q] = amount[q]
    BY <1>1, <1>4 DEF Settles, SettledOn
  <2>2. SumOf(amount', SettledOn(k)) = SumOf(amount, SettledOn(k))
    BY <1>2, <2>1, SumAgrees
  <2>3. CASE KeyOf[r] # k
    <3>1. SettledOn(k)' = SettledOn(k) /\ spend'[k] = spend[k]
      BY <1>1, <1>4, <2>3 DEF Settles, SettledOn
    <3> QED
      BY <1>1, <2>2, <3>1
  <2>4. CASE KeyOf[r] = k
    <3>1. SettledOn(k)' = SettledOn(k) \union {r} /\ r \notin SettledOn(k)
      BY <1>1, <1>4, <2>4 DEF Settles, SettledOn
    <3>2. spend'[k] = spend[k] + cost /\ amount'[r] = cost /\ cost \in Nat
      BY <1>1, <1>4, <2>4, BudgetAssumption DEF Settles
    <3>3. \A q \in SettledOn(k) \union {r} : amount'[q] \in Int
      BY <1>2, <2>1, <3>2
    <3>4. SumOf(amount', SettledOn(k) \union {r}) = cost + SumOf(amount', SettledOn(k))
      BY <1>2, <3>1, <3>2, <3>3, SumAdd
    <3>5. SumOf(amount', SettledOn(k)') = cost + spend[k]
      BY <1>1, <2>2, <3>1, <3>4
    <3> QED
      BY <1>1, <3>2, <3>5
  <2> QED
    BY <2>3, <2>4
<1> QED
  BY <1>3, <1>4, LedgerEffect

(* Every settled reservation is charged exactly once: durable spend is the  *)
(* sum of the settled amounts, whatever is repeated, crashes or fails.      *)
THEOREM SpendAddsUp == Spec => []SpendIsLedger
<1>1. Init => SpendIsLedger
  <2>1. ASSUME Init, NEW k \in Keys PROVE spend[k] = 0 /\ SettledOn(k) = {}
    BY <2>1 DEF Init, SettledOn
  <2> QED
    BY <2>1, SumEmpty DEF SpendIsLedger
<1> QED
  BY <1>1, Invariance, SpendStep, PTL DEF Spec

(* Every reservation is given back exactly once: the reserved counter of a  *)
(* key is the sum of its reservations, whoever reconciles or releases them  *)
(* and however often Redis is lost.                                         *)
THEOREM ReservedAddsUp == Spec => []ReservedIsHeld
<1>1. Init => ReservedIsHeld
  <2>1. ASSUME Init, NEW k \in Keys PROVE reserved[k] = 0 /\ HeldOn(k) = {}
    BY <2>1 DEF Init, HeldOn
  <2> QED
    BY <2>1, SumEmpty DEF ReservedIsHeld
<1> QED
  BY <1>1, Invariance, ReservedStep, PTL DEF Spec
=============================================================================
