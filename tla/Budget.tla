------------------------------- MODULE Budget -------------------------------
(***************************************************************************)
(* Spend budgets: mixapi/runtime/budget.py over mixapi/repositories/       *)
(* budgets.py and usage.py.                                                *)
(*                                                                         *)
(* A request reserves its estimated cost in Redis before it is dispatched. *)
(* When the upstream cost is known it is settled in PostgreSQL (spend and  *)
(* an outbox row in one transaction), and the settlement is then carried   *)
(* to Redis: the reservation is freed and the counter of actual spend is   *)
(* overwritten with the durable one.  A background worker does that second *)
(* half for every outbox row a request left behind.                        *)
(*                                                                         *)
(* One step is one Lua script, one SQL transaction or one SQL read.  A     *)
(* request stands for its reservation id (a fresh UUID).  Amounts are in   *)
(* the units of _units, so its flooring is not modelled.                   *)
(***************************************************************************)
EXTENDS Integers, FiniteSets, Sums

CONSTANTS
    Keys,         \* API keys
    Requests,     \* requests, each with the one reservation it makes
    Workers,      \* budget-reconciliation workers, one per instance
    KeyOf,        \* the API key of a request
    Estimates,    \* estimated costs of a request
    Costs,        \* costs it may turn out to have
    Limits,       \* effective limits a request may run under
    NoLimit,      \* effective_budget_limit returned None
    Absent,       \* a Redis key that does not exist
    NoWorker,     \* claimed_by IS NULL
    NoRequest,    \* the worker has no row in hand
    MaxFaults     \* bound on crashes, failed calls, early lease expiries, Redis losses

ASSUME BudgetAssumption ==
    /\ IsFiniteSet(Requests)
    /\ KeyOf \in [Requests -> Keys]
    /\ Estimates \subseteq Nat
    /\ Costs \subseteq Nat
    /\ Limits \subseteq Nat \union {NoLimit}
    /\ NoLimit \notin Nat
    /\ Absent \notin Nat
    /\ NoWorker \notin Workers
    /\ NoRequest \notin Requests
    /\ MaxFaults \in Nat

VARIABLES
    (* Redis *)
    actual,       \* budget:{key}:actual
    reserved,     \* budget:{key}:reserved
    reservation,  \* budget:{key}:reservation:{id}
    reconciled,   \* the budget:{key}:reconciled:{id} markers that exist
    writer,       \* history: for whose reservation the counter was written last
    (* PostgreSQL *)
    spend,        \* budget_spend.actual_spend_usd
    row,          \* the state of the request's budget_reconciliation_outbox row
    amount,       \* the row's amount_usd
    after,        \* history: what spend was once the row's settlement committed
    owner,        \* the row's claimed_by
    lease,        \* the row's claim_expires_at: "none" (NULL), "live" or "expired"
    (* the request *)
    phase,        \* how far the request is in its calls of the service
    ask,          \* its estimated cost and effective limit
    seen,         \* the durable spend it read last
    repeated,     \* the requests whose settlement was called twice
    (* the workers *)
    todo,         \* rows of the claimed batch not yet handled
    current,      \* the row in hand
    fetched,      \* the durable spend read for it
    step,         \* what the worker does next with it
    faults        \* how many faults there have been

redisVars  == <<actual, reserved, reservation, reconciled, writer>>
rowVars    == <<row, amount, after, owner, lease>>
callVars   == <<phase, ask, seen, repeated>>
workerVars == <<todo, current, fetched, step>>
vars == <<redisVars, spend, rowVars, callVars, workerVars, faults>>

Phases == {"idle", "reserve", "denied", "held", "settled", "finish", "mark",
           "done", "freed", "dead"}
RowStates == {"none", "pending", "processed"}
Tracked(r) == ask[r].limit # NoLimit

RedisTypeOK ==
    /\ actual \in [Keys -> Nat \union {Absent}]
    /\ reserved \in [Keys -> Int]
    /\ reservation \in [Requests -> Nat \union {Absent}]
    /\ reconciled \subseteq Requests
    /\ writer \in [Keys -> Requests \union {NoRequest}]

LedgerTypeOK ==
    /\ spend \in [Keys -> Nat]
    /\ row \in [Requests -> RowStates]
    /\ amount \in [Requests -> Nat]
    /\ after \in [Requests -> Nat]
    /\ owner \in [Requests -> Workers \union {NoWorker}]
    /\ lease \in [Requests -> {"none", "live", "expired"}]

CallTypeOK ==
    /\ phase \in [Requests -> Phases]
    /\ ask \in [Requests -> [cost : Nat, limit : Nat \union {NoLimit}]]
    /\ seen \in [Requests -> Nat]
    /\ repeated \subseteq Requests

WorkerTypeOK ==
    /\ todo \in [Workers -> SUBSET Requests]
    /\ current \in [Workers -> Requests \union {NoRequest}]
    /\ fetched \in [Workers -> Nat]
    /\ step \in [Workers -> {"next", "write", "complete"}]
    /\ \A w \in Workers : step[w] = "next" <=> current[w] = NoRequest

TypeOK ==
    /\ RedisTypeOK
    /\ LedgerTypeOK
    /\ CallTypeOK
    /\ WorkerTypeOK
    /\ faults \in Nat

Init ==
    /\ actual = [k \in Keys |-> Absent]
    /\ reserved = [k \in Keys |-> 0]
    /\ reservation = [r \in Requests |-> Absent]
    /\ reconciled = {}
    /\ writer = [k \in Keys |-> NoRequest]
    /\ spend = [k \in Keys |-> 0]
    /\ row = [r \in Requests |-> "none"]
    /\ amount = [r \in Requests |-> 0]
    /\ after = [r \in Requests |-> 0]
    /\ owner = [r \in Requests |-> NoWorker]
    /\ lease = [r \in Requests |-> "none"]
    /\ phase = [r \in Requests |-> "idle"]
    /\ ask = [r \in Requests |-> [cost |-> 0, limit |-> NoLimit]]
    /\ seen = [r \in Requests |-> 0]
    /\ repeated = {}
    /\ todo = [w \in Workers |-> {}]
    /\ current = [w \in Workers |-> NoRequest]
    /\ fetched = [w \in Workers |-> 0]
    /\ step = [w \in Workers |-> "next"]
    /\ faults = 0

-----------------------------------------------------------------------------
(* The Lua scripts.                                                        *)

\* _RESERVE: SETNX the counter, refuse past the limit, else hold the amount.
ReserveScript(r, durable) ==
    LET k == KeyOf[r]
        known == IF actual[k] = Absent THEN durable ELSE actual[k]
        accepted == known + reserved[k] + ask[r].cost <= ask[r].limit
    IN  /\ actual' = [actual EXCEPT ![k] = known]
        /\ writer' = [writer EXCEPT ![k] = IF actual[k] = Absent THEN r ELSE @]
        /\ IF accepted
           THEN /\ reserved' = [reserved EXCEPT ![k] = @ + ask[r].cost]
                /\ reservation' = [reservation EXCEPT ![r] = ask[r].cost]
           ELSE UNCHANGED <<reserved, reservation>>
        /\ phase' = [phase EXCEPT ![r] = IF accepted THEN "held" ELSE "denied"]
        /\ UNCHANGED reconciled

\* The DECRBY and DEL that _RECONCILE and _RELEASE share.
FreeReservation(r) ==
    IF reservation[r] = Absent
    THEN UNCHANGED <<reserved, reservation>>
    ELSE /\ reserved' = [reserved EXCEPT ![KeyOf[r]] = @ - reservation[r]]
         /\ reservation' = [reservation EXCEPT ![r] = Absent]

-----------------------------------------------------------------------------
(* Mutated forms of definitions below, each a plausible bug that one of the *)
(* properties must catch; nothing refers to them.                           *)

ReconcileAddsCharge(r, durable) ==
    IF r \in reconciled
    THEN UNCHANGED redisVars
    ELSE /\ FreeReservation(r)
         /\ actual' = [actual EXCEPT ![KeyOf[r]] = durable + amount[r]]
         /\ writer' = [writer EXCEPT ![KeyOf[r]] = r]
         /\ reconciled' = reconciled \union {r}

ReleaseKeepsReservation(r) ==
    /\ reservation[r] # Absent
    /\ reserved' = [reserved EXCEPT ![KeyOf[r]] = @ - reservation[r]]
    /\ UNCHANGED <<actual, reservation, reconciled, writer>>

SettleAgain(r, cost) ==
    /\ phase[r] = "held"
    /\ phase' = [phase EXCEPT ![r] = "settled"]
    /\ spend' = [spend EXCEPT ![KeyOf[r]] = @ + cost]
    /\ row' = [row EXCEPT ![r] = "pending"]
    /\ amount' = [amount EXCEPT ![r] = cost]
    /\ after' = [after EXCEPT ![r] = spend[KeyOf[r]] + cost]
    /\ UNCHANGED <<redisVars, owner, lease, ask, seen, repeated, workerVars, faults>>

SkipRedis(r) ==
    /\ phase[r] = "settled"
    /\ phase' = [phase EXCEPT ![r] = "mark"]
    /\ UNCHANGED <<redisVars, spend, rowVars, ask, seen, repeated, workerVars, faults>>

ReadNothing(r) ==
    /\ phase[r] = "settled"
    /\ phase' = [phase EXCEPT ![r] = IF Tracked(r) THEN "finish" ELSE "mark"]
    /\ UNCHANGED <<redisVars, spend, rowVars, ask, seen, repeated, workerVars, faults>>

ClaimableNeverClaimed(r) == row[r] = "pending" /\ lease[r] = "none"

-----------------------------------------------------------------------------
\* _RECONCILE: once per marker, free the reservation and overwrite the counter.
ReconcileScript(r, durable) ==
    IF r \in reconciled
    THEN UNCHANGED redisVars
    ELSE /\ FreeReservation(r)
         /\ actual' = [actual EXCEPT ![KeyOf[r]] = durable]
         /\ writer' = [writer EXCEPT ![KeyOf[r]] = r]
         /\ reconciled' = reconciled \union {r}

ReleaseScript(r) == FreeReservation(r) /\ UNCHANGED <<actual, reconciled, writer>>

-----------------------------------------------------------------------------
(* The calls of a request.                                                 *)

\* reserve: no limit, no reservation; otherwise the durable spend is read first.
StartReserve(r, cost, limit) ==
    /\ phase[r] = "idle"
    /\ ask' = [ask EXCEPT ![r] = [cost |-> cost, limit |-> limit]]
    /\ IF limit = NoLimit
       THEN phase' = [phase EXCEPT ![r] = "held"] /\ UNCHANGED seen
       ELSE /\ phase' = [phase EXCEPT ![r] = "reserve"]
            /\ seen' = [seen EXCEPT ![r] = spend[KeyOf[r]]]
    /\ UNCHANGED <<redisVars, spend, rowVars, repeated, workerVars, faults>>

\* reserve: the script, with the spend read before it.
RunReserve(r) ==
    /\ phase[r] = "reserve"
    /\ ReserveScript(r, seen[r])
    /\ seen' = [seen EXCEPT ![r] = 0]
    /\ UNCHANGED <<spend, rowVars, ask, repeated, workerVars, faults>>

\* release: no upstream cost was incurred.
Release(r) ==
    /\ phase[r] = "held"
    /\ row[r] = "none"
    /\ IF Tracked(r) THEN ReleaseScript(r) ELSE UNCHANGED redisVars
    /\ phase' = [phase EXCEPT ![r] = "freed"]
    /\ UNCHANGED <<spend, rowVars, ask, seen, repeated, workerVars, faults>>

\* settle_reservation: one transaction, a no-op when the outbox row exists.
Settle(r, cost) ==
    /\ phase[r] = "held"
    /\ phase' = [phase EXCEPT ![r] = "settled"]
    /\ IF row[r] # "none"
       THEN UNCHANGED <<spend, row, amount, after>>
       ELSE /\ spend' = [spend EXCEPT ![KeyOf[r]] = @ + cost]
            /\ row' = [row EXCEPT ![r] = "pending"]
            /\ amount' = [amount EXCEPT ![r] = cost]
            /\ after' = [after EXCEPT ![r] = spend[KeyOf[r]] + cost]
    /\ UNCHANGED <<redisVars, owner, lease, ask, seen, repeated, workerVars, faults>>

\* _finish_redis_reconciliation: read the durable spend of a tracked reservation.
ReadActual(r) ==
    /\ phase[r] = "settled"
    /\ IF Tracked(r)
       THEN /\ seen' = [seen EXCEPT ![r] = spend[KeyOf[r]]]
            /\ phase' = [phase EXCEPT ![r] = "finish"]
       ELSE phase' = [phase EXCEPT ![r] = "mark"] /\ UNCHANGED seen
    /\ UNCHANGED <<redisVars, spend, rowVars, ask, repeated, workerVars, faults>>

\* _finish_redis_reconciliation: the script, with what was read.
RunReconcile(r) ==
    /\ phase[r] = "finish"
    /\ ReconcileScript(r, seen[r])
    /\ phase' = [phase EXCEPT ![r] = "mark"]
    /\ seen' = [seen EXCEPT ![r] = 0]
    /\ UNCHANGED <<spend, rowVars, ask, repeated, workerVars, faults>>

\* mark_reconciliation_processed: whoever holds the claim.
MarkProcessed(r) ==
    /\ phase[r] = "mark"
    /\ phase' = [phase EXCEPT ![r] = "done"]
    /\ IF row[r] = "pending"
       THEN /\ row' = [row EXCEPT ![r] = "processed"]
            /\ lease' = [lease EXCEPT ![r] = "none"]
       ELSE UNCHANGED <<row, lease>>
    /\ UNCHANGED <<redisVars, spend, amount, after, owner, ask, seen, repeated,
                   workerVars, faults>>

\* The settlement of one reservation called a second time, by any instance.
RepeatSettle(r) ==
    /\ phase[r] \in {"done", "dead"}
    /\ row[r] # "none"
    /\ r \notin repeated
    /\ repeated' = repeated \union {r}
    /\ phase' = [phase EXCEPT ![r] = "held"]
    /\ UNCHANGED <<redisVars, spend, rowVars, ask, seen, workerVars, faults>>

-----------------------------------------------------------------------------
(* The worker: reconcile_pending, one claimed batch at a time.             *)

Claimable(r) == row[r] = "pending" /\ lease[r] # "live"

\* claim_reconciliations; the batch limit of 100 is never reached here.
Claim(w) ==
    LET batch == {r \in Requests : Claimable(r)}
    IN  /\ todo[w] = {}
        /\ current[w] = NoRequest
        /\ batch # {}
        /\ owner' = [r \in Requests |-> IF r \in batch THEN w ELSE owner[r]]
        /\ lease' = [r \in Requests |-> IF r \in batch THEN "live" ELSE lease[r]]
        /\ todo' = [todo EXCEPT ![w] = batch]
        /\ UNCHANGED <<redisVars, spend, row, amount, after, callVars, current, fetched,
                       step, faults>>

WorkerRead(w, r) ==
    /\ current[w] = NoRequest
    /\ r \in todo[w]
    /\ current' = [current EXCEPT ![w] = r]
    /\ todo' = [todo EXCEPT ![w] = @ \ {r}]
    /\ fetched' = [fetched EXCEPT ![w] = spend[KeyOf[r]]]
    /\ step' = [step EXCEPT ![w] = "write"]
    /\ UNCHANGED <<redisVars, spend, rowVars, callVars, faults>>

WorkerReconcile(w) ==
    /\ step[w] = "write"
    /\ ReconcileScript(current[w], fetched[w])
    /\ step' = [step EXCEPT ![w] = "complete"]
    /\ fetched' = [fetched EXCEPT ![w] = 0]
    /\ UNCHANGED <<spend, rowVars, callVars, todo, current, faults>>

\* complete_reconciliation: only while the claim is this worker's and unexpired.
WorkerComplete(w) ==
    LET r == current[w]
    IN  /\ step[w] = "complete"
        /\ IF row[r] = "pending" /\ owner[r] = w /\ lease[r] = "live"
           THEN /\ row' = [row EXCEPT ![r] = "processed"]
                /\ lease' = [lease EXCEPT ![r] = "none"]
           ELSE UNCHANGED <<row, lease>>
        /\ current' = [current EXCEPT ![w] = NoRequest]
        /\ step' = [step EXCEPT ![w] = "next"]
        /\ UNCHANGED <<redisVars, spend, amount, after, owner, callVars, todo, fetched, faults>>

\* The worker drops what it holds of its batch.
DropBatch(w) ==
    /\ todo' = [todo EXCEPT ![w] = {}]
    /\ current' = [current EXCEPT ![w] = NoRequest]
    /\ step' = [step EXCEPT ![w] = "next"]
    /\ fetched' = [fetched EXCEPT ![w] = 0]

-----------------------------------------------------------------------------
(* Faults.                                                                 *)

Fault == faults < MaxFaults /\ faults' = faults + 1

\* A failed read, script or completion: the row in hand is released and the
\* error ends the batch, whose other rows keep their claims.
WorkerFails(w) ==
    LET r == current[w]
    IN  /\ Fault
        /\ r # NoRequest
        /\ IF row[r] = "pending" /\ owner[r] = w
           THEN /\ owner' = [owner EXCEPT ![r] = NoWorker]
                /\ lease' = [lease EXCEPT ![r] = "none"]
           ELSE UNCHANGED <<owner, lease>>
        /\ DropBatch(w)
        /\ UNCHANGED <<redisVars, spend, row, amount, after, callVars>>

WorkerCrashes(w) ==
    /\ Fault
    /\ todo[w] # {} \/ current[w] # NoRequest
    /\ DropBatch(w)
    /\ UNCHANGED <<redisVars, spend, rowVars, callVars>>

\* The request's process dies, or a call raises an error nothing here handles.
RequestDies(r) ==
    /\ Fault
    /\ phase[r] \in {"reserve", "held", "settled", "finish", "mark"}
    /\ phase' = [phase EXCEPT ![r] = "dead"]
    /\ seen' = [seen EXCEPT ![r] = 0]
    /\ UNCHANGED <<redisVars, spend, rowVars, ask, repeated, workerVars>>

Working(r) == \E w \in Workers : r \in todo[w] \/ current[w] = r

\* A claim runs out: of itself once its worker is gone, as a fault before.
LeaseExpires(r) ==
    /\ row[r] = "pending"
    /\ lease[r] = "live"
    /\ IF Working(r) THEN Fault ELSE UNCHANGED faults
    /\ lease' = [lease EXCEPT ![r] = "expired"]
    /\ UNCHANGED <<redisVars, spend, row, amount, after, owner, callVars, workerVars>>

\* reconciliation_ttl_seconds (a week) after _RECONCILE, when whoever ran the
\* script has long finished.
MarkerExpires(r) ==
    /\ r \in reconciled
    /\ phase[r] \in {"done", "dead"}
    /\ ~Working(r)
    /\ reconciled' = reconciled \ {r}
    /\ UNCHANGED <<actual, reserved, reservation, writer, spend, rowVars, callVars, workerVars,
                   faults>>

\* Redis is flushed or restored empty.
RedisLoss ==
    /\ Fault
    /\ actual' = [k \in Keys |-> Absent]
    /\ reserved' = [k \in Keys |-> 0]
    /\ reservation' = [r \in Requests |-> Absent]
    /\ reconciled' = {}
    /\ writer' = [k \in Keys |-> NoRequest]
    /\ UNCHANGED <<spend, rowVars, callVars, workerVars>>

-----------------------------------------------------------------------------
RequestStep(r) ==
    \/ \E cost \in Estimates, limit \in Limits : StartReserve(r, cost, limit)
    \/ RunReserve(r)
    \/ Release(r)
    \/ \E cost \in Costs : Settle(r, cost)
    \/ ReadActual(r)
    \/ RunReconcile(r)
    \/ MarkProcessed(r)
    \/ RepeatSettle(r)
    \/ RequestDies(r)
    \/ LeaseExpires(r)
    \/ MarkerExpires(r)

WorkerStep(w) ==
    \/ Claim(w)
    \/ \E r \in Requests : WorkerRead(w, r)
    \/ WorkerReconcile(w)
    \/ WorkerComplete(w)
    \/ WorkerFails(w)
    \/ WorkerCrashes(w)

Next ==
    \/ \E r \in Requests : RequestStep(r)
    \/ \E w \in Workers : WorkerStep(w)
    \/ RedisLoss

Spec == Init /\ [][Next]_vars

\* ManagedWorkers runs the reconciliation loop for as long as the process lives
\* and PostgreSQL time passes, so a lease whose worker is gone does expire.
Fairness ==
    /\ \A w \in Workers : /\ WF_vars(Claim(w))
                          /\ WF_vars(\E r \in Requests : WorkerRead(w, r))
                          /\ WF_vars(WorkerReconcile(w))
                          /\ WF_vars(WorkerComplete(w))
    /\ \A r \in Requests : WF_vars(LeaseExpires(r) /\ ~Working(r))

FairSpec == Spec /\ Fairness

-----------------------------------------------------------------------------
(* What the service promises.                                              *)

SettledOn(k) == {r \in Requests : KeyOf[r] = k /\ row[r] # "none"}
HeldOn(k) == {r \in Requests : KeyOf[r] = k /\ reservation[r] # Absent}

\* Every settled reservation is charged once, whoever settles it again and
\* whatever crashes: durable spend is the sum of the outbox rows' amounts
\* (settle_reservation).
SpendIsLedger == \A k \in Keys : spend[k] = SumOf(amount, SettledOn(k))

\* The reserved counter of a key is the sum of the reservations that exist:
\* each is given back exactly once though the request, a second caller and
\* several workers may all reconcile it (_RESERVE, _RECONCILE, _RELEASE).
ReservedIsHeld == \A k \in Keys : reserved[k] = SumOf(reservation, HeldOn(k))

\* Redis never reports more spend than PostgreSQL has settled, however late a
\* durable read is written: no request is denied for spend that did not occur.
CounterNeverAhead == \A k \in Keys : actual[k] # Absent => actual[k] <= spend[k]

\* An outbox row is closed only once its reservation is gone from Redis, so
\* nothing is left that no worker will come back for.
ProcessedIsFreed == \A r \in Requests : row[r] = "processed" => reservation[r] = Absent

\* A charge that is settled and no longer reserved, yet not in the counter.
Missing(r) ==
    /\ Tracked(r)
    /\ row[r] # "none"
    /\ reservation[r] = Absent
    /\ actual[KeyOf[r]] # Absent
    /\ actual[KeyOf[r]] < after[r]

\* _finish_redis_reconciliation and reconcile_pending read the durable spend and
\* write it in two calls, so a slow caller can set the counter back below
\* charges that were in it.  Nothing else makes a charge invisible to _RESERVE:
\* where one is missing, another reservation's caller wrote the counter last,
\* with a spend it read before this charge was settled.  No reservation's own
\* reconciliation leaves its charge out, whichever process runs it and however
\* often, and no crash, expired claim or loss of Redis does.
MissingOnlyByOverlap == \A r \in Requests : Missing(r) => writer[KeyOf[r]] # r

\* The implemented promise of SpendLedger: only a settlement charges, it charges
\* once, and what was denied or released is never charged.
Fate(r) ==
    IF row[r] # "none" THEN "charged"
    ELSE IF phase[r] \in {"denied", "freed"} THEN "waived"
    ELSE "open"
Ledger == INSTANCE SpendLedger WITH bill <- spend, fate <- [r \in Requests |-> Fate(r)]
LedgerSpec == Ledger!Spec

\* Every settlement a request left half done is carried to Redis by some worker.
SettlementsAreCarried == \A r \in Requests : row[r] = "pending" ~> row[r] = "processed"

=============================================================================
