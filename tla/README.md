# Specifications of MixAPI

MixAPI is a gateway in front of language-model providers. Several instances of one
process serve public requests and an administration API over two stores: PostgreSQL is
the durable truth, Redis the runtime view that requests use. These modules specify the
protocols between the instances, the background workers and the two stores.

## Inventory

| Component | Code (under `mixapi/`) | State | Hard behaviour |
|---|---|---|---|
| Spend budgets | `runtime/budget.py`, `repositories/budgets.py` | Redis: actual, reserved, one key per reservation, reconciled markers. PostgreSQL: `budget_spend`, `budget_reconciliation_outbox` | two stores and three kinds of actors carry one settlement; stale reads; claims that run out; crashes between the stores |
| Usage ledger | `repositories/usage.py` | `usage_events`, `usage_write_intents` | one transaction with the settlement; expiry of intents races late requests |
| Configuration publication | `publication.py`, `repositories/configuration.py`, `runtime/snapshots.py` | PostgreSQL: routing tables, `configuration_versions`, `configuration_outbox`. Redis: payload and manifest per version, active pointer, rebuild lock | several publishers; commit order against version order; retries after the tables changed; retention; flushes of Redis |
| Background workers | `workers.py` | claims | loops that repeat after errors; what a dropped batch leaves |
| Bootstrap, readiness | `bootstrap.py` | none of its own | publishes without a claim; reads the pointer, then the snapshot |
| Request handling | `app.py` | per-request progress | fallback over candidates, corrective retries, streams that break, clean-up on every path |
| Quotas, slots | `runtime/quota.py` | Redis counters and token reservations | every slot and reservation given back exactly once |
| Circuits | `runtime/circuits.py` | Redis hash per provider and model | late successes and failures of concurrent requests |
| Idempotency | `runtime/idempotency.py` | Redis record per key | two requests with one key in flight; deaths between the settlement and the record |
| Sticky sessions | `runtime/sessions.py` | Redis pin per session | a pin that moves or expires while a request goes by the one it read |
| Routing | `routing.py`, `routing_catalog.py` | none: a pure function of the snapshot | names, aliases, lists and pins that have to mean the same candidate |
| Authentication cache | `auth_cache.py`, `auth.py` | Redis entries, an index of them for each tenant | a fill racing a revocation; key and policy read apart; index and entries with a time to live each |
| Control plane | `repositories/control_plane.py` | key and policy rows, audit events | the entry dropped before the commit; the first policy of a tenant has no row to lock |
| Administration API | `admin/*.py`, `repositories/configuration.py` | routing tables | guards read before the transaction that writes; patches of two transactions; deletions that look at nobody else |
| Legacy migration | `migration/*.py` | run ledger, checkpoints, advisory lock, imported rows | deaths between rows and checkpoint; a lost lock; rows that expire or change before the import is resumed |
| Provider adapters | `adapters.py` | per stream: the open response, the counts a reader keeps | a stream that breaks at any frame; four notions of an end; three places that close it |
| Route decisions, codecs, settings, observability, contract | the rest | records nothing else depends on | little: pure functions and single calls |

How they interact: a request reads the configuration the publisher activated, filters the
candidates by their circuits, reserves budget and quotas, records an intent, dispatches, and
settles. The settlement is the usage ledger's transaction; budgets and their worker carry it
to Redis. An administrator's mutation reaches requests through the outbox, the publisher and
the active pointer; a seed of `bootstrap.py` is a series of such mutations, and the legacy
import makes one of its own. Before a request is planned its key is resolved through the
authentication cache, which the control plane invalidates, its idempotency record is looked for
and the pin of its session is read; after its settlement the record is stored. All instances share the two stores and nothing else, and every call of a
store is a point where another instance, a crash or the loss of Redis can come in between.

What makes each component correct:

- *budgets*: every settlement charges once; Redis never reports more than PostgreSQL; each
  reservation is given back exactly once, by a caller that has written a spend with its charge;
  only an older spend that another caller writes later hides a charge; a settlement left half
  done is carried on.
- *usage ledger*: usage, spend, outbox row and intent change together.
- *publication*: the pointer names a complete and valid snapshot; PostgreSQL calls nothing
  published that is not activated, and nothing committed in order that is not served; versions
  never go back; every mutation is decided; a flush of
  Redis is repaired.
- *request handling, quotas, circuits*: slot limits hold across instances, and token quotas up to what
  providers report above their estimates; a reservation covers every dispatch that may still be
  answered; a finished request is paid for or has given everything back.
- *authentication cache, control plane*: what is cached is what the rows say, except where a
  fill overlapped a change; a deletion finds every entry but those such a fill left; nothing is
  granted that was never permitted; a revoked key stops being accepted; no change is lost.
- *idempotency*: the answer of a key is for the request it was asked with, and is billed again
  only for the reasons the property names: requests that overlap, a failure that was charged, a
  death before the record, a record that ran out.
- *sticky sessions, routing*: the candidate fits the request, its snapshot, its lists and pins.
- *administration*: an active model keeps an active candidate (which the code ensures only for
  requests that do not overlap); no patch writes over another; what is loaded for publication is
  whole.
- *streams*: the client gets the texts of one candidate in order, is told of completion only when
  it has all of them, is billed for what it got; upstream is closed before that, on every path.
- *migration*: a restarted import neither skips nor repeats a row, and makes no second version.

`PROJECT.json` lists every component with its status, and every hazard at its line with the
properties that watch it.

## Modules

| Module | Role |
|---|---|
| `Budget` | Redis budget counters, settlement, outbox, reconciliation workers, and their faults |
| `SpendLedger` | what budget accounting promises: each request charged once or waived |
| `BudgetProofs` | theorems about `Budget`, and its refinement of `SpendLedger` |
| `Sums`, `SumsProofs` | the sum of a function over a set, and the theorems about it that the proofs of counters cite |
| `Publication` | versions, outbox claims, publish, rebuild, retention, the pointer, readers |
| `RoutingConfiguration` | what publication promises: valid states served under growing versions |
| `ConfigurationProofs` | theorems about `Publication`, its refinement of `RoutingConfiguration`, and theorems about `Administration` |
| `Gateway` | one request from plan to final accounting, over quotas, slots, circuits and intents |
| `GatewayProofs` | theorems about `Gateway` |
| `Access` | resolving a key through cache and tables, and the administration of keys and policies |
| `AccessProofs` | theorems about `Access` |
| `Streams` | one streamed response from the first candidate to the last event: readers, `ProviderStream`, relay |
| `StreamsProofs` | theorems about `Streams` |
| `Routing` | planning a route, as operators on a snapshot |
| `Admission` | what surrounds a request's dispatch: replay, session pin, plan (`Routing`), settlement, record |
| `AdmissionProofs` | theorems about `Admission` with `Routing` |
| `Administration` | mutations of the routing tables by endpoints and seeds, read by read |
| `Migration` | the resumable import of a legacy installation |
| `MigrationProofs` | theorems about `Migration` |
| `MCBudget`, `MCPublication`, `MCGateway`, `MCAccess`, `MCAdmission`, `MCAdministration`, `MCMigration`, `MCStreams` | constants and symmetry of the TLC instances |

A step is one atomic operation of a store: a Lua script, an SQL transaction, one read, one
upstream call. What a process keeps between two steps (a spend it read, the rows it claimed, a
loaded configuration) is a variable of its own, so a value can be stale when used. Definitions
under "Mutated forms", or with a comment that says "Mutant", are variants of the definitions
below them that `PROJECT.json` uses as mutants; nothing else refers to them.

The modules meet where one takes another's result as given. `Admission` runs `Routing` inside
its requests and leaves budget, quotas and circuits between `Plan` and `Settle` to `Gateway`;
`Gateway` takes a reservation of `Budget` as one step. `Publication` takes each mutation as a
token and the accepted table contents as the constant `ValidTables`; `Administration` has the
contents, and its `PublicationCode` is the validation that decides between them. A stream is one step of `Gateway`
that delivers, breaks or ends; `Streams` is what happens inside it.

### Budget

| Code | Actions |
|---|---|
| `RedisBudgetService.reserve` | `StartReserve` (durable read, or untracked), `RunReserve` (`_RESERVE`) |
| `release` | `Release` (`_RELEASE`) |
| `settle_reservation` | `Settle`: usage, spend, outbox row; a repeated call finds the row and charges nothing |
| `reconcile_with_usage` | `Settle`, then `ReadActual`, `RunReconcile` (`_RECONCILE`), `MarkProcessed`; `RepeatSettle` calls it again |
| `reconcile_pending` | `Claim`, `WorkerRead`, `WorkerReconcile`, `WorkerComplete`, `WorkerFails` |
| deaths, time, Redis | `RequestDies`, `WorkerCrashes`, `LeaseExpires`, `MarkerExpires`, `RedisLoss` |

`after` and `writer` are history variables: the spend that included a row's charge when it was
settled, and the reservation for which the counter was written last. They let `Missing` say that a
charge is neither reserved nor in the counter, and `MissingOnlyByOverlap` whose doing that was. The
code does let it happen: one caller reads the spend 2, another settles, reads 4, writes 4 and gives
its reservation back, then the first writes 2.

### Publication

| Code | Actions |
|---|---|
| `_record_mutation` | `BeginMutation` takes the number, `CommitMutation` makes it visible |
| `ConfigurationOutboxWorker.run_once` | `ClaimOutbox`, `TakeEvent`, then the steps of `publish`, `ReleaseOutbox` |
| `ConfigurationPublisher.publish` | `Load`, `WritePending`, `ComparePayload`, `MarkReady`, `Activate`, `Retain`, `MarkPublished` or `MarkFailed` |
| `rebuild` | `Lock`, `ReadLatest`, `Inspect`, the shared steps, `Unlock` |
| `BootstrapService.apply`, import | `PublishDirectly`: `publish` without a claim, for their versions in order |
| `require_snapshot` | `ReadPointer`, `LoadSnapshot` |
| deaths, time, Redis | `Crash`, `CallFails`, `LeaseExpires`, `LockExpires`, `KeyExpires`, `RedisLoss` |

A snapshot is the set of mutations it contains, and that set stands for its checksum too. An
outbox row is processed exactly when its version is no longer pending, so it keeps only its
claim. `late` is a history variable: the versions that committed after a higher one.

### Gateway

| Code | Actions |
|---|---|
| routing and `_circuit_eligible_candidates` | `Plan`: any offer, any ranking, open circuits left out |
| `_reserve_budget`, `_reserve_quotas`, `begin_intent` | `ReserveBudget`, `ReserveTokens`, `ReserveRequest`, `BeginIntent` |
| the three `_dispatch_*_with_fallback` loops | `ReserveSlot`, `ReserveCall`, `Answered`, `Failed`, `ReleaseSlot`, `Exhausted` |
| streams | `StartStream`, `LeaveUnstarted`, `EndStream`, `ReportStream` |
| `_settle_accounting`, `reconcile_tokens` | `Settle`, `ReconcileTokens` |
| clean-up of the error paths | `GiveBack`, in the order the path has |
| faults and time | `IntentFails`, `Breaks`, `Dies`, `ExpireIntent`, `CircuitElapses`, `CircuitExpires`, `SlotsExpire`, `RedisLoss` |

Abstractions: all requests belong to one API key; a candidate stands for its connection, its
model and their circuit. The unit of tokens is what `_estimate_request_tokens` allows for one
dispatch; `Settle` takes any total of `Reports` as what the providers of a request reported, which
`_RECONCILE_TOKENS` adds unchecked, and the history variable `excess` keeps by how much that passed
the reservations. What `Budget` does for a reservation is one step here. Candidates excluded by the
request's cost limit are left out of the offer. Every request has an id of its own; a client that
sends the same `x-request-id` again, for which `begin_intent` does nothing, is left out. `Failed`
records the failure before the slot is given back, for streams too, where `app.py` (1583, 1594)
does it the other way round.

### Access

| Code | Actions |
|---|---|
| `RedisAuthCache.resolve` | `Get` (with `Hit`), `Evict`, then `LoadKey`, `LoadPolicy` of the loader, `Fill` (the pipeline) |
| `create_api_key` | `CreateKey` |
| `update_api_key`, `revoke_api_key` | `UpdateKey`, `RevokeKey` take the lock and write; `Drop` the entry; `Commit` |
| `_update_tenant_policy` | `ReadPolicy`, `WritePolicy`, `Drop` (SMEMBERS), `Delete` (the pipeline), `Commit` |
| failures, time, Redis | `ResolverFails`, `AdminFails`, `RedisLoss`, `Tick`, `DatePasses` |

`missed`, `past`, `serial` and `ever` are history variables. `missed` is which commits the
resolver's rows have missed since they were read, and goes into the entry with a fill. Changes
have numbers (`serial`); an entry's `past` holds the changes that had deleted the key's entries, or
read the index for it, and were not over when the entry was filled. `ever` is what a key was
permitted.

### Streams

| Code | Actions |
|---|---|
| the readers `_stream_events` of the four adapters | `ReadFrame` (with `OpenAIFrames` ... `OllamaFrames`, `Events`, `Reported`), `ReadEnd` (`AtEnd`), `ReadBreaks` |
| `_dispatch_response_stream_with_fallback` | `Try`, `Open` or `Refused` (`_open_provider_stream`), `Prime` (the constructor of `ProviderStream`), `Blame`, `Exhausted` |
| `_native_response_event_stream` | `Start`, `Relay`, `Proceed`, `Settle`, `Report` |
| the client leaves | `LeaveUnstarted`, or `Leave` and `CloseAgain` |
| `ProviderStream.close`, the wrapper that gives the slot back | `Close` |
| failing stores | `CallFails` |

A frame is what its reader can tell of it: how many texts, which counts of tokens, a declared
end, a fault that the reader catches or one (`AttributeError`) that it does not. A text counts
one token. A report that leaves a count out carries `Omitted`, which the reader makes 0 (`Number`).
Every candidate is taken as limited in slots; other requests show only as refused
slots and quotas. An exception other than `ProviderDispatchError` while a response is opened is the
second way `Refused` ends. A failure of the call that gives a slot back is left out. `read`, `said` and `closed` are history variables: what upstream really sent.

### Routing and Admission

`Routing` follows `plan_route`: `Resolve`, `Canonical`, `MayUse`, `Reasons` with `Accepts`,
`BestCode`, `Orders` (every order the scores leave open; the code breaks ties by a hash of the request id).

| Code | Actions |
|---|---|
| `attach_request_context` | `Begin`: the snapshot the request keeps |
| `replay` | `Replay` |
| `get_connection_id`, `plan_route` | `ReadPin`, `Plan` |
| the dispatch loop | `Answered`, `Failed`; `ChargeFailure` when all candidates failed and one had answered invalid output |
| `set_connection_id`, `_settle_accounting`, `store` | `SetPin`, `Settle`, `Store`, in this order |
| deaths, time, publication | `Die`, `ExpireRecord`, `ExpirePin`, `Publish` |

`bills` counts settlements under a key, those of `ChargeFailure` included, and `excuses` the
reasons there may be more than one; `spoilt` holds the requests a candidate answered with invalid
output. The codes of exhausted routes are one code; what budget and quotas refuse is `Gateway`'s.
`moved` holds the requests whose session's pin changed after they read it.

### Administration

| Code | Actions |
|---|---|
| a request arrives | `Begin` |
| `_references`, `_protect_last`, the activation guard | `Read`, one transaction each |
| `create_*`, `update_*`, `soft_delete_*` of the repository | `CreateProvider` ... `DeleteCandidate`: the row under its lock, with `_record_mutation` |
| a patch with a new credential | `PatchProvider`, then `Rotate` with the `updated_at` of the first half |
| `BootstrapService.apply` | `BeginSeed`, then `SeedRead` and `SeedInsert` or `SeedUpdate` for each row |
| a call that fails, a death | `RequestFails`, between any two transactions |

`raced` is a history variable: the models left without a candidate by a request that another
one overlapped, by a seed that stopped half way, or by one that moved a candidate away. Left out are
refusals by what is no routing state: two connections of one name, two candidates of one
mapping, a field out of its range.

### Migration

| Code | Actions |
|---|---|
| `_apply`, `_start_run` | `TakeLock`, `StartRun` |
| `_migrate_configuration` | `Configure` reads the checkpoint; `InsertConfiguration` is rows, version and checkpoint in one later transaction |
| `_completed_batches`, `_migrate_sql_entity` | `ReadCheckpoint`, `ImportBatch`, `NextEntity` |
| `_migrate_redis_entity`, `_insert_idempotency`, `_insert_circuit` | `BeginBatch`, `ImportRow` (with `SetNX`, `LookUp`, `CompareRow`), `RecordBatch` |
| sequences, publication, reconciliation | `ResetSequences`, `Publish`, `Reconcile`, `EndRun`, `Unlock` |
| deaths, time, the running system | `Crash`, `CallFails`, `LockLost`, `Expire`, `LiveWrite`, `LiveInsert` |

`Publish` has the three ends of `_apply` 711-726: published, refused and the run fails, or refused
and excused by `--allow-disabled-providers`, after which the run goes on with nothing published
(`docs/operations/postgres-redis.md:71`).

## Runs

The number in parentheses is that of the distinct states TLC finds.

| Run | Instance | What it shows |
|---|---|---|
| `budget` | 2 requests of one key, with and without limit, costs 2 against an estimate of 1, 2 workers, 1 fault (1,245,268) | accounting stays exact in both stores; only another settlement's older spend hides a charge; `SpendLedger` is implemented; a settlement left half done is carried to Redis |
| `publication_safety` | 2 mutations, perhaps open at once, 2 outbox workers, a rebuilder, a bootstrap command, retention 1, 1 fault (3,914,409) | the pointer names a ready snapshot; marks follow activation; what did not commit late is served once published; `RoutingConfiguration` is implemented |
| `publication_liveness` | 2 mutations of which the first leaves the tables unfit and the second repairs them, worker, rebuilder, a request, retention 2, 1 fault, 1 flush (131,866) | every mutation is decided; service comes back; no request is given tables that were refused |
| `publication_unordered` | 2 mutation transactions open at once | finding: a published version that nobody serves |
| `gateway_safety` | 2 requests (structured, embedding or stream), c1 with one slot and two calls, c2 unlimited, 5 tokens, reports of 1 or 5, 1 fault, 1 loss (8,570,859) | slot limits hold; the token quota is passed by reports alone; reservations cover answers; ended requests are balanced |
| `gateway_refused` | 2 plain requests, no fault | finding: a slot that nobody holds refuses a request |
| `access` | 1 key, a resolver, 2 administrators, 2 changes, time to live 2, 1 fault (603,726) | only a fill that a change overtook is stale; a deletion misses only what was filled since or lost its place in the index that way; nothing is granted that was never permitted; changes start from the row they replace; a revocation takes hold |
| `admission` | 3 requests out of 5 kinds under one key and one session, 2 snapshots, 1 expiry, 1 death (3,122,351) | replays fit; one bill for each key, but for named reasons; candidates fit; sessions stay |
| `administration` | any two overlapping requests or seeds on every consistent content of 2 connections, 2 models and 2 candidates, 1 failure (2,890,802) | only overlaps and seeds leave an active model without a candidate; no patch writes over another; half a patch stays only after an overlap or a failure; a load is whole |
| `administration_orphans` | the same without failures | finding: two requests that overlap orphan an active model |
| `migration` | 2 migrators with batches of 1 and 2, one of them with `--allow-disabled-providers`, 3 entities, 2 faults, 1 expiry, 1 write of the running system (3,188,071) | with the lock kept, checkpoints claim imported rows only, a completed run is whole and there is one version; the running system's values stay |
| `streams` | every pair of protocols, up to 4 frames of each response, counts 0, 5 and left out against a count of 2 for the input (7,943,060) | the relay is faithful; the bill is of what was reported or relayed; upstream is closed and the slot given back first |

Every property of a passing run has a mutant: the same run with one definition changed the way
a plausible bug would change it, in which TLC finds the property violated.

### Why the bounds are enough

*Budget.* The conflicts are between two carriers of settlements of one key: two requests and
two workers give every pair of them, and cost 2 against an estimate of 1 separates what was
reserved from what is charged. The properties of one key do not depend on others, so there is
one key.

*Publication.* With retention 1 the second version removes the first. A retry, a second worker
or the bootstrap command loads the tables again after the second mutation and meets the first
version with other content. In the run for liveness the first mutation leaves the tables unfit
and the second repairs them, so that the first is refused or, when its worker is late,
published with the repair; with retention 2 its snapshot then expires. `MaxOpen = 2` in the run for
safety lets the mutations commit in either order; the run for liveness keeps them apart.

*Gateway.* One slot makes the second request meet a full connection. Two calls run out after
the fallback of one request. Five tokens hold one structured request's four but not two. A report of
5 is more than any reservation, one of 1 less than a structured request's. The
key may have used any part of its request limit before.

*Access.* Two changes, of the key and of the policy or twice of one of them, and a fill that
overlaps both is the least that tears a read. Two ticks let an entry outlive the index or the
index an entry. Keys share nothing but the policy and the index.

*Admission.* Three requests: one that stores or is charged for a failure, one that overlaps it, one
that comes after. The kinds differ in body, endpoint, key, session and list; the second snapshot disables the
candidate that a session may be pinned to.

*Administration.* The hazards are pairs of requests, and every pair on every content is met.
Two rows of each table are the least at which a candidate can move and a name can clash. A
patch changes one field, a seed has one row of each table. One failure can stop either request
between any two of its transactions.

*Streams.* The second candidate is met with what the first one left behind, in every order of
formats; nothing is kept over two. Four frames hold a report, a text, another report and an end
or a fault after them.

*Migration.* Batches of 1 and 2 over two rows: a resumed import cuts them differently. One
entity of PostgreSQL and one for each way of writing to Redis.

A fault budget of one or two is shared by all kinds of fault, so every fault is met at every
point, and in the liveness run of publication a flush can follow a death. A loss of Redis counters has a
bound of its own because several promises hold only while Redis keeps its data; those say
`losses = 0`. The theorems below hold for any bound.

`CHECK_DEADLOCK FALSE` is stated in every run: when all requests are over and all versions
decided, the system rightly has nothing to do.

### Fairness

*Budget*: `ManagedWorkers` repeats the reconciliation for as long as the process lives and
catches what an iteration raises (`workers.py`), so each worker step is weakly fair; a claim
whose worker is gone expires by PostgreSQL's clock. Nothing is assumed of requests: they may
stop anywhere. *Publication*: outbox and rebuild workers are weakly fair for the same reason;
claims and the rebuild lock run out by the clock. Nothing is assumed of mutations, of the
bootstrap command and of requests. *Access*: a request that began to resolve a key goes on, and Redis counts a
time to live down; administrators are not fair. The other modules are checked for safety only: how often an
operator starts an import again, for one, is nothing the code decides. Faults are never fair.

## Theorems

All are proved for every value of the constants that satisfies the module's `ASSUME`, so for
any number of requests, workers, connections, faults and losses.

`BudgetProofs` (1135 obligations): `TypeCorrect`, `CounterSafe` (Redis never ahead of
PostgreSQL), `ProcessedSafe`, `OnlyOverlapsHide`, `Refinement` of `SpendLedger`, and
the two sums `SpendAddsUp` and `ReservedAddsUp`.
`CounterNeverAhead` is not inductive by itself: a stale value about to be written must be known
not to exceed the spend. `IInv` says for each request and worker, by what it does next, which
of its effects have happened, and puts every value read between the row it serves (`after`)
and the present spend. Since spend only grows, a stale value stays below it; since it was read
after the settlement, it includes the charge. `RequestInv` and `WorkerInv` carry the two halves.
`OnlyOverlapsHide` rests on that and on `WriterInv`: a counter written last for a reservation was
written with a spend read after its settlement, so it was another caller's write that a missing
charge is missing from. The sums are inductive beside `IInv`: a step changes at most one request's row or reservation
(`LedgerEffect`, and the cases of `ReservedStep`), and the counter by as much.

`SumsProofs` (298 obligations): `SumOf` is the fold of the community modules, a recursive
function over the subsets of a set. `SumEmpty`, `SumRemove`, `SumAdd`, `SumChange`, `SumAgrees`
and `SumNat` are what the proofs about counters cite. They are by induction on cardinality in the
form that needs no operator as a parameter: if the facts failed for some subset, the sizes of
such subsets would have a least element (`LeastNatural`).

`GatewayProofs` (1566 obligations), in four parts:

- `TypeCorrect`, one lemma per group of actions, for any `Reports` of the providers.
- `TokensSafe`, `AnswersSafe`, `BalanceSafe` rest on `IInv`, which is `RequestInv` for every
  request and `TokensWithinLimit`, in which `excess` stands for what was reported above the
  reservations. `AccountInv` ties a request's place to what it holds;
  `UndoInv` says that what is held on an error path is still on its list of things to give
  back; `CoverInv` that the tokens reserved cover the answers so far and `Worst`, the most
  that may still be answered: two dispatches for each candidate left for structured output,
  one otherwise. Requests do not disturb each other (`StepIsLocal`), so a step is checked for
  its own request only (`ActorInv`) and for the shared counters (`TokensStep`).
- `ActiveSafe` rests on `SlotsInv`: a limited connection's counter lies between the number of
  requests that will still release it and the limit. Slots may leak, which is a finding, but
  none is released twice, so the limit is never passed. The argument is about cardinalities:
  a step changes the set of holders by at most its own request.
- `TokensAddUp`: the reserved counter is the sum over the requests that hold a reservation
  (`ReservedAddsUp`), the actual one, while Redis keeps its data, the sum of what was reported
  for those that reconciled (`ActualAddsUp`). That a request leaves the first set when it enters the second,
  and enters it once, is what `RequestInv` says of its place.

`AccessProofs` (1483 obligations), in five layers, each of which rests on the ones above it:

- `TypeCorrect`.
- `ChangesKept` rests on `Locks`: the last audit event of a row says what the row is
  (`AuditsKnow`), and whoever holds a row's lock has read it as it is (`KeyLocks`,
  `PolicyLocks`). The lock of a policy binds only those that found a row, which is why the
  property excepts the first policies.
- `OnlyOverlapsAreStale` rests on `Cache`: an entry that no change has overtaken says what the
  rows say, is in its tenant's index, and the index outlives it (`EntriesCurrent`); a resolver's
  rows are current unless `missed` says otherwise; a change about to commit leaves no entry but
  overtaken ones (`ChangesDropped`).
- `OnlyOverlapsAreMissed` rests on `Drops`: an entry outside the index was filled while a
  change of the tenant was between the index and its commit (`IndexKnows`), and what a change
  about to commit leaves was filled since it deleted, or was outside the index for that reason
  (`DropsKnow`).
- `OnlyPermittedIsGranted` rests on `Grants`: what a resolver has read or will have read was
  permitted at some time, unless its two reads were torn.

`AdmissionProofs` (1503 obligations), over any snapshots, requests, expiries and deaths. `Routing` is
proved to accept only what suits (`NothingAgainst`, `ResolvedIsPermitted`), without the order of
the scores.

- `TypeCorrect` and `AllServedAsAsked` rest on `Places`: a request that has begun has a known
  input and a snapshot that stays, and every candidate of its route fits them.
- `AllAnswersFit` rests on `Answers`: a record's answer belongs to an ended request of the body
  recorded. `TheFirstAnswerStays`: a stored record is only ever dropped (`FirstAnswerStays`,
  which no run checks, as the theorem does).
- `AllSessionsStay` rests on `Pins`: a request that read a pin, and was not told of a move, has
  it still.
- `AllBilledOnce` rests on `Counted`: the bills of a key and the requests that may still settle
  (`Unbilled`) are no more than the excuses and one, for the record or for those under way
  (`Covered`). A request that is charged for its failure brings an excuse for the next. The argument is about cardinalities of sets that change by one request.

`StreamsProofs` (1111 obligations), over any routes, counts and number of frames:

- `TypeCorrect` and `ClosedFirst` rest on `Places`: which slot is taken and which response open,
  by what the request does next.
- `RelaySafe` rests on `Relays`: while a response is relayed, what is due continues what was
  relayed, up to what was sent, and ends with a completion only if the response is whole
  (`Queue`).
- `BillSafe` rests on `Bills`: the counts the reader keeps are the latest among the frames of the
  response at hand (`Newest`), with 0 for one that was left out.

`ConfigurationProofs` (4112 obligations) has two halves, neither of which uses the other. About
`Publication`, over any number of publishers, versions, retained snapshots and faults:

- `TypeCorrect`.
- `ValidAnswers` rests on `Snapshots`: every payload in Redis, every configuration a process still
  means to write and every answer `Fits` its version, that is, it was accepted, contains the
  version's mutation and nothing uncommitted. A retry or a rebuild writes newer tables under an
  old label, so no equality with what was first published would be inductive. It needs nothing
  of the pointer and survives a flush of Redis.
- `ReadyPointer` and `ActivatedBeforePublished` rest on `Kept`, which holds until Redis loses
  data: whoever is about to retain or mark has its target at or below the pointer (`Activated`),
  only versions below the pointer fade or are deleted, and from the pointer on a manifest agrees
  with the payload it speaks of (`Sound`). The last clause is what makes two publishers of one
  version harmless: the later one compares with the earlier one's payload before it declares it.
- `ServedUnlessLate` holds for any number of open transactions: a version that is not `late` is in the
  tables of every version above it, hence in every content that `Fits` one, hence in what the
  pointer names. Of late versions nothing is said: they are finding 1.
- `ImplementsRoutingConfiguration`: `Spec /\ [](losses = 0) => ConfigSpec`. A flush takes away what
  was served, which no `RoutingConfiguration` step does; the run `publication_safety` has no flush
  either, `publication_liveness` shows that service comes back after one.

About `Administration`, over any number of administrators, connections, models, candidates and
requests. Its specification is `AdminSpec`, as its names and those of `Publication` are kept apart so that
one module can extend both. The invariant is `AdminIInv`, that is `AdminTypes`, `Marks` and `Guards`:

- Every step is one of three kinds (`Taken`): a request goes on or ends without writing, writes one
  row, or a seed stops or fails half way. There is a lemma for each action that says which (`BeginTaken`, `ReadTaken`, `FailsTaken`, ...), and
  one for each kind that it keeps the invariant, the stepping request's part and the others'
  (`GoesOnKeeps`, `WritesKeeps`, `StopsKeeps`): a write marks every other request
  under way as overlapped, and of what an overlapped request has read of its
  guards nothing is claimed.
- `AdminTypeCorrect` rests on `AdminTypes`: the request of an administrator has the form the
  endpoints give it (`Asked`), that of a seed is what is left to write of a row of its document
  (`Follows`, `Places`).
- `LoadsStayWhole` rests on `Sealed`: the credential of a connection is sealed for its protocol. The
  half about dangling references needs no guard, as a publication lists only candidates whose model
  and connection are active.
- `PatchesWriteWhatWasSeen` rests on `Shown`: a row with the stamp the administrator saw is that
  row, because every write stamps its row with a number that was never used.
- `HalvesNeedOverlap` rests on `Half`: between its two transactions a patch that nobody overlapped
  has the row as it was shown, so only its failure keeps the second
  from being written.
- `OrphansAreExplained` rests on `Guards`: what a request has read of its guards still holds unless
  it was overlapped. A request that takes a candidate away knows its row and that the model has
  another one or is not active (`Guarded`, `Spared`); one that activates a model, that it has a
  candidate (`Supplied`); a seed, the row it will update (`Known`). An orphan is then among those
  of overlapped requests or of a seed that has still to give it its candidate (`Seeding`).

`MigrationProofs` (1685 obligations), over any entities, counts, batch sizes and number of migrators:

- `TypeCorrect` rests on `Control`: at which entity and row a migrator is, by what it does next
  (`Place`).
- `LeavesForeignAlone` (action property) rests on `Rows` and needs no lock.
- `SkipsOnlyImported` and `CompletesWhole` rest on `Apart`, which holds until two imports overlap
  (`overlapped`, the exception both properties name): the batches recorded for an entity add up to
  a prefix of it that is imported (`Prefix`, with the sum of `Sums`), the migrator's offset is that
  sum plus what it wrote since, and every entity before its present one is whole (`Progress`).
  The cursor of a batch is its last row, so a batch of another size never meets an old one.
- `ImportsUnderOneVersion` rests on `OneImport`, which has the same exception: a migrator that is
  about to insert a configuration is the first to (`Under`). After a lost lock two can read that
  there is no checkpoint and each make a version.

The type invariants (`TypeOK` of each module) are properties of no run; all eight are theorems.
The inductive invariants of `ConfigurationProofs` (`IInv`; `AdminTypes`, `Marks` and `Guards`) and of
`MigrationProofs` (`IInv`) were checked with TLC on the instances above before they were proved.

Every safety property of a passing run is a theorem. Only model-checked is liveness under
fairness (`SettlementsAreCarried`, `OutboxDrains`, `ServiceRecovers`, `RevocationTakesHold`), which is out of the prover's reach, as is ENABLED.

The assumptions are on constants: the sets that a `None` or a code must stay out of, that
numbers are numbers, that requests and candidates are finitely many, that an import has an
entity, each once, that only entities of PostgreSQL have versions or sequences, and that the
tables of the routing configuration have no ids in common. TLC evaluates
each in the run of its module. One theorem has a hypothesis that not every instance meets, and
states it: `ImplementsRoutingConfiguration` (no loss of Redis).

## Findings

Each is a run that TLC refutes with a trace of the code's own steps; `PROJECT.json` quotes the
sentence that the behaviour contradicts.

1. `publication_unordered`: two mutations commit in the other order than their numbers; the
   lower is marked published though it is not served (`runtime/snapshots.py:55`).
2. `gateway_refused`: a successful response keeps its concurrency slot (`app.py:1471`).

3. `administration_orphans`: the guards against a model without candidates read in a transaction
   before the one that writes, so two requests at once leave one (`admin/models.py:124`).

Documents contradict more that the code does. The models have this behaviour; the properties
name it as their exception and so say how far it goes, and no run refutes it by itself.

| Code | Document (under `docs/`) | Where the models have it |
|---|---|---|
| `runtime/budget.py:159`: a slow caller sets the counter back, and requests pass the spend limit | `TASKS.md:8` of the repository, budgets are enforced before dispatch; `plans/2026-06-10-postgres-redis-dynamic-routing.md:463`, no oversubscription | `MissingOnlyByOverlap` |
| `auth_cache.py:59`: a fill that a revocation overtook writes the entry back until its time to live ends, and a fill between the reading and the deletion of the index leaves an entry that later changes miss too | the same plan, 359: revocation evicts the cache immediately | `StaleOnlyByOverlap`, `DropsMissOnlyOverlaps`, `RevocationTakesHold` |
| `bootstrap.py:189`: a seed that stops half way leaves a model without its candidates | the same plan, 715: mutations that leave an active model without candidates are rejected | `OrphanedOnlyByOverlap` |
| `migration/sqlite_import.py:701`: imported circuits live for a minute, their checkpoint for ever, so an import resumed later never reconciles | `plans/2026-06-10-postgres-redis-dynamic-routing-design.md:222`: batches are resumable | no property; `Expire` and `Reconcile` have it |
| `adapters.py:264, 466, 476, 662, 886`: missing counts are taken for 0, and a stream with a report of 0 is billed nothing | `plans/2026-06-09-provider-native-streaming.md:77`: local estimates when usage is omitted | `BilledAsRelayed`, by `Latest` |
| `app.py:1617`: a stream whose client leaves before the first event is not closed and keeps what it reserved | the same plan, 75: disconnects close the stream and reconcile | `ClosedBeforePaid`, by `LeaveUnstarted` |

The models show more of the kind, for which we found no document that says otherwise: a first
policy lost to another first policy; an answer billed twice when its request dies before the
record is stored; a failure charged again when it is retried with its key (`app.py:544`); a quota
of tokens passed by what providers report (`runtime/quota.py:35`); an intent failed while its
request is still at work; two imports that make a version each after a lost lock.

## Not modelled

Route decisions, codecs, settings, metrics and the API contract have no protocol of their own:
pure functions, single inserts, records nothing relies on. Of the provider adapters, the
translation of requests and of responses that are not streamed is a pure function around one
HTTP call, which `Gateway` takes as answered, invalid or failed.

Within modelled components: the flooring of amounts to units, queries and exports of usage, the
TTL of 30 days of connection quotas, the batch limit of outbox claims (never reached in these
instances), the health report of bootstrap, the fields of routing tables that no guard reads.
`Access` leaves out development keys and the administrator's token, constants of the settings;
`Routing` the arithmetic of scores, of which it keeps the order; `Migration` the dry run, the
repeated verification of a completed run, the recheck of the source's fingerprint and the
decoding of legacy rows; `Streams` a give-back of the slot that itself fails (`Gateway` has it),
and the wording of texts. `Administration` gives every mutation its own `updated_at`, where the
code has a clock of microseconds.

## Plan

1. `Budget`, `SpendLedger`, `Gateway` with their proofs: done.
2. `Publication`, `RoutingConfiguration`, `Administration` with `ConfigurationProofs`: done.
3. `Access`, `Routing`, `Admission`, `Migration`, `Streams`: modelled and checked; `AccessProofs`,
   `AdmissionProofs`, `StreamsProofs`, `MigrationProofs`: done.
4. Publication and administration together: `Administration`'s tables under `Publication`'s
   versions, so that which mutations spoil the tables is no longer a constant.
