----------------------------- MODULE Publication -----------------------------
(***************************************************************************)
(* Publishing the routing configuration: mixapi/publication.py, workers.py *)
(* and bootstrap.py over repositories/configuration.py (PostgreSQL) and    *)
(* runtime/snapshots.py (Redis).                                           *)
(*                                                                         *)
(* Every mutation of the routing tables gets a version and an outbox row in*)
(* its transaction.  Outbox workers claim rows under a lease, load the     *)
(* tables as they are then, write them to Redis as the version's snapshot, *)
(* move the active pointer to it and mark the version published.  A rebuild*)
(* worker restores the latest published version when Redis lost it.        *)
(* Requests read the pointer, then the snapshot it names.                  *)
(*                                                                         *)
(* A snapshot is the set of mutations it contains, which its checksum      *)
(* identifies.  A version has one outbox row: it is processed exactly when *)
(* the version is no longer pending, so the row keeps only its claim.  One *)
(* step is one SQL transaction, one Redis command or one Lua script; Retain*)
(* is the loop of retain_versions, each of whose commands concerns one key.*)
(***************************************************************************)
EXTENDS Integers, FiniteSets

CONSTANTS
    MaxVersion,   \* bound on mutations
    MaxOpen,      \* bound on mutation transactions open at once
    Workers,      \* ConfigurationOutboxWorker, one per instance
    Rebuilders,   \* ConfigurationRebuildWorker and the admin rebuild endpoint
    Tools,        \* bootstrap and migration commands, which publish without a claim
    Requests,     \* public requests
    Retention,    \* snapshot_retention_count
    ValidTables,  \* the contents of the routing tables that _validate accepts
    None,         \* a key that does not exist, a NULL column
    Refused,      \* configuration_unavailable, a 503
    MaxFaults,    \* bound on crashes, failed calls and early lease expiries
    MaxLosses     \* bound on flushes of Redis

Versions == 1..MaxVersion
Processes == Workers \union Rebuilders \union Tools

ASSUME PublicationAssumption ==
    /\ MaxVersion \in Nat
    /\ MaxOpen \in Nat
    /\ Retention \in Nat \ {0}
    /\ ValidTables \subseteq SUBSET Versions
    /\ \A c \in SUBSET Versions : c # None /\ c # Refused
    /\ None # Refused
    /\ None \notin Processes
    /\ Workers \intersect Rebuilders = {}
    /\ Workers \intersect Tools = {}
    /\ Rebuilders \intersect Tools = {}
    /\ MaxFaults \in Nat
    /\ MaxLosses \in Nat

VARIABLES
    (* PostgreSQL *)
    tables,     \* the mutations whose transactions have committed
    late,       \* history: those that committed after one with a higher version
    status,     \* configuration_versions.status; "open" before the commit
    checksum,   \* configuration_versions.checksum
    owner,      \* configuration_outbox.claimed_by
    lease,      \* claim_expires_at: "none" (NULL), "live" or "expired"
    (* Redis *)
    payload,    \* snapshots:{version}:payload
    manifest,   \* snapshots:{version}:manifest
    fading,     \* the payload and manifest keys that have a TTL
    active,     \* snapshots:active, 0 when missing
    lock,       \* snapshots:rebuild-lock
    (* processes *)
    pc,         \* what the process does next
    target,     \* the version it publishes, 0 for none
    loaded,     \* the configuration it loaded for it
    reusing,    \* the rebuilders that re-activate an existing snapshot
    todo,       \* claimed events a worker has not handled yet
    (* requests *)
    pointer,    \* the active version a request read, 0 for none
    answer,     \* the snapshot it went on with, or Refused
    faults,     \* how many faults there have been
    losses      \* how many times Redis has been flushed

pgVars      == <<tables, late, status, checksum, owner, lease>>
snapVars    == <<payload, manifest, fading>>
redisVars   == <<snapVars, active, lock>>
processVars == <<pc, target, loaded, reusing, todo>>
requestVars == <<pointer, answer>>
faultVars   == <<faults, losses>>
vars == <<pgVars, redisVars, processVars, requestVars, faultVars>>

Steps == {"idle", "latest", "inspect", "load", "write", "compare", "ready", "activate",
          "retain", "mark", "reject", "release", "unlock"}
Contents == SUBSET Versions

TypeOK ==
    /\ tables \subseteq Versions
    /\ late \subseteq tables
    /\ status \in [Versions -> {"none", "open", "pending", "published", "failed"}]
    /\ checksum \in [Versions -> {None} \union Contents]
    /\ owner \in [Versions -> Workers \union {None}]
    /\ lease \in [Versions -> {"none", "live", "expired"}]
    /\ payload \in [Versions -> {None} \union Contents]
    /\ manifest \in [Versions -> {None} \union Contents]
    /\ fading \subseteq {"payload", "manifest"} \X Versions
    /\ active \in 0..MaxVersion
    /\ lock \in Rebuilders \union {None}
    /\ pc \in [Processes -> Steps]
    /\ target \in [Processes -> 0..MaxVersion]
    /\ loaded \in [Processes -> Contents]
    /\ reusing \subseteq {b \in Rebuilders : pc[b] \in {"ready", "activate", "unlock"}}
    /\ todo \in [Workers -> SUBSET Versions]
    /\ pointer \in [Requests -> 0..MaxVersion]
    /\ answer \in [Requests -> {None, Refused} \union Contents]
    /\ faults \in Nat
    /\ losses \in Nat

Init ==
    /\ tables = {}
    /\ late = {}
    /\ status = [v \in Versions |-> "none"]
    /\ checksum = [v \in Versions |-> None]
    /\ owner = [v \in Versions |-> None]
    /\ lease = [v \in Versions |-> "none"]
    /\ payload = [v \in Versions |-> None]
    /\ manifest = [v \in Versions |-> None]
    /\ fading = {}
    /\ active = 0
    /\ lock = None
    /\ pc = [p \in Processes |-> "idle"]
    /\ target = [p \in Processes |-> 0]
    /\ loaded = [p \in Processes |-> {}]
    /\ reusing = {}
    /\ todo = [w \in Workers |-> {}]
    /\ pointer = [q \in Requests |-> 0]
    /\ answer = [q \in Requests |-> None]
    /\ faults = 0
    /\ losses = 0

-----------------------------------------------------------------------------
(* Mutations of the routing tables.                                        *)

Open == {v \in Versions : status[v] = "open"}

\* _record_mutation takes the next version from a sequence, so versions are
\* given out in order whether or not the transactions commit in order.
BeginMutation(v) ==
    /\ status[v] = "none"
    /\ \A u \in 1..(v - 1) : status[u] # "none"
    /\ Cardinality(Open) < MaxOpen
    /\ status' = [status EXCEPT ![v] = "open"]
    /\ UNCHANGED <<tables, late, checksum, owner, lease, redisVars, processVars, requestVars,
                   faultVars>>

CommitMutation(v) ==
    /\ status[v] = "open"
    /\ status' = [status EXCEPT ![v] = "pending"]
    /\ tables' = tables \union {v}
    /\ late' = late \union {u \in {v} : \E x \in tables : u < x}
    /\ UNCHANGED <<checksum, owner, lease, redisVars, processVars, requestVars, faultVars>>

-----------------------------------------------------------------------------
(* Mutated forms of definitions below, each a plausible bug that one of the *)
(* properties must catch; nothing refers to them.                           *)

ClaimableUncommitted(v) == status[v] \in {"open", "pending"} /\ lease[v] # "live"

ClaimableOnce(v) == status[v] = "pending" /\ lease[v] = "none"

InspectPointerOnly(b) ==
    LET v == target[b]
    IN  /\ pc[b] = "inspect"
        /\ IF active = v \/ payload[v] = None
           THEN pc' = [pc EXCEPT ![b] = "unlock"] /\ UNCHANGED <<loaded, reusing>>
           ELSE /\ pc' = [pc EXCEPT ![b] = "ready"]
                /\ loaded' = [loaded EXCEPT ![b] = payload[v]]
                /\ reusing' = reusing \union {b}
        /\ UNCHANGED <<pgVars, redisVars, target, todo, requestVars, faultVars>>

LoadUnvalidated(p) ==
    /\ pc[p] = "load"
    /\ loaded' = [loaded EXCEPT ![p] = tables]
    /\ pc' = [pc EXCEPT ![p] = "write"]
    /\ UNCHANGED <<pgVars, redisVars, target, reusing, todo, requestVars, faultVars>>

WriteOver(p) ==
    /\ pc[p] = "write"
    /\ payload' = [payload EXCEPT ![target[p]] = loaded[p]]
    /\ manifest' = [manifest EXCEPT ![target[p]] = None]
    /\ pc' = [pc EXCEPT ![p] = "ready"]
    /\ UNCHANGED <<pgVars, fading, active, lock, target, loaded, reusing, todo,
                   requestVars, faultVars>>

ReadyIsEnough(p) ==
    LET v == target[p]
    IN  /\ pc[p] = "ready"
        /\ payload[v] = loaded[p]
        /\ manifest' = [manifest EXCEPT ![v] = loaded[p]]
        /\ pc' = [pc EXCEPT ![p] = IF p \in Rebuilders THEN "activate" ELSE "mark"]
        /\ UNCHANGED <<pgVars, payload, fading, active, lock, target, loaded, reusing, todo,
                       requestVars, faultVars>>

ActivateBackwards(p) ==
    LET v == target[p]
    IN  /\ pc[p] = "activate"
        /\ payload[v] # None
        /\ manifest[v] = loaded[p]
        /\ active' = v
        /\ pc' = [pc EXCEPT ![p] = "retain"]
        /\ UNCHANGED <<pgVars, snapVars, lock, target, loaded, reusing, todo, requestVars,
                       faultVars>>

-----------------------------------------------------------------------------
(* Who publishes what.                                                     *)

Claimable(v) == status[v] = "pending" /\ lease[v] # "live"

\* claim_outbox; the batch limit of 10 is never reached here.
ClaimOutbox(w) ==
    LET batch == {v \in Versions : Claimable(v)}
    IN  /\ pc[w] = "idle"
        /\ todo[w] = {}
        /\ batch # {}
        /\ todo' = [todo EXCEPT ![w] = batch]
        /\ owner' = [v \in Versions |-> IF v \in batch THEN w ELSE owner[v]]
        /\ lease' = [v \in Versions |-> IF v \in batch THEN "live" ELSE lease[v]]
        /\ UNCHANGED <<tables, late, status, checksum, redisVars, pc, target, loaded, reusing,
                       requestVars, faultVars>>

\* run_once goes on with an event; RETURNING gives them in no particular order.
TakeEvent(w, v) ==
    /\ pc[w] = "idle"
    /\ v \in todo[w]
    /\ todo' = [todo EXCEPT ![w] = @ \ {v}]
    /\ pc' = [pc EXCEPT ![w] = "load"]
    /\ target' = [target EXCEPT ![w] = v]
    /\ UNCHANGED <<pgVars, redisVars, loaded, reusing, requestVars, faultVars>>

\* BootstrapService.apply and the import publish committed versions directly, one
\* after the other in their order, whoever has published them meanwhile.
PublishDirectly(t, v) ==
    /\ pc[t] = "idle"
    /\ v \in tables
    /\ v > target[t]
    /\ pc' = [pc EXCEPT ![t] = "load"]
    /\ target' = [target EXCEPT ![t] = v]
    /\ UNCHANGED <<pgVars, redisVars, loaded, reusing, todo, requestVars, faultVars>>

\* rebuild: SET NX EX; when the lock is taken it gives up and nothing changes.
Lock(b) ==
    /\ pc[b] = "idle"
    /\ lock = None
    /\ lock' = b
    /\ pc' = [pc EXCEPT ![b] = "latest"]
    /\ UNCHANGED <<pgVars, snapVars, active, target, loaded, reusing, todo, requestVars,
                   faultVars>>

Published == {v \in Versions : status[v] = "published"}

\* latest_published_version
ReadLatest(b) ==
    /\ pc[b] = "latest"
    /\ IF Published = {}
       THEN pc' = [pc EXCEPT ![b] = "unlock"] /\ UNCHANGED target
       ELSE /\ pc' = [pc EXCEPT ![b] = "inspect"]
            /\ \E v \in Published :
                  /\ \A u \in Published : u <= v
                  /\ target' = [target EXCEPT ![b] = v]
    /\ UNCHANGED <<pgVars, redisVars, loaded, reusing, todo, requestVars, faultVars>>

\* _rebuild_locked: active_version, then load; an activation between the two
\* reads only makes it re-activate what is active.
Inspect(b) ==
    LET v == target[b]
    IN  /\ pc[b] = "inspect"
        /\ IF payload[v] = None
           THEN pc' = [pc EXCEPT ![b] = "load"] /\ UNCHANGED <<loaded, reusing>>
           ELSE IF active = v
           THEN pc' = [pc EXCEPT ![b] = "unlock"] /\ UNCHANGED <<loaded, reusing>>
           ELSE /\ pc' = [pc EXCEPT ![b] = "ready"]
                /\ loaded' = [loaded EXCEPT ![b] = payload[v]]
                /\ reusing' = reusing \union {b}
        /\ UNCHANGED <<pgVars, redisVars, target, todo, requestVars, faultVars>>

-----------------------------------------------------------------------------
(* Where a process goes from a step of the publication.                    *)

Goto(p, s) == pc' = [pc EXCEPT ![p] = s]

\* A PublicationError marks the version failed, except in a rebuild.
Refuse(p) == Goto(p, IF p \in Rebuilders THEN "unlock" ELSE "reject")

\* Any other error: the worker releases its claim, a rebuild its lock.
Abandon(p) ==
    Goto(p, IF p \in Rebuilders THEN "unlock" ELSE IF p \in Workers THEN "release" ELSE "idle")

-----------------------------------------------------------------------------
(* publish, and the part of it that a rebuild shares.                      *)

\* load_publication_configuration and _validate
Load(p) ==
    /\ pc[p] = "load"
    /\ loaded' = [loaded EXCEPT ![p] = tables]
    /\ IF tables \in ValidTables THEN Goto(p, "write") ELSE Refuse(p)
    /\ UNCHANGED <<pgVars, redisVars, target, reusing, todo, requestVars, faultVars>>

\* write_pending: SET NX
WritePending(p) ==
    LET v == target[p]
    IN  /\ pc[p] = "write"
        /\ IF payload[v] = None
           THEN payload' = [payload EXCEPT ![v] = loaded[p]] /\ Goto(p, "ready")
           ELSE UNCHANGED payload /\ Goto(p, "compare")
        /\ UNCHANGED <<pgVars, manifest, fading, active, lock, target, loaded, reusing, todo,
                       requestVars, faultVars>>

\* write_pending: the GET of a payload that was there, or was until just now
ComparePayload(p) ==
    /\ pc[p] = "compare"
    /\ IF payload[target[p]] = loaded[p] THEN Goto(p, "ready") ELSE Refuse(p)
    /\ UNCHANGED <<pgVars, redisVars, target, loaded, reusing, todo, requestVars, faultVars>>

\* mark_ready and _MARK_READY
MarkReady(p) ==
    LET v == target[p]
        conflict == payload[v] # loaded[p] \/ manifest[v] \notin {None, loaded[p]}
    IN  /\ pc[p] = "ready"
        /\ IF payload[v] = None THEN Abandon(p) /\ UNCHANGED manifest
           ELSE IF conflict THEN Refuse(p) /\ UNCHANGED manifest
           ELSE Goto(p, "activate") /\ manifest' = [manifest EXCEPT ![v] = loaded[p]]
        /\ UNCHANGED <<pgVars, payload, fading, active, lock, target, loaded, reusing, todo,
                       requestVars, faultVars>>

\* activate and _ACTIVATE: the pointer never moves back; that it did not move
\* is not an error, and a rebuild that only re-activates is then finished.
Activate(p) ==
    LET v == target[p]
    IN  /\ pc[p] = "activate"
        /\ IF payload[v] = None \/ manifest[v] = None THEN Abandon(p) /\ UNCHANGED active
           ELSE IF manifest[v] # loaded[p] THEN Refuse(p) /\ UNCHANGED active
           ELSE /\ active' = IF active > v THEN active ELSE v
                /\ Goto(p, IF p \in reusing THEN "unlock" ELSE "retain")
        /\ UNCHANGED <<pgVars, snapVars, lock, target, loaded, reusing, todo, requestVars,
                       faultVars>>

\* retain_versions: of the snapshots up to its own version the process keeps
\* its own for good and the next Retention - 1 for a while, and deletes the rest.
Retain(p) ==
    LET v == target[p]
        older == {u \in Versions : u < v /\ payload[u] # None}
        rank(u) == Cardinality({x \in Versions : u < x /\ x <= v /\ payload[x] # None})
        dropped == {u \in older : rank(u) >= Retention}
        kept == older \ dropped
        keys == {k \in {"payload", "manifest"} \X kept :
                    (IF k[1] = "payload" THEN payload ELSE manifest)[k[2]] # None}
    IN  /\ pc[p] = "retain"
        /\ payload' = [u \in Versions |-> IF u \in dropped THEN None ELSE payload[u]]
        /\ manifest' = [u \in Versions |-> IF u \in dropped THEN None ELSE manifest[u]]
        /\ fading' = {k \in fading \union keys :
                         k[2] \notin dropped /\ (k[2] = v => payload[v] = None)}
        /\ Goto(p, IF p \in Rebuilders THEN "unlock" ELSE "mark")
        /\ UNCHANGED <<pgVars, active, lock, target, loaded, reusing, todo, requestVars,
                       faultVars>>

Owns(p, v) == p \in Tools \/ (owner[v] = p /\ lease[v] = "live" /\ status[v] = "pending")

\* mark_configuration_published and mark_configuration_failed: a worker only
\* while its claim is good, else PublicationLeaseLost.
Close(p, outcome, sum) ==
    LET v == target[p]
    IN  /\ IF Owns(p, v)
           THEN /\ status' = [status EXCEPT ![v] = outcome]
                /\ checksum' = [checksum EXCEPT ![v] = sum]
                /\ owner' = [owner EXCEPT ![v] = None]
                /\ lease' = [lease EXCEPT ![v] = "none"]
                /\ Goto(p, "idle")
           ELSE UNCHANGED <<status, checksum, owner, lease>> /\ Abandon(p)
        /\ UNCHANGED <<tables, late, redisVars, target, loaded, reusing, todo, requestVars,
                       faultVars>>

MarkPublished(p) == pc[p] = "mark" /\ Close(p, "published", loaded[p])
MarkFailed(p) == pc[p] = "reject" /\ Close(p, "failed", checksum[target[p]])

\* release_outbox
ReleaseOutbox(w) ==
    LET v == target[w]
    IN  /\ pc[w] = "release"
        /\ Goto(w, "idle")
        /\ IF owner[v] = w /\ status[v] = "pending"
           THEN /\ owner' = [owner EXCEPT ![v] = None]
                /\ lease' = [lease EXCEPT ![v] = "none"]
           ELSE UNCHANGED <<owner, lease>>
        /\ UNCHANGED <<tables, late, status, checksum, redisVars, target, loaded, reusing, todo,
                       requestVars, faultVars>>

\* The finally of rebuild: _RELEASE_LOCK deletes only its own lock.
Unlock(b) ==
    /\ pc[b] = "unlock"
    /\ Goto(b, "idle")
    /\ lock' = IF lock = b THEN None ELSE lock
    /\ reusing' = reusing \ {b}
    /\ UNCHANGED <<pgVars, snapVars, active, target, loaded, todo, requestVars, faultVars>>

-----------------------------------------------------------------------------
(* Requests: ReadinessService.require_snapshot, one read after the other.  *)

ReadPointer(q) ==
    /\ answer[q] = None
    /\ pointer[q] = 0
    /\ pointer' = [pointer EXCEPT ![q] = active]
    /\ answer' = [answer EXCEPT ![q] = IF active = 0 THEN Refused ELSE None]
    /\ UNCHANGED <<pgVars, redisVars, processVars, faultVars>>

LoadSnapshot(q) ==
    /\ answer[q] = None
    /\ pointer[q] # 0
    /\ answer' = [answer EXCEPT ![q] =
                     IF payload[pointer[q]] = None THEN Refused ELSE payload[pointer[q]]]
    /\ UNCHANGED <<pgVars, redisVars, processVars, pointer, faultVars>>

-----------------------------------------------------------------------------
(* Faults and the passing of time.                                         *)

Fault == faults < MaxFaults /\ faults' = faults + 1 /\ UNCHANGED losses

Busy(p) == pc[p] # "idle" \/ (p \in Workers /\ todo[p] # {})

Crash(p) ==
    /\ Fault
    /\ Busy(p)
    /\ Goto(p, "idle")
    /\ todo' = [w \in Workers |-> IF w = p THEN {} ELSE todo[w]]
    /\ reusing' = reusing \ {p}
    /\ UNCHANGED <<pgVars, redisVars, target, loaded, requestVars>>

\* A call to PostgreSQL or Redis fails before it has an effect.
CallFails(p) ==
    /\ Fault
    /\ pc[p] \notin {"idle", "release", "unlock"}
    /\ Abandon(p)
    /\ UNCHANGED <<pgVars, redisVars, target, loaded, reusing, todo, requestVars>>

Working(w, v) == v \in todo[w] \/ (pc[w] # "idle" /\ target[w] = v)

\* A claim runs out: of itself once its worker is gone, as a fault before.
LeaseExpires(v) ==
    /\ lease[v] = "live"
    /\ IF \E w \in Workers : Working(w, v) THEN Fault ELSE UNCHANGED faultVars
    /\ lease' = [lease EXCEPT ![v] = "expired"]
    /\ UNCHANGED <<tables, late, status, checksum, owner, redisVars, processVars, requestVars>>

\* So does the rebuild lock, after 30 seconds.
LockExpires ==
    /\ lock # None
    /\ IF pc[lock] = "idle" THEN UNCHANGED faultVars ELSE Fault
    /\ lock' = None
    /\ UNCHANGED <<pgVars, snapVars, active, processVars, requestVars>>

\* A key with a TTL disappears.
KeyExpires(key) ==
    /\ key \in fading
    /\ fading' = fading \ {key}
    /\ IF key[1] = "payload"
       THEN payload' = [payload EXCEPT ![key[2]] = None] /\ UNCHANGED manifest
       ELSE manifest' = [manifest EXCEPT ![key[2]] = None] /\ UNCHANGED payload
    /\ UNCHANGED <<pgVars, active, lock, processVars, requestVars, faultVars>>

RedisLoss ==
    /\ losses < MaxLosses
    /\ losses' = losses + 1
    /\ payload' = [v \in Versions |-> None]
    /\ manifest' = [v \in Versions |-> None]
    /\ fading' = {}
    /\ active' = 0
    /\ lock' = None
    /\ UNCHANGED <<pgVars, processVars, requestVars, faults>>

-----------------------------------------------------------------------------
PublishStep(p) ==
    \/ Load(p)
    \/ WritePending(p)
    \/ ComparePayload(p)
    \/ MarkReady(p)
    \/ Activate(p)
    \/ Retain(p)
    \/ MarkPublished(p)
    \/ MarkFailed(p)

WorkerStep(w) ==
    \/ ClaimOutbox(w)
    \/ \E v \in Versions : TakeEvent(w, v)
    \/ ReleaseOutbox(w)

RebuildStep(b) ==
    \/ Lock(b)
    \/ ReadLatest(b)
    \/ Inspect(b)
    \/ Unlock(b)

Next ==
    \/ \E v \in Versions : BeginMutation(v) \/ CommitMutation(v) \/ LeaseExpires(v)
    \/ \E p \in Processes : PublishStep(p) \/ Crash(p) \/ CallFails(p)
    \/ \E w \in Workers : WorkerStep(w)
    \/ \E b \in Rebuilders : RebuildStep(b)
    \/ \E t \in Tools, v \in Versions : PublishDirectly(t, v)
    \/ \E q \in Requests : ReadPointer(q) \/ LoadSnapshot(q)
    \/ \E key \in {"payload", "manifest"} \X Versions : KeyExpires(key)
    \/ LockExpires
    \/ RedisLoss

Spec == Init /\ [][Next]_vars

\* ManagedWorkers repeats both jobs for as long as the process lives; leases and
\* the rebuild lock run out by the clock.
Fairness ==
    /\ \A w \in Workers : WF_vars(PublishStep(w)) /\ WF_vars(WorkerStep(w))
    /\ \A b \in Rebuilders : WF_vars(PublishStep(b)) /\ WF_vars(RebuildStep(b))
    /\ \A v \in Versions : WF_vars(LeaseExpires(v) /\ UNCHANGED faultVars)
    /\ WF_vars(LockExpires /\ UNCHANGED faultVars)

FairSpec == Spec /\ Fairness

-----------------------------------------------------------------------------
(* What publication promises.                                              *)

\* While Redis keeps its data, the version the pointer names can be loaded and
\* is the one its manifest declares ready, whatever is retained, deleted,
\* expires or is published again meanwhile.
ActiveIsReady ==
    losses = 0 /\ active # 0 => payload[active] # None /\ manifest[active] = payload[active]

\* PostgreSQL calls a version published only when Redis already serves it or a
\* newer one: no lease, crash or second publisher lets the mark come first.
PublishedIsActivated == losses = 0 => \A v \in Published : v <= active

\* "Writes it to Redis, atomically activates it, and only then marks PostgreSQL
\* version/outbox rows published": what is called published is being served.
PublishedIsServed == losses = 0 => \A v \in Published : active # 0 /\ v \in payload[active]

\* The part of it the code keeps, with any number of mutation transactions at
\* once: a version that committed before every higher one is, once published, in
\* what is served, whichever snapshots are retried, skipped or written by tools.
PublishedIsServedUnlessLate ==
    losses = 0 => \A v \in Published \ late : active # 0 /\ v \in payload[active]

\* No request is given tables that _validate refused or that lack its version's
\* own mutation, not even when a rebuild wrote the snapshot.
RequestsSeeValid ==
    \A q \in Requests :
        answer[q] \notin {None, Refused} =>
            answer[q] \in ValidTables /\ pointer[q] \in answer[q]

\* The implemented promise of RoutingConfiguration, as long as Redis keeps its data.
Served == IF active = 0 THEN {} ELSE payload[active]
Config == INSTANCE RoutingConfiguration WITH version <- active, content <- Served
ConfigSpec == Config!Spec

\* Every mutation is eventually published or refused.
OutboxDrains ==
    \A v \in Versions : status[v] = "pending" ~> status[v] \in {"published", "failed"}

\* After a flush of Redis the gateway comes to serve a snapshot again and keeps
\* doing so, if a version is published and the tables stay valid.
ServiceRecovers ==
    <>[](Published # {} /\ tables \in ValidTables)
        => <>[](active # 0 /\ payload[active] # None)
=============================================================================
