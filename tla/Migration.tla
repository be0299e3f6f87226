----------------------------- MODULE Migration -----------------------------
(***************************************************************************)
(* mixapi migrate-sqlite (mixapi/migration/sqlite_import.py): the import of*)
(* a legacy SQLite installation into PostgreSQL and Redis, resumable from a*)
(* ledger of batches after the process died or a call failed.              *)
(*                                                                         *)
(* Rows of PostgreSQL and the checkpoint of their batch commit together;   *)
(* rows of Redis are written one at a time before their checkpoint.  Every *)
(* migrator here imports the same source, whose fingerprint names the run  *)
(* and the advisory lock.  The lock belongs to a connection that does      *)
(* nothing else, and nobody notices when that connection is lost.          *)
(*                                                                         *)
(* A step is one transaction or Redis command.                             *)
(***************************************************************************)
EXTENDS Integers, Sequences, FiniteSets, Sums

CONSTANTS
    Migrators,     \* processes importing the source
    Sql, Redis,    \* entities in the order of _SQL_ENTITIES, _REDIS_ENTITIES
    Count,         \* rows of each entity in the source
    Circuits,      \* entities written by HGETALL and HSET; others by SET NX
    Versioned,     \* entities whose rows name the configuration version
    Totalled,      \* entities whose values are summed up in the reconciliation
    Serial,        \* entities whose ids a sequence of PostgreSQL hands out
    Live,          \* entities whose rows the running system may change
    BatchSize,     \* the --batch-size of each migrator
    AllowDisabled, \* migrators given --allow-disabled-providers
    Absent, Foreign, None,
    MaxVersions,   \* bound on configuration versions made by imports
    MaxFaults,     \* bound on deaths, failed calls, lost locks
    MaxExpiries,   \* bound on rows of Redis that expire or are deleted
    MaxLive        \* bound on writes of the running system

Entities == Sql \o Redis
EntitySet == {Entities[i] : i \in DOMAIN Entities}
RedisSet == {Redis[i] : i \in DOMAIN Redis}
Identity == [e \in EntitySet |-> 1..Count[e]]

ASSUME MigrationAssumption ==
    /\ Sql \in Seq(STRING) /\ Redis \in Seq(STRING) /\ Entities # <<>>
    /\ \A i, j \in DOMAIN Entities : Entities[i] = Entities[j] => i = j
    /\ Count \in [EntitySet -> Nat]
    /\ Versioned \union Serial \subseteq EntitySet \ RedisSet
    /\ BatchSize \in [Migrators -> Nat \ {0}]
    /\ AllowDisabled \subseteq Migrators
    /\ Absent \notin Nat /\ Foreign \notin Nat /\ Absent # Foreign
    /\ None \notin Migrators \union {"running", "failed", "completed"}
    /\ {MaxVersions, MaxFaults, MaxExpiries, MaxLive} \subseteq Nat

VARIABLES
    (* PostgreSQL and Redis *)
    status,     \* sqlite_migration_runs.status
    version,    \* the version of the last configuration checkpoint, 0 without one
    versions,   \* configuration versions the import made
    batches,    \* rows_imported of each batch, by the rows up to its cursor
    dest,       \* Absent, Foreign, or what the import wrote: a version, or 0
    sequence,   \* last id each sequence handed out
    published,  \* "yes", "no", or "excused" from it by the operator
    lock,       \* holder of the advisory lock
    (* migrators *)
    pc,
    under,      \* configuration version it imports under
    at,         \* entity it imports, as an index of Entities
    done,       \* completed_count
    next,       \* next row of a batch of Redis rows
    (* history *)
    imported,   \* rows the import wrote, or found as it would have written them
    overlapped, \* two migrators were at work at once
    faults, expiries, live

ledger   == <<status, version, versions, batches>>
migrator == <<pc, under, at, done, next>>
vars == <<ledger, dest, sequence, published, lock, migrator, imported, overlapped,
          faults, expiries, live>>

Steps == {"idle", "start", "configure", "insert", "checkpoint", "batch", "row", "hset", "compare",
          "record", "reset", "publish", "reconcile", "complete", "fail", "unlock"}

Outcomes == {"no", "yes"} \union {"excused" : m \in AllowDisabled}

LedgerTypeOK ==
    /\ status \in {None, "running", "failed", "completed"}
    /\ version \in 0..MaxVersions /\ versions \in 0..MaxVersions
    /\ DOMAIN batches = EntitySet
    /\ \A e \in EntitySet :
         /\ DOMAIN batches[e] \subseteq Identity[e]
         /\ \A c \in DOMAIN batches[e] : batches[e][c] \in Identity[e]

DestTypeOK ==
    /\ DOMAIN dest = EntitySet
    /\ \A e \in EntitySet :
         /\ dest[e] \in [Identity[e] -> {Absent, Foreign} \union 0..MaxVersions]
         /\ imported[e] \subseteq Identity[e]
    /\ sequence \in [Serial -> Nat]
    /\ published \in Outcomes

MigratorTypeOK ==
    /\ lock \in Migrators \union {None}
    /\ pc \in [Migrators -> Steps]
    /\ under \in [Migrators -> 0..MaxVersions]
    /\ at \in [Migrators -> 0..Len(Entities) + 1]
    /\ done \in [Migrators -> Nat]
    /\ next \in [Migrators -> Nat]

TypeOK ==
    /\ LedgerTypeOK /\ DestTypeOK /\ MigratorTypeOK
    /\ overlapped \in BOOLEAN
    /\ faults \in 0..MaxFaults /\ expiries \in 0..MaxExpiries /\ live \in 0..MaxLive

Init ==
    /\ status = None
    /\ version = 0
    /\ versions = 0
    /\ batches = [e \in EntitySet |-> <<>>]
    /\ dest = [e \in EntitySet |-> [i \in Identity[e] |-> Absent]]
    /\ sequence = [e \in Serial |-> 0]
    /\ published = "no"
    /\ lock = None
    /\ pc = [m \in Migrators |-> "idle"]
    /\ under = [m \in Migrators |-> 0]
    /\ at = [m \in Migrators |-> 0]
    /\ done = [m \in Migrators |-> 0]
    /\ next = [m \in Migrators |-> 0]
    /\ imported = [e \in EntitySet |-> {}]
    /\ overlapped = FALSE
    /\ faults = 0 /\ expiries = 0 /\ live = 0

-----------------------------------------------------------------------------
Entity(m) == Entities[at[m]]
Goto(m, step) == pc' = [pc EXCEPT ![m] = step]

\* The rows a batch beginning after the first n covers.
Batch(m, n) == (n + 1)..Min({n + BatchSize[m], Count[Entity(m)]})

\* completed_count: what the completed batches of an entity add up to.
Completed(e) == SumOf(batches[e], DOMAIN batches[e])

\* What an import under a version writes, and the row it must find instead.
Expected(e, v) == IF e \in Versioned THEN v ELSE 0
Conflicts(e, i, v) == dest[e][i] \notin {Absent, Expected(e, v)}

\* ON CONFLICT (migration_run_id, entity, source_cursor) DO NOTHING.  The
\* cursor is the number of rows up to the end of the batch, with the digest of
\* its last row.
Checkpoint(e, cursor, rows) ==
    batches' = IF cursor \in DOMAIN batches[e] THEN batches
               ELSE [batches EXCEPT ![e] = [c \in DOMAIN batches[e] \union {cursor} |->
                                              IF c = cursor THEN rows ELSE batches[e][c]]]

\* The import of the entities begins, under a configuration version.
ImportUnder(m, v) ==
    /\ under' = [under EXCEPT ![m] = v]
    /\ at' = [at EXCEPT ![m] = 1]
    /\ Goto(m, "checkpoint")

-----------------------------------------------------------------------------
(* Mutated forms.                                                          *)

\* The checkpoint of a batch of Redis is recorded before its rows.
BeginBatchRecorded(m) ==
    /\ pc[m] = "batch"
    /\ Entity(m) \in RedisSet
    /\ done[m] < Count[Entity(m)]
    /\ Checkpoint(Entity(m), Max(Batch(m, done[m])), Cardinality(Batch(m, done[m])))
    /\ next' = [next EXCEPT ![m] = done[m] + 1]
    /\ Goto(m, "row")
    /\ UNCHANGED <<status, version, versions, dest, sequence, published, lock, under, at,
                   done, imported, overlapped, faults, expiries, live>>

\* The configuration commits without its checkpoint.
InsertOnly(m) ==
    /\ pc[m] = "insert"
    /\ versions < MaxVersions
    /\ versions' = versions + 1
    /\ ImportUnder(m, versions')
    /\ UNCHANGED <<status, version, batches, dest, sequence, published, lock, done, next,
                   imported, overlapped, faults, expiries, live>>

\* The sequences stay where they are.
NextEntityNoReset(m) ==
    /\ pc[m] = "batch"
    /\ done[m] = Count[Entity(m)]
    /\ at' = [at EXCEPT ![m] = @ + 1]
    /\ Goto(m, IF at[m] = Len(Entities) THEN "publish" ELSE "checkpoint")
    /\ UNCHANGED <<ledger, dest, sequence, published, lock, under, done, next, imported,
                   overlapped, faults, expiries, live>>

-----------------------------------------------------------------------------
(* The run: _apply.                                                        *)

\* pg_try_advisory_lock on a connection of its own.  Once the run has completed
\* another one changes nothing.
TakeLock(m) ==
    /\ pc[m] = "idle"
    /\ status # "completed"
    /\ lock = None
    /\ lock' = m
    /\ overlapped' = (overlapped \/ \E n \in Migrators : pc[n] # "idle")
    /\ Goto(m, "start")
    /\ UNCHANGED <<ledger, dest, sequence, published, under, at, done, next, imported,
                   faults, expiries, live>>

\* _start_run.  A completed run is returned as it is.
StartRun(m) ==
    /\ pc[m] = "start"
    /\ status' = IF status = "completed" THEN status ELSE "running"
    /\ \/ status # "completed" /\ Goto(m, "configure")
       \/ status = "completed" /\ Goto(m, "unlock")
    /\ UNCHANGED <<version, versions, batches, dest, sequence, published, lock, under, at,
                   done, next, imported, overlapped, faults, expiries, live>>

\* _migrate_configuration: the version of an earlier import, if one is recorded;
\* of several, that of the last.
Configure(m) ==
    /\ pc[m] = "configure"
    /\ \/ version # 0 /\ ImportUnder(m, version)
       \/ version = 0 /\ Goto(m, "insert") /\ UNCHANGED <<under, at>>
    /\ UNCHANGED <<ledger, dest, sequence, published, lock, done, next, imported, overlapped,
                   faults, expiries, live>>

\* Otherwise rows, version, outbox event and checkpoint in one transaction, that
\* does not ask again.  Rows found as they should be are no conflict.
InsertConfiguration(m) ==
    /\ pc[m] = "insert"
    /\ versions < MaxVersions
    /\ versions' = versions + 1
    /\ version' = versions'
    /\ ImportUnder(m, versions')
    /\ UNCHANGED <<status, batches, dest, sequence, published, lock, done, next, imported,
                   overlapped, faults, expiries, live>>

\* _completed_batches: where the import of an entity resumes.
ReadCheckpoint(m) ==
    /\ pc[m] = "checkpoint"
    /\ done' = [done EXCEPT ![m] = Completed(Entity(m))]
    /\ Goto(m, IF done'[m] > Count[Entity(m)] THEN "fail" ELSE "batch")
    /\ UNCHANGED <<ledger, dest, sequence, published, lock, under, at, next, imported,
                   overlapped, faults, expiries, live>>

NextEntity(m) ==
    /\ pc[m] = "batch"
    /\ done[m] = Count[Entity(m)]
    /\ at' = [at EXCEPT ![m] = @ + 1]
    /\ Goto(m, IF at[m] = Len(Entities) THEN "reset" ELSE "checkpoint")
    /\ UNCHANGED <<ledger, dest, sequence, published, lock, under, done, next, imported,
                   overlapped, faults, expiries, live>>

\* One batch of _migrate_sql_entity; a row that differs rolls it back.
ImportBatch(m) ==
    /\ pc[m] = "batch"
    /\ LET e == Entity(m)
           rows == Batch(m, done[m])
       IN /\ e \notin RedisSet
          /\ rows # {}
          /\ \/ /\ \E i \in rows : Conflicts(e, i, under[m])
                /\ Goto(m, "fail")
                /\ UNCHANGED <<dest, imported, batches, done>>
             \/ /\ \A i \in rows : ~Conflicts(e, i, under[m])
                /\ dest' = [dest EXCEPT ![e] = [i \in Identity[e] |->
                       IF i \in rows /\ dest[e][i] = Absent THEN Expected(e, under[m])
                       ELSE dest[e][i]]]
                /\ imported' = [imported EXCEPT ![e] = @ \union rows]
                /\ Checkpoint(e, Max(rows), Cardinality(rows))
                /\ done' = [done EXCEPT ![m] = Max(rows)]
                /\ UNCHANGED pc
    /\ UNCHANGED <<status, version, versions, sequence, published, lock, under, at, next,
                   overlapped, faults, expiries, live>>

\* A batch of _migrate_redis_entity: its rows one by one, then its checkpoint.
BeginBatch(m) ==
    /\ pc[m] = "batch"
    /\ Entity(m) \in RedisSet
    /\ done[m] < Count[Entity(m)]
    /\ next' = [next EXCEPT ![m] = done[m] + 1]
    /\ Goto(m, "row")
    /\ UNCHANGED <<ledger, dest, sequence, published, lock, under, at, done, imported,
                   overlapped, faults, expiries, live>>

RowDone(m, i) ==
    /\ next' = [next EXCEPT ![m] = i + 1]
    /\ imported' = [imported EXCEPT ![Entity(m)] = @ \union {i}]
    /\ Goto(m, IF i = Max(Batch(m, done[m])) THEN "record" ELSE "row")

WriteRow(m, i) ==
    /\ dest' = [dest EXCEPT ![Entity(m)][i] = 0]
    /\ RowDone(m, i)

CompareRow(m, i) ==
    /\ \/ Conflicts(Entity(m), i, 0) /\ Goto(m, "fail") /\ UNCHANGED <<next, imported>>
       \/ ~Conflicts(Entity(m), i, 0) /\ RowDone(m, i)
    /\ UNCHANGED dest

\* The HGETALL of _insert_circuit; the HSET follows when there was no hash.
LookUp(m, i) ==
    \/ /\ dest[Entity(m)][i] = Absent
       /\ Goto(m, "hset")
       /\ UNCHANGED <<dest, next, imported>>
    \/ /\ dest[Entity(m)][i] # Absent
       /\ CompareRow(m, i)

\* Mutated: a SET without NX.
SetAlways(m, i) == WriteRow(m, i)

\* The SET NX of _insert_idempotency; a GET follows when the key exists.
SetNX(m, i) ==
    \/ /\ dest[Entity(m)][i] = Absent
       /\ WriteRow(m, i)
    \/ /\ dest[Entity(m)][i] # Absent
       /\ Goto(m, "compare")
       /\ UNCHANGED <<dest, next, imported>>

ImportRow(m) ==
    /\ LET i == next[m]
       IN \/ pc[m] = "row" /\ Entity(m) \in Circuits /\ LookUp(m, i)
          \/ pc[m] = "row" /\ Entity(m) \notin Circuits /\ SetNX(m, i)
          \/ pc[m] = "hset" /\ WriteRow(m, i)
          \* A GET that finds nothing any more is not the payload either.
          \/ pc[m] = "compare" /\ dest[Entity(m)][i] # Absent /\ CompareRow(m, i)
          \/ /\ pc[m] = "compare" /\ dest[Entity(m)][i] = Absent
             /\ Goto(m, "fail")
             /\ UNCHANGED <<dest, next, imported>>
    /\ UNCHANGED <<ledger, sequence, published, lock, under, at, done, overlapped, faults,
                   expiries, live>>

RecordBatch(m) ==
    /\ pc[m] = "record"
    /\ LET rows == Batch(m, done[m])
       IN /\ Checkpoint(Entity(m), Max(rows), Cardinality(rows))
          /\ done' = [done EXCEPT ![m] = Max(rows)]
    /\ Goto(m, "batch")
    /\ UNCHANGED <<status, version, versions, dest, sequence, published, lock, under, at,
                   next, imported, overlapped, faults, expiries, live>>

\* setval(max(id)) with the rows there are, whoever wrote them: an id beyond
\* those of the source was handed out by the sequence itself.
ResetSequences(m) ==
    /\ pc[m] = "reset"
    /\ sequence' = [e \in Serial |->
           IF sequence[e] > Count[e] THEN sequence[e]
           ELSE Max({0} \union {i \in Identity[e] : dest[e][i] # Absent})]
    /\ Goto(m, "publish")
    /\ UNCHANGED <<ledger, dest, published, lock, under, at, done, next, imported,
                   overlapped, faults, expiries, live>>

\* _publish.  A PublicationError is the end of the run, unless the operator
\* allowed providers that are disabled.
Publish(m) ==
    /\ pc[m] = "publish"
    /\ \/ published' = "yes" /\ Goto(m, "reconcile")
       \/ /\ m \in AllowDisabled
          /\ published' = IF published = "yes" THEN "yes" ELSE "excused"
          /\ Goto(m, "reconcile")
       \/ /\ m \notin AllowDisabled
          /\ Goto(m, "fail")
          /\ UNCHANGED published
    /\ UNCHANGED <<ledger, dest, sequence, lock, under, at, done, next, imported,
                   overlapped, faults, expiries, live>>

\* _reconciles: every identity of the source is there, and the sums agree.
Reconciles ==
    \A e \in EntitySet : \A i \in Identity[e] :
        /\ dest[e][i] # Absent
        /\ e \in Totalled => dest[e][i] # Foreign

Reconcile(m) ==
    /\ pc[m] = "reconcile"
    /\ Goto(m, IF Reconciles THEN "complete" ELSE "fail")
    /\ UNCHANGED <<ledger, dest, sequence, published, lock, under, at, done, next,
                   imported, overlapped, faults, expiries, live>>

\* _complete_run and _fail_run write the status whatever it was.
EndRun(m) ==
    /\ \/ pc[m] = "complete" /\ status' = "completed"
       \/ pc[m] = "fail" /\ status' = "failed"
    /\ Goto(m, "unlock")
    /\ UNCHANGED <<version, versions, batches, dest, sequence, published, lock, under, at,
                   done, next, imported, overlapped, faults, expiries, live>>

Forget(m) ==
    /\ Goto(m, "idle")
    /\ under' = [under EXCEPT ![m] = 0]
    /\ at' = [at EXCEPT ![m] = 0]
    /\ done' = [done EXCEPT ![m] = 0]
    /\ next' = [next EXCEPT ![m] = 0]
    /\ lock' = IF lock = m THEN None ELSE lock

Unlock(m) ==
    /\ pc[m] = "unlock"
    /\ Forget(m)
    /\ UNCHANGED <<ledger, dest, sequence, published, imported, overlapped, faults,
                   expiries, live>>

-----------------------------------------------------------------------------
(* Failures, and the system that may already be running.                   *)

\* The process dies; PostgreSQL releases its lock.
Crash(m) ==
    /\ faults < MaxFaults
    /\ pc[m] # "idle"
    /\ faults' = faults + 1
    /\ Forget(m)
    /\ UNCHANGED <<ledger, dest, sequence, published, imported, overlapped, expiries, live>>

\* A call fails, or the publisher does.
CallFails(m) ==
    /\ faults < MaxFaults
    /\ pc[m] \notin {"idle", "start", "fail", "unlock"}
    /\ faults' = faults + 1
    /\ Goto(m, "fail")
    /\ UNCHANGED <<ledger, dest, sequence, published, lock, under, at, done, next,
                   imported, overlapped, expiries, live>>

LockLost ==
    /\ faults < MaxFaults
    /\ lock # None
    /\ faults' = faults + 1
    /\ lock' = None
    /\ UNCHANGED <<ledger, dest, sequence, published, migrator, imported, overlapped, expiries,
                   live>>

\* A key of Redis reaches its time to live, or a success deletes a circuit.
Expire(e, i) ==
    /\ expiries < MaxExpiries
    /\ e \in RedisSet
    /\ dest[e][i] # Absent
    /\ expiries' = expiries + 1
    /\ dest' = [dest EXCEPT ![e][i] = Absent]
    /\ UNCHANGED <<ledger, sequence, published, lock, migrator, imported, overlapped, faults,
                   live>>

\* The running system charges a key, opens a circuit.
LiveWrite(e, i) ==
    /\ live < MaxLive
    /\ e \in Live
    /\ live' = live + 1
    /\ dest' = [dest EXCEPT ![e][i] = Foreign]
    /\ UNCHANGED <<ledger, sequence, published, lock, migrator, imported, overlapped, faults,
                   expiries>>

\* It inserts a row under the next id, unless that id is taken.
LiveInsert(e) ==
    /\ live < MaxLive
    /\ live' = live + 1
    /\ sequence' = [sequence EXCEPT ![e] = @ + 1]
    /\ dest' = IF sequence'[e] \in Identity[e] /\ dest[e][sequence'[e]] = Absent
               THEN [dest EXCEPT ![e][sequence'[e]] = Foreign] ELSE dest
    /\ UNCHANGED <<ledger, published, lock, migrator, imported, overlapped, faults, expiries>>

-----------------------------------------------------------------------------
Work(m) ==
    \/ StartRun(m) \/ Configure(m) \/ InsertConfiguration(m) \/ ReadCheckpoint(m)
    \/ NextEntity(m) \/ ImportBatch(m) \/ BeginBatch(m) \/ ImportRow(m) \/ RecordBatch(m)
    \/ ResetSequences(m) \/ Publish(m) \/ Reconcile(m) \/ EndRun(m) \/ Unlock(m)

Next ==
    \/ \E m \in Migrators : TakeLock(m) \/ Work(m) \/ Crash(m) \/ CallFails(m)
    \/ LockLost
    \/ \E e \in EntitySet : \E i \in Identity[e] : Expire(e, i) \/ LiveWrite(e, i)
    \/ \E e \in Serial : LiveInsert(e)

Spec == Init /\ [][Next]_vars

-----------------------------------------------------------------------------
(* Properties.                                                             *)

\* sqlite_import.py, resuming: the rows a resumed import skips are rows an
\* earlier one wrote or compared, however it was interrupted, as long as the
\* lock kept the migrators apart.
CheckpointedIsImported ==
    overlapped \/ \A e \in EntitySet : 1..Completed(e) \subseteq imported[e]

\* _apply: a completed run has written or compared every row of the source, its
\* configuration was published, unless --allow-disabled-providers excused it, and
\* no id of the source is handed out again: a batch counted twice, a row of the
\* running system in the place of one of the source or a half-written batch does
\* not pass for an import.
CompletedIsWhole ==
    status = "completed" /\ ~overlapped =>
        /\ \A e \in EntitySet : imported[e] = Identity[e]
        /\ published = "yes" \/ (published = "excused" /\ AllowDisabled # {})
        /\ \A e \in Serial : sequence[e] >= Count[e]

\* _migrate_configuration: imports that follow one another, wherever each was
\* interrupted, make one configuration version between them, the one every row
\* is imported under.  Two that overlap, the lock of one being lost, can each
\* find no checkpoint and make a version of their own.
OneVersion ==
    overlapped \/ /\ versions <= 1
                  /\ \A e \in Versioned : \A i \in Identity[e] :
                        dest[e][i] \in {Absent, Foreign, version}

\* _insert_mapping, _insert_idempotency, _insert_circuit: an import leaves alone
\* what the running system wrote, except a circuit it opened between the HGETALL
\* and the HSET.
NeverOverwrites ==
    [][\A e \in EntitySet : \A i \in Identity[e] :
         dest[e][i] = Foreign /\ dest'[e][i] # Foreign =>
            \/ expiries' # expiries
            \/ \E m \in Migrators : pc[m] = "hset" /\ Entity(m) = e /\ next[m] = i]_vars
=============================================================================
