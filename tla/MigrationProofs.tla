--------------------------- MODULE MigrationProofs ---------------------------
(***************************************************************************)
(* Theorems about Migration, for every source, every number of migrators   *)
(* and batch sizes, any number of faults, expiries and writes of the       *)
(* running system.                                                         *)
(***************************************************************************)
EXTENDS Migration, SumsProofs

-----------------------------------------------------------------------------
(***************************************************************************)
(* The inductive invariant.  Where a migrator is tells which rows its      *)
(* import has been through; and as long as the lock kept the migrators     *)
(* apart, the batches recorded for an entity add up to a prefix of it, and *)
(* one configuration version at most has been made, with its checkpoint.   *)
(***************************************************************************)
Writing == {"row", "hset", "compare"}
InBatch == Writing \union {"record"}
Resumed == {"batch"} \union InBatch
Importing == {"checkpoint"} \union Resumed
Finishing == {"reset", "publish", "reconcile", "complete"}

Last(m) == Max(Batch(m, done[m]))

\* What TypeOK leaves to be said: the tables are functions.
Shapes ==
    /\ batches = [e \in EntitySet |-> batches[e]]
    /\ dest = [e \in EntitySet |-> dest[e]]
    /\ imported = [e \in EntitySet |-> imported[e]]

Place(m) ==
    /\ pc[m] \in Importing => at[m] \in DOMAIN Entities
    /\ pc[m] \in Finishing => at[m] = Len(Entities) + 1
    /\ pc[m] \in Resumed => done[m] <= Count[Entity(m)]
    /\ pc[m] \in InBatch => Entity(m) \in RedisSet /\ done[m] < Count[Entity(m)]
    /\ pc[m] \in Writing => next[m] \in (done[m] + 1)..Last(m)
    /\ pc[m] = "record" => next[m] = Last(m) + 1

Rows == \A e \in EntitySet \ RedisSet : \A i \in imported[e] : dest[e][i] # Absent

\* The batches recorded for an entity add up to a prefix of it that is imported,
\* and the next cursor will be a new one.
Prefix(e) ==
    /\ Completed(e) \in 0..Count[e]
    /\ \A c \in DOMAIN batches[e] : c <= Completed(e)
    /\ 1..Completed(e) \subseteq imported[e]

Whole(e) == imported[e] = Identity[e]
SequencesPast == \A e \in Serial : sequence[e] >= Count[e]

Progress(m) ==
    /\ pc[m] # "idle" => \A n \in Migrators : n # m => pc[n] = "idle"
    /\ pc[m] \in Resumed => done[m] = Completed(Entity(m))
    /\ pc[m] \in InBatch => (done[m] + 1)..(next[m] - 1) \subseteq imported[Entity(m)]
    /\ pc[m] \in Importing \union Finishing =>
          \A j \in DOMAIN Entities : j < at[m] => Whole(Entities[j])
    /\ pc[m] \in {"publish", "reconcile", "complete"} => SequencesPast
    /\ pc[m] \in {"reconcile", "complete"} => published # "no"
    /\ status = "completed" => pc[m] \in {"idle", "unlock"}

Finished ==
    status = "completed" => (\A e \in EntitySet : Whole(e)) /\ published # "no" /\ SequencesPast

Apart ==
    /\ \A e \in EntitySet : Prefix(e)
    /\ \A m \in Migrators : Progress(m)
    /\ Finished

\* Who finds no checkpoint is the first to make a version.
Under(m) ==
    /\ pc[m] = "insert" => version = 0
    /\ pc[m] \in Importing \union Finishing => under[m] = version /\ version = 1

OneImport ==
    /\ version = versions /\ version \in {0, 1}
    /\ \A m \in Migrators : Under(m)
    /\ \A e \in Versioned : \A i \in Identity[e] :
          dest[e][i] \notin {Absent, Foreign} => dest[e][i] = version /\ version = 1

Control == TypeOK /\ Shapes /\ \A m \in Migrators : Place(m)
IInv == Control /\ Rows /\ (overlapped \/ (Apart /\ OneImport))

-----------------------------------------------------------------------------
(* Entities, batches and checkpoints.                                      *)

LEMMA EntityFacts ==
    /\ Len(Entities) \in Nat \ {0} /\ DOMAIN Entities = 1..Len(Entities)
    /\ \A e \in EntitySet : Count[e] \in Nat /\ Identity[e] = 1..Count[e]
    /\ \A i \in DOMAIN Entities : Entities[i] \in EntitySet
<1>1. Entities \in Seq(STRING) /\ Entities # <<>>
  BY MigrationAssumption DEF Entities
<1> HIDE DEF Entities
<1>2. Len(Entities) \in Nat \ {0} /\ DOMAIN Entities = 1..Len(Entities)
  BY <1>1
<1> QED
  BY <1>2, MigrationAssumption DEF EntitySet, Identity

LEMMA MaxOfInterval ==
    ASSUME NEW a \in Int, NEW b \in Int, a <= b
    PROVE  Max(a..b) = b
<1>1. \A x \in a..b : x <= b
  OBVIOUS
<1>2. b \in a..b
  OBVIOUS
<1> QED
  BY <1>1, <1>2 DEF Max

LEMMA MaxIn ==
    ASSUME NEW n \in Nat, NEW S, S \subseteq 0..n, S # {}
    PROVE  Max(S) \in S /\ \A x \in S : x <= Max(S)
<1> DEFINE T == {n - x : x \in S}
<1>1. T \subseteq Nat /\ T # {}
  <2>1. \A x \in S : n - x \in Nat
    OBVIOUS
  <2> QED
    BY <2>1
<1>2. PICK t \in T : \A u \in T : t <= u
  BY <1>1, LeastNatural
<1>3. PICK x \in S : t = n - x
  BY <1>2
<1>4. ASSUME NEW y \in S PROVE x >= y
  <2>1. n - y \in T
    OBVIOUS
  <2>2. t <= n - y
    BY <1>2, <2>1
  <2> QED
    BY <1>3, <2>2
<1>5. \E z \in S : \A y \in S : z >= y
  BY <1>4
<1>6. Max(S) \in S /\ \A y \in S : Max(S) >= y
  BY <1>5 DEF Max
<1> QED
  BY <1>6

LEMMA MinOfTwo ==
    ASSUME NEW a \in Int, NEW b \in Int
    PROVE  Min({a, b}) = IF a <= b THEN a ELSE b
<1>1. CASE a <= b
  <2>1. \A x \in {a, b} : a <= x
    BY <1>1
  <2>2. \A x \in {a, b} : (\A y \in {a, b} : x <= y) => x = a
    BY <1>1
  <2> QED
    BY <1>1, <2>1, <2>2 DEF Min
<1>2. CASE b < a
  <2>1. \A x \in {a, b} : b <= x
    BY <1>2
  <2>2. \A x \in {a, b} : (\A y \in {a, b} : x <= y) => x = b
    BY <1>2
  <2> QED
    BY <1>2, <2>1, <2>2 DEF Min
<1> QED
  BY <1>1, <1>2

(* A batch that begins after n rows of an entity and is not empty.         *)
LEMMA BatchFacts ==
    ASSUME NEW m \in Migrators, at[m] \in DOMAIN Entities, NEW n \in Nat,
           n < Count[Entity(m)] \/ Batch(m, n) # {}, n <= Count[Entity(m)]
    PROVE  /\ Max(Batch(m, n)) \in (n + 1)..Count[Entity(m)]
           /\ Batch(m, n) = (n + 1)..Max(Batch(m, n))
           /\ Cardinality(Batch(m, n)) = Max(Batch(m, n)) - n
           /\ Max(Batch(m, n)) \in Identity[Entity(m)]
           /\ Cardinality(Batch(m, n)) \in Identity[Entity(m)]
<1>1. /\ Entity(m) \in EntitySet /\ Count[Entity(m)] \in Nat
      /\ Identity[Entity(m)] = 1..Count[Entity(m)] /\ BatchSize[m] \in Nat \ {0}
  BY EntityFacts, MigrationAssumption DEF Entity
<1> DEFINE k == Min({n + BatchSize[m], Count[Entity(m)]})
<1>2. k \in Nat /\ k <= Count[Entity(m)] /\ (n < Count[Entity(m)] => n < k)
      /\ (n = Count[Entity(m)] => k <= n)
  <2>1. k = IF n + BatchSize[m] <= Count[Entity(m)]
            THEN n + BatchSize[m] ELSE Count[Entity(m)]
    <3>1. n + BatchSize[m] \in Int /\ Count[Entity(m)] \in Int
      BY <1>1
    <3> QED
      BY <3>1, MinOfTwo, Zenon
  <2> HIDE DEF k
  <2> QED
    BY <1>1, <2>1
<1>3. Batch(m, n) = (n + 1)..k
  BY DEF Batch
<1> HIDE DEF k
<1>4. n < k
  BY <1>1, <1>2, <1>3
<1>5. Max(Batch(m, n)) = k
  <2>1. Max((n + 1)..k) = k
    BY <1>2, <1>4, MaxOfInterval
  <2> QED
    BY <1>3, <2>1
<1>6. Cardinality(Batch(m, n)) = k - n
  BY <1>2, <1>3, <1>4, FS_Interval
<1> QED
  BY <1>1, <1>2, <1>3, <1>4, <1>5, <1>6

LEMMA BatchesFinite ==
    ASSUME LedgerTypeOK, NEW e \in EntitySet
    PROVE  /\ IsFiniteSet(DOMAIN batches[e])
           /\ \A c \in DOMAIN batches[e] : batches[e][c] \in Nat
           /\ Completed(e) \in Nat
<1>1. DOMAIN batches[e] \subseteq 1..Count[e] /\ IsFiniteSet(1..Count[e])
  <2>1. 1 \in Int /\ Count[e] \in Int /\ DOMAIN batches[e] \subseteq 1..Count[e]
    BY EntityFacts DEF LedgerTypeOK
  <2>2. IsFiniteSet(1..Count[e])
    BY <2>1, FS_Interval, Zenon
  <2> QED
    BY <2>1, <2>2
<1>2. IsFiniteSet(DOMAIN batches[e])
  BY <1>1, FS_Subset
<1>3. \A c \in DOMAIN batches[e] : batches[e][c] \in Nat
  BY EntityFacts DEF LedgerTypeOK
<1> QED
  BY <1>2, <1>3, SumNat DEF Completed

(* Recording a batch keeps the form of the ledger.                         *)
LEMMA CheckpointShape ==
    ASSUME LedgerTypeOK, Shapes, NEW e \in EntitySet, NEW cursor \in Identity[e],
           NEW rows \in Identity[e], Checkpoint(e, cursor, rows)
    PROVE  /\ batches' = [d \in EntitySet |-> batches'[d]]
           /\ \A d \in EntitySet :
                /\ DOMAIN batches'[d] \subseteq Identity[d]
                /\ \A c \in DOMAIN batches'[d] : batches'[d][c] \in Identity[d]
                /\ d # e => batches'[d] = batches[d]
<1>1. CASE cursor \in DOMAIN batches[e]
  BY <1>1 DEF Checkpoint, LedgerTypeOK, Shapes
<1>2. CASE cursor \notin DOMAIN batches[e]
  <2> DEFINE b == [c \in DOMAIN batches[e] \union {cursor} |->
                     IF c = cursor THEN rows ELSE batches[e][c]]
  <2>1. batches' = [batches EXCEPT ![e] = b]
    BY <1>2 DEF Checkpoint
  <2>2. DOMAIN b \subseteq Identity[e] /\ \A c \in DOMAIN b : b[c] \in Identity[e]
    BY DEF LedgerTypeOK
  <2> HIDE DEF b
  <2>3. batches'[e] = b /\ \A d \in EntitySet : d # e => batches'[d] = batches[d]
    BY <2>1 DEF Shapes
  <2>4. batches' = [d \in EntitySet |-> batches'[d]]
    BY <2>1 DEF Shapes
  <2> QED
    BY <2>2, <2>3, <2>4 DEF LedgerTypeOK
<1> QED
  BY <1>1, <1>2

(* A batch recorded under a cursor past all the others adds its rows.      *)
LEMMA CheckpointAdds ==
    ASSUME LedgerTypeOK, Shapes, NEW e \in EntitySet, Prefix(e),
           NEW cursor \in Identity[e], NEW rows \in Identity[e],
           cursor = Completed(e) + rows, Checkpoint(e, cursor, rows)
    PROVE  /\ Completed(e)' = cursor
           /\ \A c \in DOMAIN batches'[e] : c <= cursor
<1>1. /\ Completed(e) \in Nat /\ cursor \in Nat /\ rows \in Nat /\ rows > 0
      /\ IsFiniteSet(DOMAIN batches[e])
      /\ \A c \in DOMAIN batches[e] : batches[e][c] \in Nat
      /\ DOMAIN batches[e] \subseteq Nat
  BY BatchesFinite, EntityFacts DEF LedgerTypeOK
<1>2. cursor \notin DOMAIN batches[e]
  BY <1>1 DEF Prefix
<1> DEFINE b == [c \in DOMAIN batches[e] \union {cursor} |->
                   IF c = cursor THEN rows ELSE batches[e][c]]
<1>3. batches'[e] = b
  BY <1>2 DEF Checkpoint, Shapes
<1>4. DOMAIN b = DOMAIN batches[e] \union {cursor} /\ b[cursor] = rows
      /\ \A c \in DOMAIN batches[e] : b[c] = batches[e][c]
  BY <1>2
<1> HIDE DEF b
<1>5. SumOf(b, DOMAIN batches[e]) = Completed(e)
  BY <1>1, <1>4, SumAgrees DEF Completed
<1>6. \A c \in DOMAIN batches[e] \union {cursor} : b[c] \in Int
  BY <1>1, <1>4
<1>7. SumOf(b, DOMAIN b) = rows + Completed(e)
  BY <1>1, <1>2, <1>4, <1>5, <1>6, SumAdd
<1>8. Completed(e)' = cursor
  BY <1>1, <1>3, <1>7 DEF Completed
<1> QED
  BY <1>1, <1>3, <1>4, <1>8 DEF Prefix

-----------------------------------------------------------------------------
(* Types.                                                                  *)

LEMMA InitType == Init => Control
<1> SUFFICES ASSUME Init PROVE Control
  OBVIOUS
<1>1. {MaxVersions, MaxFaults, MaxExpiries, MaxLive} \subseteq Nat /\ Len(Entities) \in Nat
  BY MigrationAssumption, EntityFacts
<1>2. LedgerTypeOK
  BY <1>1 DEF Init, LedgerTypeOK
<1>3. DestTypeOK
  BY <1>1 DEF Init, DestTypeOK, Outcomes
<1>4. MigratorTypeOK
  BY <1>1 DEF Init, MigratorTypeOK, Steps
<1>5. Shapes
  BY DEF Init, Shapes
<1>6. \A m \in Migrators : Place(m)
  BY DEF Init, Place, Importing, Resumed, InBatch, Writing, Finishing
<1>7. /\ overlapped \in BOOLEAN
      /\ faults \in 0..MaxFaults /\ expiries \in 0..MaxExpiries /\ live \in 0..MaxLive
  <2>1. 0 \in 0..MaxFaults /\ 0 \in 0..MaxExpiries /\ 0 \in 0..MaxLive
    <3>1. MaxFaults \in Nat /\ MaxExpiries \in Nat /\ MaxLive \in Nat
      BY <1>1
    <3> QED
      BY <3>1
  <2> QED
    BY <2>1 DEF Init
<1> QED
  BY <1>2, <1>3, <1>4, <1>5, <1>6, <1>7 DEF Control, TypeOK

(* What a migrator writes to the ledger.                                   *)
LEMMA LedgerStep ==
    ASSUME Control, NEW m \in Migrators, Work(m)
    PROVE  /\ LedgerTypeOK'
           /\ batches' = [e \in EntitySet |-> batches'[e]]
<1> USE DEF Control, TypeOK, LedgerTypeOK, Shapes
<1> USE DEF ledger
<1>1. CASE /\ UNCHANGED <<version, versions, batches>>
           /\ status' \in {status, "running", "failed", "completed"}
  BY <1>1
<1>2. CASE InsertConfiguration(m)
  BY <1>2, MigrationAssumption DEF InsertConfiguration
<1>3. CASE UNCHANGED <<status, version, versions>> /\
           \E e \in EntitySet : \E c \in Identity[e], n \in Identity[e] : Checkpoint(e, c, n)
  BY <1>3, CheckpointShape
<1>4. CASE ImportBatch(m)
  <2>1. /\ pc[m] = "batch" /\ Place(m) /\ Batch(m, done[m]) # {}
        /\ Entity(m) \in EntitySet
    BY <1>4, EntityFacts DEF ImportBatch, Place, Importing, Resumed, Entity
  <2>2. at[m] \in DOMAIN Entities /\ done[m] <= Count[Entity(m)] /\ done[m] \in Nat
    BY <2>1 DEF Place, Importing, Resumed, MigratorTypeOK
  <2>3. /\ Max(Batch(m, done[m])) \in Identity[Entity(m)]
        /\ Cardinality(Batch(m, done[m])) \in Identity[Entity(m)]
    BY <2>1, <2>2, BatchFacts
  <2>4. \/ UNCHANGED batches
        \/ Checkpoint(Entity(m), Max(Batch(m, done[m])), Cardinality(Batch(m, done[m])))
    BY <1>4 DEF ImportBatch
  <2>5. UNCHANGED <<status, version, versions>>
    BY <1>4 DEF ImportBatch
  <2> QED
    BY <1>1, <1>3, <2>1, <2>3, <2>4, <2>5
<1>5. CASE RecordBatch(m)
  <2>1. pc[m] = "record" /\ Place(m) /\ Entity(m) \in EntitySet
    BY <1>5, EntityFacts DEF RecordBatch, Place, Importing, Resumed, InBatch, Entity
  <2>2. at[m] \in DOMAIN Entities /\ done[m] < Count[Entity(m)] /\ done[m] \in Nat
    BY <2>1 DEF Place, Importing, Resumed, InBatch, MigratorTypeOK
  <2>3. /\ Max(Batch(m, done[m])) \in Identity[Entity(m)]
        /\ Cardinality(Batch(m, done[m])) \in Identity[Entity(m)]
    <3>1. done[m] <= Count[Entity(m)]
      BY <2>1, <2>2, EntityFacts
    <3> QED
      BY <2>2, <3>1, BatchFacts
  <2>4. Checkpoint(Entity(m), Max(Batch(m, done[m])), Cardinality(Batch(m, done[m])))
    BY <1>5 DEF RecordBatch
  <2>5. UNCHANGED <<status, version, versions>>
    BY <1>5 DEF RecordBatch
  <2> QED
    BY <1>3, <2>1, <2>3, <2>4, <2>5
<1>6. StartRun(m) \/ Configure(m) \/ ReadCheckpoint(m) \/ NextEntity(m) \/ BeginBatch(m)
         \/ ImportRow(m) \/ ResetSequences(m) \/ Publish(m) \/ Reconcile(m) \/ EndRun(m) \/ Unlock(m)
         => /\ UNCHANGED <<version, versions, batches>>
            /\ status' \in {status, "running", "failed", "completed"}
  BY DEF StartRun, Configure, InsertConfiguration, ImportUnder,
      ReadCheckpoint, NextEntity, BeginBatch, ImportRow,
         ResetSequences, Publish, Reconcile, EndRun, Unlock
<1> QED
  BY <1>1, <1>2, <1>4, <1>5, <1>6 DEF Work

(* A migrator at a row of Redis is at a row of the source.                 *)
LEMMA RowFacts ==
    ASSUME Control, NEW m \in Migrators, pc[m] \in Writing
    PROVE  /\ Entity(m) \in EntitySet /\ Entity(m) \in RedisSet
           /\ next[m] \in Identity[Entity(m)]
           /\ next[m] \in (done[m] + 1)..Last(m)
           /\ done[m] \in Nat /\ Last(m) \in Nat
<1>1. /\ at[m] \in DOMAIN Entities /\ done[m] \in Nat /\ Entity(m) \in RedisSet
      /\ next[m] \in (done[m] + 1)..Last(m)
      /\ done[m] < Count[Entity(m)]
  BY DEF Control, TypeOK, MigratorTypeOK, Place, Importing, Resumed, InBatch
<1>2. Entity(m) \in EntitySet /\ Count[Entity(m)] \in Nat /\ Identity[Entity(m)] = 1..Count[Entity(m)]
  BY <1>1, EntityFacts DEF Entity
<1>3. Last(m) \in (done[m] + 1)..Count[Entity(m)]
  BY <1>1, <1>2, BatchFacts DEF Last
<1> QED
  BY <1>1, <1>2, <1>3

(* What a row that is imported changes.                                    *)
LEMMA RowEffect ==
    ASSUME NEW m \in Migrators, ImportRow(m)
    PROVE  /\ pc[m] \in Writing
           /\ \/ dest' = dest
              \/ /\ dest' = [dest EXCEPT ![Entity(m)][next[m]] = 0]
                 /\ pc[m] = "hset" \/ dest[Entity(m)][next[m]] = Absent
           /\ \/ /\ UNCHANGED <<next, imported>>
                 /\ pc' = [pc EXCEPT ![m] = "hset"] \/ pc' = [pc EXCEPT ![m] = "compare"]
                       \/ pc' = [pc EXCEPT ![m] = "fail"]
              \/ RowDone(m, next[m])
  BY DEF ImportRow, LookUp, SetNX, WriteRow, CompareRow, Goto, Writing

LEMMA DestStep ==
    ASSUME Control, NEW m \in Migrators, Work(m)
    PROVE  /\ DestTypeOK'
           /\ dest' = [e \in EntitySet |-> dest'[e]]
           /\ imported' = [e \in EntitySet |-> imported'[e]]
<1> USE DEF ledger, migrator
<1>0. /\ DestTypeOK /\ MigratorTypeOK /\ LedgerTypeOK
      /\ dest = [e \in EntitySet |-> dest[e]]
      /\ imported = [e \in EntitySet |-> imported[e]]
      /\ MaxVersions \in Nat
  BY MigrationAssumption DEF Control, TypeOK, Shapes
<1>1. CASE UNCHANGED <<dest, imported, sequence>> /\ published' \in Outcomes
  BY <1>0, <1>1 DEF DestTypeOK
<1>2. CASE ImportBatch(m)
  <2>1. CASE UNCHANGED <<dest, imported>>
    BY <1>1, <1>2, <2>1, <1>0 DEF ImportBatch, DestTypeOK
  <2>2. CASE ~UNCHANGED <<dest, imported>>
    <3> DEFINE d == Entity(m)
               rows == Batch(m, done[m])
    <3>1. /\ dest' = [dest EXCEPT ![d] = [i \in Identity[d] |->
                        IF i \in rows /\ dest[d][i] = Absent THEN Expected(d, under[m])
                        ELSE dest[d][i]]]
          /\ imported' = [imported EXCEPT ![d] = @ \union rows]
          /\ rows # {}
      BY <1>2, <2>2 DEF ImportBatch
    <3>2. at[m] \in DOMAIN Entities /\ done[m] <= Count[d] /\ done[m] \in Nat
      BY <1>2 DEF ImportBatch, Control, TypeOK, MigratorTypeOK, Place, Importing, Resumed
    <3>3. /\ d \in EntitySet /\ Count[d] \in Nat /\ Identity[d] = 1..Count[d]
          /\ rows = (done[m] + 1)..Max(rows) /\ Max(rows) \in (done[m] + 1)..Count[d]
      BY <3>1, <3>2, EntityFacts, BatchFacts DEF Entity
    <3>4. rows \subseteq Identity[d]
      BY <3>2, <3>3
    <3>5. Expected(d, under[m]) \in 0..MaxVersions
      BY <1>0 DEF Expected, MigratorTypeOK
    <3> HIDE DEF d, rows
    <3>6. /\ dest'[d] \in [Identity[d] -> {Absent, Foreign} \union 0..MaxVersions]
          /\ \A e \in EntitySet : e # d => dest'[e] = dest[e]
          /\ dest' = [e \in EntitySet |-> dest'[e]]
      BY <1>0, <3>1, <3>3, <3>5 DEF DestTypeOK
    <3>7. /\ imported'[d] \subseteq Identity[d]
          /\ \A e \in EntitySet : e # d => imported'[e] = imported[e]
          /\ imported' = [e \in EntitySet |-> imported'[e]]
      BY <1>0, <3>1, <3>3, <3>4 DEF DestTypeOK
    <3>8. UNCHANGED <<sequence, published>>
      BY <1>2 DEF ImportBatch
    <3> QED
      BY <1>0, <3>6, <3>7, <3>8 DEF DestTypeOK
  <2> QED
    BY <2>1, <2>2
<1>3. CASE ImportRow(m)
  <2> DEFINE d == Entity(m)
             i == next[m]
  <2>1. pc[m] \in Writing
    BY <1>3, RowEffect
  <2>2. d \in EntitySet /\ i \in Identity[d]
    BY <2>1, RowFacts
  <2>3. /\ dest' = dest \/ dest' = [dest EXCEPT ![d][i] = 0]
        /\ imported' = imported \/ imported' = [imported EXCEPT ![d] = @ \union {i}]
    BY <1>3, RowEffect DEF RowDone
  <2>4. UNCHANGED <<sequence, published>>
    BY <1>3 DEF ImportRow
  <2> HIDE DEF d, i
  <2>5. /\ \A e \in EntitySet :
             dest'[e] \in [Identity[e] -> {Absent, Foreign} \union 0..MaxVersions]
        /\ dest' = [e \in EntitySet |-> dest'[e]]
    BY <1>0, <2>2, <2>3 DEF DestTypeOK
  <2>6. /\ \A e \in EntitySet : imported'[e] \subseteq Identity[e]
        /\ imported' = [e \in EntitySet |-> imported'[e]]
    BY <1>0, <2>2, <2>3 DEF DestTypeOK
  <2> QED
    BY <1>0, <2>4, <2>5, <2>6 DEF DestTypeOK
<1>4. CASE ResetSequences(m)
  <2>1. ASSUME NEW e \in Serial
        PROVE  Max({0} \union {i \in Identity[e] : dest[e][i] # Absent}) \in Nat
    <3>1. e \in EntitySet /\ Count[e] \in Nat /\ Identity[e] = 1..Count[e]
      BY EntityFacts, MigrationAssumption
    <3> DEFINE S == {0} \union {i \in Identity[e] : dest[e][i] # Absent}
    <3>2. S \subseteq 0..Count[e] /\ 0 \in S
      BY <3>1
    <3>3. Max(S) \in S
      BY <3>1, <3>2, MaxIn
    <3> QED
      BY <3>1, <3>2, <3>3
  <2>2. sequence' \in [Serial -> Nat]
    BY <1>0, <1>4, <2>1 DEF ResetSequences, DestTypeOK
  <2> QED
    BY <1>0, <1>4, <2>2 DEF ResetSequences, DestTypeOK
<1>5. StartRun(m) \/ Configure(m) \/ InsertConfiguration(m) \/ ReadCheckpoint(m)
         \/ NextEntity(m) \/ BeginBatch(m) \/ RecordBatch(m) \/ Publish(m) \/ Reconcile(m)
         \/ EndRun(m) \/ Unlock(m)
         => UNCHANGED <<dest, imported, sequence>> /\ published' \in Outcomes
  BY <1>0
  DEF StartRun, Configure, InsertConfiguration, ImportUnder,
      ReadCheckpoint, NextEntity, BeginBatch, RecordBatch, Publish,
      Reconcile, EndRun, Unlock, DestTypeOK, Outcomes
<1> QED
  BY <1>1, <1>2, <1>3, <1>4, <1>5 DEF Work

LEMMA MigratorStep ==
    ASSUME Control, NEW m \in Migrators, Work(m)
    PROVE  MigratorTypeOK'
<1> USE DEF ledger, migrator, Goto, Forget
<1>0. /\ MigratorTypeOK /\ LedgerTypeOK /\ Place(m) /\ m \in Migrators
      /\ MaxVersions \in Nat /\ Len(Entities) \in Nat \ {0} /\ DOMAIN Entities = 1..Len(Entities)
  BY MigrationAssumption, EntityFacts DEF Control, TypeOK
<1> USE DEF MigratorTypeOK, Steps
<1>1. CASE /\ UNCHANGED <<lock, under, at, done>>
           /\ \E s \in Steps : pc' = [pc EXCEPT ![m] = s]
           /\ next' = next \/ next' = [next EXCEPT ![m] = done[m] + 1]
  <2>1. done[m] + 1 \in Nat
    BY <1>0
  <2>2. next' \in [Migrators -> Nat]
    BY <1>0, <1>1, <2>1
  <2>3. pc' \in [Migrators -> Steps]
    BY <1>0, <1>1
  <2> QED
    BY <1>0, <1>1, <2>2, <2>3
<1>11. StartRun(m) => /\ UNCHANGED <<lock, under, at, done, next>>
                      /\ \E s \in Steps : pc' = [pc EXCEPT ![m] = s]
  BY DEF StartRun
<1>12. BeginBatch(m) => /\ UNCHANGED <<lock, under, at, done>>
                        /\ \E s \in Steps : pc' = [pc EXCEPT ![m] = s]
                        /\ next' = [next EXCEPT ![m] = done[m] + 1]
  BY DEF BeginBatch
<1>13. ResetSequences(m) \/ Publish(m) \/ Reconcile(m) \/ EndRun(m)
         => /\ UNCHANGED <<lock, under, at, done, next>>
            /\ \E s \in Steps : pc' = [pc EXCEPT ![m] = s]
  BY DEF ResetSequences, Publish, Reconcile, EndRun
<1>2. CASE Configure(m) \/ InsertConfiguration(m)
  <2>1. version \in 0..MaxVersions /\ versions \in 0..MaxVersions
    BY <1>0 DEF LedgerTypeOK
  <2>2. versions < MaxVersions => versions + 1 \in 0..MaxVersions
    BY <1>0, <2>1
  <2>3. UNCHANGED <<lock, done, next>>
    BY <1>2 DEF Configure, InsertConfiguration
  <2>4. \/ Goto(m, "insert") /\ UNCHANGED <<under, at>>
        \/ \E v \in 0..MaxVersions : ImportUnder(m, v)
    BY <1>2, <2>1, <2>2 DEF Configure, InsertConfiguration
  <2>5. ASSUME NEW v \in 0..MaxVersions, ImportUnder(m, v) PROVE MigratorTypeOK'
    <3>1. 1 \in 0..Len(Entities) + 1
      BY <1>0
    <3> QED
      BY <1>0, <2>3, <2>5, <3>1 DEF ImportUnder
  <2> QED
    BY <1>0, <2>3, <2>4, <2>5
<1>3. CASE ReadCheckpoint(m)
  <2>1. Completed(Entity(m)) \in Nat
    BY <1>0, <1>3, EntityFacts, BatchesFinite DEF ReadCheckpoint, Place, Importing, Entity
  <2> QED
    BY <1>0, <1>3, <2>1 DEF ReadCheckpoint
<1>4. CASE NextEntity(m)
  <2>1. at[m] \in 1..Len(Entities)
    BY <1>0, <1>4 DEF NextEntity, Place, Importing, Resumed
  <2>2. at[m] + 1 \in 0..Len(Entities) + 1
    BY <1>0, <2>1
  <2> QED
    BY <1>0, <1>4, <2>2 DEF NextEntity
<1>5. CASE ImportBatch(m) \/ RecordBatch(m)
  <2>1. at[m] \in DOMAIN Entities /\ done[m] \in Nat /\ done[m] <= Count[Entity(m)]
    BY <1>0, <1>5
    DEF ImportBatch, RecordBatch, Place, Importing, Resumed, InBatch
  <2>2. done[m] < Count[Entity(m)] \/ Batch(m, done[m]) # {}
    BY <1>0, <1>5 DEF ImportBatch, RecordBatch, Place, InBatch
  <2>3. Max(Batch(m, done[m])) \in Nat
    <3>1. Max(Batch(m, done[m])) \in (done[m] + 1)..Count[Entity(m)]
      BY <2>1, <2>2, BatchFacts
    <3> QED
      BY <2>1, <3>1
  <2>4. /\ done' = done \/ done' = [done EXCEPT ![m] = Max(Batch(m, done[m]))]
        /\ \E s \in Steps : pc' = [pc EXCEPT ![m] = s]
        /\ UNCHANGED <<lock, under, at, next>>
    <3>1. pc' = pc => pc' = [pc EXCEPT ![m] = pc[m]] /\ pc[m] \in Steps
      BY <1>0
    <3>2. CASE ImportBatch(m)
      <4>1. pc' = pc \/ pc' = [pc EXCEPT ![m] = "fail"]
        BY <3>2 DEF ImportBatch
      <4>2. done' = done \/ done' = [done EXCEPT ![m] = Max(Batch(m, done[m]))]
        BY <3>2 DEF ImportBatch
      <4> QED
        BY <3>1, <3>2, <4>1, <4>2 DEF ImportBatch
    <3>3. CASE RecordBatch(m)
      BY <3>3 DEF RecordBatch
    <3> QED
      BY <1>5, <3>2, <3>3
  <2> QED
    BY <1>0, <2>3, <2>4
<1>6. CASE ImportRow(m)
  <2>1. pc[m] \in Writing
    BY <1>6, RowEffect
  <2>2. next[m] \in Nat
    BY <1>0
  <2>3. \/ next' = next \/ next' = [next EXCEPT ![m] = next[m] + 1]
    BY <1>6, RowEffect DEF RowDone
  <2>4. \E s \in Steps : pc' = [pc EXCEPT ![m] = s]
    BY <1>6, RowEffect DEF RowDone
  <2> QED
    BY <1>0, <1>6, <2>2, <2>3, <2>4 DEF ImportRow
<1>7. CASE Unlock(m)
  BY <1>0, <1>7 DEF Unlock
<1> QED
  BY <1>1, <1>11, <1>12, <1>13, <1>2, <1>3, <1>4, <1>5, <1>6, <1>7 DEF Work

\* What goes on without any migrator.
Outside ==
    \/ LockLost
    \/ \E e \in EntitySet : \E i \in Identity[e] : Expire(e, i) \/ LiveWrite(e, i)
    \/ \E e \in Serial : LiveInsert(e)

(* The system around the migrators writes one row at most.                 *)
LEMMA OutsideEffect ==
    ASSUME Control, Outside
    PROVE  /\ UNCHANGED <<ledger, migrator, imported, published, overlapped>>
           /\ \/ dest' = dest
              \/ \E e \in EntitySet : \E i \in Identity[e] :
                    \/ dest' = [dest EXCEPT ![e][i] = Foreign]
                    \/ /\ e \in RedisSet /\ expiries' # expiries
                       /\ dest' = [dest EXCEPT ![e][i] = Absent]
           /\ sequence' = sequence \/ \E e \in Serial : sequence' = [sequence EXCEPT ![e] = @ + 1]
<1>1. CASE LockLost
  BY <1>1 DEF LockLost
<1>2. ASSUME NEW e \in EntitySet, NEW i \in Identity[e], Expire(e, i)
      PROVE  expiries' # expiries
  BY <1>2 DEF Expire, Control, TypeOK
<1>3. CASE \E e \in EntitySet : \E i \in Identity[e] : Expire(e, i) \/ LiveWrite(e, i)
  BY <1>2, <1>3 DEF Expire, LiveWrite
<1>4. ASSUME NEW e \in Serial, LiveInsert(e) PROVE e \in EntitySet
  BY MigrationAssumption
<1>5. CASE \E e \in Serial : LiveInsert(e)
  BY <1>4, <1>5 DEF LiveInsert
<1> QED
  BY <1>1, <1>3, <1>5 DEF Outside

LEMMA CounterTypes ==
    ASSUME Control, [Next]_vars
    PROVE  /\ overlapped' \in BOOLEAN
           /\ faults' \in 0..MaxFaults /\ expiries' \in 0..MaxExpiries /\ live' \in 0..MaxLive
<1> DEFINE Good(f, x, l) == f \in 0..MaxFaults /\ x \in 0..MaxExpiries /\ l \in 0..MaxLive
<1>0. /\ MaxFaults \in Nat /\ MaxExpiries \in Nat /\ MaxLive \in Nat
      /\ overlapped \in BOOLEAN
      /\ faults \in 0..MaxFaults /\ expiries \in 0..MaxExpiries /\ live \in 0..MaxLive
  BY MigrationAssumption DEF Control, TypeOK
<1>1. ASSUME NEW m \in Migrators, Work(m) PROVE UNCHANGED <<overlapped, faults, expiries, live>>
  BY <1>1
  DEF Work, StartRun, Configure, InsertConfiguration, ImportUnder,
      ReadCheckpoint, NextEntity, ImportBatch, BeginBatch,
      ImportRow, RecordBatch, ResetSequences, Publish, Reconcile, EndRun, Unlock
<1>2. ASSUME NEW m \in Migrators, TakeLock(m)
      PROVE  overlapped' \in BOOLEAN /\ UNCHANGED <<faults, expiries, live>>
  BY <1>0, <1>2 DEF TakeLock
<1>3. (\E m \in Migrators : Crash(m) \/ CallFails(m)) \/ LockLost
         => /\ UNCHANGED <<overlapped, expiries, live>>
            /\ faults < MaxFaults /\ faults' = faults + 1
  BY DEF Crash, CallFails, LockLost
<1>4. (\E e \in EntitySet : \E i \in Identity[e] : Expire(e, i))
         => /\ UNCHANGED <<overlapped, faults, live>>
            /\ expiries < MaxExpiries /\ expiries' = expiries + 1
  BY DEF Expire
<1>5. (\E e \in EntitySet : \E i \in Identity[e] : LiveWrite(e, i))
         \/ (\E e \in Serial : LiveInsert(e))
         => /\ UNCHANGED <<overlapped, faults, expiries>>
            /\ live < MaxLive /\ live' = live + 1
  BY DEF LiveWrite, LiveInsert
<1>6. UNCHANGED vars => UNCHANGED <<overlapped, faults, expiries, live>>
  BY DEF vars
<1>7. \/ UNCHANGED <<faults, expiries, live>> /\ overlapped' \in BOOLEAN
      \/ /\ UNCHANGED <<overlapped, expiries, live>>
         /\ faults < MaxFaults /\ faults' = faults + 1
      \/ /\ UNCHANGED <<overlapped, faults, live>>
         /\ expiries < MaxExpiries /\ expiries' = expiries + 1
      \/ /\ UNCHANGED <<overlapped, faults, expiries>>
         /\ live < MaxLive /\ live' = live + 1
  <2>1. UNCHANGED <<overlapped, faults, expiries, live>> => overlapped' \in BOOLEAN
    BY <1>0
  <2> QED
    BY <1>1, <1>2, <1>3, <1>4, <1>5, <1>6, <2>1 DEF Next
<1> QED
  BY <1>0, <1>7

LEMMA TypeStep ==
    ASSUME Control, [Next]_vars
    PROVE  TypeOK' /\ Shapes'
<1> USE DEF ledger, migrator
<1>0. TypeOK /\ Shapes /\ MaxVersions \in Nat
  BY MigrationAssumption DEF Control
<1>1. ASSUME NEW m \in Migrators, Work(m)
      PROVE  LedgerTypeOK' /\ DestTypeOK' /\ MigratorTypeOK' /\ Shapes'
  BY <1>1, LedgerStep, DestStep, MigratorStep DEF Shapes
<1>2. UNCHANGED <<ledger, dest, imported, sequence, published>>
         => LedgerTypeOK' /\ DestTypeOK' /\ Shapes'
  BY <1>0 DEF TypeOK, LedgerTypeOK, DestTypeOK, Shapes
<1>3. ASSUME NEW m \in Migrators, TakeLock(m) \/ Crash(m) \/ CallFails(m)
      PROVE  LedgerTypeOK' /\ DestTypeOK' /\ MigratorTypeOK' /\ Shapes'
  <2>1. UNCHANGED <<ledger, dest, imported, sequence, published>>
    BY <1>3 DEF TakeLock, Crash, CallFails
  <2>2. MigratorTypeOK'
    <3>1. 0 \in 0..MaxVersions /\ 0 \in 0..Len(Entities) + 1 /\ 0 \in Nat
      BY <1>0, EntityFacts
    <3>2. CASE TakeLock(m)
      BY <1>0, <3>2 DEF TakeLock, Goto, TypeOK, MigratorTypeOK, Steps
    <3>3. CASE Crash(m)
      BY <1>0, <3>1, <3>3 DEF Crash, Forget, Goto, TypeOK, MigratorTypeOK, Steps
    <3>4. CASE CallFails(m)
      BY <1>0, <3>4 DEF CallFails, Goto, TypeOK, MigratorTypeOK, Steps
    <3> QED
      BY <1>3, <3>2, <3>3, <3>4
  <2> QED
    BY <1>2, <2>1, <2>2
<1>4. ASSUME Outside
      PROVE  LedgerTypeOK' /\ DestTypeOK' /\ MigratorTypeOK' /\ Shapes'
  <2>1. LedgerTypeOK'
    BY <1>0, <1>4, OutsideEffect DEF TypeOK, LedgerTypeOK
  <2>2. MigratorTypeOK'
    <3>1. UNCHANGED migrator /\ lock' \in Migrators \union {None}
      BY <1>0, <1>4
      DEF Outside, LockLost, Expire, LiveWrite, LiveInsert, TypeOK, MigratorTypeOK
    <3> QED
      BY <1>0, <3>1 DEF TypeOK, MigratorTypeOK
  <2>3. /\ \A e \in EntitySet :
             dest'[e] \in [Identity[e] -> {Absent, Foreign} \union 0..MaxVersions]
        /\ dest' = [e \in EntitySet |-> dest'[e]]
    <3>1. \/ dest' = dest
          \/ \E e \in EntitySet : \E i \in Identity[e] : \E v \in {Absent, Foreign} :
                dest' = [dest EXCEPT ![e][i] = v]
      BY <1>4, OutsideEffect
    <3>2. CASE dest' = dest
      BY <1>0, <3>2 DEF TypeOK, DestTypeOK, Shapes
    <3>3. ASSUME NEW e \in EntitySet, NEW i \in Identity[e], NEW v \in {Absent, Foreign},
                 dest' = [dest EXCEPT ![e][i] = v]
          PROVE  /\ \A d \in EntitySet :
                      dest'[d] \in [Identity[d] -> {Absent, Foreign} \union 0..MaxVersions]
                 /\ dest' = [d \in EntitySet |-> dest'[d]]
      BY <1>0, <3>3 DEF TypeOK, DestTypeOK, Shapes
    <3> QED
      BY <3>1, <3>2, <3>3
  <2>4. sequence' \in [Serial -> Nat]
    BY <1>0, <1>4, OutsideEffect DEF TypeOK, DestTypeOK
  <2>5. UNCHANGED <<batches, imported, published>>
    BY <1>4, OutsideEffect
  <2>6. Shapes'
    BY <1>0, <2>3, <2>5 DEF Shapes
  <2>7. DestTypeOK'
    BY <1>0, <2>3, <2>4, <2>5 DEF TypeOK, DestTypeOK
  <2> QED
    BY <2>1, <2>2, <2>6, <2>7
<1>5. CASE UNCHANGED vars
  BY <1>0, <1>2, <1>5 DEF vars, TypeOK, MigratorTypeOK
<1> QED
  BY <1>1, <1>3, <1>4, <1>5, CounterTypes DEF Next, Outside, TypeOK

-----------------------------------------------------------------------------
(* Where the migrators are.                                                *)

Step(m) == TakeLock(m) \/ Work(m) \/ Crash(m) \/ CallFails(m)

Same(n) ==
    /\ pc'[n] = pc[n] /\ under'[n] = under[n] /\ at'[n] = at[n]
    /\ done'[n] = done[n] /\ next'[n] = next[n]

LEMMA StepIsLocal ==
    ASSUME MigratorTypeOK, NEW m \in Migrators, Step(m), NEW n \in Migrators, n # m
    PROVE  Same(n)
<1> USE DEF Same, MigratorTypeOK, Goto, Forget, ledger, migrator
<1>1. CASE ImportRow(m)
  BY <1>1, RowEffect DEF RowDone, ImportRow
<1>2. CASE TakeLock(m) \/ Crash(m) \/ CallFails(m) \/ Unlock(m)
  BY <1>2 DEF TakeLock, Crash, CallFails, Unlock
<1>3. CASE StartRun(m) \/ Configure(m) \/ InsertConfiguration(m)
  BY <1>3 DEF StartRun, Configure, InsertConfiguration, ImportUnder
<1>4. CASE ReadCheckpoint(m) \/ NextEntity(m)
  BY <1>4 DEF ReadCheckpoint, NextEntity
<1>5. CASE ImportBatch(m)
  BY <1>5 DEF ImportBatch
<1>6. CASE BeginBatch(m) \/ RecordBatch(m)
  BY <1>6 DEF BeginBatch, RecordBatch
<1>7. CASE ResetSequences(m) \/ Publish(m) \/ Reconcile(m) \/ EndRun(m)
  BY <1>7 DEF ResetSequences, Publish, Reconcile, EndRun
<1> QED
  BY <1>1, <1>2, <1>3, <1>4, <1>5, <1>6, <1>7 DEF Step, Work

LEMMA LastIsLocal ==
    ASSUME NEW m, at'[m] = at[m], done'[m] = done[m]
    PROVE  Last(m)' = Last(m) /\ Entity(m)' = Entity(m)
  BY DEF Last, Batch, Entity

LEMMA SamePlace ==
    ASSUME NEW m \in Migrators, Place(m), Same(m)
    PROVE  Place(m)'
<1>1. Last(m)' = Last(m) /\ Entity(m)' = Entity(m)
  BY LastIsLocal DEF Same
<1> QED
  BY <1>1 DEF Place, Same, Importing, Finishing, Resumed, InBatch, Writing

LEMMA ActorPlace ==
    ASSUME Control, NEW m \in Migrators, Step(m), MigratorTypeOK'
    PROVE  Place(m)'
<1> USE DEF ledger, migrator, Goto, Forget
<1> DEFINE Doing == Importing \union Finishing
<1>0. /\ MigratorTypeOK /\ Place(m) /\ Len(Entities) \in Nat \ {0}
      /\ DOMAIN Entities = 1..Len(Entities)
      /\ pc \in [Migrators -> Steps] /\ done[m] \in Nat /\ next[m] \in Nat
      /\ DOMAIN under = Migrators /\ DOMAIN at = Migrators /\ DOMAIN done = Migrators
      /\ DOMAIN next = Migrators
  BY EntityFacts DEF Control, TypeOK, MigratorTypeOK
<1> USE DEF Importing, Finishing, Resumed, InBatch, Writing
<1>1. CASE pc'[m] \notin Doing
  BY <1>1 DEF Place
<1>2. CASE Configure(m) \/ InsertConfiguration(m)
  <2>1. pc'[m] = "insert" \/ (pc'[m] = "checkpoint" /\ at'[m] = 1)
    BY <1>0, <1>2 DEF Configure, InsertConfiguration, ImportUnder
  <2> QED
    BY <1>0, <2>1 DEF Place
<1>3. CASE ReadCheckpoint(m)
  <2>1. /\ pc[m] = "checkpoint" /\ pc'[m] \in {"fail", "batch"} /\ at'[m] = at[m]
        /\ done'[m] = Completed(Entity(m))
        /\ pc'[m] = "batch" => ~(done'[m] > Count[Entity(m)])
    BY <1>0, <1>3 DEF ReadCheckpoint
  <2>2. Entity(m)' = Entity(m)
    BY <2>1 DEF Entity
  <2>3. pc'[m] = "batch" => done'[m] <= Count[Entity(m)]
    <3>1. Entity(m) \in EntitySet /\ Count[Entity(m)] \in Nat
      BY <1>0, <2>1, EntityFacts DEF Place, Entity
    <3>2. done'[m] \in Nat
      BY DEF MigratorTypeOK
    <3> QED
      BY <2>1, <3>1, <3>2
  <2> QED
    BY <1>0, <2>1, <2>2, <2>3 DEF Place
<1>4. CASE NextEntity(m)
  <2>1. /\ pc[m] = "batch" /\ at'[m] = at[m] + 1
        /\ pc'[m] = IF at[m] = Len(Entities) THEN "reset" ELSE "checkpoint"
    BY <1>0, <1>4 DEF NextEntity
  <2>2. at[m] \in 1..Len(Entities)
    BY <1>0, <2>1 DEF Place
  <2>3. at[m] # Len(Entities) => at'[m] \in DOMAIN Entities
    BY <1>0, <2>1, <2>2
  <2> QED
    BY <1>0, <2>1, <2>2, <2>3 DEF Place
<1>5. CASE ImportBatch(m)
  <2>1. /\ pc[m] = "batch" /\ pc'[m] \in {"batch", "fail"} /\ at'[m] = at[m]
        /\ done'[m] = done[m] \/ done'[m] = Max(Batch(m, done[m]))
        /\ Batch(m, done[m]) # {}
    BY <1>0, <1>5 DEF ImportBatch
  <2>2. at[m] \in DOMAIN Entities /\ done[m] <= Count[Entity(m)] /\ Entity(m)' = Entity(m)
    BY <1>0, <2>1 DEF Place, Entity
  <2>3. Max(Batch(m, done[m])) <= Count[Entity(m)]
    <3>1. Max(Batch(m, done[m])) \in (done[m] + 1)..Count[Entity(m)]
      BY <1>0, <2>1, <2>2, BatchFacts
    <3>2. Count[Entity(m)] \in Nat
      BY <2>2, EntityFacts DEF Entity
    <3> QED
      BY <1>0, <3>1, <3>2
  <2> QED
    BY <1>0, <2>1, <2>2, <2>3 DEF Place
<1>6. CASE BeginBatch(m)
  <2>1. /\ pc[m] = "batch" /\ pc'[m] = "row" /\ at'[m] = at[m] /\ done'[m] = done[m]
        /\ next'[m] = done[m] + 1
        /\ Entity(m) \in RedisSet /\ done[m] < Count[Entity(m)]
    BY <1>0, <1>6 DEF BeginBatch
  <2>2. /\ at[m] \in DOMAIN Entities /\ done[m] <= Count[Entity(m)]
        /\ Entity(m)' = Entity(m) /\ Last(m)' = Last(m)
    BY <1>0, <2>1, LastIsLocal DEF Place
  <2>3. next'[m] \in (done[m] + 1)..Last(m)
    <3>1. Last(m) \in (done[m] + 1)..Count[Entity(m)]
      BY <1>0, <2>1, <2>2, BatchFacts DEF Last
    <3> QED
      BY <1>0, <2>1, <3>1
  <2> QED
    BY <1>0, <2>1, <2>2, <2>3 DEF Place
<1>7. CASE ImportRow(m)
  <2>1. /\ pc[m] \in Writing /\ at'[m] = at[m] /\ done'[m] = done[m]
    BY <1>7, RowEffect DEF ImportRow
  <2>2. /\ at[m] \in DOMAIN Entities /\ done[m] < Count[Entity(m)] /\ Entity(m) \in RedisSet
        /\ Entity(m)' = Entity(m) /\ Last(m)' = Last(m)
    BY <1>0, <2>1, LastIsLocal DEF Place
  <2>3. next[m] \in (done[m] + 1)..Last(m) /\ Last(m) \in Nat
    BY <2>1, RowFacts
  <2>4. \/ pc'[m] = "fail"
        \/ pc'[m] \in {"hset", "compare"} /\ next'[m] = next[m]
        \/ next'[m] = next[m] + 1 /\ pc'[m] = IF next[m] = Last(m) THEN "record" ELSE "row"
    BY <1>0, <1>7, RowEffect DEF RowDone, Last
  <2>5. pc'[m] \in Writing => next'[m] \in (done[m] + 1)..Last(m)
    BY <1>0, <2>3, <2>4
  <2>6. done[m] <= Count[Entity(m)]
    BY <1>0, <2>1 DEF Place
  <2> QED
    BY <1>0, <2>1, <2>2, <2>4, <2>5, <2>6 DEF Place
<1>8. CASE RecordBatch(m)
  <2>1. /\ pc[m] = "record" /\ pc'[m] = "batch" /\ at'[m] = at[m]
        /\ done'[m] = Max(Batch(m, done[m]))
    BY <1>0, <1>8 DEF RecordBatch
  <2>2. /\ at[m] \in DOMAIN Entities /\ done[m] < Count[Entity(m)] /\ Entity(m)' = Entity(m)
        /\ done[m] <= Count[Entity(m)]
    BY <1>0, <2>1 DEF Place, Entity
  <2>3. Max(Batch(m, done[m])) <= Count[Entity(m)]
    <3>1. Max(Batch(m, done[m])) \in (done[m] + 1)..Count[Entity(m)]
      BY <1>0, <2>2, BatchFacts
    <3>2. Count[Entity(m)] \in Nat
      BY <2>2, EntityFacts DEF Entity
    <3> QED
      BY <1>0, <3>1, <3>2
  <2> QED
    BY <1>0, <2>1, <2>2, <2>3 DEF Place
<1>9. CASE ResetSequences(m) \/ Publish(m) \/ Reconcile(m)
  <2>1. /\ pc[m] \in {"reset", "publish", "reconcile"}
        /\ pc'[m] \in {"publish", "reconcile", "complete", "fail"}
        /\ at'[m] = at[m]
    BY <1>0, <1>9 DEF ResetSequences, Publish, Reconcile
  <2> QED
    BY <1>0, <2>1 DEF Place
<1>10. StartRun(m) \/ EndRun(m) \/ Unlock(m) \/ TakeLock(m) \/ Crash(m) \/ CallFails(m)
         => pc'[m] \in {"configure", "unlock", "idle", "start", "fail"}
  BY <1>0 DEF StartRun, EndRun, Unlock, TakeLock, Crash, CallFails
<1> QED
  BY <1>1, <1>2, <1>3, <1>4, <1>5, <1>6, <1>7, <1>8, <1>9, <1>10 DEF Step, Work

LEMMA ControlStep ==
    ASSUME Control, [Next]_vars
    PROVE  Control'
<1>1. TypeOK' /\ Shapes'
  BY TypeStep
<1> SUFFICES ASSUME NEW n \in Migrators PROVE Place(n)'
  BY <1>1 DEF Control
<1>3. Place(n)
  BY DEF Control
<1>4. ASSUME NEW m \in Migrators, Step(m) PROVE Place(n)'
  <2>1. CASE n = m
    BY <1>1, <1>4, <2>1, ActorPlace DEF TypeOK
  <2>2. CASE n # m
    <3>1. Same(n)
      BY <1>4, <2>2, StepIsLocal DEF Control, TypeOK
    <3> QED
      BY <1>3, <3>1, SamePlace
  <2> QED
    BY <2>1, <2>2
<1>5. CASE Outside \/ UNCHANGED vars
  <2>1. Same(n)
    BY <1>5, OutsideEffect DEF Same, vars, migrator
  <2> QED
    BY <1>3, <2>1, SamePlace
<1> QED
  BY <1>4, <1>5 DEF Next, Outside, Step

(* Every variable keeps its type; in particular every batch recorded is of  *)
(* rows the source has, and so is every row that an import goes to.        *)
THEOREM TypeCorrect == Spec => []TypeOK
<1>1. Control => TypeOK
  BY DEF Control
<1> QED
  BY <1>1, InitType, ControlStep, PTL DEF Spec

-----------------------------------------------------------------------------
(* The rows.                                                               *)

LEMMA BatchOfRows ==
    ASSUME Control, NEW m \in Migrators, ImportBatch(m)
    PROVE  /\ Entity(m) \in EntitySet \ RedisSet /\ at[m] \in DOMAIN Entities
           /\ done[m] \in Nat /\ Count[Entity(m)] \in Nat
           /\ Batch(m, done[m]) = (done[m] + 1)..Last(m)
           /\ Last(m) \in (done[m] + 1)..Count[Entity(m)]
           /\ Cardinality(Batch(m, done[m])) = Last(m) - done[m]
<1>1. /\ pc[m] = "batch" /\ Entity(m) \notin RedisSet /\ Batch(m, done[m]) # {}
      /\ Place(m) /\ done[m] \in Nat
  BY DEF ImportBatch, Control, TypeOK, MigratorTypeOK
<1>2. at[m] \in DOMAIN Entities /\ done[m] <= Count[Entity(m)]
  BY <1>1 DEF Place, Importing, Resumed
<1>3. Entity(m) \in EntitySet /\ Count[Entity(m)] \in Nat
  BY <1>2, EntityFacts DEF Entity
<1> QED
  BY <1>1, <1>2, <1>3, BatchFacts DEF Last

(* What a step of a migrator does to the rows.                             *)
LEMMA DataEffect ==
    ASSUME Control, NEW m \in Migrators, Step(m)
    PROVE  \/ UNCHANGED <<dest, imported>>
           \/ /\ ImportBatch(m)
              /\ dest' = [dest EXCEPT ![Entity(m)] = [i \in Identity[Entity(m)] |->
                       IF i \in Batch(m, done[m]) /\ dest[Entity(m)][i] = Absent
                       THEN Expected(Entity(m), under[m]) ELSE dest[Entity(m)][i]]]
              /\ imported' = [imported EXCEPT ![Entity(m)] = @ \union Batch(m, done[m])]
              /\ Checkpoint(Entity(m), Last(m), Cardinality(Batch(m, done[m])))
              /\ done' = [done EXCEPT ![m] = Last(m)]
              /\ pc' = pc
           \/ ImportRow(m)
<1>1. CASE ImportBatch(m)
  BY <1>1 DEF ImportBatch, Last
<1>2. CASE ImportRow(m)
  BY <1>2
<1>3. CASE ~ImportBatch(m) /\ ~ImportRow(m)
  BY <1>3
  DEF Step, TakeLock, Crash, CallFails, Work, StartRun, Configure, InsertConfiguration,
      ImportUnder, ReadCheckpoint, NextEntity, BeginBatch, RecordBatch, ResetSequences,
      Publish, Reconcile, EndRun, Unlock
<1> QED
  BY <1>1, <1>2, <1>3

(* Rows of PostgreSQL are never taken away.                                *)
LEMMA RowsStep ==
    ASSUME Control, Rows, [Next]_vars
    PROVE  Rows'
<1>0. /\ DestTypeOK /\ Absent # Foreign /\ Absent \notin Nat /\ MaxVersions \in Nat
      /\ dest = [e \in EntitySet |-> dest[e]] /\ imported = [e \in EntitySet |-> imported[e]]
  BY MigrationAssumption DEF Control, TypeOK, Shapes
<1>1. CASE UNCHANGED <<dest, imported>>
  BY <1>1 DEF Rows
<1>2. ASSUME NEW m \in Migrators, ImportRow(m) PROVE Rows'
  <2>1. Entity(m) \in RedisSet /\ Entity(m) \in EntitySet
    BY <1>2, RowEffect, RowFacts
  <2>2. \A e \in EntitySet \ RedisSet : dest'[e] = dest[e] /\ imported'[e] = imported[e]
    BY <1>0, <1>2, <2>1, RowEffect DEF RowDone
  <2> QED
    BY <2>2 DEF Rows
<1>3. ASSUME NEW m \in Migrators, ImportBatch(m), ~UNCHANGED <<dest, imported>> PROVE Rows'
  <2> DEFINE d == Entity(m)
             rows == Batch(m, done[m])
  <2>1. d \in EntitySet \ RedisSet
    BY <1>3, BatchOfRows
  <2>2. /\ dest' = [dest EXCEPT ![d] = [i \in Identity[d] |->
                      IF i \in rows /\ dest[d][i] = Absent THEN Expected(d, under[m])
                      ELSE dest[d][i]]]
        /\ imported' = [imported EXCEPT ![d] = @ \union rows]
    BY <1>3 DEF ImportBatch
  <2>3. Expected(d, under[m]) \in Nat
    BY DEF Expected, Control, TypeOK, MigratorTypeOK
  <2>4. imported'[d] \subseteq Identity[d]
    BY <1>3, <2>1, TypeStep DEF TypeOK, DestTypeOK, Next, Work
  <2> HIDE DEF d, rows
  <2>5. \A e \in EntitySet : e # d => dest'[e] = dest[e] /\ imported'[e] = imported[e]
    BY <1>0, <2>2
  <2>6. /\ \A i \in Identity[d] :
             dest'[d][i] = IF i \in rows /\ dest[d][i] = Absent THEN Expected(d, under[m])
                           ELSE dest[d][i]
        /\ imported'[d] = imported[d] \union rows
    BY <1>0, <2>1, <2>2
  <2>7. \A i \in imported'[d] : dest'[d][i] # Absent
    BY <1>0, <2>1, <2>3, <2>4, <2>6 DEF Rows
  <2> QED
    BY <1>0, <2>1, <2>5, <2>7 DEF Rows
<1>4. CASE Outside
  <2>1. /\ imported' = imported
        /\ \A e \in EntitySet \ RedisSet : \A i \in Identity[e] : dest'[e][i] \in {dest[e][i], Foreign}
    BY <1>0, <1>4, OutsideEffect DEF ledger, DestTypeOK
  <2>2. \A e \in EntitySet : imported[e] \subseteq Identity[e]
    BY <1>0 DEF DestTypeOK
  <2> QED
    BY <1>0, <2>1, <2>2 DEF Rows
<1>5. CASE UNCHANGED vars
  BY <1>1, <1>5 DEF vars
<1>6. ASSUME NEW m \in Migrators, Step(m) PROVE Rows'
  BY <1>1, <1>2, <1>3, <1>6, DataEffect
<1> QED
  BY <1>4, <1>5, <1>6 DEF Next, Outside, Step

LEMMA InitRows == Init => Rows
  BY MigrationAssumption DEF Init, Rows

(* A value that the running system wrote is not overwritten, except between *)
(* the HGETALL of a circuit and its HSET.                                  *)
THEOREM LeavesForeignAlone == Spec => NeverOverwrites
<1> DEFINE Respects ==
      \A e \in EntitySet : \A i \in Identity[e] :
         dest[e][i] = Foreign /\ dest'[e][i] # Foreign =>
            \/ expiries' # expiries
            \/ \E m \in Migrators : pc[m] = "hset" /\ Entity(m) = e /\ next[m] = i
<1>1. Control /\ [Next]_vars => Respects
  <2> SUFFICES ASSUME Control, [Next]_vars, NEW e \in EntitySet, NEW i \in Identity[e],
                      dest[e][i] = Foreign, dest'[e][i] # Foreign
               PROVE  \/ expiries' # expiries
                      \/ \E m \in Migrators : pc[m] = "hset" /\ Entity(m) = e /\ next[m] = i
    OBVIOUS
  <2>0. /\ DestTypeOK /\ dest = [d \in EntitySet |-> dest[d]] /\ Absent # Foreign
        /\ \A d \in EntitySet : DOMAIN dest[d] = Identity[d]
    BY MigrationAssumption DEF Control, TypeOK, Shapes, DestTypeOK
  <2>1. ASSUME NEW m \in Migrators, Step(m)
        PROVE  pc[m] = "hset" /\ Entity(m) = e /\ next[m] = i
    <3>1. ImportRow(m)
      <4>1. dest' # dest
        OBVIOUS
      <4>2. \/ dest' = [dest EXCEPT ![Entity(m)] = [k \in Identity[Entity(m)] |->
                       IF k \in Batch(m, done[m]) /\ dest[Entity(m)][k] = Absent
                       THEN Expected(Entity(m), under[m]) ELSE dest[Entity(m)][k]]]
            \/ ImportRow(m)
        BY <2>1, <4>1, DataEffect
      <4> QED
        BY <2>0, <4>2
    <3>2. /\ dest' = [dest EXCEPT ![Entity(m)][next[m]] = 0]
          /\ pc[m] = "hset" \/ dest[Entity(m)][next[m]] = Absent
      BY <3>1, RowEffect
    <3>3. Entity(m) = e /\ next[m] = i
      BY <2>0, <3>2
    <3> QED
      BY <2>0, <3>2, <3>3
  <2>2. CASE Outside
    BY <2>0, <2>2, OutsideEffect
  <2>3. CASE UNCHANGED vars
    BY <2>3 DEF vars
  <2> QED
    BY <2>1, <2>2, <2>3 DEF Next, Outside, Step
<1>2. Spec => []Control
  BY InitType, ControlStep, PTL DEF Spec
<1>3. Control /\ [Next]_vars => [Respects]_vars
  BY <1>1
<1> QED
  BY <1>2, <1>3, PTL DEF Spec, NeverOverwrites

-----------------------------------------------------------------------------
(* The imports, as long as the lock keeps the migrators apart.             *)

LEMMA ImportedGrows ==
    ASSUME Control, [Next]_vars, NEW e \in EntitySet
    PROVE  imported[e] \subseteq imported'[e] /\ imported'[e] \subseteq Identity[e]
<1>0. imported = [d \in EntitySet |-> imported[d]]
  BY DEF Control, Shapes
<1>1. ASSUME NEW m \in Migrators, Step(m) PROVE imported[e] \subseteq imported'[e]
  <2>1. \/ imported' = imported
        \/ imported' = [imported EXCEPT ![Entity(m)] = @ \union Batch(m, done[m])]
        \/ imported' = [imported EXCEPT ![Entity(m)] = @ \union {next[m]}]
    BY <1>1, DataEffect, RowEffect DEF RowDone
  <2> QED
    BY <1>0, <2>1
<1>2. Outside \/ UNCHANGED vars => imported' = imported
  <2>1. Outside => imported' = imported
    BY OutsideEffect
  <2> QED
    BY <2>1 DEF vars
<1>3. imported'[e] \subseteq Identity[e]
  BY TypeStep DEF TypeOK, DestTypeOK
<1> QED
  BY <1>1, <1>2, <1>3 DEF Next, Outside, Step

(* A migrator that takes a step has been the only one at work.             *)
LEMMA OthersIdle ==
    ASSUME Control, Apart, NEW m \in Migrators, Step(m), ~overlapped'
    PROVE  \A n \in Migrators : n # m => pc[n] = "idle"
<1>1. CASE TakeLock(m)
  BY <1>1 DEF TakeLock
<1>2. CASE ~TakeLock(m)
  <2>1. pc[m] # "idle"
    BY <1>2
    DEF Step, Crash, CallFails, Work, StartRun, Configure, InsertConfiguration, ImportUnder,
      ReadCheckpoint, NextEntity,
        ImportBatch, BeginBatch, ImportRow, RecordBatch, ResetSequences, Publish, Reconcile,
        EndRun, Unlock
  <2> QED
    BY <2>1 DEF Apart, Progress
<1> QED
  BY <1>1, <1>2

(* Recording the batch that m is at, once its rows are imported, leaves a   *)
(* prefix of the entity that ends with the batch.                          *)
LEMMA RecordsPrefix ==
    ASSUME Control, Apart, [Next]_vars, NEW m \in Migrators, pc[m] \in Resumed,
           NEW d \in EntitySet, d = Entity(m),
           done[m] < Count[d] \/ Batch(m, done[m]) # {},
           (done[m] + 1)..Last(m) \subseteq imported'[d],
           Checkpoint(d, Last(m), Cardinality(Batch(m, done[m])))
    PROVE  /\ Completed(d)' = Last(m)
           /\ Prefix(d)'
           /\ \A e \in EntitySet : e # d => batches'[e] = batches[e]
<1>1. /\ at[m] \in DOMAIN Entities /\ done[m] \in Nat /\ done[m] <= Count[d]
      /\ done[m] = Completed(d) /\ LedgerTypeOK /\ Shapes
  BY DEF Control, TypeOK, MigratorTypeOK, Place, Importing, Apart, Progress
<1>2. Count[d] \in Nat /\ Prefix(d)
  BY EntityFacts DEF Apart
<1>3. /\ Last(m) \in (done[m] + 1)..Count[d] /\ Last(m) \in Identity[d]
      /\ Cardinality(Batch(m, done[m])) = Last(m) - done[m]
      /\ Cardinality(Batch(m, done[m])) \in Identity[d]
  BY <1>1, BatchFacts DEF Last
<1>4. Last(m) = Completed(d) + Cardinality(Batch(m, done[m]))
  BY <1>1, <1>2, <1>3
<1>5. Completed(d)' = Last(m) /\ \A c \in DOMAIN batches'[d] : c <= Last(m)
  BY <1>1, <1>2, <1>3, <1>4, CheckpointAdds
<1>6. 1..Last(m) \subseteq imported'[d]
  <2>1. 1..done[m] \subseteq imported'[d]
    <3>1. 1..done[m] \subseteq imported[d]
      BY <1>1, <1>2 DEF Prefix
    <3>2. imported[d] \subseteq imported'[d]
      BY ImportedGrows
    <3> QED
      BY <3>1, <3>2
  <2>2. 1..Last(m) = (1..done[m]) \union ((done[m] + 1)..Last(m))
    BY <1>1, <1>2, <1>3
  <2> QED
    BY <2>1, <2>2
<1>7. \A e \in EntitySet : e # d => batches'[e] = batches[e]
  BY <1>1, <1>3, CheckpointShape
<1>8. Last(m) \in 0..Count[d]
  BY <1>1, <1>2, <1>3
<1>9. Prefix(d)'
  BY <1>5, <1>6, <1>8 DEF Prefix
<1> QED
  BY <1>5, <1>7, <1>9

(* A batch of PostgreSQL either is refused or commits with its checkpoint.  *)
LEMMA BatchEffect ==
    ASSUME NEW m \in Migrators, ImportBatch(m)
    PROVE  /\ UNCHANGED <<at, under, next, status, sequence, published>>
           /\ \/ UNCHANGED <<batches, imported, done>> /\ pc' = [pc EXCEPT ![m] = "fail"]
              \/ /\ Checkpoint(Entity(m), Last(m), Cardinality(Batch(m, done[m])))
                 /\ imported' = [imported EXCEPT ![Entity(m)] = @ \union Batch(m, done[m])]
                 /\ done' = [done EXCEPT ![m] = Last(m)]
                 /\ pc' = pc
  BY DEF ImportBatch, Last, Goto

(* What recording does for the entity at hand, in either database.         *)
LEMMA Recorded ==
    ASSUME Control, Apart, NEW m \in Migrators, ImportBatch(m) \/ RecordBatch(m)
    PROVE  /\ Entity(m) \in EntitySet
           /\ \A d \in EntitySet : d = Entity(m) =>
                \/ UNCHANGED <<batches, imported, done>> /\ pc'[m] = "fail"
                \/ /\ done'[m] = Last(m) /\ Completed(d)' = Last(m) /\ Prefix(d)'
                   /\ pc'[m] = "batch"
                   /\ \A e \in EntitySet : e # d => batches'[e] = batches[e]
<1>0. /\ DOMAIN done = Migrators /\ DOMAIN pc = Migrators /\ [Next]_vars
      /\ imported = [e \in EntitySet |-> imported[e]]
  BY DEF Control, TypeOK, MigratorTypeOK, Shapes, Next, Work
<1>1. Entity(m) \in EntitySet
  BY EntityFacts
  DEF Control, Place, ImportBatch, RecordBatch, Importing, Resumed, InBatch, Entity
<1> SUFFICES ASSUME NEW d \in EntitySet, d = Entity(m)
             PROVE  \/ UNCHANGED <<batches, imported, done>> /\ pc'[m] = "fail"
                    \/ /\ done'[m] = Last(m) /\ Completed(d)' = Last(m) /\ Prefix(d)'
                       /\ pc'[m] = "batch"
                       /\ \A e \in EntitySet : e # d => batches'[e] = batches[e]
  BY <1>1
<1>2. CASE ImportBatch(m)
  <2>1. /\ pc[m] = "batch" /\ Batch(m, done[m]) # {}
        /\ Batch(m, done[m]) = (done[m] + 1)..Last(m)
    BY <1>2, BatchOfRows DEF ImportBatch
  <2>2. CASE UNCHANGED <<batches, imported, done>> /\ pc' = [pc EXCEPT ![m] = "fail"]
    BY <1>0, <2>2
  <2>3. CASE /\ Checkpoint(Entity(m), Last(m), Cardinality(Batch(m, done[m])))
             /\ imported' = [imported EXCEPT ![Entity(m)] = @ \union Batch(m, done[m])]
             /\ done' = [done EXCEPT ![m] = Last(m)]
             /\ pc' = pc
    <3>1. (done[m] + 1)..Last(m) \subseteq imported'[d]
      BY <1>0, <2>1, <2>3
    <3>2. pc[m] \in Resumed
      BY <2>1 DEF Resumed
    <3>3. /\ Completed(d)' = Last(m) /\ Prefix(d)'
          /\ \A e \in EntitySet : e # d => batches'[e] = batches[e]
      BY <1>0, <2>1, <2>3, <3>1, <3>2, RecordsPrefix
    <3> QED
      BY <1>0, <2>1, <2>3, <3>3
  <2> QED
    BY <1>2, <2>2, <2>3, BatchEffect
<1>3. CASE RecordBatch(m)
  <2>1. /\ pc[m] = "record" /\ pc'[m] = "batch" /\ done'[m] = Last(m) /\ imported' = imported
        /\ Checkpoint(Entity(m), Last(m), Cardinality(Batch(m, done[m])))
    BY <1>0, <1>3 DEF RecordBatch, Goto, Last
  <2>2. /\ pc[m] \in Resumed /\ done[m] < Count[d] /\ next[m] = Last(m) + 1
        /\ (done[m] + 1)..(next[m] - 1) \subseteq imported[d]
        /\ at[m] \in DOMAIN Entities /\ done[m] \in Nat
    BY <2>1
    DEF Control, TypeOK, MigratorTypeOK, Place, Importing, Resumed, InBatch, Apart, Progress
  <2>3. Last(m) \in Int
    <3>1. Count[d] \in Nat /\ done[m] <= Count[d]
      BY <2>2, EntityFacts
    <3>2. Last(m) \in (done[m] + 1)..Count[d]
      BY <2>2, <3>1, BatchFacts DEF Last
    <3> QED
      BY <3>2
  <2>4. (done[m] + 1)..Last(m) \subseteq imported'[d]
    BY <2>1, <2>2, <2>3
  <2>5. /\ Completed(d)' = Last(m) /\ Prefix(d)'
        /\ \A e \in EntitySet : e # d => batches'[e] = batches[e]
    BY <1>0, <2>1, <2>2, <2>4, RecordsPrefix
  <2> QED
    BY <2>1, <2>5
<1> QED
  BY <1>2, <1>3

LEMMA PrefixStays ==
    ASSUME Control, [Next]_vars, NEW e \in EntitySet, Prefix(e), batches'[e] = batches[e]
    PROVE  Prefix(e)'
<1>1. Completed(e)' = Completed(e)
  BY DEF Completed
<1>2. imported[e] \subseteq imported'[e]
  BY ImportedGrows
<1> QED
  BY <1>1, <1>2 DEF Prefix

LEMMA PrefixStep ==
    ASSUME Control, Apart, [Next]_vars, NEW e \in EntitySet
    PROVE  Prefix(e)'
<1>0. Prefix(e)
  BY DEF Apart
<1>1. CASE batches' = batches
  BY <1>0, <1>1, PrefixStays
<1>2. ASSUME NEW m \in Migrators, ImportBatch(m) \/ RecordBatch(m) PROVE Prefix(e)'
  <2>1. batches'[e] = batches[e] \/ Prefix(e)'
    BY <1>2, Recorded
  <2> QED
    BY <1>0, <2>1, PrefixStays
<1>3. ASSUME NEW m \in Migrators, Step(m), ~RecordBatch(m), ~ImportBatch(m)
      PROVE  batches' = batches
  BY <1>3
  DEF Step, TakeLock, Crash, CallFails, Work, StartRun, Configure, InsertConfiguration,
      ImportUnder, ReadCheckpoint, NextEntity, BeginBatch, ImportRow, ResetSequences,
      Publish, Reconcile, EndRun, Unlock, ledger
<1>4. Outside \/ UNCHANGED vars => batches' = batches
  <2>1. Outside => batches' = batches
    BY OutsideEffect DEF ledger
  <2> QED
    BY <2>1 DEF vars, ledger
<1> QED
  BY <1>1, <1>2, <1>3, <1>4 DEF Next, Outside, Step

LEMMA WholeStays ==
    ASSUME Control, [Next]_vars, NEW e \in EntitySet, Whole(e)
    PROVE  Whole(e)'
  BY ImportedGrows DEF Whole

\* No step but a reset moves a sequence back.
LEMMA SequencesStay ==
    ASSUME Control, [Next]_vars, SequencesPast, ~\E m \in Migrators : ResetSequences(m)
    PROVE  SequencesPast'
<1>0. /\ sequence \in [Serial -> Nat]
      /\ \A e \in Serial : Count[e] \in Nat
  BY EntityFacts, MigrationAssumption DEF Control, TypeOK, DestTypeOK
<1>1. ASSUME NEW m \in Migrators, Step(m) PROVE sequence' = sequence
  BY <1>1
  DEF Step, TakeLock, Crash, CallFails, Work, StartRun, Configure, InsertConfiguration,
      ImportUnder, ReadCheckpoint, NextEntity, ImportBatch, BeginBatch, ImportRow,
      RecordBatch, Publish, Reconcile, EndRun, Unlock
<1>2. CASE sequence' = sequence
  BY <1>2 DEF SequencesPast
<1>3. ASSUME NEW e \in Serial, sequence' = [sequence EXCEPT ![e] = @ + 1] PROVE SequencesPast'
  BY <1>0, <1>3 DEF SequencesPast
<1>4. CASE Outside
  BY <1>2, <1>3, <1>4, OutsideEffect
<1>5. CASE UNCHANGED vars
  BY <1>2, <1>5 DEF vars
<1> QED
  BY <1>1, <1>2, <1>4, <1>5 DEF Next, Outside, Step

(* setval with the rows there are passes the source once all its rows are   *)
(* there.                                                                  *)
LEMMA ResetPasses ==
    ASSUME Control, Rows, NEW m \in Migrators, ResetSequences(m), \A e \in EntitySet : Whole(e)
    PROVE  SequencesPast'
<1> SUFFICES ASSUME NEW e \in Serial PROVE sequence'[e] >= Count[e]
  BY DEF SequencesPast
<1>1. /\ e \in EntitySet \ RedisSet /\ Count[e] \in Nat /\ Identity[e] = 1..Count[e]
      /\ sequence[e] \in Nat /\ imported[e] = Identity[e]
  BY EntityFacts, MigrationAssumption DEF Control, TypeOK, DestTypeOK, Whole
<1> DEFINE S == {0} \union {i \in Identity[e] : dest[e][i] # Absent}
<1>2. sequence'[e] = IF sequence[e] > Count[e] THEN sequence[e] ELSE Max(S)
  BY DEF ResetSequences
<1>3. S \subseteq 0..Count[e] /\ S # {} /\ Count[e] \in S
  BY <1>1 DEF Rows
<1>4. Max(S) \in 0..Count[e] /\ Count[e] <= Max(S)
  BY <1>1, <1>3, MaxIn
<1> QED
  BY <1>1, <1>2, <1>4

(* What the actor of a step knows afterwards.                              *)
LEMMA ActorProgress ==
    ASSUME Control, Rows, Apart, NEW m \in Migrators, Step(m), ~overlapped'
    PROVE  Progress(m)'
<1> USE DEF ledger, migrator, Goto, Forget
<1> USE DEF Importing, Finishing, Resumed, InBatch, Writing
<1>0. /\ [Next]_vars /\ Progress(m) /\ Place(m) /\ MigratorTypeOK
      /\ DOMAIN pc = Migrators /\ DOMAIN at = Migrators /\ DOMAIN done = Migrators
      /\ DOMAIN next = Migrators /\ at[m] \in Nat /\ done[m] \in Nat /\ next[m] \in Nat
      /\ Len(Entities) \in Nat \ {0} /\ DOMAIN Entities = 1..Len(Entities)
      /\ \A j \in DOMAIN Entities : Entities[j] \in EntitySet
  BY EntityFacts DEF Control, TypeOK, MigratorTypeOK, Apart, Next, Step
<1>1. \A n \in Migrators : n # m => pc'[n] = "idle"
  BY OthersIdle, StepIsLocal DEF Same, Control, TypeOK
<1>2. \A e \in EntitySet : Whole(e) => Whole(e)'
  BY <1>0, WholeStays
<1>3. CASE pc'[m] = "idle"
  BY <1>1, <1>3 DEF Progress
<1> DEFINE
     Order == pc'[m] \in Importing \union Finishing =>
                 \A j \in DOMAIN Entities : j < at'[m] => Whole(Entities[j])'
     Ahead == pc'[m] \in {"publish", "reconcile", "complete"} => SequencesPast'
     Known == pc'[m] \in {"reconcile", "complete"} => published' # "no"
     Batches == /\ pc'[m] \in Resumed => done'[m] = Completed(Entity(m))'
                /\ pc'[m] \in InBatch =>
                      (done'[m] + 1)..(next'[m] - 1) \subseteq imported'[Entity(m)']
     Open == status' = "completed" => pc'[m] \in {"idle", "unlock"}
<1>4. ASSUME Order, Ahead, Known, Batches, Open PROVE Progress(m)'
  BY <1>1, <1>4 DEF Progress
<1> HIDE DEF Order, Ahead, Known, Batches, Open
\* The order of the entities.
<1>5. Order
  <2>1. CASE at'[m] = at[m] /\ pc[m] \in Importing \union Finishing
    BY <1>0, <1>2, <2>1 DEF Order, Progress
  <2>2. CASE at'[m] = 1
    BY <1>0, <2>2 DEF Order
  <2>3. CASE NextEntity(m)
    <3>1. pc[m] = "batch" /\ at'[m] = at[m] + 1 /\ done[m] = Count[Entity(m)]
      BY <1>0, <2>3 DEF NextEntity
    <3>2. Entity(m) \in EntitySet /\ Prefix(Entity(m)) /\ Completed(Entity(m)) = Count[Entity(m)]
      BY <1>0, <3>1 DEF Place, Progress, Apart, Entity
    <3>3. Whole(Entity(m))
      <4>1. /\ 1..Count[Entity(m)] \subseteq imported[Entity(m)]
            /\ Identity[Entity(m)] = 1..Count[Entity(m)]
            /\ imported[Entity(m)] \subseteq Identity[Entity(m)]
        BY <3>2, EntityFacts DEF Prefix, Control, TypeOK, DestTypeOK
      <4> QED
        BY <4>1 DEF Whole
    <3>4. \A j \in DOMAIN Entities : j < at'[m] => Whole(Entities[j])
      BY <1>0, <3>1, <3>3 DEF Progress, Entity
    <3> QED
      BY <1>0, <1>2, <3>4 DEF Order
  <2>4. CASE pc'[m] \notin Importing \union Finishing
    BY <2>4 DEF Order
  <2>5. StartRun(m) \/ TakeLock(m) \/ Crash(m) \/ CallFails(m) \/ EndRun(m) \/ Unlock(m)
           => pc'[m] \notin Importing \union Finishing
    BY <1>0 DEF StartRun, TakeLock, Crash, CallFails, EndRun, Unlock
  <2>6. Configure(m) \/ InsertConfiguration(m)
           => at'[m] = 1 \/ pc'[m] \notin Importing \union Finishing
    BY <1>0 DEF Configure, InsertConfiguration, ImportUnder
  <2>7. ReadCheckpoint(m) \/ BeginBatch(m) \/ RecordBatch(m)
           \/ ResetSequences(m) \/ Publish(m) \/ Reconcile(m)
           => at'[m] = at[m] /\ pc[m] \in Importing \union Finishing
    BY DEF ReadCheckpoint, BeginBatch, RecordBatch, ResetSequences, Publish, Reconcile
  <2>8. ImportBatch(m) \/ ImportRow(m) => at'[m] = at[m] /\ pc[m] \in Importing \union Finishing
    BY DEF ImportBatch, ImportRow
  <2> QED
    BY <2>1, <2>2, <2>3, <2>4, <2>5, <2>6, <2>7, <2>8 DEF Step, Work
\* The sequences and the publication.
<1>6. Ahead
  <2>1. CASE ResetSequences(m)
    <3>1. pc[m] = "reset" /\ at[m] = Len(Entities) + 1
      BY <2>1 DEF ResetSequences, Control, Place
    <3>2. \A e \in EntitySet : Whole(e)
      <4>1. \A j \in DOMAIN Entities : Whole(Entities[j])
        BY <1>0, <3>1 DEF Progress
      <4> QED
        BY <4>1 DEF EntitySet
    <3> QED
      BY <2>1, <3>2, ResetPasses DEF Ahead
  <2>2. CASE ~ResetSequences(m)
    <3>1. pc'[m] \in {"publish", "reconcile", "complete"} => pc[m] \in {"publish", "reconcile"}
      <4>1. ImportRow(m) => pc'[m] \in {"hset", "compare", "fail", "record", "row"}
        BY <1>0, RowEffect DEF RowDone
      <4>2. ImportBatch(m) => pc'[m] \in {"batch", "fail"}
        BY <1>0 DEF ImportBatch
      <4> QED
        BY <1>0, <2>2, <4>1, <4>2
        DEF Step, TakeLock, Crash, CallFails, Work, StartRun, Configure,
            InsertConfiguration, ImportUnder, ReadCheckpoint, NextEntity, BeginBatch,
            RecordBatch, Publish, Reconcile, EndRun, Unlock
    <3>2. ~\E n \in Migrators : ResetSequences(n)
      <4>1. \A n \in Migrators : ResetSequences(n) => pc[n] = "reset"
        BY DEF ResetSequences
      <4>2. \A n \in Migrators : n # m => pc[n] = "idle"
        BY OthersIdle
      <4> QED
        BY <2>2, <4>1, <4>2
    <3>3. SequencesPast => SequencesPast'
      BY <1>0, <3>2, SequencesStay
    <3> QED
      BY <1>0, <3>1, <3>3 DEF Progress, Ahead
  <2> QED
    BY <2>1, <2>2
<1>7. Known
  <2>1. CASE Publish(m)
    BY <1>0, <2>1 DEF Publish, Known
  <2>2. CASE Reconcile(m)
    BY <1>0, <2>2 DEF Reconcile, Known, Progress
  <2>3. CASE ~Publish(m) /\ ~Reconcile(m)
    <3>1. ImportRow(m) => pc'[m] \in {"hset", "compare", "fail", "record", "row"}
      BY <1>0, RowEffect DEF RowDone
    <3>2. ImportBatch(m) => pc'[m] \in {"batch", "fail"}
      BY <1>0 DEF ImportBatch
    <3>3. pc'[m] \notin {"reconcile", "complete"}
      BY <1>0, <2>3, <3>1, <3>2
      DEF Step, TakeLock, Crash, CallFails, Work, StartRun, Configure, InsertConfiguration,
          ImportUnder, ReadCheckpoint, NextEntity, BeginBatch, RecordBatch, ResetSequences,
          EndRun, Unlock
    <3> QED
      BY <3>3 DEF Known
  <2> QED
    BY <2>1, <2>2, <2>3
\* The batch at hand.
<1>8. Batches
  <2>1. CASE ImportBatch(m) \/ RecordBatch(m)
    <3>1. Entity(m)' = Entity(m) /\ Entity(m) \in EntitySet
      BY <2>1, Recorded DEF ImportBatch, RecordBatch, Entity
    <3>2. \A d \in EntitySet : d = Entity(m) =>
             pc'[m] = "fail" \/ (pc'[m] = "batch" /\ done'[m] = Completed(d)')
      BY <2>1, Recorded
    <3>3. pc'[m] = "fail" \/ (pc'[m] = "batch" /\ done'[m] = Completed(Entity(m))')
      <4> DEFINE d == Entity(m)
      <4>1. Completed(Entity(m))' = SumOf(batches'[Entity(m)'], DOMAIN batches'[Entity(m)'])
        BY DEF Completed
      <4>2. \A e \in EntitySet : Completed(e)' = SumOf(batches'[e], DOMAIN batches'[e])
        BY DEF Completed
      <4> QED
        BY <3>1, <3>2, <4>1, <4>2
    <3> QED
      BY <3>3 DEF Batches
  <2>2. CASE ReadCheckpoint(m)
    <3>1. done'[m] = Completed(Entity(m)) /\ pc'[m] \in {"fail", "batch"}
          /\ UNCHANGED <<batches, at>>
      BY <1>0, <2>2 DEF ReadCheckpoint
    <3>2. Completed(Entity(m))' = Completed(Entity(m))
      BY <3>1 DEF Completed, Entity
    <3> QED
      BY <3>1, <3>2 DEF Batches
  <2>3. CASE BeginBatch(m)
    <3>1. /\ pc[m] = "batch" /\ pc'[m] = "row" /\ UNCHANGED <<batches, at, done>>
          /\ next'[m] = done[m] + 1
      BY <1>0, <2>3 DEF BeginBatch
    <3>2. Completed(Entity(m))' = Completed(Entity(m))
      BY <3>1 DEF Completed, Entity
    <3>3. (done[m] + 1)..(next'[m] - 1) = {}
      BY <1>0, <3>1
    <3> QED
      BY <1>0, <3>1, <3>2, <3>3 DEF Batches, Progress
  <2>4. CASE ImportRow(m)
    <3>1. pc[m] \in Writing /\ UNCHANGED <<batches, at, done>>
      BY <2>4, RowEffect DEF ImportRow
    <3>2. Completed(Entity(m))' = Completed(Entity(m)) /\ Entity(m)' = Entity(m)
      BY <3>1 DEF Completed, Entity
    <3>3. Entity(m) \in EntitySet /\ imported = [e \in EntitySet |-> imported[e]]
      BY <3>1, RowFacts DEF Control, Shapes
    <3>4. (done[m] + 1)..(next[m] - 1) \subseteq imported[Entity(m)]
      BY <1>0, <3>1 DEF Progress
    <3>5. CASE UNCHANGED <<next, imported>>
      BY <1>0, <3>1, <3>2, <3>4, <3>5 DEF Batches, Progress
    <3>6. CASE RowDone(m, next[m])
      <4>1. /\ next'[m] = next[m] + 1
            /\ imported'[Entity(m)] = imported[Entity(m)] \union {next[m]}
        BY <1>0, <3>3, <3>6 DEF RowDone
      <4>2. (done[m] + 1)..(next'[m] - 1) \subseteq imported'[Entity(m)]
        BY <1>0, <3>4, <4>1
      <4> QED
        BY <1>0, <3>1, <3>2, <4>2 DEF Batches, Progress
    <3> QED
      BY <2>4, <3>5, <3>6, RowEffect
  <2>5. CASE /\ ~ImportBatch(m) /\ ~RecordBatch(m) /\ ~ReadCheckpoint(m)
             /\ ~BeginBatch(m) /\ ~ImportRow(m)
    <3>1. pc'[m] \notin Resumed
      BY <1>0, <2>5
      DEF Step, TakeLock, Crash, CallFails, Work, StartRun, Configure, InsertConfiguration,
          ImportUnder, NextEntity, ResetSequences, Publish, Reconcile, EndRun, Unlock
    <3> QED
      BY <3>1 DEF Batches
  <2> QED
    BY <2>1, <2>2, <2>3, <2>4, <2>5
\* A run that is completed is not gone on with.
<1>9. Open
  <2>1. CASE status = "completed"
    <3>1. pc[m] = "unlock" \/ (pc[m] = "idle" /\ ~TakeLock(m))
      BY <1>0, <2>1 DEF Progress, TakeLock
    <3>2. Crash(m) \/ Unlock(m)
      <4>1. ~ImportRow(m)
        BY <3>1, RowEffect
      <4>2. ~TakeLock(m)
        BY <3>1 DEF TakeLock
      <4> QED
        BY <3>1, <4>1, <4>2
        DEF Step, CallFails, Work, StartRun, Configure, InsertConfiguration, ImportUnder,
      ReadCheckpoint, NextEntity,
            ImportBatch, BeginBatch, RecordBatch, ResetSequences, Publish, Reconcile, EndRun
    <3>3. pc'[m] = "idle"
      BY <1>0, <3>2 DEF Crash, Unlock
    <3> QED
      BY <3>3 DEF Open
  <2>2. CASE EndRun(m)
    BY <1>0, <2>2 DEF EndRun, Open
  <2>3. CASE status # "completed" /\ ~EndRun(m)
    <3>1. status' # "completed"
      BY <2>3
      DEF Step, TakeLock, Crash, CallFails, Work, StartRun, Configure, InsertConfiguration,
          ImportUnder, ReadCheckpoint, NextEntity, ImportBatch, BeginBatch, ImportRow,
          RecordBatch, ResetSequences, Publish, Reconcile, Unlock
    <3> QED
      BY <3>1 DEF Open
  <2> QED
    BY <2>1, <2>2, <2>3
<1> QED
  BY <1>4, <1>5, <1>6, <1>7, <1>8, <1>9

(* Without a step of its own a migrator loses nothing.                     *)
LEMMA BystanderProgress ==
    ASSUME Control, Apart, Outside \/ UNCHANGED vars, NEW n \in Migrators
    PROVE  Progress(n)'
<1>1. /\ UNCHANGED <<status, batches, imported, published, pc, at, done, next>>
      /\ [Next]_vars
  <2>1. Outside => UNCHANGED <<ledger, migrator, imported, published>>
    BY OutsideEffect
  <2>2. UNCHANGED vars => UNCHANGED <<ledger, migrator, imported, published>>
    BY DEF vars
  <2> QED
    BY <2>1, <2>2 DEF ledger, migrator, Next, Outside
<1>2. SequencesPast => SequencesPast'
  <2>1. CASE \E m \in Migrators : ResetSequences(m)
    <3>1. PICK m \in Migrators : ResetSequences(m)
      BY <2>1
    <3>2. pc' # pc
      BY <3>1 DEF ResetSequences, Goto, Control, TypeOK, MigratorTypeOK
    <3> QED
      BY <1>1, <3>2
  <2>2. CASE ~\E m \in Migrators : ResetSequences(m)
    BY <1>1, <2>2, SequencesStay
  <2> QED
    BY <2>1, <2>2
<1>3. Progress(n)
  BY DEF Apart
<1>4. Completed(Entity(n))' = Completed(Entity(n)) /\ Entity(n)' = Entity(n)
  BY <1>1 DEF Completed, Entity
<1>5. \A j : Whole(Entities[j])' = Whole(Entities[j])
  BY <1>1 DEF Whole
<1> QED
  BY <1>1, <1>2, <1>3, <1>4, <1>5 DEF Progress

LEMMA FinishedStep ==
    ASSUME Control, Apart, [Next]_vars, ~overlapped'
    PROVE  Finished'
<1>1. \A e \in EntitySet : Whole(e) => Whole(e)'
  BY WholeStays
<1>2. CASE status = "completed"
  <2>1. (\A e \in EntitySet : Whole(e)) /\ published # "no" /\ SequencesPast
    BY <1>2 DEF Apart, Finished
  <2>2. ASSUME NEW m \in Migrators, ResetSequences(m) PROVE FALSE
    BY <1>2, <2>2 DEF ResetSequences, Apart, Progress
  <2>3. SequencesPast'
    BY <2>1, <2>2, SequencesStay
  <2>4. published' # "no"
    <3>1. ASSUME NEW m \in Migrators, Step(m) PROVE published' # "no"
      BY <2>1, <3>1
      DEF Step, TakeLock, Crash, CallFails, Work, StartRun, Configure, InsertConfiguration,
          ImportUnder, ReadCheckpoint, NextEntity, ImportBatch, BeginBatch, ImportRow,
          RecordBatch, ResetSequences, Publish, Reconcile, EndRun, Unlock
    <3>2. Outside \/ UNCHANGED vars => published' # "no"
      BY <2>1, OutsideEffect DEF vars
    <3> QED
      BY <3>1, <3>2 DEF Next, Outside, Step
  <2> QED
    BY <1>1, <2>1, <2>3, <2>4 DEF Finished
<1>3. CASE status # "completed" /\ status' = "completed"
  <2>1. \E m \in Migrators : EndRun(m) /\ pc[m] = "complete"
    <3>1. ASSUME NEW m \in Migrators, Step(m) PROVE EndRun(m) /\ pc[m] = "complete"
      BY <1>3, <3>1
      DEF Step, TakeLock, Crash, CallFails, Work, StartRun, Configure, InsertConfiguration,
          ImportUnder, ReadCheckpoint, NextEntity, ImportBatch, BeginBatch, ImportRow,
          RecordBatch, ResetSequences, Publish, Reconcile, EndRun, Unlock, ledger
    <3>2. ~Outside /\ ~UNCHANGED vars
      BY <1>3, OutsideEffect DEF vars, ledger
    <3> QED
      BY <3>1, <3>2 DEF Next, Outside, Step
  <2>2. PICK m \in Migrators : EndRun(m) /\ pc[m] = "complete"
    BY <2>1
  <2>3. /\ at[m] = Len(Entities) + 1 /\ SequencesPast /\ published # "no"
        /\ \A j \in DOMAIN Entities : j < at[m] => Whole(Entities[j])
    BY <2>2 DEF Control, Place, Finishing, Apart, Progress
  <2>4. \A e \in EntitySet : Whole(e)
    BY <2>3, EntityFacts DEF EntitySet
  <2>5. SequencesPast' /\ published' # "no"
    BY <2>2, <2>3 DEF EndRun, SequencesPast
  <2> QED
    BY <1>1, <2>4, <2>5 DEF Finished
<1>4. CASE status' # "completed"
  BY <1>4 DEF Finished
<1> QED
  BY <1>2, <1>3, <1>4

(* Who imports goes on under the version it has begun with.                *)
LEMMA StaysUnder ==
    ASSUME MigratorTypeOK, NEW m \in Migrators, Under(m), Step(m), ~Configure(m),
           ~InsertConfiguration(m), UNCHANGED version
    PROVE  Under(m)'
<1> USE DEF ledger, migrator, Goto, Forget
<1> USE DEF Importing, Finishing, Resumed, InBatch, Writing, MigratorTypeOK
<1> DEFINE Doing == Importing \union Finishing
<1>1. CASE ImportRow(m)
  BY <1>1, RowEffect DEF RowDone, ImportRow, Under
<1>2. CASE TakeLock(m) \/ Crash(m) \/ CallFails(m) \/ Unlock(m) \/ StartRun(m) \/ EndRun(m)
  <2>1. pc'[m] \notin Doing \union {"insert"}
    BY <1>2 DEF TakeLock, Crash, CallFails, Unlock, StartRun, EndRun
  <2> QED
    BY <2>1 DEF Under
<1>3. CASE \/ ReadCheckpoint(m) \/ NextEntity(m) \/ ImportBatch(m) \/ BeginBatch(m)
           \/ RecordBatch(m) \/ ResetSequences(m) \/ Publish(m) \/ Reconcile(m)
  <2>1. pc[m] \in Doing /\ pc'[m] # "insert" /\ under' = under
    BY <1>3
    DEF ReadCheckpoint, NextEntity, ImportBatch, BeginBatch, RecordBatch, ResetSequences,
        Publish, Reconcile
  <2> QED
    BY <2>1 DEF Under
<1> QED
  BY <1>1, <1>2, <1>3 DEF Step, Work

(* The versions of imports that the lock kept apart: only one that found no *)
(* checkpoint makes one, and nobody else is there to have made it since.   *)
LEMMA OneImportStep ==
    ASSUME Control, Apart, OneImport, [Next]_vars, ~overlapped'
    PROVE  OneImport'
<1> USE DEF ledger, migrator, Goto, Forget
<1> USE DEF Importing, Finishing, Resumed, InBatch, Writing
<1>0. /\ MigratorTypeOK /\ DestTypeOK /\ version = versions /\ version \in {0, 1}
      /\ dest = [e \in EntitySet |-> dest[e]] /\ Absent # Foreign /\ Absent \notin Nat
      /\ Foreign \notin Nat /\ Versioned \subseteq EntitySet \ RedisSet
  BY MigrationAssumption DEF Control, TypeOK, Shapes, OneImport
<1>1. CASE Outside \/ UNCHANGED vars
  <2>1. UNCHANGED <<version, versions, pc, under>>
    BY <1>1, OutsideEffect DEF vars
  <2>2. \A e \in EntitySet \ RedisSet : \A i \in Identity[e] : dest'[e][i] \in {dest[e][i], Foreign}
    BY <1>0, <1>1, OutsideEffect DEF vars, DestTypeOK
  <2> QED
    BY <1>0, <2>1, <2>2 DEF OneImport, Under
<1>2. ASSUME NEW m \in Migrators, Step(m) PROVE OneImport'
  <2>1. \A n \in Migrators : n # m => pc'[n] = "idle"
    BY <1>2, OthersIdle, StepIsLocal DEF Same, Control, TypeOK
  <2>2. \A n \in Migrators : n # m => Under(n)'
    BY <2>1 DEF Under
  <2>3. Under(m)
    BY DEF OneImport
  <2>4. CASE InsertConfiguration(m)
    <3>1. version = 0 /\ version' = 1 /\ versions' = 1 /\ dest' = dest
          /\ under'[m] = 1 /\ pc'[m] = "checkpoint"
      BY <1>0, <2>3, <2>4 DEF InsertConfiguration, ImportUnder, Under, MigratorTypeOK
    <3>2. Under(m)'
      BY <3>1 DEF Under
    <3> QED
      BY <2>2, <3>1, <3>2 DEF OneImport
  <2>5. CASE Configure(m)
    <3>1. UNCHANGED <<version, versions, dest>>
          /\ \/ pc'[m] = "insert" /\ version = 0
             \/ pc'[m] = "checkpoint" /\ under'[m] = version /\ version = 1
      BY <1>0, <2>5 DEF Configure, ImportUnder, MigratorTypeOK
    <3>2. Under(m)'
      BY <3>1 DEF Under
    <3> QED
      BY <2>2, <3>1, <3>2 DEF OneImport
  <2>6. CASE ~Configure(m) /\ ~InsertConfiguration(m)
    <3>1. UNCHANGED <<version, versions>>
      BY <1>2, <2>6
      DEF Step, TakeLock, Crash, CallFails, Work, StartRun, ReadCheckpoint, NextEntity,
          ImportBatch, BeginBatch, ImportRow, RecordBatch, ResetSequences, Publish,
          Reconcile, EndRun, Unlock
    <3>2. Under(m)'
      BY <1>0, <1>2, <2>3, <2>6, <3>1, StaysUnder
    <3>3. ASSUME NEW e \in Versioned, NEW i \in Identity[e], dest'[e][i] \notin {Absent, Foreign}
          PROVE  dest'[e][i] = version /\ version = 1
      <4>1. CASE dest'[e][i] = dest[e][i]
        BY <3>3, <4>1 DEF OneImport
      <4>2. CASE dest'[e][i] # dest[e][i]
        <5>1. ~ImportRow(m)
          <6>1. ImportRow(m) => dest'[e] = dest[e]
            BY <1>0, RowEffect, RowFacts
          <6> QED
            BY <4>2, <6>1
        <5>2. /\ ImportBatch(m)
              /\ dest' = [dest EXCEPT ![Entity(m)] = [k \in Identity[Entity(m)] |->
                       IF k \in Batch(m, done[m]) /\ dest[Entity(m)][k] = Absent
                       THEN Expected(Entity(m), under[m]) ELSE dest[Entity(m)][k]]]
          BY <1>2, <4>2, <5>1, DataEffect
        <5>3. Entity(m) \in EntitySet
          BY <5>2, BatchOfRows
        <5>4. Entity(m) = e /\ dest'[e][i] = Expected(e, under[m])
          BY <1>0, <4>2, <5>2, <5>3
        <5>5. under[m] = version /\ version = 1
          BY <2>3, <5>2 DEF Under, ImportBatch
        <5> QED
          BY <5>4, <5>5 DEF Expected
      <4> QED
        BY <4>1, <4>2
    <3> QED
      BY <1>0, <2>2, <3>1, <3>2, <3>3 DEF OneImport
  <2> QED
    BY <2>4, <2>5, <2>6
<1> QED
  BY <1>1, <1>2 DEF Next, Outside, Step

LEMMA ApartStep ==
    ASSUME IInv, [Next]_vars
    PROVE  overlapped' \/ (Apart' /\ OneImport')
<1>1. overlapped => overlapped'
  <2>1. ASSUME NEW m \in Migrators, Step(m) PROVE overlapped => overlapped'
    BY <2>1
    DEF Step, TakeLock, Crash, CallFails, Work, StartRun, Configure, InsertConfiguration,
        ImportUnder, ReadCheckpoint, NextEntity, ImportBatch, BeginBatch, ImportRow,
        RecordBatch, ResetSequences, Publish, Reconcile, EndRun, Unlock
  <2>2. Outside \/ UNCHANGED vars => overlapped' = overlapped
    <3>1. Outside => overlapped' = overlapped
      BY OutsideEffect DEF IInv
    <3> QED
      BY <3>1 DEF vars
  <2> QED
    BY <2>1, <2>2 DEF Next, Outside, Step
<1> SUFFICES ASSUME ~overlapped' PROVE Apart' /\ OneImport'
  OBVIOUS
<1>2. Control /\ Rows /\ Apart /\ OneImport
  BY <1>1 DEF IInv
<1>3. \A e \in EntitySet : Prefix(e)'
  BY <1>2, PrefixStep
<1>4. Finished'
  BY <1>2, FinishedStep
<1>5. ASSUME NEW n \in Migrators PROVE Progress(n)'
  <2>1. ASSUME NEW m \in Migrators, Step(m) PROVE Progress(n)'
    <3>1. CASE n = m
      BY <1>2, <2>1, <3>1, ActorProgress
    <3>2. CASE n # m
      <4>1. pc'[n] = "idle"
        BY <1>2, <2>1, <3>2, OthersIdle, StepIsLocal DEF Same, Control, TypeOK
      <4> QED
        BY <4>1 DEF Progress, Importing, Finishing, Resumed, InBatch, Writing
    <3> QED
      BY <3>1, <3>2
  <2>2. Outside \/ UNCHANGED vars => Progress(n)'
    BY <1>2, BystanderProgress
  <2> QED
    BY <2>1, <2>2 DEF Next, Outside, Step
<1>6. OneImport'
  BY <1>2, OneImportStep
<1> QED
  BY <1>3, <1>4, <1>5, <1>6 DEF Apart

LEMMA InitApart == Init => Apart
<1> SUFFICES ASSUME Init PROVE Apart
  OBVIOUS
<1>1. ASSUME NEW e \in EntitySet PROVE Prefix(e)
  <2>1. batches[e] = <<>> /\ DOMAIN batches[e] = {}
    BY DEF Init
  <2>2. Completed(e) = 0
    BY <2>1, SumEmpty DEF Completed
  <2> QED
    BY <2>1, <2>2, EntityFacts DEF Prefix
<1>2. \A m \in Migrators : Progress(m)
  BY DEF Init, Progress, Importing, Finishing, Resumed, InBatch, Writing
<1>3. Finished
  BY MigrationAssumption DEF Init, Finished
<1> QED
  BY <1>1, <1>2, <1>3 DEF Apart

LEMMA InitOneImport == Init => OneImport
  BY MigrationAssumption DEF Init, OneImport, Under, Importing, Finishing, Resumed,
         InBatch, Writing

LEMMA Invariance == Spec => []IInv
<1>1. Init => IInv
  BY InitType, InitRows, InitApart, InitOneImport DEF IInv
<1>2. IInv /\ [Next]_vars => IInv'
  BY ControlStep, RowsStep, ApartStep DEF IInv
<1> QED
  BY <1>1, <1>2, PTL DEF Spec

(* A resumed import skips no row that an earlier one neither wrote nor      *)
(* compared, wherever it was interrupted and whatever batch size either     *)
(* was given, as long as the lock kept the migrators apart.                *)
THEOREM SkipsOnlyImported == Spec => []CheckpointedIsImported
<1>1. IInv => CheckpointedIsImported
  BY DEF IInv, Apart, Prefix, CheckpointedIsImported
<1> QED
  BY <1>1, Invariance, PTL

(* A completed run has been through every row of the source and moved the   *)
(* sequences past its ids; it published the configuration, unless it was    *)
(* imported with --allow-disabled-providers.                                *)
THEOREM CompletesWhole == Spec => []CompletedIsWhole
<1>1. IInv => CompletedIsWhole
  BY DEF IInv, Apart, Finished, Whole, SequencesPast, CompletedIsWhole, Control, TypeOK,
         DestTypeOK, Outcomes
<1> QED
  BY <1>1, Invariance, PTL

(* Imports that follow one another, wherever each was interrupted, make one  *)
(* configuration version between them, and every row that names a version    *)
(* names that one; two that overlap may not.                                 *)
THEOREM ImportsUnderOneVersion == Spec => []OneVersion
<1>1. IInv => OneVersion
  BY DEF IInv, OneImport, OneVersion
<1> QED
  BY <1>1, Invariance, PTL
=============================================================================
