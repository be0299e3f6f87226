---------------------------- MODULE MCMigration ----------------------------
(* Instances of Migration for TLC.                                         *)
EXTENDS Migration

CONSTANTS p1, p2

Sizes == [m \in Migrators |-> IF m = p1 THEN 1 ELSE 2]

\* Two rows of PostgreSQL, one of each way of writing to Redis.
Source == [usage_events |-> 2, idempotency_records |-> 1, circuit_states |-> 1]
SqlEntity == <<"usage_events">>
RedisEntities == <<"idempotency_records", "circuit_states">>
=============================================================================
