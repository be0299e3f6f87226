------------------------------- MODULE Access -------------------------------
(***************************************************************************)
(* Managed API keys: mixapi/repositories/control_plane.py (PostgreSQL), the*)
(* authentication cache of mixapi/auth_cache.py (Redis) in front of it, and*)
(* mixapi/auth.py, which resolves the key of every request through both.   *)
(*                                                                         *)
(* A request that misses the cache reads the key's row and the tenant's    *)
(* policy in two transactions and writes what it made of them to the cache.*)
(* An administrator's change locks the row, writes it with an audit event, *)
(* drops the cached entries and commits, in this order.  The model follows *)
(* the tenant of the keys: another tenant shares no row and no Redis key.  *)
(*                                                                         *)
(* A step is one SQL statement, commit, Redis command or MULTI pipeline.   *)
(***************************************************************************)
EXTENDS Integers, FiniteSets

CONSTANTS
    Keys,          \* API keys, each standing for its hash; all of one tenant
    Models,        \* logical models
    Resolvers,     \* public requests being authenticated
    Admins,        \* administration requests
    Allowlists,    \* the allowlists administrators set; {} is no restriction
    Objectives,    \* the routing objectives they set
    Unset,         \* a NULL objective
    Unrestricted,  \* model_allowlist None of a CachedAuthentication
    None,          \* no row, no entry
    TTL,           \* auth_cache_ttl_seconds, in ticks
    MaxChanges,    \* bound on changes begun
    MaxFaults      \* bound on failed calls, deaths and losses of Redis

ASSUME AccessAssumption ==
    /\ Allowlists \subseteq SUBSET Models
    /\ Unset \notin Objectives
    /\ \A S \in SUBSET Models : S # Unrestricted
    /\ TTL \in Nat \ {0}
    /\ MaxChanges \in Nat
    /\ MaxFaults \in Nat

KeyRows == [allow : SUBSET Models, expires : BOOLEAN, status : {"active", "revoked"}]
Policies == [allow : SUBSET Models, objective : Objectives \union {Unset}]
DefaultPolicy == [allow |-> {}, objective |-> Unset]

\* The targets of changes: a key, or the policy of the tenant.
Tenant == "tenant"
Targets == Keys \union {Tenant}

VARIABLES
    (* PostgreSQL *)
    key,        \* api_keys
    policy,     \* the row of tenant_policies
    audit,      \* the last of the audit_events of each target
    (* Redis *)
    entry,      \* key:{hash}: what a fill wrote
    ttl,        \* its time to live, 0 when there is no entry
    index,      \* tenant:{id}: the hashes the next change of policy deletes
    indexTtl,   \* its time to live
    (* requests *)
    pc,         \* what the resolver does next
    using,      \* the key it was given
    row,        \* the row it read
    found,      \* the policy it read
    missed,     \* what committed since it read the rows
    (* administration *)
    step,       \* what the administrator's transaction does next
    target,     \* the row it changes
    before,     \* that row when it was read
    new,        \* the row to write
    doomed,     \* the hashes SMEMBERS returned
    serial,     \* the number of its change (history), 0 for none
    (* the world *)
    late,       \* the expiry date of keys that have one has passed
    ever,       \* models a key has been permitted at some time (history)
    changes, faults

pgVars       == <<key, policy, audit, ever>>
redisVars    == <<entry, ttl, index, indexTtl>>
resolverVars == <<pc, using, row, found, missed>>
adminVars    == <<step, target, before, new, doomed, serial>>
worldVars    == <<late, changes, faults>>
vars == <<pgVars, redisVars, resolverVars, adminVars, worldVars>>

-----------------------------------------------------------------------------
(* Mutated forms.                                                          *)

\* The list of the key takes the place of the tenant's.
KeyOverTenant(keyAllow, tenantAllow) == IF keyAllow = {} THEN Unrestricted ELSE keyAllow

-----------------------------------------------------------------------------
(* What a key may do.                                                      *)

\* _effective_model_allowlist: the intersection, where an empty list is no
\* restriction but an empty intersection permits nothing.
EffectiveAllowlist(keyAllow, tenantAllow) ==
    CASE keyAllow = {} /\ tenantAllow = {} -> Unrestricted
      [] keyAllow = {} /\ tenantAllow # {} -> tenantAllow
      [] keyAllow # {} /\ tenantAllow = {} -> keyAllow
      [] keyAllow # {} /\ tenantAllow # {} -> keyAllow \intersect tenantAllow

Authentication(k, p) ==
    [models |-> EffectiveAllowlist(k.allow, p.allow), objective |-> p.objective,
     expires |-> k.expires]
Authentications ==
    [models : {Unrestricted} \union SUBSET Models, objective : Objectives \union {Unset},
     expires : BOOLEAN]

Permitted(auth) == IF auth.models = Unrestricted THEN Models ELSE auth.models

PolicyOf(p) == IF p = None THEN DefaultPolicy ELSE p
\* What both lists let through, for the history of what was permitted.
Allowed(k, p) ==
    {m \in Models : (k.allow = {} \/ m \in k.allow) /\ (p.allow = {} \/ m \in p.allow)}
Live(k) == k # None /\ k.status = "active" /\ ~(k.expires /\ late)

\* The rows a resolver read that a commit has replaced since; "torn" when the
\* key's was replaced first and the policy read afterwards is younger.
Gaps == {"key", "tenant", "torn"}

\* An entry, with the history of its fill: the gaps it had, and the numbers of the
\* changes that were past the cache and had not committed.
Entries == [auth : Authentications, missed : SUBSET Gaps, past : SUBSET (1..MaxChanges)]

\* audit_events: a change of a row, or its creation.
Events == [before : KeyRows \union Policies \union {None}, after : KeyRows \union Policies]

ASSUME NoneAssumption ==
    /\ Tenant \notin Keys
    /\ None \notin Targets
    /\ None \notin KeyRows \union Policies
    /\ None \notin Entries \union Events

-----------------------------------------------------------------------------
TypeOK ==
    /\ key \in [Keys -> KeyRows \union {None}]
    /\ policy \in Policies \union {None}
    /\ audit \in [Targets -> Events \union {None}]
    /\ entry \in [Keys -> Entries \union {None}]
    /\ ttl \in [Keys -> 0..TTL]
    /\ \A k \in Keys : ttl[k] = 0 <=> entry[k] = None
    /\ index \subseteq Keys
    /\ indexTtl \in 0..TTL
    /\ indexTtl = 0 <=> index = {}
    /\ pc \in [Resolvers -> {"get", "evict", "load", "policy", "fill"}]
    /\ using \in [Resolvers -> Keys \union {None}]
    /\ row \in [Resolvers -> KeyRows \union {None}]
    /\ found \in [Resolvers -> Policies \union {None}]
    /\ missed \in [Resolvers -> SUBSET Gaps]
    /\ step \in [Admins -> {"idle", "write", "drop", "delete", "commit"}]
    /\ target \in [Admins -> Targets \union {None}]
    /\ before \in [Admins -> KeyRows \union Policies \union {None}]
    /\ new \in [Admins -> KeyRows \union Policies \union {None}]
    /\ doomed \in [Admins -> SUBSET Keys]
    /\ serial \in [Admins -> 0..MaxChanges]
    /\ late \in BOOLEAN
    /\ ever \in [Keys -> SUBSET Models]
    /\ changes \in 0..MaxChanges
    /\ faults \in 0..MaxFaults

Init ==
    /\ key = [k \in Keys |-> None]
    /\ \/ policy = None /\ audit = [x \in Targets |-> None]
       \/ \E allow \in Allowlists :
            /\ policy = [DefaultPolicy EXCEPT !.allow = allow]
            /\ audit = [x \in Targets |-> IF x = Tenant THEN [before |-> DefaultPolicy, after |-> policy]
                                         ELSE None]
    /\ ever = [k \in Keys |-> {}]
    /\ entry = [k \in Keys |-> None]
    /\ ttl = [k \in Keys |-> 0]
    /\ index = {}
    /\ indexTtl = 0
    /\ pc = [r \in Resolvers |-> "get"]
    /\ using = [r \in Resolvers |-> None]
    /\ row = [r \in Resolvers |-> None]
    /\ found = [r \in Resolvers |-> None]
    /\ missed = [r \in Resolvers |-> {}]
    /\ step = [a \in Admins |-> "idle"]
    /\ target = [a \in Admins |-> None]
    /\ before = [a \in Admins |-> None]
    /\ new = [a \in Admins |-> None]
    /\ doomed = [a \in Admins |-> {}]
    /\ serial = [a \in Admins |-> 0]
    /\ late = FALSE
    /\ changes = 0
    /\ faults = 0

-----------------------------------------------------------------------------
(* Mutated forms.                                                          *)

\* A hit renews the time to live, as sticky sessions do.
HitRenews(k) ==
    /\ entry[k] # None
    /\ ttl' = [ttl EXCEPT ![k] = TTL]
    /\ UNCHANGED <<entry, index, indexTtl>>

\* The pipeline leaves out the SADD, or the EXPIRE of an index that has one.
RememberUnindexed(k, value) ==
    /\ entry' = [entry EXCEPT ![k] = value]
    /\ ttl' = [ttl EXCEPT ![k] = TTL]
    /\ UNCHANGED <<index, indexTtl>>

RememberUnrenewed(k, value) ==
    /\ entry' = [entry EXCEPT ![k] = value]
    /\ ttl' = [ttl EXCEPT ![k] = TTL]
    /\ index' = index \union {k}
    /\ indexTtl' = IF indexTtl = 0 THEN TTL ELSE indexTtl

\* Rows are read without FOR UPDATE.
NotLocked(x) == FALSE

-----------------------------------------------------------------------------
(* Resolving a key: RedisAuthCache.resolve with _load_managed_authentication.*)

\* The resolver returns, with a principal or without, or a call failed.
Leave(r) ==
    /\ pc' = [pc EXCEPT ![r] = "get"]
    /\ using' = [using EXCEPT ![r] = None]
    /\ row' = [row EXCEPT ![r] = None]
    /\ found' = [found EXCEPT ![r] = None]
    /\ missed' = [missed EXCEPT ![r] = {}]

\* The GET.  With an entry the request goes on as the principal it describes,
\* unless the expiry date of its key has passed: then it is deleted next.
Passed(k) == entry[k].auth.expires /\ late
Hit(k) == entry[k] # None /\ ~Passed(k) /\ UNCHANGED redisVars

Get(r, k) ==
    /\ pc[r] = "get"
    /\ \/ Hit(k) /\ UNCHANGED <<pc, using>>
       \/ /\ entry[k] # None => Passed(k)
          /\ using' = [using EXCEPT ![r] = k]
          /\ pc' = [pc EXCEPT ![r] = IF entry[k] # None THEN "evict" ELSE "load"]
          /\ UNCHANGED redisVars
    /\ UNCHANGED <<pgVars, row, found, missed, adminVars, worldVars>>

DeleteEntries(S) ==
    /\ entry' = [k \in Keys |-> IF k \in S THEN None ELSE entry[k]]
    /\ ttl' = [k \in Keys |-> IF k \in S THEN 0 ELSE ttl[k]]

Evict(r) ==
    /\ pc[r] = "evict"
    /\ DeleteEntries({using[r]})
    /\ Leave(r)
    /\ UNCHANGED <<pgVars, index, indexTtl, adminVars, worldVars>>

\* resolve_api_key.
LoadKey(r) ==
    /\ pc[r] = "load"
    /\ \/ /\ Live(key[using[r]])
          /\ row' = [row EXCEPT ![r] = key[using[r]]]
          /\ pc' = [pc EXCEPT ![r] = "policy"]
          /\ UNCHANGED <<using, found, missed>>
       \/ /\ ~Live(key[using[r]])
          /\ Leave(r)
    /\ UNCHANGED <<pgVars, redisVars, adminVars, worldVars>>

\* get_tenant_policy, a transaction of its own.
LoadPolicy(r) ==
    /\ pc[r] = "policy"
    /\ found' = [found EXCEPT ![r] = PolicyOf(policy)]
    /\ pc' = [pc EXCEPT ![r] = "fill"]
    /\ UNCHANGED <<pgVars, redisVars, using, row, missed, adminVars, worldVars>>

\* The changes of the key, or of its tenant's policy, that have read what they will
\* delete from the cache and have not committed.
Invalidating(k) ==
    {a \in Admins : \/ target[a] = k /\ step[a] = "commit"
                    \/ target[a] = Tenant /\ step[a] \in {"delete", "commit"}}

\* The pipeline of SETEX, SADD and EXPIRE.
Remember(k, value) ==
    /\ entry' = [entry EXCEPT ![k] = value]
    /\ ttl' = [ttl EXCEPT ![k] = TTL]
    /\ index' = index \union {k}
    /\ indexTtl' = TTL

Fill(r) ==
    /\ pc[r] = "fill"
    /\ LET k == using[r]
           auth == Authentication(row[r], found[r])
       IN Remember(k, [auth |-> auth, missed |-> missed[r],
                       past |-> {serial[a] : a \in Invalidating(k)}])
    /\ Leave(r)
    /\ UNCHANGED <<pgVars, adminVars, worldVars>>

-----------------------------------------------------------------------------
(* Administration: PostgresControlPlaneStore.                              *)

\* create_api_key.  Its secret is not known to anyone before it returns.
CreateKey(k) ==
    /\ key[k] = None
    /\ \E allow \in Allowlists, expires \in BOOLEAN :
         LET made == [allow |-> allow, expires |-> expires, status |-> "active"]
         IN /\ key' = [key EXCEPT ![k] = made]
            /\ audit' = [audit EXCEPT ![k] = [before |-> None, after |-> made]]
            /\ ever' = [ever EXCEPT ![k] = Allowed(made, PolicyOf(policy))]
    /\ UNCHANGED <<policy, redisVars, resolverVars, adminVars, worldVars>>

\* Transactions that hold the lock of a row.  SELECT ... FOR UPDATE locks
\* nothing when there is no row: the INSERT does.
Locked(x) ==
    \E a \in Admins : target[a] = x /\ (step[a] = "write" => before[a] # None)

\* A change that changes nothing is left out.
Begin(a, x, old, value) ==
    /\ step[a] = "idle"
    /\ value # old
    /\ changes < MaxChanges
    /\ changes' = changes + 1
    /\ target' = [target EXCEPT ![a] = x]
    /\ before' = [before EXCEPT ![a] = old]
    /\ new' = [new EXCEPT ![a] = value]
    /\ serial' = [serial EXCEPT ![a] = changes + 1]
    /\ step' = [step EXCEPT ![a] = IF x = Tenant THEN "write" ELSE "drop"]
    /\ UNCHANGED <<pgVars, redisVars, resolverVars, doomed, late, faults>>

\* update_api_key and revoke_api_key up to the audit event: the row is locked,
\* so nobody sees what they write before they commit.
UpdateKey(a, k) ==
    /\ key[k] # None
    /\ ~Locked(k)
    /\ \/ \E allow \in Allowlists : Begin(a, k, key[k], [key[k] EXCEPT !.allow = allow])
       \/ \E expires \in BOOLEAN : Begin(a, k, key[k], [key[k] EXCEPT !.expires = expires])

RevokeKey(a, k) ==
    /\ key[k] # None
    /\ ~Locked(k)
    /\ Begin(a, k, key[k], [key[k] EXCEPT !.status = "revoked"])

\* The read of _update_tenant_policy, which computes one field and keeps the
\* other as it was read.
ReadPolicy(a) ==
    /\ policy # None => ~Locked(Tenant)
    /\ \/ \E allow \in Allowlists :
            Begin(a, Tenant, policy, [PolicyOf(policy) EXCEPT !.allow = allow])
       \/ \E objective \in Objectives \union {Unset} :
            Begin(a, Tenant, policy, [PolicyOf(policy) EXCEPT !.objective = objective])

\* INSERT ... ON CONFLICT DO UPDATE waits for the transaction that inserted.
WritePolicy(a) ==
    /\ step[a] = "write"
    /\ before[a] = None => ~Locked(Tenant)
    /\ step' = [step EXCEPT ![a] = "drop"]
    /\ UNCHANGED <<pgVars, redisVars, resolverVars, target, before, new, doomed, serial,
                   worldVars>>

\* delete_key_hash, or the SMEMBERS of delete_tenant.
Drop(a) ==
    /\ step[a] = "drop"
    /\ \/ /\ target[a] # Tenant
          /\ DeleteEntries({target[a]})
          /\ step' = [step EXCEPT ![a] = "commit"]
          /\ UNCHANGED doomed
       \/ /\ target[a] = Tenant
          /\ doomed' = [doomed EXCEPT ![a] = index]
          /\ step' = [step EXCEPT ![a] = "delete"]
          /\ UNCHANGED <<entry, ttl>>
    /\ UNCHANGED <<pgVars, index, indexTtl, resolverVars, target, before, new, serial, worldVars>>

\* The pipeline of delete_tenant.
Delete(a) ==
    /\ step[a] = "delete"
    /\ DeleteEntries(doomed[a])
    /\ index' = {}
    /\ indexTtl' = 0
    /\ step' = [step EXCEPT ![a] = "commit"]
    /\ doomed' = [doomed EXCEPT ![a] = {}]
    /\ UNCHANGED <<pgVars, resolverVars, target, before, new, serial, worldVars>>

Finish(a) ==
    /\ step' = [step EXCEPT ![a] = "idle"]
    /\ target' = [target EXCEPT ![a] = None]
    /\ before' = [before EXCEPT ![a] = None]
    /\ new' = [new EXCEPT ![a] = None]
    /\ doomed' = [doomed EXCEPT ![a] = {}]
    /\ serial' = [serial EXCEPT ![a] = 0]

\* What a resolver misses when the change of a commits.
Misses(r, x) ==
    CASE x = using[r] /\ pc[r] \in {"policy", "fill"} -> {"key"}
      [] x = Tenant /\ pc[r] = "policy" /\ "key" \in missed[r] -> {"torn"}
      [] x = Tenant /\ pc[r] = "fill" -> {"tenant"}
      [] OTHER -> {}

Commit(a) ==
    /\ step[a] = "commit"
    /\ LET x == target[a]
       IN /\ key' = IF x = Tenant THEN key ELSE [key EXCEPT ![x] = new[a]]
          /\ policy' = IF x = Tenant THEN new[a] ELSE policy
          /\ audit' = [audit EXCEPT ![x] =
                 [before |-> IF x = Tenant THEN PolicyOf(before[a]) ELSE before[a],
                  after |-> new[a]]]
          /\ missed' = [r \in Resolvers |-> missed[r] \union Misses(r, x)]
    /\ ever' = [k \in Keys |->
           IF key[k] = None \/ key[k].status = "revoked" THEN ever[k]
           ELSE ever[k] \union Allowed(key'[k], PolicyOf(policy'))]
    /\ Finish(a)
    /\ UNCHANGED <<redisVars, pc, using, row, found, worldVars>>

-----------------------------------------------------------------------------
(* Failures and time.                                                      *)

\* A call of Redis or PostgreSQL fails (503), or the process dies.
ResolverFails(r) ==
    /\ faults < MaxFaults
    /\ pc[r] # "get"
    /\ Leave(r)
    /\ faults' = faults + 1
    /\ UNCHANGED <<pgVars, redisVars, adminVars, late, changes>>

\* The transaction rolls back; what it deleted from the cache stays deleted.
AdminFails(a) ==
    /\ faults < MaxFaults
    /\ step[a] # "idle"
    /\ Finish(a)
    /\ faults' = faults + 1
    /\ UNCHANGED <<pgVars, redisVars, resolverVars, late, changes>>

RedisLoss ==
    /\ faults < MaxFaults
    /\ index # {} \/ \E k \in Keys : entry[k] # None
    /\ DeleteEntries(Keys)
    /\ index' = {}
    /\ indexTtl' = 0
    /\ faults' = faults + 1
    /\ UNCHANGED <<pgVars, resolverVars, adminVars, late, changes>>

Less(n) == IF n = 0 THEN 0 ELSE n - 1

Tick ==
    /\ indexTtl > 0 \/ \E k \in Keys : ttl[k] > 0
    /\ ttl' = [k \in Keys |-> Less(ttl[k])]
    /\ entry' = [k \in Keys |-> IF ttl'[k] = 0 THEN None ELSE entry[k]]
    /\ indexTtl' = Less(indexTtl)
    /\ index' = IF indexTtl' = 0 THEN {} ELSE index
    /\ UNCHANGED <<pgVars, resolverVars, adminVars, worldVars>>

DatePasses ==
    /\ ~late
    /\ late' = TRUE
    /\ UNCHANGED <<pgVars, redisVars, resolverVars, adminVars, changes, faults>>

-----------------------------------------------------------------------------
Resolve(r) == Evict(r) \/ LoadKey(r) \/ LoadPolicy(r) \/ Fill(r)

AdminStep(a) ==
    \/ \E k \in Keys : UpdateKey(a, k) \/ RevokeKey(a, k)
    \/ ReadPolicy(a) \/ WritePolicy(a) \/ Drop(a) \/ Delete(a) \/ Commit(a)

Next ==
    \/ \E r \in Resolvers : (\E k \in Keys : Get(r, k)) \/ Resolve(r) \/ ResolverFails(r)
    \/ \E k \in Keys : CreateKey(k)
    \/ \E a \in Admins : AdminStep(a) \/ AdminFails(a)
    \/ RedisLoss \/ Tick \/ DatePasses

Spec == Init /\ [][Next]_vars

\* Every call of a store has a time-out, so a request that began to resolve a
\* key goes on; and Redis counts down what has a time to live.
Fairness == (\A r \in Resolvers : WF_vars(Resolve(r))) /\ WF_vars(Tick)
FairSpec == Spec /\ Fairness

-----------------------------------------------------------------------------
(* Properties.                                                             *)

Current(k) == Authentication(key[k], PolicyOf(policy))
Stale(k) == entry[k] # None /\ (key[k].status = "revoked" \/ entry[k].auth # Current(k))

\* auth_cache.py and control_plane.py: a cached entry that is not what the rows
\* say now was written by a fill that a change of these rows overtook, between
\* its reads and its pipeline or between the deletion of the entries and the
\* commit.  An entry once overtaken stays so: what brings it to an end is the
\* deletion by a later change (DropsMissOnlyOverlaps) or its time to live.
Overtaken(k) == entry[k].missed # {} \/ entry[k].past # {}
StaleOnlyByOverlap == \A k \in Keys : Stale(k) => Overtaken(k)

\* auth_cache.py, delete_tenant and delete_key_hash: when a change is about to
\* commit, each entry of its keys that is in the cache was filled since the change
\* deleted them, or, for a policy's change, is one the index does not have: it was
\* filled after an earlier change of the policy had read the index and before that
\* change deleted it.  Nothing else, neither a time to live that ends nor a change
\* that failed, keeps an entry from the deletion.
DropsMissOnlyOverlaps ==
    \A a \in Admins, k \in Keys :
        step[a] = "commit" /\ target[a] \in {k, Tenant} /\ entry[k] # None =>
            \/ serial[a] \in entry[k].past
            \/ target[a] = Tenant /\ k \notin index /\ entry[k].past # {}

\* auth.py, _load_managed_authentication: what an entry permits was permitted
\* by the rows at some time, although key and policy are read in two
\* transactions and a restriction may move from one to the other, unless the
\* key's row changed before the policy did and both between the two reads.
GrantsWerePermitted ==
    \A k \in Keys : entry[k] # None =>
        \/ Permitted(entry[k].auth) \subseteq ever[k]
        \/ "torn" \in entry[k].missed

\* control_plane.py: every audit event starts from what the one before it left,
\* so no change was lost, except those of a tenant's policy that began when it
\* had no row to lock.
ChangesAreKept ==
    [][\A x \in Targets : audit'[x] # audit[x] /\ audit[x] # None =>
         \/ audit'[x].before = audit[x].after
         \/ x = Tenant /\ audit'[x].before = DefaultPolicy]_vars

\* auth_cache.py: once a key is revoked there comes a time from which no entry
\* and no fill lets it in, though fills may write it back after the revocation.
Admits(k) ==
    entry[k] # None \/ \E r \in Resolvers : using[r] = k /\ pc[r] \in {"policy", "fill"}
Revoked(k) == key[k] # None /\ key[k].status = "revoked"
RevocationTakesHold == \A k \in Keys : Revoked(k) ~> []~Admits(k)
=============================================================================
