---------------------------- MODULE AccessProofs ----------------------------
(***************************************************************************)
(* Theorems about Access, for any number of keys, resolvers and            *)
(* administrators, any times to live and any number of changes and faults. *)
(***************************************************************************)
EXTENDS Access, TLAPS

-----------------------------------------------------------------------------
(* Types, with what each process knows at each of its steps.               *)

PgTypeOK ==
    /\ key \in [Keys -> KeyRows \union {None}]
    /\ policy \in Policies \union {None}
    /\ audit \in [Targets -> Events \union {None}]
    /\ ever \in [Keys -> SUBSET Models]

RedisTypeOK ==
    /\ entry \in [Keys -> Entries \union {None}]
    /\ ttl \in [Keys -> 0..TTL]
    /\ \A k \in Keys : ttl[k] = 0 <=> entry[k] = None
    /\ index \subseteq Keys
    /\ indexTtl \in 0..TTL
    /\ indexTtl = 0 <=> index = {}

ResolverTypeOK ==
    /\ pc \in [Resolvers -> {"get", "evict", "load", "policy", "fill"}]
    /\ using \in [Resolvers -> Keys \union {None}]
    /\ row \in [Resolvers -> KeyRows \union {None}]
    /\ found \in [Resolvers -> Policies \union {None}]
    /\ missed \in [Resolvers -> SUBSET Gaps]

\* A resolver at work has a key; past the load it has an active row, past the
\* policy one of those; before the load it has missed nothing.
ResolverPlaces ==
    \A r \in Resolvers :
        /\ pc[r] # "get" => using[r] \in Keys
        /\ pc[r] \in {"get", "evict", "load"} => missed[r] = {}
        /\ pc[r] \in {"policy", "fill"} => row[r] \in KeyRows /\ row[r].status = "active"
        /\ pc[r] = "fill" => found[r] \in Policies

AdminTypeOK ==
    /\ step \in [Admins -> {"idle", "write", "drop", "delete", "commit"}]
    /\ target \in [Admins -> Targets \union {None}]
    /\ before \in [Admins -> KeyRows \union Policies \union {None}]
    /\ new \in [Admins -> KeyRows \union Policies \union {None}]
    /\ doomed \in [Admins -> SUBSET Keys]
    /\ serial \in [Admins -> 0..MaxChanges]

\* A transaction changes a row into one of the same table.
AdminPlaces ==
    \A a \in Admins :
        /\ step[a] = "idle" <=> target[a] = None
        /\ step[a] # "idle" => serial[a] # 0
        /\ target[a] \in Keys => /\ step[a] \in {"drop", "commit"}
                                 /\ before[a] \in KeyRows
                                 /\ new[a] \in KeyRows
        /\ target[a] = Tenant => /\ before[a] \in Policies \union {None}
                                 /\ new[a] \in Policies

WorldTypeOK ==
    /\ late \in BOOLEAN
    /\ changes \in 0..MaxChanges
    /\ faults \in 0..MaxFaults

Types ==
    /\ PgTypeOK
    /\ RedisTypeOK
    /\ ResolverTypeOK
    /\ ResolverPlaces
    /\ AdminTypeOK
    /\ AdminPlaces
    /\ WorldTypeOK

LEMMA TypesSuffice == Types => TypeOK
  BY DEF Types, TypeOK, PgTypeOK, RedisTypeOK, ResolverTypeOK, AdminTypeOK, WorldTypeOK

LEMMA Constants ==
    /\ Tenant \notin Keys /\ None # Tenant /\ None \notin Keys
    /\ None \notin KeyRows /\ None \notin Policies /\ None \notin Entries /\ None \notin Events
    /\ TTL \in Nat \ {0} /\ MaxChanges \in Nat /\ MaxFaults \in Nat
    /\ Allowlists \subseteq SUBSET Models
    /\ DefaultPolicy \in Policies
  BY AccessAssumption, NoneAssumption DEF Targets, Policies, DefaultPolicy

LEMMA AllowlistType ==
    ASSUME NEW keyAllow \in SUBSET Models, NEW tenantAllow \in SUBSET Models
    PROVE  EffectiveAllowlist(keyAllow, tenantAllow) \in {Unrestricted} \union SUBSET Models
  BY DEF EffectiveAllowlist

LEMMA AuthenticationType ==
    ASSUME NEW k \in KeyRows, NEW p \in Policies
    PROVE  Authentication(k, p) \in Authentications
<1>1. k.allow \in SUBSET Models /\ k.expires \in BOOLEAN
  BY DEF KeyRows
<1>2. p.allow \in SUBSET Models /\ p.objective \in Objectives \union {Unset}
  BY DEF Policies
<1>3. EffectiveAllowlist(k.allow, p.allow) \in {Unrestricted} \union SUBSET Models
  BY <1>1, <1>2, AllowlistType
<1> QED
  BY <1>1, <1>2, <1>3 DEF Authentication, Authentications

LEMMA PolicyOfType ==
    ASSUME NEW p \in Policies \union {None}
    PROVE  PolicyOf(p) \in Policies
  BY Constants DEF PolicyOf

LEMMA LeaveType ==
    ASSUME ResolverTypeOK, ResolverPlaces, NEW r \in Resolvers, Leave(r)
    PROVE  ResolverTypeOK' /\ ResolverPlaces'
  BY DEF ResolverTypeOK, ResolverPlaces, Leave

LEMMA FinishType ==
    ASSUME AdminTypeOK, AdminPlaces, NEW a \in Admins, Finish(a)
    PROVE  AdminTypeOK' /\ AdminPlaces'
  BY Constants DEF AdminTypeOK, AdminPlaces, Finish, Targets

LEMMA DeleteType ==
    ASSUME RedisTypeOK, NEW S, DeleteEntries(S)
    PROVE  /\ entry' \in [Keys -> Entries \union {None}]
           /\ ttl' \in [Keys -> 0..TTL]
           /\ \A k \in Keys : ttl'[k] = 0 <=> entry'[k] = None
  BY Constants DEF RedisTypeOK, DeleteEntries

LEMMA BeginType ==
    ASSUME AdminTypeOK, AdminPlaces, WorldTypeOK,
           NEW a \in Admins, NEW x \in Targets, NEW old, NEW value, Begin(a, x, old, value),
           x \in Keys => old \in KeyRows /\ value \in KeyRows,
           x = Tenant => old \in Policies \union {None} /\ value \in Policies
    PROVE  AdminTypeOK' /\ AdminPlaces' /\ WorldTypeOK'
<1>1. old \in KeyRows \union Policies \union {None} /\ value \in KeyRows \union Policies
  BY DEF Targets
<1>0. changes + 1 \in 1..MaxChanges
  BY Constants DEF WorldTypeOK, Begin
<1>a. serial' \in [Admins -> 0..MaxChanges] /\ serial'[a] = changes + 1 /\ serial'[a] # 0
      /\ \A b \in Admins : b # a => serial'[b] = serial[b]
  BY <1>0 DEF AdminTypeOK, Begin
<1>2. AdminTypeOK'
  BY <1>1, <1>a, Constants DEF AdminTypeOK, Begin
<1>3. AdminPlaces'
  <2>1. /\ step'[a] \in {"write", "drop"} /\ target'[a] = x /\ before'[a] = old /\ new'[a] = value
        /\ x \in Keys => step'[a] = "drop"
    BY Constants DEF AdminTypeOK, Begin
  <2>2. \A b \in Admins : b # a => /\ step'[b] = step[b] /\ target'[b] = target[b]
                                  /\ before'[b] = before[b] /\ new'[b] = new[b]
    BY DEF AdminTypeOK, Begin
  <2> QED
    BY <1>a, <2>1, <2>2, Constants DEF AdminPlaces, Targets
<1>4. WorldTypeOK'
  BY Constants DEF WorldTypeOK, Begin
<1> QED
  BY <1>2, <1>3, <1>4

LEMMA InitTypes == Init => Types
<1> SUFFICES ASSUME Init PROVE Types
  OBVIOUS
<1>1. PgTypeOK
  <2>1. policy \in Policies \union {None}
    BY Constants DEF Init, DefaultPolicy, Policies
  <2>2. audit \in [Targets -> Events \union {None}]
    <3>1. CASE policy = None /\ audit = [x \in Targets |-> None]
      BY <3>1
    <3>2. CASE \E allow \in Allowlists :
            /\ policy = [DefaultPolicy EXCEPT !.allow = allow]
            /\ audit = [x \in Targets |-> IF x = Tenant THEN [before |-> DefaultPolicy, after |-> policy]
                                         ELSE None]
      <4>1. policy \in Policies
        BY <3>2, Constants DEF DefaultPolicy, Policies
      <4> QED
        BY <3>2, <4>1, Constants DEF Events
    <3> QED
      BY <3>1, <3>2 DEF Init
  <2> QED
    BY <2>1, <2>2 DEF Init, PgTypeOK
<1>2. RedisTypeOK
  BY Constants DEF Init, RedisTypeOK
<1>3. ResolverTypeOK /\ ResolverPlaces
  BY DEF Init, ResolverTypeOK, ResolverPlaces
<1>4. AdminTypeOK /\ AdminPlaces
  BY Constants DEF Init, AdminTypeOK, AdminPlaces
<1>5. WorldTypeOK
  <2>1. late \in BOOLEAN
    BY Zenon DEF Init
  <2>2. changes = 0 /\ faults = 0
    BY Zenon DEF Init
  <2> QED
    BY <2>1, <2>2, Constants DEF WorldTypeOK
<1> QED
  BY <1>1, <1>2, <1>3, <1>4, <1>5 DEF Types

LEMMA EditTypes ==
    /\ \A k \in KeyRows, S \in SUBSET Models : [k EXCEPT !.allow = S] \in KeyRows
    /\ \A k \in KeyRows, b \in BOOLEAN : [k EXCEPT !.expires = b] \in KeyRows
    /\ \A k \in KeyRows : [k EXCEPT !.status = "revoked"] \in KeyRows
    /\ \A p \in Policies, S \in SUBSET Models : [p EXCEPT !.allow = S] \in Policies
    /\ \A p \in Policies, o \in Objectives \union {Unset} : [p EXCEPT !.objective = o] \in Policies
  BY DEF KeyRows, Policies

LEMMA AllowedType ==
    ASSUME NEW k, NEW p
    PROVE  Allowed(k, p) \in SUBSET Models
  BY DEF Allowed

LEMMA TypesPreserved == Types /\ [Next]_vars => Types'
<1> SUFFICES ASSUME Types, [Next]_vars PROVE Types'
  OBVIOUS
<1> USE DEF Types
<1>1. ASSUME NEW r \in Resolvers, NEW k \in Keys, Get(r, k) PROVE Types'
  <2>1. ResolverTypeOK' /\ ResolverPlaces'
    BY <1>1 DEF Get, Hit, redisVars, ResolverTypeOK, ResolverPlaces
  <2> QED
    BY <1>1, <2>1 DEF Get, Hit, pgVars, redisVars, adminVars, worldVars, PgTypeOK, RedisTypeOK,
                      AdminTypeOK, AdminPlaces, WorldTypeOK
<1>2. ASSUME NEW r \in Resolvers, Evict(r) PROVE Types'
  <2>1. RedisTypeOK'
    BY <1>2, DeleteType DEF Evict, RedisTypeOK
  <2> QED
    BY <1>2, <2>1, LeaveType DEF Evict, pgVars, adminVars, worldVars, PgTypeOK,
                      AdminTypeOK, AdminPlaces, WorldTypeOK
<1>3. ASSUME NEW r \in Resolvers, LoadKey(r) PROVE Types'
  <2>1. ResolverTypeOK' /\ ResolverPlaces'
    <3>1. CASE Live(key[using[r]]) /\ row' = [row EXCEPT ![r] = key[using[r]]]
               /\ pc' = [pc EXCEPT ![r] = "policy"] /\ UNCHANGED <<using, found, missed>>
      <4>1. key[using[r]] \in KeyRows /\ key[using[r]].status = "active"
        BY <1>3, <3>1 DEF LoadKey, Live, PgTypeOK, ResolverTypeOK, ResolverPlaces
      <4> QED
        BY <1>3, <3>1, <4>1 DEF LoadKey, ResolverTypeOK, ResolverPlaces
    <3> QED
      BY <1>3, <3>1, LeaveType DEF LoadKey
  <2> QED
    BY <1>3, <2>1 DEF LoadKey, pgVars, redisVars, adminVars, worldVars, PgTypeOK, RedisTypeOK,
                      AdminTypeOK, AdminPlaces, WorldTypeOK
<1>4. ASSUME NEW r \in Resolvers, LoadPolicy(r) PROVE Types'
  <2>1. PolicyOf(policy) \in Policies
    BY PolicyOfType DEF PgTypeOK
  <2>2. ResolverTypeOK' /\ ResolverPlaces'
    BY <1>4, <2>1 DEF LoadPolicy, ResolverTypeOK, ResolverPlaces
  <2> QED
    BY <1>4, <2>2 DEF LoadPolicy, pgVars, redisVars, adminVars, worldVars, PgTypeOK, RedisTypeOK,
                      AdminTypeOK, AdminPlaces, WorldTypeOK
<1>5. ASSUME NEW r \in Resolvers, Fill(r) PROVE Types'
  <2> DEFINE k == using[r]
             past == {serial[a] : a \in Invalidating(k)}
             value == [auth |-> Authentication(row[r], found[r]), missed |-> missed[r],
                       past |-> past]
  <2>1. k \in Keys /\ row[r] \in KeyRows /\ found[r] \in Policies
    BY <1>5 DEF Fill, ResolverPlaces
  <2>2. missed[r] \in SUBSET Gaps /\ past \in SUBSET (1..MaxChanges)
    <3>1. \A a \in Invalidating(k) : a \in Admins /\ step[a] # "idle"
      BY DEF Invalidating
    <3>2. \A a \in Invalidating(k) : serial[a] \in 1..MaxChanges
      BY <3>1, Constants DEF AdminTypeOK, AdminPlaces
    <3> QED
      BY <3>2 DEF ResolverTypeOK
  <2>3. value \in Entries
    BY <2>1, <2>2, AuthenticationType DEF Entries
  <2>4. Remember(k, value)
    BY <1>5 DEF Fill
  <2> HIDE DEF k, past, value
  <2>5. RedisTypeOK'
    BY <2>1, <2>3, <2>4, Constants DEF Remember, RedisTypeOK
  <2> QED
    BY <1>5, <2>5, LeaveType DEF Fill, pgVars, adminVars, worldVars, PgTypeOK,
                      AdminTypeOK, AdminPlaces, WorldTypeOK
<1>6. ASSUME NEW r \in Resolvers, ResolverFails(r) PROVE Types'
  <2>1. WorldTypeOK'
    BY <1>6, Constants DEF ResolverFails, WorldTypeOK
  <2> QED
    BY <1>6, <2>1, LeaveType DEF ResolverFails, pgVars, redisVars, adminVars, PgTypeOK,
                      RedisTypeOK, AdminTypeOK, AdminPlaces
<1>7. ASSUME NEW k \in Keys, CreateKey(k) PROVE Types'
  <2>1. PICK allow \in Allowlists, expires \in BOOLEAN :
           LET made == [allow |-> allow, expires |-> expires, status |-> "active"]
           IN /\ key' = [key EXCEPT ![k] = made]
              /\ audit' = [audit EXCEPT ![k] = [before |-> None, after |-> made]]
              /\ ever' = [ever EXCEPT ![k] = Allowed(made, PolicyOf(policy))]
    BY <1>7 DEF CreateKey
  <2> DEFINE made == [allow |-> allow, expires |-> expires, status |-> "active"]
  <2>2. made \in KeyRows
    BY Constants DEF KeyRows
  <2> HIDE DEF made
  <2>3. PgTypeOK'
    BY <1>7, <2>1, <2>2, AllowedType, Constants DEF CreateKey, PgTypeOK, Targets, Events, made
  <2> QED
    BY <1>7, <2>3 DEF CreateKey, redisVars, resolverVars, adminVars, worldVars, RedisTypeOK,
                      ResolverTypeOK, ResolverPlaces, AdminTypeOK, AdminPlaces, WorldTypeOK
<1>8. ASSUME NEW a \in Admins, NEW x \in Targets, NEW old, NEW value, Begin(a, x, old, value),
             x \in Keys => old \in KeyRows /\ value \in KeyRows,
             x = Tenant => old \in Policies \union {None} /\ value \in Policies
      PROVE  Types'
  <2>1. AdminTypeOK' /\ AdminPlaces' /\ WorldTypeOK'
    BY <1>8, BeginType
  <2> QED
    BY <1>8, <2>1 DEF Begin, pgVars, redisVars, resolverVars, PgTypeOK, RedisTypeOK,
                      ResolverTypeOK, ResolverPlaces
<1>9. ASSUME NEW a \in Admins, NEW k \in Keys, UpdateKey(a, k) \/ RevokeKey(a, k) PROVE Types'
  <2>1. k \in Targets /\ k # Tenant
    BY Constants DEF Targets
  <2>2. key[k] \in KeyRows
    BY <1>9 DEF UpdateKey, RevokeKey, PgTypeOK
  <2>3. PICK value \in KeyRows : Begin(a, k, key[k], value)
    BY <1>9, <2>2, EditTypes, Constants DEF UpdateKey, RevokeKey
  <2> QED
    BY <2>1, <2>2, <2>3, <1>8
<1>10. ASSUME NEW a \in Admins, ReadPolicy(a) PROVE Types'
  <2>1. Tenant \in Targets /\ Tenant \notin Keys
    BY Constants DEF Targets
  <2>2. PolicyOf(policy) \in Policies
    BY PolicyOfType DEF PgTypeOK
  <2>3. PICK value \in Policies : Begin(a, Tenant, policy, value)
    BY <1>10, <2>2, EditTypes, Constants DEF ReadPolicy
  <2>4. policy \in Policies \union {None}
    BY DEF PgTypeOK
  <2> QED
    BY <2>1, <2>3, <2>4, <1>8
<1>11. ASSUME NEW a \in Admins, WritePolicy(a) PROVE Types'
  <2>1. target[a] \notin Keys
    BY <1>11 DEF WritePolicy, AdminPlaces
  <2>2. AdminTypeOK' /\ AdminPlaces'
    BY <1>11, <2>1 DEF WritePolicy, AdminTypeOK, AdminPlaces
  <2> QED
    BY <1>11, <2>2 DEF WritePolicy, pgVars, redisVars, resolverVars, worldVars, PgTypeOK,
                       RedisTypeOK, ResolverTypeOK, ResolverPlaces, WorldTypeOK
<1>12. ASSUME NEW a \in Admins, Drop(a) PROVE Types'
  <2>1. AdminTypeOK' /\ AdminPlaces'
    BY <1>12, Constants DEF Drop, AdminTypeOK, AdminPlaces, RedisTypeOK
  <2>2. RedisTypeOK'
    BY <1>12, DeleteType DEF Drop, RedisTypeOK
  <2> QED
    BY <1>12, <2>1, <2>2 DEF Drop, pgVars, resolverVars, worldVars, PgTypeOK, ResolverTypeOK,
                             ResolverPlaces, WorldTypeOK
<1>13. ASSUME NEW a \in Admins, Delete(a) PROVE Types'
  <2>1. target[a] \notin Keys
    BY <1>13 DEF Delete, AdminPlaces
  <2>2. AdminTypeOK' /\ AdminPlaces'
    BY <1>13, <2>1, Constants DEF Delete, AdminTypeOK, AdminPlaces
  <2>3. RedisTypeOK'
    BY <1>13, DeleteType, Constants DEF Delete, RedisTypeOK
  <2> QED
    BY <1>13, <2>2, <2>3 DEF Delete, pgVars, resolverVars, worldVars, PgTypeOK, ResolverTypeOK,
                             ResolverPlaces, WorldTypeOK
<1>14. ASSUME NEW a \in Admins, Commit(a) PROVE Types'
  <2>1. PgTypeOK'
    <3>1. target[a] \in Targets
      BY <1>14 DEF Commit, AdminTypeOK, AdminPlaces
    <3>2. ever' \in [Keys -> SUBSET Models]
      BY <1>14, AllowedType DEF Commit, PgTypeOK
    <3>3. CASE target[a] = Tenant
      <4>1. PolicyOf(before[a]) \in Policies /\ new[a] \in Policies
        BY <3>3, PolicyOfType DEF AdminPlaces
      <4> QED
        BY <1>14, <3>1, <3>2, <3>3, <4>1 DEF Commit, PgTypeOK, Events
    <3>4. CASE target[a] \in Keys
      <4>1. before[a] \in KeyRows /\ new[a] \in KeyRows /\ target[a] # Tenant
        BY <3>4, Constants DEF AdminPlaces
      <4> QED
        BY <1>14, <3>1, <3>2, <3>4, <4>1 DEF Commit, PgTypeOK, Events
    <3> QED
      BY <3>1, <3>3, <3>4 DEF Targets
  <2>2. ResolverTypeOK' /\ ResolverPlaces'
    <3>1. \A r \in Resolvers : /\ Misses(r, target[a]) \in SUBSET (Gaps \ {"open"})
                               /\ pc[r] \in {"get", "evict", "load"} => Misses(r, target[a]) = {}
      BY DEF Misses, Gaps
    <3> QED
      BY <1>14, <3>1 DEF Commit, ResolverTypeOK, ResolverPlaces
  <2> QED
    BY <1>14, <2>1, <2>2, FinishType DEF Commit, redisVars, worldVars, RedisTypeOK, WorldTypeOK
<1>15. ASSUME NEW a \in Admins, AdminFails(a) PROVE Types'
  <2>1. WorldTypeOK'
    BY <1>15, Constants DEF AdminFails, WorldTypeOK
  <2> QED
    BY <1>15, <2>1, FinishType DEF AdminFails, pgVars, redisVars, resolverVars, PgTypeOK,
                      RedisTypeOK, ResolverTypeOK, ResolverPlaces
<1>16. CASE RedisLoss
  <2>1. RedisTypeOK'
    BY <1>16, DeleteType, Constants DEF RedisLoss, RedisTypeOK
  <2>2. WorldTypeOK'
    BY <1>16, Constants DEF RedisLoss, WorldTypeOK
  <2> QED
    BY <1>16, <2>1, <2>2 DEF RedisLoss, pgVars, resolverVars, adminVars, PgTypeOK, ResolverTypeOK,
                      ResolverPlaces, AdminTypeOK, AdminPlaces
<1>17. CASE Tick
  <2>1. \A n \in 0..TTL : Less(n) \in 0..TTL
    BY Constants DEF Less
  <2>2. ttl' \in [Keys -> 0..TTL] /\ indexTtl' \in 0..TTL
    BY <1>17, <2>1 DEF Tick, RedisTypeOK
  <2>3. \A k \in Keys : entry'[k] = IF ttl'[k] = 0 THEN None ELSE entry[k]
    BY <1>17 DEF Tick
  <2>4. \A k \in Keys : ttl'[k] # 0 => ttl[k] # 0
    BY <1>17 DEF Tick, Less, RedisTypeOK
  <2>5. entry' \in [Keys -> Entries \union {None}]
    BY <1>17, <2>3 DEF Tick, RedisTypeOK
  <2>6. \A k \in Keys : ttl'[k] = 0 <=> entry'[k] = None
    BY <2>3, <2>4 DEF RedisTypeOK
  <2>7. index' \subseteq Keys /\ (indexTtl' = 0 <=> index' = {})
    <3>1. index' = IF indexTtl' = 0 THEN {} ELSE index
      BY <1>17 DEF Tick
    <3>2. indexTtl' # 0 => indexTtl # 0
      BY <1>17 DEF Tick, Less, RedisTypeOK
    <3> QED
      BY <3>1, <3>2 DEF RedisTypeOK
  <2>8. RedisTypeOK'
    BY <2>2, <2>5, <2>6, <2>7 DEF RedisTypeOK
  <2> QED
    BY <1>17, <2>8 DEF Tick, pgVars, resolverVars, adminVars, worldVars, PgTypeOK, ResolverTypeOK,
                      ResolverPlaces, AdminTypeOK, AdminPlaces, WorldTypeOK
<1>18. CASE DatePasses
  <2>1. late' \in BOOLEAN /\ changes' = changes /\ faults' = faults
    BY <1>18, Zenon DEF DatePasses
  <2>2. WorldTypeOK'
    BY <2>1 DEF WorldTypeOK
  <2> QED
    BY <1>18, <2>2 DEF DatePasses, pgVars, redisVars, resolverVars, adminVars, PgTypeOK,
                      RedisTypeOK, ResolverTypeOK, ResolverPlaces, AdminTypeOK, AdminPlaces
<1>19. CASE UNCHANGED vars
  BY <1>19 DEF vars, pgVars, redisVars, resolverVars, adminVars, worldVars, PgTypeOK, RedisTypeOK,
               ResolverTypeOK, ResolverPlaces, AdminTypeOK, AdminPlaces, WorldTypeOK
<1> HIDE DEF Types
<1> QED
  BY <1>1, <1>2, <1>3, <1>4, <1>5, <1>6, <1>7, <1>9, <1>10, <1>11, <1>12, <1>13, <1>14, <1>15,
     <1>16, <1>17, <1>18, <1>19 DEF Next, Resolve, AdminStep

LEMMA TypesHold == Spec => []Types
  BY InitTypes, TypesPreserved, PTL DEF Spec

\* The tables, the cache, its index and its times to live, every resolver and
\* every transaction of an administrator keep their types.
THEOREM TypeCorrect == Spec => []TypeOK
  BY TypesHold, TypesSuffice, PTL

-----------------------------------------------------------------------------
(* Locks: who may write a row knows what it says, and so does its audit.   *)

\* The transaction holds the lock of the row x: see Locked.
Holds(a, x) == target[a] = x /\ (step[a] = "write" => before[a] # None)

AuditsKnow ==
    /\ \A k \in Keys : key[k] = None => audit[k] = None
    /\ \A k \in Keys : key[k] # None => audit[k] # None /\ audit[k].after = key[k]
    /\ policy = None => audit[Tenant] = None
    /\ policy # None => audit[Tenant] # None /\ audit[Tenant].after = policy

KeyLocks ==
    /\ \A a \in Admins : target[a] \in Keys => before[a] = key[target[a]]
    /\ \A a, b \in Admins : target[a] \in Keys /\ target[b] = target[a] => a = b
    /\ \A a \in Admins : target[a] \in Keys /\ before[a].status = "revoked"
                         => new[a].status = "revoked"

\* The lock of the tenant's policy binds only those that found a row.
PolicyLocks ==
    /\ \A a \in Admins : target[a] = Tenant /\ before[a] # None => before[a] = policy
    /\ \A a, b \in Admins : Holds(a, Tenant) /\ Holds(b, Tenant) => a = b

Locks == AuditsKnow /\ KeyLocks /\ PolicyLocks

LEMMA InitLocks == Init => Locks
<1> SUFFICES ASSUME Init PROVE Locks
  OBVIOUS
<1>1. \A a \in Admins : target[a] = None
  BY DEF Init
<1>2. KeyLocks /\ PolicyLocks
  BY <1>1, Constants DEF KeyLocks, PolicyLocks, Holds
<1>3. \A k \in Keys : key[k] = None /\ audit[k] = None
  BY Constants DEF Init, Targets
<1>4. Tenant \in Targets
  BY DEF Targets
<1>5. policy = None => audit[Tenant] = None
  <2>1. \A allow \in Allowlists : [DefaultPolicy EXCEPT !.allow = allow] # None
    BY EditTypes, Constants
  <2> QED
    BY <1>4, <2>1 DEF Init
<1>6. policy # None => audit[Tenant] # None /\ audit[Tenant].after = policy
  <2>1. policy # None => audit[Tenant] = [before |-> DefaultPolicy, after |-> policy]
    BY <1>4, Zenon DEF Init
  <2>2. audit[Tenant] \in Events \union {None} /\ policy \in Policies \union {None}
    BY InitTypes, <1>4 DEF Types, PgTypeOK
  <2>3. policy # None => [before |-> DefaultPolicy, after |-> policy] \in Events
    BY <2>2, Constants DEF Events
  <2> QED
    BY <2>1, <2>3, Constants
<1>7. AuditsKnow
  BY <1>3, <1>5, <1>6 DEF AuditsKnow
<1> QED
  BY <1>2, <1>7 DEF Locks

LEMMA SameLocks ==
    ASSUME Locks, UNCHANGED <<key, policy, audit>>, UNCHANGED <<target, before, new, step>>
    PROVE  Locks'
  BY DEF Locks, AuditsKnow, KeyLocks, PolicyLocks, Holds

LEMMA FinishLocks ==
    ASSUME Types, KeyLocks, PolicyLocks, NEW a \in Admins, Finish(a)
    PROVE  /\ \A b \in Admins : b # a => /\ target'[b] = target[b] /\ before'[b] = before[b]
                                         /\ new'[b] = new[b] /\ step'[b] = step[b]
           /\ target'[a] = None
  BY DEF Types, AdminTypeOK, Finish

\* A change begins with the row as it is, when nobody holds its lock.
LEMMA BeginLocks ==
    ASSUME Types, Locks, NEW a \in Admins, NEW x \in Targets, NEW old, NEW value,
           Begin(a, x, old, value),
           x \in Keys => old = key[x] /\ ~Locked(x)
                         /\ (old.status = "revoked" => value.status = "revoked"),
           x = Tenant => old = policy /\ (policy # None => ~Locked(Tenant))
    PROVE  Locks'
<1>1. \A b \in Admins : b # a => /\ target'[b] = target[b] /\ before'[b] = before[b]
                                 /\ new'[b] = new[b] /\ step'[b] = step[b]
  BY DEF Types, AdminTypeOK, Begin
<1>2. target'[a] = x /\ before'[a] = old /\ new'[a] = value
      /\ step'[a] = (IF x = Tenant THEN "write" ELSE "drop")
  BY DEF Types, AdminTypeOK, Begin
<1>3. UNCHANGED <<key, policy, audit>>
  BY DEF Begin, pgVars
<1>4. AuditsKnow'
  BY <1>3 DEF Locks, AuditsKnow
<1>5. CASE x \in Keys
  <2>1. \A b \in Admins : target[b] # x
    BY <1>5 DEF Locked, Types, AdminPlaces
  <2>2. KeyLocks'
    BY <1>1, <1>2, <1>3, <1>5, <2>1 DEF Locks, KeyLocks
  <2>3. PolicyLocks'
    BY <1>1, <1>2, <1>3, <1>5, Constants DEF Locks, PolicyLocks, Holds
  <2> QED
    BY <1>4, <2>2, <2>3 DEF Locks
<1>6. CASE x = Tenant
  <2>1. KeyLocks'
    BY <1>1, <1>2, <1>3, <1>6, Constants DEF Locks, KeyLocks
  <2>2. policy # None => \A b \in Admins : ~Holds(b, Tenant)
    BY <1>6 DEF Locked, Holds
  <2>3. PolicyLocks'
    BY <1>1, <1>2, <1>3, <1>6, <2>2 DEF Locks, PolicyLocks, Holds
  <2> QED
    BY <1>4, <2>1, <2>3 DEF Locks
<1> QED
  BY <1>5, <1>6 DEF Targets

LEMMA LocksPreserved == Types /\ Locks /\ [Next]_vars => Locks'
<1> SUFFICES ASSUME Types, Locks, [Next]_vars PROVE Locks'
  OBVIOUS
<1>1. ASSUME NEW r \in Resolvers, (\E k \in Keys : Get(r, k)) \/ Resolve(r) \/ ResolverFails(r)
      PROVE  Locks'
  BY <1>1, SameLocks DEF Get, Resolve, Evict, LoadKey, LoadPolicy, Fill, ResolverFails, pgVars, adminVars
<1>2. CASE RedisLoss \/ Tick \/ DatePasses \/ UNCHANGED vars
  BY <1>2, SameLocks DEF RedisLoss, Tick, DatePasses, vars, pgVars, adminVars
<1>3. ASSUME NEW k \in Keys, CreateKey(k) PROVE Locks'
  <2>1. PICK made \in KeyRows : /\ key' = [key EXCEPT ![k] = made]
                                /\ audit' = [audit EXCEPT ![k] = [before |-> None, after |-> made]]
    BY <1>3, Constants DEF CreateKey, KeyRows
  <2>2. [before |-> None, after |-> made] # None
    BY Constants, <2>1 DEF Events
  <2>3. k # Tenant /\ key[k] = None /\ k \in Targets
    BY <1>3, Constants DEF CreateKey, Targets
  <2>4. AuditsKnow'
    BY <1>3, <2>1, <2>2, <2>3, Constants DEF CreateKey, Locks, AuditsKnow, Types, PgTypeOK, Targets
  <2>5. \A a \in Admins : target[a] # k
    BY <1>3, Constants DEF CreateKey, Types, AdminPlaces, Locks, KeyLocks
  <2>6. KeyLocks' /\ PolicyLocks'
    BY <1>3, <2>1, <2>5 DEF CreateKey, adminVars, Locks, KeyLocks, PolicyLocks, Holds, Types, PgTypeOK
  <2> QED
    BY <2>4, <2>6 DEF Locks
<1>4. ASSUME NEW a \in Admins, NEW k \in Keys, UpdateKey(a, k) \/ RevokeKey(a, k) PROVE Locks'
  <2>1. k \in Targets /\ k # Tenant
    BY Constants DEF Targets
  <2>2. key[k] \in KeyRows /\ ~Locked(k)
    BY <1>4 DEF UpdateKey, RevokeKey, Types, PgTypeOK
  <2>3. /\ \A S \in SUBSET Models : [key[k] EXCEPT !.allow = S].status = key[k].status
        /\ \A b \in BOOLEAN : [key[k] EXCEPT !.expires = b].status = key[k].status
        /\ [key[k] EXCEPT !.status = "revoked"].status = "revoked"
    BY <2>2 DEF KeyRows
  <2>4. \E value : /\ Begin(a, k, key[k], value)
                   /\ key[k].status = "revoked" => value.status = "revoked"
    BY <1>4, <2>3, Constants DEF UpdateKey, RevokeKey
  <2> QED
    BY <2>1, <2>2, <2>4, BeginLocks
<1>5. ASSUME NEW a \in Admins, ReadPolicy(a) PROVE Locks'
  <2>1. Tenant \in Targets /\ Tenant \notin Keys
    BY Constants DEF Targets
  <2>2. \E value : Begin(a, Tenant, policy, value)
    BY <1>5 DEF ReadPolicy
  <2>3. policy # None => ~Locked(Tenant)
    BY <1>5 DEF ReadPolicy
  <2> QED
    BY <2>1, <2>2, <2>3, BeginLocks
<1>6. ASSUME NEW a \in Admins, WritePolicy(a) PROVE Locks'
  <2>1. AuditsKnow' /\ KeyLocks'
    BY <1>6 DEF WritePolicy, pgVars, Locks, AuditsKnow, KeyLocks
  <2>2. before[a] = None => \A b \in Admins : ~Holds(b, Tenant)
    BY <1>6 DEF WritePolicy, Locked, Holds
  <2>3. PolicyLocks'
    BY <1>6, <2>2 DEF WritePolicy, pgVars, Locks, PolicyLocks, Holds, Types, AdminTypeOK
  <2> QED
    BY <2>1, <2>3 DEF Locks
<1>7. ASSUME NEW a \in Admins, Drop(a) \/ Delete(a) PROVE Locks'
  <2>1. UNCHANGED <<key, policy, audit>> /\ UNCHANGED <<target, before, new>>
    BY <1>7 DEF Drop, Delete, pgVars
  <2>2. step[a] # "write" /\ step'[a] # "write" /\ \A b \in Admins : b # a => step'[b] = step[b]
    BY <1>7 DEF Drop, Delete, Types, AdminTypeOK
  <2> QED
    BY <2>1, <2>2 DEF Locks, AuditsKnow, KeyLocks, PolicyLocks, Holds
<1>8. ASSUME NEW a \in Admins, AdminFails(a) PROVE Locks'
  <2>1. /\ \A b \in Admins : b # a => /\ target'[b] = target[b] /\ before'[b] = before[b]
                                      /\ new'[b] = new[b] /\ step'[b] = step[b]
        /\ target'[a] = None
    BY <1>8, FinishLocks DEF AdminFails, Locks
  <2>2. UNCHANGED <<key, policy, audit>>
    BY <1>8 DEF AdminFails, pgVars
  <2> QED
    BY <2>1, <2>2, Constants DEF Locks, AuditsKnow, KeyLocks, PolicyLocks, Holds
<1>9. ASSUME NEW a \in Admins, Commit(a) PROVE Locks'
  <2>1. /\ \A b \in Admins : b # a => /\ target'[b] = target[b] /\ before'[b] = before[b]
                                      /\ new'[b] = new[b] /\ step'[b] = step[b]
        /\ target'[a] = None
    BY <1>9, FinishLocks DEF Commit, Locks
  <2>2. target[a] \in Targets /\ Holds(a, target[a])
    BY <1>9 DEF Commit, Types, AdminTypeOK, AdminPlaces, Holds
  <2>3. CASE target[a] \in Keys
    <3>1. target[a] # Tenant /\ new[a] \in KeyRows /\ before[a] \in KeyRows
      BY <2>3, Constants DEF Types, AdminPlaces
    <3>2. /\ key' = [key EXCEPT ![target[a]] = new[a]] /\ policy' = policy
          /\ audit' = [audit EXCEPT ![target[a]] = [before |-> before[a], after |-> new[a]]]
      BY <1>9, <3>1 DEF Commit
    <3>3. [before |-> before[a], after |-> new[a]] # None
      BY <3>1, Constants DEF Events
    <3>4. AuditsKnow'
      BY <2>2, <2>3, <3>1, <3>2, <3>3, Constants DEF Locks, AuditsKnow, Types, PgTypeOK, Targets
    <3>5. KeyLocks'
      BY <2>1, <2>3, <3>2, Constants DEF Locks, KeyLocks, Types, PgTypeOK
    <3>6. PolicyLocks'
      BY <2>1, <3>2, Constants DEF Locks, PolicyLocks, Holds
    <3> QED
      BY <3>4, <3>5, <3>6 DEF Locks
  <2>4. CASE target[a] = Tenant
    <3>1. new[a] \in Policies /\ PolicyOf(before[a]) \in Policies
      BY <2>4, PolicyOfType DEF Types, AdminPlaces
    <3>2. /\ key' = key /\ policy' = new[a]
          /\ audit' = [audit EXCEPT ![Tenant] = [before |-> PolicyOf(before[a]), after |-> new[a]]]
      BY <1>9, <2>4 DEF Commit
    <3>3. [before |-> PolicyOf(before[a]), after |-> new[a]] # None
      BY <3>1, Constants DEF Events
    <3>4. AuditsKnow'
      BY <2>4, <3>1, <3>2, <3>3, Constants DEF Locks, AuditsKnow, Types, PgTypeOK, Targets
    <3>5. KeyLocks'
      BY <2>1, <3>2, Constants DEF Locks, KeyLocks
    <3>6. \A b \in Admins : b # a => ~Holds(b, Tenant)
      BY <2>2, <2>4 DEF Locks, PolicyLocks
    <3>7. PolicyLocks'
      BY <2>1, <3>2, <3>6, Constants DEF Locks, PolicyLocks, Holds
    <3> QED
      BY <3>4, <3>5, <3>7 DEF Locks
  <2> QED
    BY <2>2, <2>3, <2>4 DEF Targets
<1> QED
  BY <1>1, <1>2, <1>3, <1>4, <1>5, <1>6, <1>7, <1>8, <1>9 DEF Next, AdminStep

LEMMA LocksHold == Spec => []Locks
  BY InitLocks, LocksPreserved, TypesHold, PTL DEF Spec

LEMMA AuditStep ==
    ASSUME Types, Locks, [Next]_vars, NEW x \in Targets, audit'[x] # audit[x], audit[x] # None
    PROVE  \/ audit'[x].before = audit[x].after
           \/ x = Tenant /\ audit'[x].before = DefaultPolicy
<1>1. CASE \E k \in Keys : CreateKey(k)
  <2>1. PICK k \in Keys : CreateKey(k)
    BY <1>1
  <2>2. key[k] = None /\ \A y \in Targets : y # k => audit'[y] = audit[y]
    BY <2>1 DEF CreateKey, Types, PgTypeOK
  <2> QED
    BY <2>2 DEF Locks, AuditsKnow
<1>2. CASE \E a \in Admins : Commit(a)
  <2>1. PICK a \in Admins : Commit(a)
    BY <1>2
  <2>2. /\ target[a] = x
        /\ audit'[x].before = IF x = Tenant THEN PolicyOf(before[a]) ELSE before[a]
    BY <2>1 DEF Commit, Types, PgTypeOK
  <2>3. CASE x \in Keys
    <3>1. key[x] # None /\ audit[x].after = key[x] /\ before[a] = key[x]
      BY <2>2, <2>3 DEF Locks, AuditsKnow, KeyLocks
    <3> QED
      BY <2>2, <2>3, <3>1, Constants
  <2>4. CASE x = Tenant
    <3>1. policy # None /\ audit[x].after = policy
      BY <2>4 DEF Locks, AuditsKnow
    <3>2. before[a] = None \/ before[a] = policy
      BY <2>2, <2>4 DEF Locks, PolicyLocks
    <3> QED
      BY <2>2, <2>4, <3>1, <3>2 DEF PolicyOf
  <2> QED
    BY <2>3, <2>4 DEF Targets
<1>3. CASE UNCHANGED audit
  BY <1>3
<1>4. ASSUME NEW r \in Resolvers, (\E k \in Keys : Get(r, k)) \/ Resolve(r) \/ ResolverFails(r)
      PROVE  UNCHANGED audit
  BY <1>4 DEF Get, Resolve, Evict, LoadKey, LoadPolicy, Fill, ResolverFails, pgVars
<1>5. ASSUME NEW a \in Admins, AdminStep(a) \/ AdminFails(a), ~Commit(a)
      PROVE  UNCHANGED audit
  BY <1>5 DEF AdminStep, UpdateKey, RevokeKey, ReadPolicy, Begin, WritePolicy, Drop, Delete, AdminFails,
     pgVars
<1>6. RedisLoss \/ Tick \/ DatePasses \/ UNCHANGED vars => UNCHANGED audit
  BY DEF RedisLoss, Tick, DatePasses, vars, pgVars
<1> QED
  BY <1>1, <1>2, <1>3, <1>4, <1>5, <1>6 DEF Next

\* control_plane.py: the row locks make a chain of the audit events of every
\* key, and of every tenant's policy once it has a row: each starts from what
\* the one before it left, whatever the administrators, failures and deaths.
THEOREM ChangesKept == Spec => ChangesAreKept
<1>1. Types /\ Locks /\ [Next]_vars =>
        [\A x \in Targets : audit'[x] # audit[x] /\ audit[x] # None =>
           \/ audit'[x].before = audit[x].after
           \/ x = Tenant /\ audit'[x].before = DefaultPolicy]_vars
  BY AuditStep
<1> QED
  BY <1>1, TypesHold, LocksHold, PTL DEF Spec, ChangesAreKept

-----------------------------------------------------------------------------
(* The cache: an entry nothing has overtaken says what the rows say, is in *)
(* the index of its tenant, and that index outlives it.                    *)

Excused(k) == entry[k] = None \/ Overtaken(k)

EntriesCurrent ==
    \A k \in Keys : Excused(k) \/ /\ key[k] \in KeyRows
                                  /\ key[k].status = "active"
                                  /\ entry[k].auth = Current(k)
                                  /\ k \in index
                                  /\ ttl[k] <= indexTtl

ReadsCurrent ==
    \A r \in Resolvers :
        /\ pc[r] \in {"policy", "fill"} /\ "key" \notin missed[r] => row[r] = key[using[r]]
        /\ pc[r] = "fill" /\ "tenant" \notin missed[r] => found[r] = PolicyOf(policy)

\* A change past the cache leaves there only entries that were filled since.
ChangesDropped ==
    /\ \A a \in Admins : step[a] = "commit" /\ target[a] \in Keys => Excused(target[a])
    /\ \A a \in Admins : step[a] = "delete" => \A k \in Keys \ doomed[a] : Excused(k)
    /\ \A a \in Admins : step[a] = "commit" /\ target[a] = Tenant => \A k \in Keys : Excused(k)

Cache == EntriesCurrent /\ ReadsCurrent /\ ChangesDropped

LEMMA InitCache == Init => Cache
  BY DEF Init, Cache, EntriesCurrent, ReadsCurrent, ChangesDropped, Excused, Overtaken

LEMMA DeletesEntries ==
    ASSUME Types, NEW S, DeleteEntries(S)
    PROVE  /\ \A k \in Keys : entry'[k] \in {entry[k], None}
           /\ \A k \in Keys : k \in S => Excused(k)'
           /\ \A k \in Keys : k \notin S => entry'[k] = entry[k] /\ ttl'[k] = ttl[k]
  BY DEF DeleteEntries, Excused, Overtaken

LEMMA CachePreserved == Types /\ Locks /\ Cache /\ [Next]_vars => Cache'
<1> SUFFICES ASSUME Types, Locks, Cache, [Next]_vars PROVE Cache'
  OBVIOUS
<1>1. ASSUME NEW r \in Resolvers, NEW k \in Keys, Get(r, k) PROVE Cache'
  <2>1. /\ UNCHANGED <<key, policy>> /\ UNCHANGED redisVars /\ UNCHANGED adminVars
        /\ UNCHANGED <<row, found, missed>>
    BY <1>1 DEF Get, Hit, pgVars
  <2>2. EntriesCurrent' /\ ChangesDropped'
    BY <2>1 DEF Cache, EntriesCurrent, Current, ChangesDropped, Excused, Overtaken, redisVars, adminVars
  <2>3. \A q \in Resolvers : pc'[q] \in {"policy", "fill"} => pc'[q] = pc[q] /\ using'[q] = using[q]
    BY <1>1 DEF Get, Types, ResolverTypeOK
  <2>4. ReadsCurrent'
    BY <2>1, <2>3 DEF Cache, ReadsCurrent
  <2> QED
    BY <2>2, <2>4 DEF Cache
<1>2. ASSUME NEW r \in Resolvers, Leave(r), UNCHANGED <<key, policy>>
      PROVE  ReadsCurrent'
  <2>1. \A q \in Resolvers : pc'[q] \in {"policy", "fill"} =>
           /\ pc'[q] = pc[q] /\ using'[q] = using[q] /\ row'[q] = row[q]
           /\ found'[q] = found[q] /\ missed'[q] = missed[q]
    BY <1>2 DEF Leave, Types, ResolverTypeOK
  <2> QED
    BY <1>2, <2>1 DEF Cache, ReadsCurrent
<1>3. ASSUME UNCHANGED <<key, policy>>, UNCHANGED redisVars, UNCHANGED adminVars
      PROVE  EntriesCurrent' /\ ChangesDropped'
  BY <1>3 DEF Cache, EntriesCurrent, Current, ChangesDropped, Excused, Overtaken, redisVars, adminVars
<1>4. ASSUME NEW r \in Resolvers, Evict(r) PROVE Cache'
  <2>1. ReadsCurrent'
    BY <1>4, <1>2 DEF Evict, pgVars
  <2>2. \A k \in Keys : Excused(k) => Excused(k)'
    BY <1>4, DeletesEntries DEF Evict, Excused, Overtaken
  <2>3. EntriesCurrent'
    BY <1>4, <2>2, DeletesEntries DEF Evict, pgVars, Cache, EntriesCurrent, Current, Excused, Overtaken
  <2>4. ChangesDropped'
    BY <1>4, <2>2 DEF Evict, adminVars, Cache, ChangesDropped
  <2> QED
    BY <2>1, <2>3, <2>4 DEF Cache
<1>5. ASSUME NEW r \in Resolvers, LoadKey(r) PROVE Cache'
  <2>1. EntriesCurrent' /\ ChangesDropped'
    BY <1>5, <1>3 DEF LoadKey, pgVars
  <2>2. CASE Leave(r)
    BY <1>5, <1>2, <2>1, <2>2 DEF LoadKey, pgVars, Cache
  <2>3. CASE /\ row' = [row EXCEPT ![r] = key[using[r]]] /\ pc' = [pc EXCEPT ![r] = "policy"]
             /\ UNCHANGED <<using, found, missed>>
    <3>1. ReadsCurrent'
      BY <1>5, <2>3 DEF LoadKey, pgVars, Cache, ReadsCurrent, Types, ResolverTypeOK
    <3> QED
      BY <2>1, <3>1 DEF Cache
  <2> QED
    BY <1>5, <2>2, <2>3 DEF LoadKey
<1>6. ASSUME NEW r \in Resolvers, LoadPolicy(r) PROVE Cache'
  <2>1. EntriesCurrent' /\ ChangesDropped'
    BY <1>6, <1>3 DEF LoadPolicy, pgVars
  <2>2. ReadsCurrent'
    BY <1>6 DEF LoadPolicy, pgVars, Cache, ReadsCurrent, Types, ResolverTypeOK
  <2> QED
    BY <2>1, <2>2 DEF Cache
<1>7. ASSUME NEW r \in Resolvers, Fill(r) PROVE Cache'
  <2> DEFINE x == using[r]
             past == {serial[a] : a \in Invalidating(x)}
             value == [auth |-> Authentication(row[r], found[r]), missed |-> missed[r],
                       past |-> past]
  <2>1. x \in Keys /\ row[r] \in KeyRows /\ row[r].status = "active"
    BY <1>7 DEF Fill, Types, ResolverPlaces
  <2>2. Remember(x, value) /\ Leave(r) /\ UNCHANGED <<key, policy>> /\ UNCHANGED adminVars
    BY <1>7 DEF Fill, pgVars
  <2>3. missed[r] = {} => row[r] = key[x] /\ found[r] = PolicyOf(policy)
    BY <1>7 DEF Fill, Cache, ReadsCurrent
  <2>4. Invalidating(x) # {} => past # {}
    OBVIOUS
  <2>5. /\ value # None /\ value.missed = missed[r] /\ value.past = past
        /\ value.auth = Authentication(row[r], found[r])
    <3>1. found[r] \in Policies /\ missed[r] \in SUBSET Gaps /\ past \in SUBSET (1..MaxChanges)
      <4>1. \A a \in Invalidating(x) : serial[a] \in 1..MaxChanges
        BY Constants DEF Invalidating, Types, AdminTypeOK, AdminPlaces
      <4> QED
        BY <1>7, <4>1 DEF Fill, Types, ResolverPlaces, ResolverTypeOK
    <3> QED
      BY <2>1, <3>1, AuthenticationType, Constants DEF Entries
  <2> HIDE DEF x, past, value
  <2>6. /\ entry' = [entry EXCEPT ![x] = value] /\ ttl' = [ttl EXCEPT ![x] = TTL]
        /\ index' = index \union {x} /\ indexTtl' = TTL
    BY <2>2 DEF Remember
  <2>7. EntriesCurrent'
    <3> SUFFICES ASSUME NEW k \in Keys, ~Excused(k)'
                 PROVE  /\ key[k] \in KeyRows /\ key[k].status = "active"
                        /\ entry'[k].auth = Authentication(key[k], PolicyOf(policy))
                        /\ k \in index' /\ ttl'[k] <= indexTtl'
      BY <2>2 DEF EntriesCurrent, Current
    <3>1. CASE k = x
      <4>1. entry'[k] = value /\ ttl'[k] = TTL /\ missed[r] = {}
        BY <2>1, <2>5, <2>6, <3>1 DEF Types, RedisTypeOK, Excused, Overtaken
      <4> QED
        BY <2>1, <2>3, <2>5, <2>6, <3>1, <4>1, Constants
    <3>2. CASE k # x
      <4>1. entry'[k] = entry[k] /\ ttl'[k] = ttl[k] /\ ttl[k] \in 0..TTL
        BY <2>6, <3>2 DEF Types, RedisTypeOK
      <4> QED
        BY <2>6, <4>1, Constants DEF Excused, Overtaken, Cache, EntriesCurrent, Current
    <3> QED
      BY <3>1, <3>2
  <2>8. ReadsCurrent'
    BY <1>2, <2>2
  <2>9. \A k \in Keys : k = x /\ Invalidating(k) # {} => Excused(k)'
    BY <2>1, <2>4, <2>5, <2>6 DEF Excused, Overtaken, Types, RedisTypeOK
  <2>10. \A k \in Keys : k # x => (Excused(k)' <=> Excused(k))
    BY <2>6 DEF Excused, Overtaken, Types, RedisTypeOK
  <2>11. \A a \in Admins : step[a] = "delete" => target[a] = Tenant
    BY DEF Types, AdminTypeOK, AdminPlaces, Targets
  <2>12. \A k \in Keys : Excused(k) /\ Invalidating(k) # {} => Excused(k)'
    BY <2>9, <2>10
  <2>13. ChangesDropped'
    BY <2>2, <2>11, <2>12 DEF Cache, ChangesDropped, adminVars, Invalidating
  <2> QED
    BY <2>7, <2>8, <2>13 DEF Cache
<1>8. ASSUME NEW r \in Resolvers, ResolverFails(r) PROVE Cache'
  BY <1>8, <1>2, <1>3 DEF ResolverFails, pgVars, Cache
<1>9. ASSUME NEW x \in Keys, CreateKey(x) PROVE Cache'
  <2>1. /\ UNCHANGED policy /\ UNCHANGED redisVars /\ UNCHANGED adminVars /\ UNCHANGED resolverVars
        /\ \A k \in Keys : k # x => key'[k] = key[k]
        /\ key[x] = None
    BY <1>9 DEF CreateKey, Types, PgTypeOK
  <2>2. Excused(x)
    BY <2>1, Constants DEF Cache, EntriesCurrent
  <2>3. \A k \in Keys : Excused(k)' <=> Excused(k)
    BY <2>1 DEF redisVars, Excused, Overtaken
  <2>4. EntriesCurrent' /\ ChangesDropped'
    BY <2>1, <2>2, <2>3 DEF redisVars, adminVars, Cache, EntriesCurrent, Current, ChangesDropped
  <2>5. \A r \in Resolvers : pc[r] \in {"policy", "fill"} => row[r] # None /\ using[r] \in Keys
    BY Constants DEF Types, ResolverPlaces
  <2>6. ReadsCurrent'
    BY <2>1, <2>5 DEF resolverVars, Cache, ReadsCurrent
  <2> QED
    BY <2>4, <2>6 DEF Cache
<1>10. ASSUME NEW a \in Admins, UNCHANGED <<key, policy>>, UNCHANGED redisVars, UNCHANGED resolverVars,
              \A b \in Admins : b # a => step'[b] = step[b] /\ target'[b] = target[b] /\ doomed'[b] = doomed[b],
              step'[a] \notin {"delete", "commit"}
       PROVE  Cache'
  BY <1>10 DEF redisVars, resolverVars, Cache, EntriesCurrent, Current, ReadsCurrent, ChangesDropped, Excused, Overtaken
<1>11. ASSUME NEW a \in Admins, NEW x, NEW old, NEW value, Begin(a, x, old, value) PROVE Cache'
  BY <1>10, <1>11 DEF Begin, pgVars, Types, AdminTypeOK
<1>12. ASSUME NEW a \in Admins, WritePolicy(a) \/ AdminFails(a) PROVE Cache'
  BY <1>10, <1>12 DEF WritePolicy, AdminFails, Finish, pgVars, Types, AdminTypeOK
<1>13. ASSUME NEW a \in Admins, Drop(a) PROVE Cache'
  <2>1. CASE target[a] # Tenant /\ DeleteEntries({target[a]}) /\ step' = [step EXCEPT ![a] = "commit"]
             /\ UNCHANGED doomed
    <3>1. /\ UNCHANGED <<key, policy>> /\ UNCHANGED <<index, indexTtl>> /\ UNCHANGED resolverVars
          /\ UNCHANGED target
      BY <1>13 DEF Drop, pgVars
    <3>2. \A k \in Keys : Excused(k) => Excused(k)'
      BY <2>1, DeletesEntries DEF Excused, Overtaken
    <3>3. EntriesCurrent'
      BY <2>1, <3>1, <3>2, DeletesEntries DEF Cache, EntriesCurrent, Current, Excused, Overtaken
    <3>4. target[a] \in Keys => Excused(target[a])'
      BY <2>1, <3>1, DeletesEntries
    <3>5. ChangesDropped'
      BY <2>1, <3>1, <3>2, <3>4 DEF Cache, ChangesDropped, Types, AdminTypeOK
    <3>6. ReadsCurrent'
      BY <3>1 DEF resolverVars, Cache, ReadsCurrent
    <3> QED
      BY <3>3, <3>5, <3>6 DEF Cache
  <2>2. CASE target[a] = Tenant /\ doomed' = [doomed EXCEPT ![a] = index]
             /\ step' = [step EXCEPT ![a] = "delete"] /\ UNCHANGED <<entry, ttl>>
    <3>1. /\ UNCHANGED <<key, policy>> /\ UNCHANGED redisVars /\ UNCHANGED resolverVars /\ UNCHANGED target
      BY <1>13, <2>2 DEF Drop, pgVars, redisVars
    <3>2. EntriesCurrent' /\ ReadsCurrent'
      BY <3>1 DEF redisVars, resolverVars, Cache, EntriesCurrent, Current, ReadsCurrent, Excused, Overtaken
    <3>3. \A k \in Keys : (Excused(k)' <=> Excused(k)) /\ (k \notin index => Excused(k))
      BY <3>1 DEF redisVars, Cache, EntriesCurrent, Excused, Overtaken
    <3>4. doomed'[a] = index /\ step'[a] = "delete"
          /\ \A b \in Admins : b # a => doomed'[b] = doomed[b] /\ step'[b] = step[b]
      BY <2>2 DEF Types, AdminTypeOK
    <3>5. ChangesDropped'
      BY <3>1, <3>3, <3>4 DEF Cache, ChangesDropped
    <3> QED
      BY <3>2, <3>5 DEF Cache
  <2> QED
    BY <1>13, <2>1, <2>2 DEF Drop
<1>14. ASSUME NEW a \in Admins, Delete(a) PROVE Cache'
  <2>1. DeleteEntries(doomed[a]) /\ UNCHANGED <<key, policy>> /\ UNCHANGED resolverVars /\ UNCHANGED target
    BY <1>14 DEF Delete, pgVars
  <2>2. \A k \in Keys : Excused(k)'
    BY <1>14, <2>1, DeletesEntries DEF Delete, Cache, ChangesDropped, Excused, Overtaken
  <2>3. EntriesCurrent'
    BY <2>2 DEF EntriesCurrent
  <2>4. ReadsCurrent'
    BY <2>1 DEF resolverVars, Cache, ReadsCurrent
  <2>5. ChangesDropped'
    BY <2>2 DEF ChangesDropped
  <2> QED
    BY <2>3, <2>4, <2>5 DEF Cache
<1>15. ASSUME NEW a \in Admins, Commit(a) PROVE Cache'
  <2>1. /\ UNCHANGED redisVars /\ UNCHANGED <<pc, using, row, found>>
        /\ missed' = [r \in Resolvers |-> missed[r] \union Misses(r, target[a])]
        /\ target[a] \in Targets
    BY <1>15 DEF Commit, Types, AdminTypeOK, AdminPlaces
  <2>2. \A k \in Keys : (Excused(k)' <=> Excused(k))
    BY <2>1 DEF redisVars, Excused, Overtaken
  <2>3. /\ \A b \in Admins : b # a => step'[b] = step[b] /\ target'[b] = target[b] /\ doomed'[b] = doomed[b]
        /\ step'[a] = "idle"
    BY <1>15 DEF Commit, Finish, Types, AdminTypeOK
  <2>4. ChangesDropped'
    BY <2>2, <2>3 DEF Cache, ChangesDropped
  <2>5. CASE target[a] \in Keys
    <3>1. /\ policy' = policy /\ target[a] # Tenant
          /\ \A k \in Keys : k # target[a] => key'[k] = key[k]
      BY <1>15, <2>5, Constants DEF Commit, Types, PgTypeOK
    <3>2. Excused(target[a])
      BY <1>15, <2>5 DEF Commit, Cache, ChangesDropped
    <3>3. EntriesCurrent'
      BY <2>1, <2>2, <3>1, <3>2 DEF redisVars, Cache, EntriesCurrent, Current
    <3>4. \A r \in Resolvers : pc[r] \in {"policy", "fill"} /\ using[r] = target[a] => "key" \in missed'[r]
      <4>1. \A r \in Resolvers : pc[r] \in {"policy", "fill"} /\ using[r] = target[a]
                                 => Misses(r, target[a]) = {"key"}
        BY <3>1 DEF Misses
      <4> QED
        BY <2>1, <4>1
    <3>5. \A r \in Resolvers : missed[r] \subseteq missed'[r]
      BY <2>1
    <3>6. \A r \in Resolvers : pc[r] \in {"policy", "fill"} => using[r] \in Keys
      BY DEF Types, ResolverPlaces
    <3>7. ReadsCurrent'
      BY <2>1, <3>1, <3>4, <3>5, <3>6 DEF Cache, ReadsCurrent
    <3> QED
      BY <2>4, <3>3, <3>7 DEF Cache
  <2>6. CASE target[a] = Tenant
    <3>1. key' = key
      BY <1>15, <2>6 DEF Commit
    <3>2. EntriesCurrent'
      BY <1>15, <2>2, <2>6 DEF Commit, Cache, ChangesDropped, EntriesCurrent
    <3>3. \A r \in Resolvers : pc[r] = "fill" => "tenant" \in missed'[r] \/ using[r] = Tenant
      BY <2>1, <2>6 DEF Misses
    <3>4. \A r \in Resolvers : pc[r] \in {"policy", "fill"} => using[r] # Tenant
      BY Constants DEF Types, ResolverPlaces
    <3>5. \A r \in Resolvers : missed[r] \subseteq missed'[r]
      BY <2>1
    <3>6. ReadsCurrent'
      BY <2>1, <3>1, <3>3, <3>4, <3>5 DEF Cache, ReadsCurrent
    <3> QED
      BY <2>4, <3>2, <3>6 DEF Cache
  <2> QED
    BY <2>1, <2>5, <2>6 DEF Targets
<1>16. CASE RedisLoss
  <2>1. \A k \in Keys : Excused(k)'
    BY <1>16, DeletesEntries DEF RedisLoss
  <2>2. ReadsCurrent'
    BY <1>16 DEF RedisLoss, pgVars, resolverVars, Cache, ReadsCurrent
  <2> QED
    BY <2>1, <2>2 DEF Cache, EntriesCurrent, ChangesDropped
<1>17. CASE Tick
  <2>1. /\ ttl' = [k \in Keys |-> Less(ttl[k])] /\ indexTtl' = Less(indexTtl)
        /\ index' = IF indexTtl' = 0 THEN {} ELSE index
        /\ \A k \in Keys : entry'[k] = IF ttl'[k] = 0 THEN None ELSE entry[k]
        /\ UNCHANGED <<key, policy>> /\ UNCHANGED resolverVars /\ UNCHANGED adminVars
    BY <1>17 DEF Tick, pgVars
  <2>2. \A k \in Keys : (Excused(k) => Excused(k)') /\ (ttl'[k] = 0 => Excused(k)')
    BY <2>1 DEF Excused, Overtaken
  <2>3. ReadsCurrent' /\ ChangesDropped'
    BY <2>1, <2>2 DEF resolverVars, adminVars, Cache, ReadsCurrent, ChangesDropped
  <2>4. EntriesCurrent'
    <3> SUFFICES ASSUME NEW k \in Keys, ~Excused(k)'
                 PROVE  /\ key[k] \in KeyRows /\ key[k].status = "active"
                        /\ entry'[k].auth = Authentication(key[k], PolicyOf(policy))
                        /\ k \in index' /\ ttl'[k] <= indexTtl'
      BY <2>1 DEF EntriesCurrent, Current
    <3>1. ~Excused(k) /\ ttl'[k] # 0
      BY <2>2
    <3>2. entry'[k] = entry[k]
      BY <2>1, <3>1
    <3>3. ttl[k] <= indexTtl /\ k \in index /\ ttl[k] \in 0..TTL /\ indexTtl \in 0..TTL
      BY <3>1 DEF Cache, EntriesCurrent, Types, RedisTypeOK
    <3>4. ttl'[k] = Less(ttl[k])
      BY <2>1
    <3>5. ttl'[k] <= indexTtl' /\ indexTtl' # 0
      BY <2>1, <3>1, <3>3, <3>4, Constants DEF Less
    <3> QED
      BY <2>1, <3>1, <3>2, <3>3, <3>5 DEF Cache, EntriesCurrent, Current
  <2> QED
    BY <2>3, <2>4 DEF Cache
<1>18. CASE DatePasses \/ UNCHANGED vars
  <2>1. /\ UNCHANGED <<key, policy>> /\ UNCHANGED redisVars /\ UNCHANGED adminVars /\ UNCHANGED resolverVars
    BY <1>18 DEF DatePasses, vars, pgVars
  <2>2. ReadsCurrent'
    BY <2>1 DEF resolverVars, Cache, ReadsCurrent
  <2> QED
    BY <1>3, <2>1, <2>2 DEF Cache
<1>19. ASSUME NEW a \in Admins, AdminStep(a) PROVE Cache'
  BY <1>11, <1>12, <1>13, <1>14, <1>15, <1>19 DEF AdminStep, UpdateKey, RevokeKey, ReadPolicy
<1> QED
  BY <1>1, <1>4, <1>5, <1>6, <1>7, <1>8, <1>9, <1>12, <1>16, <1>17, <1>18, <1>19 DEF Next, Resolve

LEMMA CacheHolds == Spec => []Cache
  BY InitCache, CachePreserved, TypesHold, LocksHold, PTL DEF Spec

\* auth_cache.py and control_plane.py: only a fill that overlaps a change of
\* its rows puts into the cache what they no longer say, however many fills,
\* changes, failures and expiries there are.
THEOREM OnlyOverlapsAreStale == Spec => []StaleOnlyByOverlap
<1>1. Cache => StaleOnlyByOverlap
  BY DEF Cache, EntriesCurrent, Excused, StaleOnlyByOverlap, Stale, Overtaken
<1> QED
  BY <1>1, CacheHolds, PTL

-----------------------------------------------------------------------------
(* Deletions: an entry is in the index or was filled past an earlier change *)
(* that has emptied it, and the index outlives its entries.                *)

Outside(k) == k \notin index /\ entry[k].past # {}

IndexKnows ==
    \A k \in Keys : entry[k] # None =>
        /\ k \notin index => entry[k].past # {}
        /\ k \in index => ttl[k] <= indexTtl

\* What is left for a change to delete, and what it leaves.
Missed(a, k) == serial[a] \in entry[k].past \/ (target[a] = Tenant /\ Outside(k))

DropsKnow ==
    \A a \in Admins, k \in Keys :
        /\ step[a] = "delete" /\ k \notin doomed[a] /\ entry[k] # None => Missed(a, k)
        /\ step[a] = "commit" /\ target[a] \in {k, Tenant} /\ entry[k] # None => Missed(a, k)

Drops == IndexKnows /\ DropsKnow

LEMMA InitDrops == Init => Drops
  BY DEF Init, Drops, IndexKnows, DropsKnow

LEMMA DropsPreserved == Types /\ Drops /\ [Next]_vars => Drops'
<1> SUFFICES ASSUME Types, Drops, [Next]_vars PROVE Drops'
  OBVIOUS
<1> USE DEF Drops, Missed, Outside
<1>1. ASSUME UNCHANGED redisVars, UNCHANGED adminVars PROVE Drops'
  BY <1>1 DEF redisVars, adminVars, IndexKnows, DropsKnow
\* What only deletes entries leaves no others.
<1>2. ASSUME NEW S, DeleteEntries(S), UNCHANGED <<index, indexTtl>>, UNCHANGED adminVars PROVE Drops'
  <2>1. \A k \in Keys : entry'[k] # None => entry'[k] = entry[k] /\ ttl'[k] = ttl[k]
    BY <1>2 DEF DeleteEntries
  <2> QED
    BY <1>2, <2>1 DEF adminVars, IndexKnows, DropsKnow
<1>3. ASSUME NEW r \in Resolvers, (\E k \in Keys : Get(r, k)) \/ Resolve(r) \/ ResolverFails(r)
      PROVE  Drops'
  <2>1. CASE Evict(r)
    BY <1>2, <2>1 DEF Evict
  <2>2. CASE Fill(r)
    <3> DEFINE x == using[r]
               past == {serial[a] : a \in Invalidating(x)}
               value == [auth |-> Authentication(row[r], found[r]), missed |-> missed[r],
                         past |-> past]
    <3>1. x \in Keys /\ value.past = past
      BY <2>2 DEF Fill, Types, ResolverPlaces
    <3>2. Remember(x, value) /\ UNCHANGED adminVars
      BY <2>2 DEF Fill
    <3>3. \A a \in Admins : a \in Invalidating(x) => serial[a] \in past
      OBVIOUS
    <3>4. \A a \in Admins : step[a] = "delete" => target[a] = Tenant
      BY DEF Types, AdminTypeOK, AdminPlaces, Targets
    <3> HIDE DEF x, past, value
    <3>5. /\ entry'[x] = value /\ ttl'[x] = TTL /\ x \in index' /\ indexTtl' = TTL
          /\ \A k \in Keys : k # x => /\ entry'[k] = entry[k] /\ ttl'[k] = ttl[k]
                                      /\ (k \in index' <=> k \in index)
      BY <3>1, <3>2 DEF Remember, Types, RedisTypeOK
    <3>6. IndexKnows'
      <4>1. TTL \in Nat /\ \A k \in Keys : ttl[k] \in 0..TTL
        BY Constants DEF Types, RedisTypeOK
      <4> QED
        BY <3>5, <4>1 DEF IndexKnows
    <3>7. DropsKnow'
      <4> SUFFICES ASSUME NEW a \in Admins, NEW k \in Keys, entry'[k] # None,
                          \/ step[a] = "delete" /\ k \notin doomed[a]
                          \/ step[a] = "commit" /\ target[a] \in {k, Tenant}
                   PROVE  Missed(a, k)'
        BY <3>2 DEF DropsKnow, adminVars
      <4>1. CASE k = x
        <5>1. a \in Invalidating(x)
          BY <3>4, <4>1 DEF Invalidating
        <5> QED
          BY <3>1, <3>2, <3>3, <3>5, <4>1, <5>1 DEF adminVars
      <4>2. CASE k # x
        BY <3>2, <3>5, <4>2 DEF DropsKnow, adminVars
      <4> QED
        BY <4>1, <4>2
    <3> QED
      BY <3>6, <3>7
  <2>3. CASE (\E k \in Keys : Get(r, k)) \/ LoadKey(r) \/ LoadPolicy(r) \/ ResolverFails(r)
    BY <1>1, <2>3 DEF Get, Hit, LoadKey, LoadPolicy, ResolverFails
  <2> QED
    BY <1>3, <2>1, <2>2, <2>3 DEF Resolve
<1>4. ASSUME NEW k \in Keys, CreateKey(k) PROVE Drops'
  BY <1>1, <1>4 DEF CreateKey
\* A change that is not past the cache has nothing to answer for.
<1>5. ASSUME NEW a \in Admins, UNCHANGED redisVars, step'[a] \notin {"delete", "commit"},
             \A b \in Admins : b # a => /\ step'[b] = step[b] /\ target'[b] = target[b]
                                        /\ doomed'[b] = doomed[b] /\ serial'[b] = serial[b]
      PROVE  Drops'
  <2>1. IndexKnows'
    BY <1>5 DEF redisVars, IndexKnows
  <2> QED
    BY <1>5, <2>1 DEF redisVars, DropsKnow
<1>6. ASSUME NEW a \in Admins, NEW x, NEW old, NEW value, Begin(a, x, old, value) PROVE Drops'
  BY <1>5, <1>6 DEF Begin, Types, AdminTypeOK
<1>7. ASSUME NEW a \in Admins, WritePolicy(a) \/ AdminFails(a) \/ Commit(a) PROVE Drops'
  BY <1>5, <1>7 DEF WritePolicy, AdminFails, Commit, Finish, Types, AdminTypeOK
<1>8. ASSUME NEW a \in Admins, Drop(a) PROVE Drops'
  <2>0. /\ UNCHANGED <<index, indexTtl>> /\ UNCHANGED <<target, serial>>
        /\ \A b \in Admins : b # a => step'[b] = step[b] /\ doomed'[b] = doomed[b]
    BY <1>8 DEF Drop, Types, AdminTypeOK
  <2>1. CASE target[a] # Tenant /\ DeleteEntries({target[a]}) /\ step' = [step EXCEPT ![a] = "commit"]
    <3>1. \A k \in Keys : entry'[k] # None => /\ entry'[k] = entry[k] /\ ttl'[k] = ttl[k]
                                              /\ k # target[a]
      BY <2>1 DEF DeleteEntries
    <3>2. step'[a] = "commit"
      BY <2>1 DEF Types, AdminTypeOK
    <3>3. IndexKnows'
      BY <2>0, <3>1 DEF IndexKnows
    <3> QED
      BY <2>0, <2>1, <3>1, <3>2, <3>3 DEF DropsKnow
  <2>2. CASE target[a] = Tenant /\ doomed' = [doomed EXCEPT ![a] = index]
             /\ step' = [step EXCEPT ![a] = "delete"] /\ UNCHANGED <<entry, ttl>>
    <3>1. step'[a] = "delete" /\ doomed'[a] = index
      BY <2>2 DEF Types, AdminTypeOK
    <3>2. IndexKnows'
      BY <2>0, <2>2 DEF IndexKnows
    <3> QED
      BY <2>0, <2>2, <3>1, <3>2 DEF DropsKnow, IndexKnows
  <2> QED
    BY <1>8, <2>1, <2>2 DEF Drop
<1>9. ASSUME NEW a \in Admins, Delete(a) PROVE Drops'
  <2>1. /\ UNCHANGED <<target, serial>> /\ index' = {} /\ step'[a] = "commit"
        /\ \A b \in Admins : b # a => step'[b] = step[b] /\ doomed'[b] = doomed[b]
        /\ step[a] = "delete" /\ target[a] = Tenant
    BY <1>9 DEF Delete, Types, AdminTypeOK, AdminPlaces, Targets
  <2>2. \A k \in Keys : entry'[k] # None => entry'[k] = entry[k] /\ k \notin doomed[a]
    BY <1>9 DEF Delete, DeleteEntries
  <2>3. \A k \in Keys : entry'[k] # None => entry[k].past # {}
    BY <2>1, <2>2 DEF DropsKnow
  <2>4. IndexKnows'
    BY <2>1, <2>2, <2>3 DEF IndexKnows
  <2> QED
    BY <2>1, <2>2, <2>3, <2>4 DEF DropsKnow
<1>10. CASE RedisLoss
  <2>1. \A k \in Keys : entry'[k] = None
    BY <1>10 DEF RedisLoss, DeleteEntries
  <2> QED
    BY <2>1 DEF IndexKnows, DropsKnow
<1>11. CASE Tick
  <2>1. /\ ttl' = [k \in Keys |-> Less(ttl[k])] /\ indexTtl' = Less(indexTtl)
        /\ index' = IF indexTtl' = 0 THEN {} ELSE index
        /\ \A k \in Keys : entry'[k] # None => entry'[k] = entry[k] /\ ttl'[k] # 0
        /\ UNCHANGED adminVars
    BY <1>11 DEF Tick
  <2>2. \A k \in Keys : entry'[k] # None =>
           /\ k \in index => k \in index' /\ ttl'[k] <= indexTtl'
           /\ k \notin index => k \notin index'
    <3> SUFFICES ASSUME NEW k \in Keys, entry'[k] # None
                 PROVE  /\ k \in index => k \in index' /\ ttl'[k] <= indexTtl'
                        /\ k \notin index => k \notin index'
      OBVIOUS
    <3>1. ttl[k] \in 0..TTL /\ indexTtl \in 0..TTL /\ ttl'[k] = Less(ttl[k]) /\ ttl'[k] # 0
      BY <2>1 DEF Types, RedisTypeOK
    <3>2. k \in index => ttl[k] <= indexTtl
      BY <2>1 DEF IndexKnows
    <3> QED
      BY <2>1, <3>1, <3>2, Constants DEF Less
  <2>3. IndexKnows'
    BY <2>1, <2>2 DEF IndexKnows
  <2> QED
    BY <2>1, <2>2, <2>3 DEF DropsKnow, adminVars
<1>12. CASE DatePasses \/ UNCHANGED vars
  BY <1>1, <1>12 DEF DatePasses, vars
<1>13. ASSUME NEW a \in Admins, AdminStep(a) PROVE Drops'
  BY <1>6, <1>7, <1>8, <1>9, <1>13 DEF AdminStep, UpdateKey, RevokeKey, ReadPolicy
<1> QED
  BY <1>3, <1>4, <1>7, <1>10, <1>11, <1>12, <1>13 DEF Next

\* auth_cache.py, delete_tenant and delete_key_hash: a change that is about to
\* commit leaves in the cache only entries filled since its deletion, or put out
\* of the index by an earlier change of the policy that their fill overlapped,
\* whatever expires, fails or is lost and however many changes there are.
THEOREM OnlyOverlapsAreMissed == Spec => []DropsMissOnlyOverlaps
<1>1. Drops => DropsMissOnlyOverlaps
  BY DEF Drops, DropsKnow, Missed, Outside, DropsMissOnlyOverlaps
<1> QED
  BY <1>1, InitDrops, DropsPreserved, TypesHold, PTL DEF Spec

-----------------------------------------------------------------------------
(* Grants: what an entry permits the rows permitted at some time.          *)

\* What the two rows permit now, to an active key.
RowsEver ==
    \A k \in Keys : key[k] # None /\ key[k].status = "active"
                    => Allowed(key[k], PolicyOf(policy)) \subseteq ever[k]

\* What a resolver will have read: the policy as it is, then as it found it.
ReadsEver ==
    \A r \in Resolvers : "torn" \notin missed[r] =>
        /\ pc[r] = "policy" => Allowed(row[r], PolicyOf(policy)) \subseteq ever[using[r]]
        /\ pc[r] = "fill" => Allowed(row[r], found[r]) \subseteq ever[using[r]]

EntriesEver ==
    \A k \in Keys : entry[k] # None /\ "torn" \notin entry[k].missed
                    => Permitted(entry[k].auth) \subseteq ever[k]

\* Nothing is known of a key before it exists.
Unknown ==
    \A k \in Keys : key[k] = None =>
        /\ entry[k] = None
        /\ \A r \in Resolvers : pc[r] \in {"policy", "fill"} => using[r] # k

Grants == RowsEver /\ ReadsEver /\ EntriesEver /\ Unknown

LEMMA PermittedIsAllowed ==
    ASSUME NEW k \in KeyRows, NEW p \in Policies
    PROVE  Permitted(Authentication(k, p)) = Allowed(k, p)
<1>1. k.allow \in SUBSET Models /\ p.allow \in SUBSET Models
  BY DEF KeyRows, Policies
<1>2. Authentication(k, p).models = EffectiveAllowlist(k.allow, p.allow)
  BY DEF Authentication
<1>3. \A S \in SUBSET Models : S # Unrestricted
  BY AccessAssumption
<1>4. CASE k.allow = {} /\ p.allow = {}
  BY <1>1, <1>2, <1>4 DEF EffectiveAllowlist, Permitted, Allowed
<1>5. CASE k.allow = {} /\ p.allow # {}
  BY <1>1, <1>2, <1>3, <1>5 DEF EffectiveAllowlist, Permitted, Allowed
<1>6. CASE k.allow # {} /\ p.allow = {}
  BY <1>1, <1>2, <1>3, <1>6 DEF EffectiveAllowlist, Permitted, Allowed
<1>7. CASE k.allow # {} /\ p.allow # {}
  <2>1. k.allow \intersect p.allow \in SUBSET Models
    BY <1>1
  <2> QED
    BY <1>1, <1>2, <1>3, <1>7, <2>1 DEF EffectiveAllowlist, Permitted, Allowed
<1> QED
  BY <1>4, <1>5, <1>6, <1>7

LEMMA InitGrants == Init => Grants
  BY Constants DEF Init, Grants, RowsEver, ReadsEver, EntriesEver, Unknown

LEMMA GrantsPreserved == Types /\ Locks /\ Cache /\ Grants /\ [Next]_vars => Grants'
<1> SUFFICES ASSUME Types, Locks, Cache, Grants, [Next]_vars PROVE Grants'
  OBVIOUS
<1>1. ASSUME UNCHANGED <<key, policy, ever>>,
             \A k \in Keys : entry'[k] \in {entry[k], None}
      PROVE  RowsEver' /\ EntriesEver'
  BY <1>1 DEF Grants, RowsEver, EntriesEver
<1>2. ASSUME UNCHANGED <<key, policy, ever>>,
             \A k \in Keys : entry'[k] \in {entry[k], None},
             \A r \in Resolvers : pc'[r] \in {"policy", "fill"} =>
                /\ pc'[r] = pc[r] /\ using'[r] = using[r] /\ row'[r] = row[r]
                /\ found'[r] = found[r] /\ missed'[r] = missed[r]
      PROVE  Grants'
  <2>1. ReadsEver'
    BY <1>2 DEF Grants, ReadsEver
  <2>2. Unknown'
    BY <1>2 DEF Grants, Unknown
  <2> QED
    BY <1>1, <1>2, <2>1, <2>2 DEF Grants
<1>3. ASSUME NEW r \in Resolvers, Leave(r)
      PROVE  \A q \in Resolvers : pc'[q] \in {"policy", "fill"} =>
                /\ pc'[q] = pc[q] /\ using'[q] = using[q] /\ row'[q] = row[q]
                /\ found'[q] = found[q] /\ missed'[q] = missed[q]
  BY <1>3 DEF Leave, Types, ResolverTypeOK
<1>4. ASSUME NEW r \in Resolvers, NEW k \in Keys, Get(r, k) PROVE Grants'
  <2>1. \A q \in Resolvers : pc'[q] \in {"policy", "fill"} => pc'[q] = pc[q] /\ using'[q] = using[q]
    BY <1>4 DEF Get, Types, ResolverTypeOK
  <2>2. UNCHANGED <<key, policy, ever>> /\ UNCHANGED entry /\ UNCHANGED <<row, found, missed>>
    BY <1>4 DEF Get, Hit, pgVars, redisVars
  <2> QED
    BY <1>2, <2>1, <2>2
<1>5. ASSUME NEW r \in Resolvers, Evict(r) PROVE Grants'
  BY <1>2, <1>3, <1>5, DeletesEntries DEF Evict, pgVars
<1>6. ASSUME NEW r \in Resolvers, ResolverFails(r) PROVE Grants'
  BY <1>2, <1>3, <1>6 DEF ResolverFails, pgVars, redisVars
<1>7. ASSUME NEW r \in Resolvers, LoadKey(r) PROVE Grants'
  <2>1. UNCHANGED <<key, policy, ever>> /\ UNCHANGED entry
    BY <1>7 DEF LoadKey, pgVars, redisVars
  <2>2. CASE Leave(r)
    BY <1>2, <1>3, <2>1, <2>2
  <2>3. CASE /\ Live(key[using[r]]) /\ row' = [row EXCEPT ![r] = key[using[r]]]
             /\ pc' = [pc EXCEPT ![r] = "policy"] /\ UNCHANGED <<using, found, missed>>
    <3>1. using[r] \in Keys /\ key[using[r]] # None /\ key[using[r]].status = "active"
      BY <1>7, <2>3 DEF LoadKey, Live, Types, ResolverPlaces
    <3>2. /\ pc'[r] = "policy" /\ row'[r] = key[using[r]]
          /\ \A q \in Resolvers : q # r => pc'[q] = pc[q] /\ row'[q] = row[q]
      BY <2>3 DEF Types, ResolverTypeOK
    <3>3. ReadsEver'
      BY <2>1, <2>3, <3>1, <3>2 DEF Grants, RowsEver, ReadsEver
    <3>4. Unknown'
      BY <2>1, <2>3, <3>1, <3>2 DEF Grants, Unknown
    <3> QED
      BY <1>1, <2>1, <3>3, <3>4 DEF Grants
  <2> QED
    BY <1>7, <2>2, <2>3 DEF LoadKey
<1>8. ASSUME NEW r \in Resolvers, LoadPolicy(r) PROVE Grants'
  <2>1. UNCHANGED <<key, policy, ever>> /\ UNCHANGED entry /\ UNCHANGED <<using, row, missed>>
    BY <1>8 DEF LoadPolicy, pgVars, redisVars
  <2>2. /\ pc[r] = "policy" /\ pc'[r] = "fill" /\ found'[r] = PolicyOf(policy)
        /\ \A q \in Resolvers : q # r => pc'[q] = pc[q] /\ found'[q] = found[q]
    BY <1>8 DEF LoadPolicy, Types, ResolverTypeOK
  <2>3. ReadsEver' /\ Unknown'
    BY <2>1, <2>2 DEF Grants, ReadsEver, Unknown
  <2> QED
    BY <1>1, <2>1, <2>3 DEF Grants
<1>9. ASSUME NEW r \in Resolvers, Fill(r) PROVE Grants'
  <2> DEFINE value == [auth |-> Authentication(row[r], found[r]), missed |-> missed[r],
                       past |-> {serial[a] : a \in Invalidating(using[r])}]
  <2>1. Remember(using[r], value)
    BY <1>9 DEF Fill
  <2>2. UNCHANGED <<key, policy, ever>> /\ Leave(r)
    BY <1>9 DEF Fill, pgVars
  <2>3. using[r] \in Keys /\ row[r] \in KeyRows /\ found[r] \in Policies /\ pc[r] = "fill"
    BY <1>9 DEF Fill, Types, ResolverPlaces
  <2>4. /\ entry'[using[r]] = value
        /\ \A k \in Keys : k # using[r] => entry'[k] = entry[k]
    BY <2>1, <2>3 DEF Remember, Types, RedisTypeOK
  <2>5. Permitted(value.auth) = Allowed(row[r], found[r]) /\ value.missed = missed[r]
    BY <2>3, PermittedIsAllowed
  <2> HIDE DEF value
  <2>6. EntriesEver'
    BY <2>1, <2>2, <2>3, <2>4, <2>5 DEF Grants, ReadsEver, EntriesEver
  <2>7. RowsEver'
    BY <2>2 DEF Grants, RowsEver
  <2>8. ReadsEver'
    BY <1>3, <2>2 DEF Grants, ReadsEver
  <2>9. Unknown'
    BY <1>3, <2>2, <2>3, <2>4 DEF Grants, Unknown
  <2> QED
    BY <2>6, <2>7, <2>8, <2>9 DEF Grants
<1>10. ASSUME NEW x \in Keys, CreateKey(x) PROVE Grants'
  <2>1. PICK made : /\ key' = [key EXCEPT ![x] = made]
                    /\ ever' = [ever EXCEPT ![x] = Allowed(made, PolicyOf(policy))]
    BY <1>10 DEF CreateKey
  <2>2. /\ key[x] = None /\ key'[x] = made /\ ever'[x] = Allowed(made, PolicyOf(policy))
        /\ \A k \in Keys : k # x => key'[k] = key[k] /\ ever'[k] = ever[k]
    BY <1>10, <2>1 DEF CreateKey, Types, PgTypeOK
  <2>3. UNCHANGED policy /\ UNCHANGED entry /\ UNCHANGED <<pc, using, row, found, missed>>
    BY <1>10 DEF CreateKey, redisVars, resolverVars
  <2>4. entry[x] = None /\ \A r \in Resolvers : pc[r] \in {"policy", "fill"} => using[r] # x
    BY <2>2 DEF Grants, Unknown
  <2>5. \A r \in Resolvers : pc[r] \in {"policy", "fill"} => using[r] \in Keys
    BY DEF Types, ResolverPlaces
  <2>6. RowsEver'
    BY <2>2, <2>3 DEF Grants, RowsEver
  <2>7. ReadsEver'
    BY <2>2, <2>3, <2>4, <2>5 DEF Grants, ReadsEver
  <2>8. EntriesEver' /\ Unknown'
    BY <2>2, <2>3, <2>4 DEF Grants, EntriesEver, Unknown
  <2> QED
    BY <2>6, <2>7, <2>8 DEF Grants
<1>11. ASSUME NEW a \in Admins, Commit(a) PROVE Grants'
  <2>1. /\ UNCHANGED entry /\ UNCHANGED <<pc, using, row, found>>
        /\ missed' = [r \in Resolvers |-> missed[r] \union Misses(r, target[a])]
        /\ target[a] \in Targets
    BY <1>11 DEF Commit, redisVars, Types, AdminTypeOK, AdminPlaces
  <2>2. \A k \in Keys : ever[k] \subseteq ever'[k]
    BY <1>11 DEF Commit
  <2>3. \A k \in Keys : key[k] # None /\ key[k].status = "active"
                        => Allowed(key'[k], PolicyOf(policy')) \subseteq ever'[k]
    BY <1>11 DEF Commit
  <2>4. \A k \in Keys : (key'[k] = None <=> key[k] = None)
                        /\ (key'[k] # None /\ key'[k].status = "active"
                             => key[k] # None /\ key[k].status = "active")
    <3>1. CASE target[a] \in Keys
      <4>1. /\ before[a] = key[target[a]] /\ before[a] \in KeyRows /\ new[a] \in KeyRows
            /\ before[a].status = "revoked" => new[a].status = "revoked"
        BY <3>1 DEF Types, AdminPlaces, Locks, KeyLocks
      <4>2. before[a].status \in {"active", "revoked"}
        BY <4>1 DEF KeyRows
      <4>3. key' = [key EXCEPT ![target[a]] = new[a]]
        BY <1>11, <3>1, Constants DEF Commit
      <4> QED
        BY <3>1, <4>1, <4>2, <4>3, Constants DEF Types, PgTypeOK
    <3>2. CASE target[a] = Tenant
      BY <1>11, <3>2 DEF Commit
    <3> QED
      BY <2>1, <3>1, <3>2 DEF Targets
  <2>5. RowsEver'
    BY <2>3, <2>4 DEF RowsEver
  <2>6. EntriesEver' /\ Unknown'
    BY <2>1, <2>2, <2>4 DEF Grants, EntriesEver, Unknown
  <2>7. ReadsEver'
    <3> SUFFICES ASSUME NEW r \in Resolvers, "torn" \notin missed'[r], pc[r] \in {"policy", "fill"}
                 PROVE  /\ pc[r] = "policy" => Allowed(row[r], PolicyOf(policy')) \subseteq ever'[using[r]]
                        /\ pc[r] = "fill" => Allowed(row[r], found[r]) \subseteq ever'[using[r]]
      BY <2>1 DEF ReadsEver
    <3>1. using[r] \in Keys /\ row[r].status = "active" /\ row[r] \in KeyRows
      BY DEF Types, ResolverPlaces
    <3>2. "torn" \notin missed[r] /\ "torn" \notin Misses(r, target[a])
      BY <2>1
    <3>3. CASE pc[r] = "fill"
      BY <2>2, <3>1, <3>2, <3>3 DEF Grants, ReadsEver
    <3>4. CASE pc[r] = "policy" /\ target[a] \in Keys
      <4>1. policy' = policy
        BY <1>11, <3>4, Constants DEF Commit
      <4> QED
        BY <2>2, <3>1, <3>2, <3>4, <4>1 DEF Grants, ReadsEver
    <3>5. CASE pc[r] = "policy" /\ target[a] = Tenant
      <4>1. using[r] # Tenant
        BY <3>1, Constants
      <4>2. "key" \notin missed[r]
        BY <3>2, <3>5, <4>1 DEF Misses
      <4>3. row[r] = key[using[r]] /\ key' = key
        BY <1>11, <3>5, <4>2 DEF Commit, Cache, ReadsCurrent
      <4>4. key[using[r]] # None
        BY <3>1, <4>3, Constants
      <4> QED
        BY <2>3, <3>1, <3>5, <4>3, <4>4
    <3> QED
      BY <2>1, <3>3, <3>4, <3>5 DEF Targets
  <2> QED
    BY <2>5, <2>6, <2>7 DEF Grants
<1>12. ASSUME NEW a \in Admins, Drop(a) \/ Delete(a) PROVE Grants'
  <2>1. UNCHANGED <<key, policy, ever>> /\ UNCHANGED <<pc, using, row, found, missed>>
    BY <1>12 DEF Drop, Delete, pgVars, resolverVars
  <2>2. \A k \in Keys : entry'[k] \in {entry[k], None}
    BY <1>12, DeletesEntries DEF Drop, Delete
  <2> QED
    BY <1>2, <2>1, <2>2
<1>13. CASE RedisLoss \/ Tick
  <2>1. UNCHANGED <<key, policy, ever>> /\ UNCHANGED <<pc, using, row, found, missed>>
    BY <1>13 DEF RedisLoss, Tick, pgVars, resolverVars
  <2>2. \A k \in Keys : entry'[k] \in {entry[k], None}
    BY <1>13, DeletesEntries DEF RedisLoss, Tick
  <2> QED
    BY <1>2, <2>1, <2>2
<1>14. CASE UNCHANGED <<key, policy, ever>> /\ UNCHANGED entry /\ UNCHANGED <<pc, using, row, found, missed>>
  BY <1>2, <1>14
<1>15. ASSUME NEW a \in Admins, AdminStep(a) \/ AdminFails(a) PROVE Grants'
  BY <1>11, <1>12, <1>14, <1>15 DEF AdminStep, AdminFails, UpdateKey, RevokeKey, ReadPolicy, Begin,
     WritePolicy, pgVars, redisVars, resolverVars
<1>16. CASE DatePasses \/ UNCHANGED vars
  BY <1>14, <1>16 DEF DatePasses, vars, pgVars, redisVars, resolverVars
<1> QED
  BY <1>4, <1>5, <1>6, <1>7, <1>8, <1>9, <1>10, <1>13, <1>15, <1>16 DEF Next, Resolve

\* auth.py, _load_managed_authentication: no entry permits a model the rows
\* never permitted, whatever revocations, restrictions, fills and failures,
\* unless the key's row and then the policy changed between its two reads.
THEOREM OnlyPermittedIsGranted == Spec => []GrantsWerePermitted
<1>1. Grants => GrantsWerePermitted
  BY DEF Grants, EntriesEver, GrantsWerePermitted
<1>2. Spec => []Grants
  BY InitGrants, GrantsPreserved, TypesHold, LocksHold, CacheHolds, PTL DEF Spec
<1> QED
  BY <1>1, <1>2, PTL

=============================================================================
