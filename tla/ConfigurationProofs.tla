------------------------ MODULE ConfigurationProofs ------------------------
(* Theorems about the routing configuration.                               *)
(*                                                                         *)
(* The first half is about its publication (Publication), for any number   *)
(* of processes, versions, requests and faults: what requests are given,   *)
(* what the pointer names while Redis keeps its data, and that publication *)
(* implements RoutingConfiguration.                                        *)
(*                                                                         *)
(* The second half is about its administration (Administration), for any   *)
(* number of administrators, rows and requests: what an orphaned model     *)
(* proves, that seeds and rotations leave a load of the tables whole, and  *)
(* what a patch may write.  Neither half uses the other.                   *)
EXTENDS Publication, Administration, FiniteSetTheorems, SequenceTheorems, TLAPS

Publishing == Steps \ {"idle", "latest", "unlock"}

\* What is claimed, worked on or closed has been committed.
Control ==
    /\ pc \in [Processes -> Steps]
    /\ target \in [Processes -> 0..MaxVersion]
    /\ reusing \subseteq Rebuilders
    /\ \A b \in reusing : pc[b] \in {"ready", "activate", "unlock"}
    /\ \A p \in Processes : pc[p] \in Publishing => target[p] \in tables
    /\ \A p \in Processes : pc[p] = "latest" => p \in Rebuilders
    /\ todo \in [Workers -> SUBSET tables]

Rows ==
    /\ tables \subseteq Versions
    /\ late \subseteq tables
    /\ status \in [Versions -> {"none", "open", "pending", "published", "failed"}]
    /\ \A v \in Versions : v \in tables <=> status[v] \in {"pending", "published", "failed"}
    /\ owner \in [Versions -> Workers \union {None}]
    /\ lease \in [Versions -> {"none", "live", "expired"}]
    /\ lock \in Rebuilders \union {None}
    /\ faults \in Nat
    /\ losses \in Nat

Copies ==
    /\ loaded \in [Processes -> Contents]
    /\ checksum \in [Versions -> {None} \union Contents]
    /\ payload \in [Versions -> {None} \union Contents]
    /\ manifest \in [Versions -> {None} \union Contents]
    /\ fading \subseteq {"payload", "manifest"} \X Versions
    /\ active \in 0..MaxVersion
    /\ pointer \in [Requests -> 0..MaxVersion]
    /\ answer \in [Requests -> {None, Refused} \union Contents]

Types == Control /\ Rows /\ Copies

\* c is fit to be the snapshot of v when what is committed is done and what of
\* it committed after a higher version is overtaken.
Fits(v, c, done, overtaken) ==
    /\ c \in ValidTables
    /\ v \in c
    /\ c \subseteq done
    /\ ((1..v) \intersect done) \ overtaken \subseteq c

Stored == \A v \in Versions : payload[v] # None => Fits(v, payload[v], tables, late)

InHand ==
    \A p \in Processes :
        pc[p] \in {"write", "compare", "ready", "activate"} =>
            Fits(target[p], loaded[p], tables, late)

Given ==
    \A q \in Requests :
        answer[q] \notin {None, Refused} => Fits(pointer[q], answer[q], tables, late)

Snapshots == Stored /\ InHand /\ Given

\* What the version a process publishes has reached when it marks it.
Activated == \A p \in Processes : pc[p] \in {"retain", "mark"} => target[p] <= active
Marked == \A v \in Published : v <= active

\* Only what is older than the active version fades or is deleted, so that from
\* the pointer on a manifest speaks of the payload that is there.
Sound ==
    /\ \A k \in fading : k[2] < active
    /\ \A v \in Versions : v >= active => manifest[v] \in {None, payload[v]}
    /\ active # 0 => payload[active] # None /\ manifest[active] = payload[active]

Kept == losses = 0 => Activated /\ Marked /\ Sound

IInv == Types /\ Snapshots /\ Kept

-----------------------------------------------------------------------------
LEMMA TypesSuffice == Types => TypeOK
  BY DEF Types, Control, Rows, Copies, TypeOK

LEMMA TypesInit == Init => Types
  BY PublicationAssumption DEF Init, Types, Control, Rows, Copies, Steps, Publishing, Contents

LEMMA TypesStep == Types /\ [Next]_vars => Types'
<1> SUFFICES ASSUME Types, [Next]_vars PROVE Types'
  OBVIOUS
<1> USE PublicationAssumption DEF Types, pgVars, snapVars, redisVars, processVars, requestVars,
          faultVars
<1>1. ASSUME NEW v \in Versions, BeginMutation(v) PROVE Types'
  <2>1. Control'
    BY <1>1 DEF Control, Processes, Steps, Publishing, BeginMutation
  <2>2. Rows'
    BY <1>1 DEF Control, Rows, Processes, BeginMutation
  <2>3. Copies'
    BY <1>1 DEF Control, Rows, Copies, Publishing, Processes, Contents, BeginMutation
  <2> QED
    BY <2>1, <2>2, <2>3
<1>2. ASSUME NEW v \in Versions, CommitMutation(v) PROVE Types'
  <2>1. Control'
    BY <1>2 DEF Control, Processes, Steps, Publishing, CommitMutation
  <2>2. Rows'
    BY <1>2 DEF Control, Rows, Processes, CommitMutation
  <2>3. Copies'
    BY <1>2 DEF Control, Rows, Copies, Publishing, Processes, Contents, CommitMutation
  <2> QED
    BY <2>1, <2>2, <2>3
<1>3. ASSUME NEW v \in Versions, LeaseExpires(v) PROVE Types'
  <2>1. Control'
    BY <1>3 DEF Control, Processes, Steps, Publishing, LeaseExpires, Fault, faultVars
  <2>2. Rows'
    BY <1>3 DEF Control, Rows, Processes, LeaseExpires, Fault, faultVars
  <2>3. Copies'
    BY <1>3 DEF Control, Rows, Copies, Publishing, Processes, Contents, LeaseExpires, Fault,
       faultVars
  <2> QED
    BY <2>1, <2>2, <2>3
<1>4. ASSUME NEW p \in Processes, Load(p) PROVE Types'
  <2>1. Control'
    BY <1>4 DEF Control, Processes, Steps, Publishing, Load, Goto, Refuse
  <2>2. Rows'
    BY <1>4 DEF Control, Rows, Processes, Load, Goto, Refuse
  <2>3. Copies'
    BY <1>4 DEF Control, Rows, Copies, Publishing, Processes, Contents, Load, Goto, Refuse
  <2> QED
    BY <2>1, <2>2, <2>3
<1>5. ASSUME NEW p \in Processes, WritePending(p) PROVE Types'
  <2>1. Control'
    BY <1>5 DEF Control, Processes, Steps, Publishing, WritePending, Goto
  <2>2. Rows'
    BY <1>5 DEF Control, Rows, Processes, WritePending, Goto
  <2>3. Copies'
    BY <1>5 DEF Control, Rows, Copies, Publishing, Processes, Contents, WritePending, Goto
  <2> QED
    BY <2>1, <2>2, <2>3
<1>6. ASSUME NEW p \in Processes, ComparePayload(p) PROVE Types'
  <2>1. Control'
    BY <1>6 DEF Control, Processes, Steps, Publishing, ComparePayload, Goto, Refuse
  <2>2. Rows'
    BY <1>6 DEF Control, Rows, Processes, ComparePayload, Goto, Refuse
  <2>3. Copies'
    BY <1>6 DEF Control, Rows, Copies, Publishing, Processes, Contents, ComparePayload, Goto,
       Refuse
  <2> QED
    BY <2>1, <2>2, <2>3
<1>7. ASSUME NEW p \in Processes, MarkReady(p) PROVE Types'
  <2>1. Control'
    BY <1>7 DEF Control, Processes, Steps, Publishing, MarkReady, Goto, Refuse, Abandon
  <2>2. Rows'
    BY <1>7 DEF Control, Rows, Processes, MarkReady, Goto, Refuse, Abandon
  <2>3. Copies'
    BY <1>7 DEF Control, Rows, Copies, Publishing, Processes, Contents, MarkReady, Goto,
       Refuse, Abandon
  <2> QED
    BY <2>1, <2>2, <2>3
<1>8. ASSUME NEW p \in Processes, Activate(p) PROVE Types'
  <2>1. Control'
    BY <1>8 DEF Control, Processes, Steps, Publishing, Activate, Goto, Refuse, Abandon
  <2>2. Rows'
    BY <1>8 DEF Control, Rows, Processes, Activate, Goto, Refuse, Abandon
  <2>3. Copies'
    BY <1>8 DEF Control, Rows, Copies, Publishing, Processes, Contents, Activate, Goto, Refuse,
       Abandon
  <2> QED
    BY <2>1, <2>2, <2>3
<1>9. ASSUME NEW p \in Processes, Retain(p) PROVE Types'
  <2>1. Control'
    BY <1>9 DEF Control, Processes, Steps, Publishing, Retain, Goto
  <2>2. Rows'
    BY <1>9 DEF Control, Rows, Processes, Retain, Goto
  <2>3. Copies'
    BY <1>9 DEF Control, Rows, Copies, Publishing, Processes, Contents, Retain, Goto
  <2> QED
    BY <2>1, <2>2, <2>3
<1>10. ASSUME NEW p \in Processes, MarkPublished(p) PROVE Types'
  <2>1. Control'
    BY <1>10 DEF Control, Processes, Steps, Publishing, MarkPublished, Close, Goto, Abandon,
       Owns
  <2>2. Rows'
    <3>1. target[p] \in tables
      BY <1>10 DEF MarkPublished, Control, Publishing, Steps
    <3>2. CASE Owns(p, target[p])
      BY <1>10, <3>1, <3>2 DEF Rows, MarkPublished, Close
    <3>3. CASE ~Owns(p, target[p])
      BY <1>10, <3>3 DEF Rows, MarkPublished, Close
    <3> QED
      BY <3>2, <3>3
  <2>3. Copies'
    BY <1>10 DEF Control, Rows, Copies, Publishing, Processes, Contents, MarkPublished, Close,
       Goto, Abandon, Owns
  <2> QED
    BY <2>1, <2>2, <2>3
<1>11. ASSUME NEW p \in Processes, MarkFailed(p) PROVE Types'
  <2>1. Control'
    BY <1>11 DEF Control, Processes, Steps, Publishing, MarkFailed, Close, Goto, Abandon, Owns
  <2>2. Rows'
    <3>1. target[p] \in tables
      BY <1>11 DEF MarkFailed, Control, Publishing, Steps
    <3>2. CASE Owns(p, target[p])
      BY <1>11, <3>1, <3>2 DEF Rows, MarkFailed, Close
    <3>3. CASE ~Owns(p, target[p])
      BY <1>11, <3>3 DEF Rows, MarkFailed, Close
    <3> QED
      BY <3>2, <3>3
  <2>3. Copies'
    BY <1>11 DEF Control, Rows, Copies, Publishing, Processes, Contents, MarkFailed, Close,
       Goto, Abandon, Owns
  <2> QED
    BY <2>1, <2>2, <2>3
<1>12. ASSUME NEW p \in Processes, Crash(p) PROVE Types'
  <2>1. Control'
    BY <1>12 DEF Control, Processes, Steps, Publishing, Crash, Fault, Goto
  <2>2. Rows'
    BY <1>12 DEF Control, Rows, Processes, Crash, Fault, Goto
  <2>3. Copies'
    BY <1>12 DEF Control, Rows, Copies, Publishing, Processes, Contents, Crash, Fault, Goto
  <2> QED
    BY <2>1, <2>2, <2>3
<1>13. ASSUME NEW p \in Processes, CallFails(p) PROVE Types'
  <2>1. Control'
    BY <1>13 DEF Control, Processes, Steps, Publishing, CallFails, Fault, Abandon, Goto
  <2>2. Rows'
    BY <1>13 DEF Control, Rows, Processes, CallFails, Fault, Abandon, Goto
  <2>3. Copies'
    BY <1>13 DEF Control, Rows, Copies, Publishing, Processes, Contents, CallFails, Fault,
       Abandon, Goto
  <2> QED
    BY <2>1, <2>2, <2>3
<1>14. ASSUME NEW w \in Workers, ClaimOutbox(w) PROVE Types'
  <2>1. Control'
    <3> DEFINE batch == {v \in Versions : Claimable(v)}
    <3>1. batch \subseteq tables
      BY DEF Rows, Claimable
    <3>2. todo' = [todo EXCEPT ![w] = batch]
      BY <1>14 DEF ClaimOutbox
    <3> HIDE DEF batch
    <3>3. todo' \in [Workers -> SUBSET tables]
      BY <3>1, <3>2 DEF Control
    <3> QED
      BY <1>14, <3>3 DEF Control, ClaimOutbox
  <2>2. Rows'
    BY <1>14 DEF Control, Rows, Processes, ClaimOutbox, Claimable
  <2>3. Copies'
    BY <1>14 DEF Control, Rows, Copies, Publishing, Processes, Contents, ClaimOutbox, Claimable
  <2> QED
    BY <2>1, <2>2, <2>3
<1>15. ASSUME NEW w \in Workers, NEW v \in Versions, TakeEvent(w, v) PROVE Types'
  <2>1. Control'
    <3>1. v \in tables /\ v \in 0..MaxVersion /\ w \in Processes
      BY <1>15 DEF Control, Rows, TakeEvent, Versions, Processes
    <3>2. todo' \in [Workers -> SUBSET tables]
      BY <1>15 DEF Control, TakeEvent
    <3>3. w \notin reusing
      BY DEF Control
    <3> QED
      BY <1>15, <3>1, <3>2, <3>3 DEF Control, Steps, Publishing, TakeEvent
  <2>2. Rows'
    BY <1>15 DEF Control, Rows, Processes, TakeEvent
  <2>3. Copies'
    BY <1>15 DEF Control, Rows, Copies, Publishing, Processes, Contents, TakeEvent
  <2> QED
    BY <2>1, <2>2, <2>3
<1>16. ASSUME NEW w \in Workers, ReleaseOutbox(w) PROVE Types'
  <2>1. Control'
    BY <1>16 DEF Control, Processes, Steps, Publishing, ReleaseOutbox, Goto
  <2>2. Rows'
    BY <1>16 DEF Control, Rows, Processes, ReleaseOutbox, Goto
  <2>3. Copies'
    BY <1>16 DEF Control, Rows, Copies, Publishing, Processes, Contents, ReleaseOutbox, Goto
  <2> QED
    BY <2>1, <2>2, <2>3
<1>17. ASSUME NEW b \in Rebuilders, Lock(b) PROVE Types'
  <2>1. Control'
    BY <1>17 DEF Control, Processes, Steps, Publishing, Lock
  <2>2. Rows'
    BY <1>17 DEF Control, Rows, Processes, Lock
  <2>3. Copies'
    BY <1>17 DEF Control, Rows, Copies, Publishing, Processes, Contents, Lock
  <2> QED
    BY <2>1, <2>2, <2>3
<1>18. ASSUME NEW b \in Rebuilders, ReadLatest(b) PROVE Types'
  <2>1. Control'
    <3>1. b \in Processes /\ b \notin reusing
      BY <1>18 DEF Processes, ReadLatest, Control
    <3>2. UNCHANGED <<tables, reusing, todo>>
      BY <1>18 DEF ReadLatest
    <3>3. CASE Published = {}
      <4>1. pc' = [pc EXCEPT ![b] = "unlock"] /\ target' = target
        BY <1>18, <3>3 DEF ReadLatest
      <4> QED
        BY <3>1, <3>2, <4>1 DEF Control, Steps, Publishing
    <3>4. CASE Published # {}
      <4>1. PICK v \in Published : target' = [target EXCEPT ![b] = v]
        BY <1>18, <3>4 DEF ReadLatest
      <4>2. v \in tables /\ v \in 0..MaxVersion
        BY DEF Published, Rows, Versions
      <4>3. pc' = [pc EXCEPT ![b] = "inspect"]
        BY <1>18, <3>4 DEF ReadLatest
      <4> QED
        BY <3>1, <3>2, <4>1, <4>2, <4>3 DEF Control, Steps, Publishing
    <3> QED
      BY <3>3, <3>4
  <2>2. Rows'
    BY <1>18 DEF Control, Rows, Processes, ReadLatest, Published
  <2>3. Copies'
    BY <1>18 DEF Control, Rows, Copies, Publishing, Processes, Contents, ReadLatest, Published
  <2> QED
    BY <2>1, <2>2, <2>3
<1>19. ASSUME NEW b \in Rebuilders, Inspect(b) PROVE Types'
  <2>1. Control'
    BY <1>19 DEF Control, Processes, Steps, Publishing, Inspect
  <2>2. Rows'
    BY <1>19 DEF Control, Rows, Processes, Inspect
  <2>3. Copies'
    BY <1>19 DEF Control, Rows, Copies, Publishing, Processes, Contents, Inspect
  <2> QED
    BY <2>1, <2>2, <2>3
<1>20. ASSUME NEW b \in Rebuilders, Unlock(b) PROVE Types'
  <2>1. Control'
    BY <1>20 DEF Control, Processes, Steps, Publishing, Unlock, Goto
  <2>2. Rows'
    BY <1>20 DEF Control, Rows, Processes, Unlock, Goto
  <2>3. Copies'
    BY <1>20 DEF Control, Rows, Copies, Publishing, Processes, Contents, Unlock, Goto
  <2> QED
    BY <2>1, <2>2, <2>3
<1>21. ASSUME NEW t \in Tools, NEW v \in Versions, PublishDirectly(t, v) PROVE Types'
  <2>1. Control'
    <3>1. v \in tables /\ v \in 0..MaxVersion /\ t \in Processes
      BY <1>21 DEF PublishDirectly, Versions, Processes
    <3>2. t \notin reusing
      BY DEF Control
    <3> QED
      BY <1>21, <3>1, <3>2 DEF Control, Steps, Publishing, PublishDirectly
  <2>2. Rows'
    BY <1>21 DEF Control, Rows, Processes, PublishDirectly
  <2>3. Copies'
    BY <1>21 DEF Control, Rows, Copies, Publishing, Processes, Contents, PublishDirectly
  <2> QED
    BY <2>1, <2>2, <2>3
<1>22. ASSUME NEW q \in Requests, ReadPointer(q) PROVE Types'
  <2>1. Control'
    BY <1>22 DEF Control, Processes, Steps, Publishing, ReadPointer
  <2>2. Rows'
    BY <1>22 DEF Control, Rows, Processes, ReadPointer
  <2>3. Copies'
    BY <1>22 DEF Control, Rows, Copies, Publishing, Processes, Contents, ReadPointer
  <2> QED
    BY <2>1, <2>2, <2>3
<1>23. ASSUME NEW q \in Requests, LoadSnapshot(q) PROVE Types'
  <2>1. Control'
    BY <1>23 DEF Control, Processes, Steps, Publishing, LoadSnapshot
  <2>2. Rows'
    BY <1>23 DEF Control, Rows, Processes, LoadSnapshot
  <2>3. Copies'
    <3>1. pointer[q] \in Versions
      BY <1>23 DEF LoadSnapshot, Copies, Versions
    <3> QED
      BY <1>23, <3>1 DEF Copies, LoadSnapshot
  <2> QED
    BY <2>1, <2>2, <2>3
<1>24. ASSUME NEW key \in {"payload", "manifest"} \X Versions, KeyExpires(key) PROVE Types'
  <2>1. Control'
    BY <1>24 DEF Control, Processes, Steps, Publishing, KeyExpires
  <2>2. Rows'
    BY <1>24 DEF Control, Rows, Processes, KeyExpires
  <2>3. Copies'
    BY <1>24 DEF Control, Rows, Copies, Publishing, Processes, Contents, KeyExpires
  <2> QED
    BY <2>1, <2>2, <2>3
<1>25. ASSUME LockExpires PROVE Types'
  <2>1. Control'
    BY <1>25 DEF Control, Processes, Steps, Publishing, LockExpires, Fault, faultVars
  <2>2. Rows'
    BY <1>25 DEF Control, Rows, Processes, LockExpires, Fault, faultVars
  <2>3. Copies'
    BY <1>25 DEF Control, Rows, Copies, Publishing, Processes, Contents, LockExpires, Fault,
       faultVars
  <2> QED
    BY <2>1, <2>2, <2>3
<1>26. ASSUME RedisLoss PROVE Types'
  <2>1. Control'
    BY <1>26 DEF Control, Processes, Steps, Publishing, RedisLoss
  <2>2. Rows'
    BY <1>26 DEF Control, Rows, Processes, RedisLoss
  <2>3. Copies'
    BY <1>26 DEF Control, Rows, Copies, Publishing, Processes, Contents, RedisLoss
  <2> QED
    BY <2>1, <2>2, <2>3
<1>27. CASE UNCHANGED vars
  BY <1>27 DEF vars, Control, Rows, Copies
<1> QED
  BY <1>1, <1>2, <1>3, <1>4, <1>5, <1>6, <1>7, <1>8, <1>9, <1>10, <1>11, <1>12, <1>13, <1>14,
     <1>15, <1>16, <1>17, <1>18, <1>19, <1>20, <1>21, <1>22, <1>23, <1>24, <1>25, <1>26, <1>27
  DEF Next, PublishStep, WorkerStep, RebuildStep

(* Type correctness: whatever processes crash, calls fail, leases or keys   *)
(* expire, a process works only on a committed version.                     *)
THEOREM TypeCorrect == Spec => []TypeOK
<1>1. Spec => []Types
  BY TypesInit, TypesStep, PTL DEF Spec
<1> QED
  BY <1>1, TypesSuffice, PTL

-----------------------------------------------------------------------------
(* Lemmas: what the snapshots contain.                                      *)

(* Nothing but BeginMutation starts a mutation, and what is committed stays. *)
LEMMA RowsGrow ==
    ASSUME Types, [Next]_vars
    PROVE  /\ tables \subseteq tables'
           /\ \/ \E u \in Versions : BeginMutation(u)
              \/ \A u \in Versions : status'[u] # "none" => status[u] # "none"
<1> USE DEF Types, Rows
<1>1. ASSUME NEW u \in Versions, BeginMutation(u) PROVE tables \subseteq tables'
  BY <1>1 DEF BeginMutation
<1>2. CASE UNCHANGED <<tables, status>>
  BY <1>2
<1>3. ASSUME NEW u \in Versions, CommitMutation(u)
      PROVE  tables \subseteq tables' /\ \A x \in Versions : status'[x] # "none" => status[x] # "none"
  BY <1>3 DEF CommitMutation
<1>4. ASSUME NEW p \in Processes, MarkPublished(p) \/ MarkFailed(p)
      PROVE  tables \subseteq tables' /\ \A x \in Versions : status'[x] # "none" => status[x] # "none"
  <2>1. target[p] \in tables
    BY <1>4 DEF MarkPublished, MarkFailed, Control, Publishing, Steps
  <2> QED
    BY <1>4, <2>1 DEF MarkPublished, MarkFailed, Close
<1>5. ASSUME NEW p \in Processes, PublishStep(p), ~MarkPublished(p), ~MarkFailed(p)
      PROVE  UNCHANGED <<tables, status>>
  BY <1>5 DEF PublishStep, Load, WritePending, ComparePayload, MarkReady, Activate, Retain,
     pgVars
<1>6. ASSUME NEW p \in Processes, Crash(p) \/ CallFails(p) PROVE UNCHANGED <<tables, status>>
  BY <1>6 DEF Crash, CallFails, pgVars
<1>7. ASSUME NEW w \in Workers, WorkerStep(w) PROVE UNCHANGED <<tables, status>>
  BY <1>7 DEF WorkerStep, ClaimOutbox, TakeEvent, ReleaseOutbox, pgVars
<1>8. ASSUME NEW b \in Rebuilders, RebuildStep(b) PROVE UNCHANGED <<tables, status>>
  BY <1>8 DEF RebuildStep, Lock, ReadLatest, Inspect, Unlock, pgVars
<1>9. ASSUME NEW u \in Versions, LeaseExpires(u) \/ \E t \in Tools : PublishDirectly(t, u)
       PROVE  UNCHANGED <<tables, status>>
  BY <1>9 DEF LeaseExpires, PublishDirectly, pgVars
<1>10. ASSUME NEW q \in Requests, ReadPointer(q) \/ LoadSnapshot(q)
       PROVE  UNCHANGED <<tables, status>>
  BY <1>10 DEF ReadPointer, LoadSnapshot, pgVars
<1>11. ASSUME NEW key, KeyExpires(key) PROVE UNCHANGED <<tables, status>>
  BY <1>11 DEF KeyExpires, pgVars
<1>12. LockExpires \/ RedisLoss \/ UNCHANGED vars => UNCHANGED <<tables, status>>
  BY DEF LockExpires, RedisLoss, vars, pgVars
<1> QED
  BY <1>1, <1>2, <1>3, <1>4, <1>5, <1>6, <1>7, <1>8, <1>9, <1>10, <1>11, <1>12 DEF Next

(* A mutation that commits below a committed version is late from then on.  *)
LEMMA LateGrows ==
    ASSUME [Next]_vars
    PROVE  /\ late \subseteq late'
           /\ \A x \in tables' \ tables : (\E u \in tables : x < u) => x \in late'
<1> USE DEF pgVars
<1>1. ASSUME NEW v \in Versions, CommitMutation(v)
      PROVE  /\ late \subseteq late'
             /\ \A x \in tables' \ tables : (\E u \in tables : x < u) => x \in late'
  BY <1>1 DEF CommitMutation
<1>2. CASE UNCHANGED <<tables, late>>
  BY <1>2
<1>3. ASSUME NEW v \in Versions, BeginMutation(v) \/ LeaseExpires(v)
      PROVE  UNCHANGED <<tables, late>>
  BY <1>3 DEF BeginMutation, LeaseExpires
<1>4. ASSUME NEW p \in Processes, PublishStep(p) \/ Crash(p) \/ CallFails(p)
      PROVE  UNCHANGED <<tables, late>>
  BY <1>4 DEF PublishStep, Load, WritePending, ComparePayload, MarkReady, Activate, Retain,
     MarkPublished, MarkFailed, Close, Crash, CallFails
<1>5. ASSUME NEW w \in Workers, WorkerStep(w) PROVE UNCHANGED <<tables, late>>
  BY <1>5 DEF WorkerStep, ClaimOutbox, TakeEvent, ReleaseOutbox
<1>6. ASSUME NEW b \in Rebuilders, RebuildStep(b) PROVE UNCHANGED <<tables, late>>
  BY <1>6 DEF RebuildStep, Lock, ReadLatest, Inspect, Unlock
<1>7. ASSUME NEW t \in Tools, NEW v \in Versions, PublishDirectly(t, v)
      PROVE  UNCHANGED <<tables, late>>
  BY <1>7 DEF PublishDirectly
<1>8. ASSUME NEW q \in Requests, ReadPointer(q) \/ LoadSnapshot(q)
      PROVE  UNCHANGED <<tables, late>>
  BY <1>8 DEF ReadPointer, LoadSnapshot
<1>9. ASSUME NEW key, KeyExpires(key) PROVE UNCHANGED <<tables, late>>
  BY <1>9 DEF KeyExpires
<1>10. LockExpires \/ RedisLoss \/ UNCHANGED vars => UNCHANGED <<tables, late>>
  BY DEF LockExpires, RedisLoss, vars
<1> QED
  BY <1>1, <1>2, <1>3, <1>4, <1>5, <1>6, <1>7, <1>8, <1>9, <1>10 DEF Next

(* Every snapshot stored, written or given away is valid, contains its own *)
(* mutation and nothing uncommitted.                                        *)
LEMMA SnapshotsStep == Types /\ Snapshots /\ [Next]_vars => Snapshots'
<1> SUFFICES ASSUME Types, Snapshots, [Next]_vars PROVE Snapshots'
  OBVIOUS
<1>1. \A v, c : Fits(v, c, tables, late) => Fits(v, c, tables', late')
  <2> SUFFICES ASSUME NEW v, NEW c, Fits(v, c, tables, late), NEW x \in 1..v,
                      x \in tables', x \notin late'
               PROVE  x \in c
    BY RowsGrow DEF Fits
  <2>1. v \in tables /\ v \in Int /\ (x = v \/ x < v)
    BY PublicationAssumption DEF Fits, Types, Rows, Versions
  <2>2. x \in tables
    BY <2>1, LateGrows
  <2> QED
    BY <2>2, LateGrows DEF Fits
<1> USE DEF Snapshots, Types, pgVars, snapVars, redisVars, processVars, requestVars, faultVars
<1>2. ASSUME UNCHANGED <<payload, pc, target, loaded, pointer, answer>> PROVE Snapshots'
  BY <1>1, <1>2 DEF Stored, InHand, Given
<1>3. ASSUME NEW p \in Processes, Load(p) PROVE Snapshots'
  <2>1. Stored'
    BY <1>1, <1>3 DEF Stored, InHand, Control, Copies, Publishing, Steps, Load, Goto, Refuse
  <2>2. InHand'
    <3>1. target[p] \in tables /\ target[p] \in Versions
      BY <1>3 DEF Load, Control, Rows, Publishing, Steps
    <3>3. tables \in ValidTables => Fits(target[p], tables, tables', late')
      BY <1>3, <3>1 DEF Fits, Load, pgVars
    <3>4. \A r \in Processes \ {p} :
             pc'[r] = pc[r] /\ loaded'[r] = loaded[r] /\ target'[r] = target[r]
      BY <1>3 DEF Load, Goto, Refuse, Control, Copies
    <3>5. /\ loaded'[p] = tables /\ target'[p] = target[p]
          /\ tables \notin ValidTables => pc'[p] \in {"unlock", "reject"}
      BY <1>3 DEF Load, Goto, Refuse, Control, Copies
    <3> QED
      BY <1>1, <3>3, <3>4, <3>5 DEF InHand
  <2>3. Given'
    BY <1>1, <1>3 DEF Given, Copies, Load, Goto, Refuse
  <2> QED
    BY <2>1, <2>2, <2>3
<1>4. ASSUME NEW p \in Processes, WritePending(p) PROVE Snapshots'
  <2>1. Stored'
    BY <1>1, <1>4 DEF Stored, InHand, Control, Copies, Publishing, Steps, WritePending, Goto
  <2>2. InHand'
    BY <1>1, <1>4 DEF InHand, Control, Copies, Processes, WritePending, Goto
  <2>3. Given'
    BY <1>1, <1>4 DEF Given, Copies, WritePending, Goto
  <2> QED
    BY <2>1, <2>2, <2>3
<1>5. ASSUME NEW p \in Processes, ComparePayload(p) PROVE Snapshots'
  <2>1. Stored'
    BY <1>1, <1>5 DEF Stored, InHand, Control, Copies, Publishing, Steps, ComparePayload, Goto,
       Refuse
  <2>2. InHand'
    BY <1>1, <1>5 DEF InHand, Control, Copies, Processes, ComparePayload, Goto, Refuse
  <2>3. Given'
    BY <1>1, <1>5 DEF Given, Copies, ComparePayload, Goto, Refuse
  <2> QED
    BY <2>1, <2>2, <2>3
<1>6. ASSUME NEW p \in Processes, MarkReady(p) PROVE Snapshots'
  <2>1. Stored'
    BY <1>1, <1>6 DEF Stored, InHand, Control, Copies, Publishing, Steps, MarkReady, Goto,
       Refuse, Abandon
  <2>2. InHand'
    BY <1>1, <1>6 DEF InHand, Control, Copies, Processes, MarkReady, Goto, Refuse, Abandon
  <2>3. Given'
    BY <1>1, <1>6 DEF Given, Copies, MarkReady, Goto, Refuse, Abandon
  <2> QED
    BY <2>1, <2>2, <2>3
<1>7. ASSUME NEW p \in Processes, Activate(p) PROVE Snapshots'
  <2>1. Stored'
    BY <1>1, <1>7 DEF Stored, InHand, Control, Copies, Publishing, Steps, Activate, Goto,
       Refuse, Abandon
  <2>2. InHand'
    BY <1>1, <1>7 DEF InHand, Control, Copies, Processes, Activate, Goto, Refuse, Abandon
  <2>3. Given'
    BY <1>1, <1>7 DEF Given, Copies, Activate, Goto, Refuse, Abandon
  <2> QED
    BY <2>1, <2>2, <2>3
<1>8. ASSUME NEW p \in Processes, Retain(p) PROVE Snapshots'
  <2>1. Stored'
    BY <1>1, <1>8 DEF Stored, InHand, Control, Copies, Publishing, Steps, Retain, Goto
  <2>2. InHand'
    BY <1>1, <1>8 DEF InHand, Control, Copies, Processes, Retain, Goto
  <2>3. Given'
    BY <1>1, <1>8 DEF Given, Copies, Retain, Goto
  <2> QED
    BY <2>1, <2>2, <2>3
<1>9. ASSUME NEW p \in Processes, MarkPublished(p) PROVE Snapshots'
  <2>1. Stored'
    BY <1>1, <1>9 DEF Stored, InHand, Control, Copies, Publishing, Steps, MarkPublished, Close,
       Goto, Abandon
  <2>2. InHand'
    BY <1>1, <1>9 DEF InHand, Control, Copies, Processes, MarkPublished, Close, Goto, Abandon
  <2>3. Given'
    BY <1>1, <1>9 DEF Given, Copies, MarkPublished, Close, Goto, Abandon
  <2> QED
    BY <2>1, <2>2, <2>3
<1>10. ASSUME NEW p \in Processes, MarkFailed(p) PROVE Snapshots'
  <2>1. Stored'
    BY <1>1, <1>10 DEF Stored, InHand, Control, Copies, Publishing, Steps, MarkFailed, Close,
       Goto, Abandon
  <2>2. InHand'
    BY <1>1, <1>10 DEF InHand, Control, Copies, Processes, MarkFailed, Close, Goto, Abandon
  <2>3. Given'
    BY <1>1, <1>10 DEF Given, Copies, MarkFailed, Close, Goto, Abandon
  <2> QED
    BY <2>1, <2>2, <2>3
<1>11. ASSUME NEW p \in Processes, Crash(p) PROVE Snapshots'
  <2>1. Stored'
    BY <1>1, <1>11 DEF Stored, InHand, Control, Copies, Publishing, Steps, Crash, Goto
  <2>2. InHand'
    BY <1>1, <1>11 DEF InHand, Control, Copies, Processes, Crash, Goto
  <2>3. Given'
    BY <1>1, <1>11 DEF Given, Copies, Crash, Goto
  <2> QED
    BY <2>1, <2>2, <2>3
<1>12. ASSUME NEW p \in Processes, CallFails(p) PROVE Snapshots'
  <2>1. Stored'
    BY <1>1, <1>12 DEF Stored, InHand, Control, Copies, Publishing, Steps, CallFails, Abandon,
       Goto
  <2>2. InHand'
    BY <1>1, <1>12 DEF InHand, Control, Copies, Processes, CallFails, Abandon, Goto
  <2>3. Given'
    BY <1>1, <1>12 DEF Given, Copies, CallFails, Abandon, Goto
  <2> QED
    BY <2>1, <2>2, <2>3
<1>13. ASSUME NEW w \in Workers, ClaimOutbox(w) PROVE Snapshots'
  <2>1. Stored'
    BY <1>1, <1>13 DEF Stored, InHand, Control, Copies, Publishing, Steps, ClaimOutbox
  <2>2. InHand'
    BY <1>1, <1>13 DEF InHand, Control, Copies, Processes, ClaimOutbox
  <2>3. Given'
    BY <1>1, <1>13 DEF Given, Copies, ClaimOutbox
  <2> QED
    BY <2>1, <2>2, <2>3
<1>14. ASSUME NEW w \in Workers, NEW v \in Versions, TakeEvent(w, v) PROVE Snapshots'
  <2>1. Stored'
    BY <1>1, <1>14 DEF Stored, InHand, Control, Copies, Publishing, Steps, TakeEvent
  <2>2. InHand'
    BY <1>1, <1>14 DEF InHand, Control, Copies, Processes, TakeEvent
  <2>3. Given'
    BY <1>1, <1>14 DEF Given, Copies, TakeEvent
  <2> QED
    BY <2>1, <2>2, <2>3
<1>15. ASSUME NEW w \in Workers, ReleaseOutbox(w) PROVE Snapshots'
  <2>1. Stored'
    BY <1>1, <1>15 DEF Stored, InHand, Control, Copies, Publishing, Steps, ReleaseOutbox, Goto
  <2>2. InHand'
    BY <1>1, <1>15 DEF InHand, Control, Copies, Processes, ReleaseOutbox, Goto
  <2>3. Given'
    BY <1>1, <1>15 DEF Given, Copies, ReleaseOutbox, Goto
  <2> QED
    BY <2>1, <2>2, <2>3
<1>16. ASSUME NEW b \in Rebuilders, Lock(b) PROVE Snapshots'
  <2>1. Stored'
    BY <1>1, <1>16 DEF Stored, InHand, Control, Copies, Publishing, Steps, Lock
  <2>2. InHand'
    BY <1>1, <1>16 DEF InHand, Control, Copies, Processes, Lock
  <2>3. Given'
    BY <1>1, <1>16 DEF Given, Copies, Lock
  <2> QED
    BY <2>1, <2>2, <2>3
<1>17. ASSUME NEW b \in Rebuilders, ReadLatest(b) PROVE Snapshots'
  <2>1. Stored'
    BY <1>1, <1>17 DEF Stored, InHand, Control, Copies, Publishing, Steps, ReadLatest
  <2>2. InHand'
    BY <1>1, <1>17 DEF InHand, Control, Copies, Processes, ReadLatest
  <2>3. Given'
    BY <1>1, <1>17 DEF Given, Copies, ReadLatest
  <2> QED
    BY <2>1, <2>2, <2>3
<1>18. ASSUME NEW b \in Rebuilders, Inspect(b) PROVE Snapshots'
  <2>1. Stored'
    BY <1>1, <1>18 DEF Stored, InHand, Control, Copies, Publishing, Steps, Inspect
  <2>2. InHand'
    <3>1. target[b] \in Versions /\ b \in Processes
      BY <1>18 DEF Inspect, Control, Rows, Publishing, Steps, Processes
    <3>2. CASE payload[target[b]] = None \/ active = target[b]
      BY <1>1, <1>18, <3>1, <3>2 DEF InHand, Inspect, Control
    <3>3. CASE payload[target[b]] # None /\ active # target[b]
      <4>1. Fits(target[b], payload[target[b]], tables', late')
        BY <1>1, <3>1, <3>3 DEF Stored
      <4>2. /\ loaded' = [loaded EXCEPT ![b] = payload[target[b]]]
            /\ pc' = [pc EXCEPT ![b] = "ready"] /\ target' = target
        BY <1>18, <3>3 DEF Inspect
      <4> QED
        BY <1>1, <3>1, <4>1, <4>2 DEF InHand, Control, Copies
    <3> QED
      BY <3>2, <3>3
  <2>3. Given'
    BY <1>1, <1>18 DEF Given, Copies, Inspect
  <2> QED
    BY <2>1, <2>2, <2>3
<1>19. ASSUME NEW b \in Rebuilders, Unlock(b) PROVE Snapshots'
  <2>1. Stored'
    BY <1>1, <1>19 DEF Stored, InHand, Control, Copies, Publishing, Steps, Unlock, Goto
  <2>2. InHand'
    BY <1>1, <1>19 DEF InHand, Control, Copies, Processes, Unlock, Goto
  <2>3. Given'
    BY <1>1, <1>19 DEF Given, Copies, Unlock, Goto
  <2> QED
    BY <2>1, <2>2, <2>3
<1>20. ASSUME NEW t \in Tools, NEW v \in Versions, PublishDirectly(t, v) PROVE Snapshots'
  <2>1. Stored'
    BY <1>1, <1>20 DEF Stored, InHand, Control, Copies, Publishing, Steps, PublishDirectly
  <2>2. InHand'
    BY <1>1, <1>20 DEF InHand, Control, Copies, Processes, PublishDirectly
  <2>3. Given'
    BY <1>1, <1>20 DEF Given, Copies, PublishDirectly
  <2> QED
    BY <2>1, <2>2, <2>3
<1>21. ASSUME NEW q \in Requests, ReadPointer(q) PROVE Snapshots'
  <2>1. Stored'
    BY <1>1, <1>21 DEF Stored, InHand, Control, Copies, Publishing, Steps, ReadPointer
  <2>2. InHand'
    BY <1>1, <1>21 DEF InHand, Control, Copies, Processes, ReadPointer
  <2>3. Given'
    BY <1>1, <1>21 DEF Given, Copies, ReadPointer
  <2> QED
    BY <2>1, <2>2, <2>3
<1>22. ASSUME NEW q \in Requests, LoadSnapshot(q) PROVE Snapshots'
  <2>1. Stored'
    BY <1>1, <1>22 DEF Stored, InHand, Control, Copies, Publishing, Steps, LoadSnapshot
  <2>2. InHand'
    BY <1>1, <1>22 DEF InHand, Control, Copies, Processes, LoadSnapshot
  <2>3. Given'
    <3>1. pointer[q] \in Versions
      BY <1>22 DEF LoadSnapshot, Copies, Versions
    <3>2. payload[pointer[q]] # None => Fits(pointer[q], payload[pointer[q]], tables', late')
      BY <1>1, <3>1 DEF Stored
    <3> QED
      BY <1>1, <1>22, <3>2 DEF Given, Copies, LoadSnapshot
  <2> QED
    BY <2>1, <2>2, <2>3
<1>23. ASSUME NEW key \in {"payload", "manifest"} \X Versions, KeyExpires(key) PROVE Snapshots'
  <2>1. Stored'
    BY <1>1, <1>23 DEF Stored, InHand, Control, Copies, Publishing, Steps, KeyExpires
  <2>2. InHand'
    BY <1>1, <1>23 DEF InHand, Control, Copies, Processes, KeyExpires
  <2>3. Given'
    BY <1>1, <1>23 DEF Given, Copies, KeyExpires
  <2> QED
    BY <2>1, <2>2, <2>3
<1>24. CASE RedisLoss
  BY <1>1, <1>24 DEF RedisLoss, Stored, InHand, Given
<1>25. ASSUME NEW v \in Versions, BeginMutation(v) \/ CommitMutation(v) \/ LeaseExpires(v)
      PROVE  Snapshots'
  BY <1>2, <1>25 DEF BeginMutation, CommitMutation, LeaseExpires
<1>26. CASE LockExpires \/ UNCHANGED vars
  BY <1>2, <1>26 DEF LockExpires, vars
<1> QED
  BY <1>3, <1>4, <1>5, <1>6, <1>7, <1>8, <1>9, <1>10, <1>11, <1>12, <1>13, <1>14, <1>15, <1>16,
     <1>17, <1>18, <1>19, <1>20, <1>21, <1>22, <1>23, <1>24, <1>25, <1>26
  DEF Next, PublishStep, WorkerStep, RebuildStep

-----------------------------------------------------------------------------
(* Lemmas: what Redis keeps, as long as it is not flushed.                  *)

LEMMA KeyExpiry ==
    ASSUME Types, NEW key \in {"payload", "manifest"} \X Versions, KeyExpires(key),
           NEW u \in Versions \ {key[2]}
    PROVE  payload'[u] = payload[u] /\ manifest'[u] = manifest[u]
<1>1. CASE key[1] = "payload"
  BY <1>1 DEF KeyExpires, Types, Copies
<1>2. CASE key[1] # "payload"
  BY <1>2 DEF KeyExpires, Types, Copies
<1> QED
  BY <1>1, <1>2

LEMMA KeptStep == Types /\ Snapshots /\ Kept /\ [Next]_vars => Kept'
<1> SUFFICES ASSUME Types, Snapshots, Kept, [Next]_vars, losses' = 0
             PROVE  Activated' /\ Marked' /\ Sound'
  BY DEF Kept
<1> USE PublicationAssumption
     DEF Types, Versions, pgVars, snapVars, redisVars, processVars, requestVars, faultVars
<1>1. losses = 0 /\ ~RedisLoss
  <2>1. ASSUME NEW v \in Versions, LeaseExpires(v) PROVE UNCHANGED losses
    BY <2>1 DEF LeaseExpires, Fault
  <2>2. ASSUME NEW p \in Processes, PublishStep(p) PROVE UNCHANGED losses
    BY <2>2 DEF PublishStep, Load, WritePending, ComparePayload, MarkReady, Activate, Retain,
                MarkPublished, MarkFailed, Close
  <2>3. ASSUME NEW p \in Processes, Crash(p) \/ CallFails(p) PROVE UNCHANGED losses
    BY <2>3 DEF Crash, CallFails, Fault
  <2>4. ~RedisLoss
    BY DEF RedisLoss, Rows
  <2>5. [Next]_vars /\ ~RedisLoss => UNCHANGED losses
    BY <2>1, <2>2, <2>3
    DEF Next, vars, BeginMutation, CommitMutation, WorkerStep, ClaimOutbox, TakeEvent,
        ReleaseOutbox, RebuildStep, Lock, ReadLatest, Inspect, Unlock, PublishDirectly,
        ReadPointer, LoadSnapshot, KeyExpires, LockExpires, Fault
  <2> QED
    BY <2>4, <2>5
<1>2. Activated /\ Marked /\ Sound
  BY <1>1 DEF Kept
<1>3. ASSUME UNCHANGED <<payload, manifest, fading, active>> PROVE Sound'
  BY <1>2, <1>3 DEF Sound
<1>4. ASSUME NEW p \in Processes, Load(p) PROVE Activated' /\ Marked' /\ Sound'
  <2>1. Activated'
    BY <1>2, <1>4 DEF Activated, Control, Copies, Processes, Load, Goto, Refuse
  <2>2. Marked'
    BY <1>2, <1>4 DEF Marked, Published, Control, Rows, Copies, Load, Goto, Refuse
  <2>3. Sound'
    BY <1>3, <1>4 DEF Load
  <2> QED
    BY <2>1, <2>2, <2>3
<1>5. ASSUME NEW p \in Processes, WritePending(p) PROVE Activated' /\ Marked' /\ Sound'
  <2>1. Activated'
    BY <1>2, <1>5 DEF Activated, Control, Copies, Processes, WritePending, Goto
  <2>2. Marked'
    BY <1>2, <1>5 DEF Marked, Published, Control, Rows, Copies, WritePending, Goto
  <2>3. Sound'
    <3> DEFINE v == target[p]
    <3>1. v \in Versions
      BY <1>5 DEF WritePending, Control, Rows, Publishing, Steps
    <3>2. UNCHANGED <<manifest, fading, active>>
      BY <1>5 DEF WritePending
    <3>3. CASE payload[v] # None
      BY <1>3, <1>5, <3>2, <3>3 DEF WritePending
    <3>4. CASE payload[v] = None
      <4>1. payload' = [payload EXCEPT ![v] = loaded[p]]
        BY <1>5, <3>4 DEF WritePending
      <4>2. v >= active => manifest[v] = None
        BY <1>2, <3>1, <3>4 DEF Sound
      <4>3. active # 0 => active # v
        BY <1>2, <3>4 DEF Sound
      <4> QED
        BY <1>2, <3>1, <3>2, <4>1, <4>2, <4>3 DEF Sound, Copies
    <3> QED
      BY <3>3, <3>4
  <2> QED
    BY <2>1, <2>2, <2>3
<1>6. ASSUME NEW p \in Processes, ComparePayload(p) PROVE Activated' /\ Marked' /\ Sound'
  <2>1. Activated'
    BY <1>2, <1>6 DEF Activated, Control, Copies, Processes, ComparePayload, Goto, Refuse
  <2>2. Marked'
    BY <1>2, <1>6 DEF Marked, Published, Control, Rows, Copies, ComparePayload, Goto, Refuse
  <2>3. Sound'
    BY <1>3, <1>6 DEF ComparePayload
  <2> QED
    BY <2>1, <2>2, <2>3
<1>7. ASSUME NEW p \in Processes, MarkReady(p) PROVE Activated' /\ Marked' /\ Sound'
  <2>1. Activated'
    BY <1>2, <1>7 DEF Activated, Control, Copies, Processes, MarkReady, Goto, Refuse, Abandon
  <2>2. Marked'
    BY <1>2, <1>7 DEF Marked, Published, Control, Rows, Copies, MarkReady, Goto, Refuse, Abandon
  <2>3. Sound'
    <3> DEFINE v == target[p]
    <3>1. v \in Versions
      BY <1>7 DEF MarkReady, Control, Rows, Publishing, Steps
    <3>2. UNCHANGED <<payload, fading, active>>
      BY <1>7 DEF MarkReady
    <3>3. \/ UNCHANGED manifest
          \/ manifest' = [manifest EXCEPT ![v] = loaded[p]] /\ payload[v] = loaded[p]
      BY <1>7 DEF MarkReady
    <3>4. CASE UNCHANGED manifest
      BY <1>3, <3>2, <3>4
    <3>5. CASE manifest' = [manifest EXCEPT ![v] = loaded[p]] /\ payload[v] = loaded[p]
      <4>1. \A x \in Versions : manifest'[x] = IF x = v THEN payload[v] ELSE manifest[x]
        BY <3>1, <3>5 DEF Copies
      <4>2. active # 0 => active \in Versions
        BY PublicationAssumption DEF Copies, Versions
      <4> QED
        BY <1>2, <3>2, <4>1, <4>2 DEF Sound
    <3> QED
      BY <3>3, <3>4, <3>5
  <2> QED
    BY <2>1, <2>2, <2>3
<1>8. ASSUME NEW p \in Processes, Activate(p) PROVE Activated' /\ Marked' /\ Sound'
  <2>1. Activated'
    BY <1>2, <1>8 DEF Activated, Control, Copies, Processes, Activate, Goto, Refuse, Abandon
  <2>2. Marked'
    BY <1>2, <1>8 DEF Marked, Published, Control, Rows, Copies, Activate, Goto, Refuse, Abandon
  <2>3. Sound'
    BY <1>2, <1>8 DEF Sound, Activated, Control, Copies, Activate, Goto, Refuse, Abandon
  <2> QED
    BY <2>1, <2>2, <2>3
<1>9. ASSUME NEW p \in Processes, Retain(p) PROVE Activated' /\ Marked' /\ Sound'
  <2>1. Activated'
    BY <1>2, <1>9 DEF Activated, Control, Copies, Processes, Retain, Goto
  <2>2. Marked'
    BY <1>2, <1>9 DEF Marked, Published, Control, Rows, Copies, Retain, Goto
  <2>3. Sound'
    BY <1>2, <1>9 DEF Sound, Activated, Control, Copies, Retain, Goto
  <2> QED
    BY <2>1, <2>2, <2>3
<1>10. ASSUME NEW p \in Processes, MarkPublished(p) PROVE Activated' /\ Marked' /\ Sound'
  <2>1. Activated'
    BY <1>2, <1>10 DEF Activated, Control, Copies, Processes, MarkPublished, Close, Goto,
       Abandon
  <2>2. Marked'
    <3>1. target[p] <= active /\ active' = active
      BY <1>2, <1>10 DEF MarkPublished, Close, Activated
    <3>2. Published' \subseteq Published \union {target[p]}
      BY <1>10 DEF MarkPublished, Close, Published, Rows
    <3> QED
      BY <1>2, <3>1, <3>2 DEF Marked
  <2>3. Sound'
    BY <1>3, <1>10 DEF MarkPublished, Close
  <2> QED
    BY <2>1, <2>2, <2>3
<1>11. ASSUME NEW p \in Processes, MarkFailed(p) PROVE Activated' /\ Marked' /\ Sound'
  <2>1. Activated'
    BY <1>2, <1>11 DEF Activated, Control, Copies, Processes, MarkFailed, Close, Goto, Abandon
  <2>2. Marked'
    BY <1>2, <1>11 DEF Marked, Published, Control, Rows, Copies, MarkFailed, Close, Goto,
       Abandon
  <2>3. Sound'
    BY <1>3, <1>11 DEF MarkFailed, Close
  <2> QED
    BY <2>1, <2>2, <2>3
<1>12. ASSUME NEW p \in Processes, Crash(p) PROVE Activated' /\ Marked' /\ Sound'
  <2>1. Activated'
    BY <1>2, <1>12 DEF Activated, Control, Copies, Processes, Crash, Goto
  <2>2. Marked'
    BY <1>2, <1>12 DEF Marked, Published, Control, Rows, Copies, Crash, Goto
  <2>3. Sound'
    BY <1>3, <1>12 DEF Crash
  <2> QED
    BY <2>1, <2>2, <2>3
<1>13. ASSUME NEW p \in Processes, CallFails(p) PROVE Activated' /\ Marked' /\ Sound'
  <2>1. Activated'
    BY <1>2, <1>13 DEF Activated, Control, Copies, Processes, CallFails, Abandon, Goto
  <2>2. Marked'
    BY <1>2, <1>13 DEF Marked, Published, Control, Rows, Copies, CallFails, Abandon, Goto
  <2>3. Sound'
    BY <1>3, <1>13 DEF CallFails
  <2> QED
    BY <2>1, <2>2, <2>3
<1>14. ASSUME NEW w \in Workers, ClaimOutbox(w) PROVE Activated' /\ Marked' /\ Sound'
  <2>1. Activated'
    BY <1>2, <1>14 DEF Activated, Control, Copies, Processes, ClaimOutbox
  <2>2. Marked'
    BY <1>2, <1>14 DEF Marked, Published, Control, Rows, Copies, ClaimOutbox
  <2>3. Sound'
    BY <1>3, <1>14 DEF ClaimOutbox
  <2> QED
    BY <2>1, <2>2, <2>3
<1>15. ASSUME NEW w \in Workers, NEW v \in Versions, TakeEvent(w, v) PROVE Activated' /\ Marked' /\ Sound'
  <2>1. Activated'
    BY <1>2, <1>15 DEF Activated, Control, Copies, Processes, TakeEvent
  <2>2. Marked'
    BY <1>2, <1>15 DEF Marked, Published, Control, Rows, Copies, TakeEvent
  <2>3. Sound'
    BY <1>3, <1>15 DEF TakeEvent
  <2> QED
    BY <2>1, <2>2, <2>3
<1>16. ASSUME NEW w \in Workers, ReleaseOutbox(w) PROVE Activated' /\ Marked' /\ Sound'
  <2>1. Activated'
    BY <1>2, <1>16 DEF Activated, Control, Copies, Processes, ReleaseOutbox, Goto
  <2>2. Marked'
    BY <1>2, <1>16 DEF Marked, Published, Control, Rows, Copies, ReleaseOutbox, Goto
  <2>3. Sound'
    BY <1>3, <1>16 DEF ReleaseOutbox
  <2> QED
    BY <2>1, <2>2, <2>3
<1>17. ASSUME NEW b \in Rebuilders, Lock(b) PROVE Activated' /\ Marked' /\ Sound'
  <2>1. Activated'
    BY <1>2, <1>17 DEF Activated, Control, Copies, Processes, Lock
  <2>2. Marked'
    BY <1>2, <1>17 DEF Marked, Published, Control, Rows, Copies, Lock
  <2>3. Sound'
    BY <1>3, <1>17 DEF Lock
  <2> QED
    BY <2>1, <2>2, <2>3
<1>18. ASSUME NEW b \in Rebuilders, ReadLatest(b) PROVE Activated' /\ Marked' /\ Sound'
  <2>1. Activated'
    BY <1>2, <1>18 DEF Activated, Control, Copies, Processes, ReadLatest
  <2>2. Marked'
    BY <1>2, <1>18 DEF Marked, Published, Control, Rows, Copies, ReadLatest
  <2>3. Sound'
    BY <1>3, <1>18 DEF ReadLatest
  <2> QED
    BY <2>1, <2>2, <2>3
<1>19. ASSUME NEW b \in Rebuilders, Inspect(b) PROVE Activated' /\ Marked' /\ Sound'
  <2>1. Activated'
    BY <1>2, <1>19 DEF Activated, Control, Copies, Processes, Inspect
  <2>2. Marked'
    BY <1>2, <1>19 DEF Marked, Published, Control, Rows, Copies, Inspect
  <2>3. Sound'
    BY <1>3, <1>19 DEF Inspect
  <2> QED
    BY <2>1, <2>2, <2>3
<1>20. ASSUME NEW b \in Rebuilders, Unlock(b) PROVE Activated' /\ Marked' /\ Sound'
  <2>1. Activated'
    BY <1>2, <1>20 DEF Activated, Control, Copies, Processes, Unlock, Goto
  <2>2. Marked'
    BY <1>2, <1>20 DEF Marked, Published, Control, Rows, Copies, Unlock, Goto
  <2>3. Sound'
    BY <1>3, <1>20 DEF Unlock
  <2> QED
    BY <2>1, <2>2, <2>3
<1>21. ASSUME NEW t \in Tools, NEW v \in Versions, PublishDirectly(t, v) PROVE Activated' /\ Marked' /\ Sound'
  <2>1. Activated'
    BY <1>2, <1>21 DEF Activated, Control, Copies, Processes, PublishDirectly
  <2>2. Marked'
    BY <1>2, <1>21 DEF Marked, Published, Control, Rows, Copies, PublishDirectly
  <2>3. Sound'
    BY <1>3, <1>21 DEF PublishDirectly
  <2> QED
    BY <2>1, <2>2, <2>3
<1>22. ASSUME NEW key \in {"payload", "manifest"} \X Versions, KeyExpires(key) PROVE Activated' /\ Marked' /\ Sound'
  <2>1. Activated'
    BY <1>2, <1>22 DEF Activated, Control, Copies, Processes, KeyExpires
  <2>2. Marked'
    BY <1>2, <1>22 DEF Marked, Published, Control, Rows, Copies, KeyExpires
  <2>3. Sound'
    <3>1. key[2] < active /\ key[2] \in Versions
      BY <1>2, <1>22 DEF KeyExpires, Sound
    <3>2. /\ active' = active /\ fading' \subseteq fading
          /\ \A u \in Versions \ {key[2]} : payload'[u] = payload[u] /\ manifest'[u] = manifest[u]
      BY <1>22, KeyExpiry DEF KeyExpires
    <3>3. \A u \in Versions : u >= active => u # key[2]
      BY <3>1 DEF Copies
    <3>4. active # 0 => active \in Versions
      BY DEF Copies
    <3>5. \A u \in Versions : u >= active => manifest'[u] \in {None, payload'[u]}
      BY <1>2, <3>2, <3>3 DEF Sound
    <3>6. active # 0 => payload'[active] # None /\ manifest'[active] = payload'[active]
      BY <1>2, <3>2, <3>3, <3>4 DEF Sound
    <3> QED
      BY <1>2, <3>2, <3>5, <3>6 DEF Sound
  <2> QED
    BY <2>1, <2>2, <2>3
<1>23. ASSUME NEW v \in Versions, BeginMutation(v) \/ CommitMutation(v) \/ LeaseExpires(v)
      PROVE  Activated' /\ Marked' /\ Sound'
  <2>1. Published' \subseteq Published
    BY <1>23 DEF BeginMutation, CommitMutation, LeaseExpires, Published, Rows
  <2> QED
    BY <1>2, <1>3, <1>23, <2>1 DEF BeginMutation, CommitMutation, LeaseExpires, Activated,
       Marked
<1>24. ASSUME NEW q \in Requests, ReadPointer(q) \/ LoadSnapshot(q)
      PROVE  Activated' /\ Marked' /\ Sound'
  BY <1>2, <1>3, <1>24 DEF ReadPointer, LoadSnapshot, Activated, Marked, Published
<1>25. CASE LockExpires \/ UNCHANGED vars
  BY <1>2, <1>3, <1>25 DEF LockExpires, vars, Activated, Marked, Published
<1> QED
  BY <1>1, <1>4, <1>5, <1>6, <1>7, <1>8, <1>9, <1>10, <1>11, <1>12, <1>13, <1>14, <1>15, <1>16,
     <1>17, <1>18, <1>19, <1>20, <1>21, <1>22, <1>23, <1>24, <1>25
  DEF Next, PublishStep, WorkerStep, RebuildStep

LEMMA Invariance == Spec => []IInv
<1>1. Init => IInv
  <2>1. Init => Snapshots /\ Kept
    BY PublicationAssumption
    DEF Init, Snapshots, Stored, InHand, Given, Kept, Activated, Marked, Published,
        Sound, Versions
  <2> QED
    BY <2>1, TypesInit DEF IInv
<1>2. IInv /\ [Next]_vars => IInv'
  BY TypesStep, SnapshotsStep, KeptStep DEF IInv
<1> QED
  BY <1>1, <1>2, PTL DEF Spec

-----------------------------------------------------------------------------
(* Theorems.                                                                *)

(* A request is never given tables that _validate refused or that lack the  *)
(* mutation of the version it read: not by a rebuild that writes a snapshot *)
(* from newer tables, not after keys expired or Redis was flushed.          *)
THEOREM ValidAnswers == Spec => []RequestsSeeValid
<1>1. IInv => RequestsSeeValid
  BY DEF IInv, Snapshots, Given, Fits, RequestsSeeValid
<1> QED
  BY <1>1, Invariance, PTL

(* While Redis keeps its data, the snapshot the pointer names is there and  *)
(* is what its manifest declares, however many workers, rebuilds and tools  *)
(* publish, retain and delete snapshots at once.                            *)
THEOREM ReadyPointer == Spec => []ActiveIsReady
<1>1. IInv => ActiveIsReady
  BY DEF IInv, Kept, Sound, ActiveIsReady
<1> QED
  BY <1>1, Invariance, PTL

(* PostgreSQL never calls a version published before the pointer reached it.*)
THEOREM ActivatedBeforePublished == Spec => []PublishedIsActivated
<1>1. IInv => PublishedIsActivated
  BY DEF IInv, Kept, Marked, PublishedIsActivated
<1> QED
  BY <1>1, Invariance, PTL

(* However many mutation transactions are open at once: a version that      *)
(* committed before every higher one is, once published, contained in what  *)
(* is served.                                                               *)
THEOREM ServedUnlessLate == Spec => []PublishedIsServedUnlessLate
<1>1. IInv => PublishedIsServedUnlessLate
  <2> SUFFICES ASSUME IInv, losses = 0, NEW v \in Published, v \notin late
               PROVE  active # 0 /\ v \in payload[active]
    BY DEF PublishedIsServedUnlessLate
  <2>1. v \in Versions /\ v <= active /\ v \in tables
    BY DEF IInv, Kept, Marked, Published, Types, Rows
  <2>2. active \in Versions /\ payload[active] # None
    BY <2>1, PublicationAssumption DEF IInv, Types, Copies, Kept, Sound, Versions
  <2>3. ((1..active) \intersect tables) \ late \subseteq payload[active]
    BY <2>2 DEF IInv, Snapshots, Stored, Fits
  <2> QED
    BY <2>1, <2>2, <2>3, PublicationAssumption DEF Versions
<1> QED
  BY <1>1, Invariance, PTL

(* Publication implements RoutingConfiguration as long as Redis keeps its   *)
(* data: committing a mutation is a change, moving the pointer serves a     *)
(* later version with valid, committed tables that contain it, and no other *)
(* step, retention and expiry included, alters what is served.              *)
THEOREM ImplementsRoutingConfiguration == Spec /\ [](losses = 0) => ConfigSpec
<1>1. Init => Config!Init
  BY DEF Init, Config!Init, Served
<1>2. IInv /\ losses = 0 /\ (losses = 0)' /\ [Next]_vars
      => [Config!Next]_<<tables, active, Served>>
  <2> SUFFICES ASSUME IInv, losses = 0, losses' = 0, [Next]_vars
               PROVE  [Config!Next]_<<tables, active, Served>>
    OBVIOUS
  <2> USE DEF IInv, Types, Served, pgVars, snapVars, redisVars, processVars, requestVars,
              faultVars
  <2>1. active \in Versions \union {0} /\ (active # 0 => payload[active] # None)
    BY PublicationAssumption DEF Copies, Kept, Sound, Versions
  <2>2. CASE UNCHANGED <<tables, active, payload>>
    BY <2>2
  <2>3. ASSUME NEW v \in Versions, CommitMutation(v) PROVE Config!Next
    <3>1. v \notin tables
      BY <2>3 DEF CommitMutation, Rows
    <3>2. Config!Change(v)
      BY <2>3, <3>1 DEF CommitMutation, Config!Change
    <3> QED
      BY <3>2 DEF Config!Next
  <2>4. ASSUME NEW p \in Processes, Activate(p) PROVE [Config!Next]_<<tables, active, Served>>
    <3> DEFINE v == target[p]
    <3>1. v \in Versions /\ UNCHANGED <<tables, payload, manifest>>
      BY <2>4 DEF Activate, Control, Rows, Publishing, Steps
    <3>2. CASE active' = active
      BY <3>1, <3>2
    <3>3. CASE active' # active
      <4>1. active' = v /\ v > active /\ manifest[v] = loaded[p] /\ manifest[v] # None
        BY <2>1, <2>4, <3>1, <3>3, PublicationAssumption DEF Activate, Versions
      <4>2. payload[v] = loaded[p]
        BY <2>1, <3>1, <4>1, PublicationAssumption DEF Kept, Sound, Versions
      <4>3. Fits(v, loaded[p], tables, late)
        BY <2>4 DEF Activate, Snapshots, InHand
      <4>4. Config!Serve(v, loaded[p])
        BY <3>1, <4>1, <4>2, <4>3, PublicationAssumption DEF Config!Serve, Fits, Versions
      <4> QED
        BY <3>1, <4>3, <4>4 DEF Config!Next, Fits
    <3> QED
      BY <3>2, <3>3
  <2>5. ASSUME NEW p \in Processes, WritePending(p) PROVE UNCHANGED <<tables, active, Served>>
    BY <2>1, <2>5, PublicationAssumption DEF WritePending, Copies, Versions
  <2>6. ASSUME NEW p \in Processes, Retain(p) PROVE UNCHANGED <<tables, active, Served>>
    <3>1. target[p] <= active /\ target[p] \in Versions
      BY <2>6 DEF Retain, Kept, Activated, Control, Rows, Publishing, Steps
    <3>2. UNCHANGED <<tables, active>>
      BY <2>6 DEF Retain
    <3>3. active \in Versions => payload'[active] = payload[active]
      BY <2>6, <3>1 DEF Retain, Versions
    <3> QED
      BY <2>1, <3>2, <3>3
  <2>7. ASSUME NEW key \in {"payload", "manifest"} \X Versions, KeyExpires(key)
        PROVE  UNCHANGED <<tables, active, Served>>
    <3>1. key[2] < active /\ UNCHANGED <<tables, active>>
      BY <2>7 DEF KeyExpires, Kept, Sound
    <3>2. active # 0 => active \in Versions \ {key[2]}
      BY <2>1, <2>7, <3>1, PublicationAssumption DEF Versions
    <3>3. active # 0 => payload'[active] = payload[active]
      BY <2>7, <3>2, KeyExpiry
    <3> QED
      BY <3>1, <3>3
  <2>8. ASSUME NEW v \in Versions, BeginMutation(v) \/ LeaseExpires(v)
        PROVE  UNCHANGED <<tables, active, payload>>
    BY <2>8 DEF BeginMutation, LeaseExpires
  <2>9. ASSUME NEW p \in Processes,
               \/ Load(p) \/ ComparePayload(p) \/ MarkReady(p)
               \/ MarkPublished(p) \/ MarkFailed(p)
               \/ Crash(p) \/ CallFails(p)
        PROVE  UNCHANGED <<tables, active, payload>>
    BY <2>9 DEF Load, ComparePayload, MarkReady, MarkPublished, MarkFailed, Close, Crash,
       CallFails
  <2>10. ASSUME NEW w \in Workers, WorkerStep(w) PROVE UNCHANGED <<tables, active, payload>>
    BY <2>10 DEF WorkerStep, ClaimOutbox, TakeEvent, ReleaseOutbox
  <2>11. ASSUME NEW b \in Rebuilders, RebuildStep(b) PROVE UNCHANGED <<tables, active, payload>>
    BY <2>11 DEF RebuildStep, Lock, ReadLatest, Inspect, Unlock
  <2>12. ASSUME NEW t \in Tools, NEW v \in Versions, PublishDirectly(t, v)
         PROVE  UNCHANGED <<tables, active, payload>>
    BY <2>12 DEF PublishDirectly
  <2>13. ASSUME NEW q \in Requests, ReadPointer(q) \/ LoadSnapshot(q)
         PROVE  UNCHANGED <<tables, active, payload>>
    BY <2>13 DEF ReadPointer, LoadSnapshot
  <2>14. LockExpires \/ UNCHANGED vars => UNCHANGED <<tables, active, payload>>
    BY DEF LockExpires, vars
  <2>15. ~RedisLoss
    BY DEF RedisLoss
  <2> QED
    BY <2>2, <2>3, <2>4, <2>5, <2>6, <2>7, <2>8, <2>9, <2>10, <2>11, <2>12, <2>13,
       <2>14, <2>15
    DEF Next, PublishStep
<1> QED
  BY <1>1, <1>2, Invariance, PTL DEF Spec, ConfigSpec, Config!Spec

-----------------------------------------------------------------------------
(* The administration of the configuration.                                *)

\* Requests of administrators keep their form; only seeds go on with others.
Asked(o) ==
    o.request.do # "seed" =>
       o.request.id \in Ids /\ o.request \in RequestsTo(o.request.id) /\ o.rest = <<>>

\* A seed reads the row, then writes what differs from it; what it does not write
\* the row it read had already.
Follows(o, seed) ==
    /\ o.request \in Remainders(seed)
    /\ \/ o.reads = <<"current">> /\ o.request = seed
       \/ o.reads = <<>> /\ o.current = Absent /\ o.request = seed
       \/ /\ o.reads = <<>> /\ o.current # Absent
          /\ o.request.rotate => seed.id \in Providers
          /\ seed.id \in Candidates =>
                \A f \in DOMAIN seed.values \ DOMAIN o.request.values :
                   o.current[f] = seed.values[f]

\* Where a seed may be: at one of its document's three rows, the others to come.
Places(p, protocol, m, c) ==
    {[seed |-> ProviderSeed(p, protocol), rest |-> <<ModelSeed(m), CandidateSeed(c, m, p)>>],
     [seed |-> ModelSeed(m), rest |-> <<CandidateSeed(c, m, p)>>],
     [seed |-> CandidateSeed(c, m, p), rest |-> <<>>]}

\* The request of a seed that has still to give m its candidate.
SeedOf(o, p, protocol, m, c) ==
    \E place \in Places(p, protocol, m, c) : Follows(o, place.seed) /\ o.rest = place.rest

Seeds(o, m) ==
    /\ o.request.do = "seed"
    /\ \E p \in Providers, protocol \in Protocols, c \in Candidates : SeedOf(o, p, protocol, m, c)

Formed(o) ==
    /\ Asked(o)
    /\ o.request.do = "seed" => o.wrote = 0 /\ \E m \in Models : Seeds(o, m)

AdminTypes == AdminTypeOK /\ \A a \in Admins : UnderWay(a) => Formed(op[a])

\* A credential is sealed for the protocol of its connection.
Sealed == \A p \in Providers : rows[p] # Absent => rows[p].sealed = rows[p].protocol

\* A row with the stamp that the administrator saw is the row the administrator saw.
Shown(o) ==
    o.request.do = "patch" =>
       /\ o.seen # Absent /\ rows[o.request.id] # Absent
       /\ o.seen.stamp <= versions
       /\ rows[o.request.id].stamp = o.seen.stamp => rows[o.request.id] = o.seen

\* Between the halves of a patch nothing is read.
Half(o) ==
    o.wrote = 1 =>
       /\ o.request.do = "patch" /\ o.request.values = <<>> /\ o.reads = <<>>
       /\ o.request.id \in Providers
       /\ ~o.overlapped => Live(o.request.id) /\ rows[o.request.id] = o.seen

Marks == Sealed /\ \A a \in Admins : UnderWay(a) => Shown(op[a]) /\ Half(op[a])

\* What a request that takes a candidate away has still to read, and what others read.
Protecting ==
    {<<"model", "provider", "own model", "others">>, <<"provider", "own model", "others">>,
     <<"own model", "others">>, <<"others">>}
Referring == {<<"model", "provider">>, <<"provider">>, <<>>}

\* Another candidate serves the model, or the model is not served.
Spared(o) ==
    Active(o.current.model) => ActiveCandidates(o.current.model) \ {o.request.id} # {}

\* A request for a candidate knows its row, and that it may go, unless overlapped.
Guarded(o) ==
    o.request.do \in {"patch", "delete"} /\ o.request.id \in Candidates =>
       \/ o.reads = <<"current">>
       \/ /\ o.reads \in Protecting \cup Referring
          /\ ~o.overlapped =>
                /\ o.current = rows[o.request.id]
                /\ o.reads \in Protecting \/ ~Removes(o) \/ Spared(o)

\* A model to be activated has a candidate, unless overlapped.
Supplied(o) ==
    /\ o.request.do = "patch" /\ o.request.id \in Models
    /\ o.request.values = [status |-> "active"] /\ ~o.overlapped
    => o.reads = <<"candidates">> \/ ActiveCandidates(o.request.id) # {}

\* A seed knows the row it goes on with, unless overlapped.
Known(o) ==
    o.request.do = "seed" /\ o.current # Absent /\ ~o.overlapped => o.current = rows[o.request.id]

Seeding == {m \in Models : \E a \in Admins : UnderWay(a) /\ Seeds(op[a], m)}

Guards ==
    /\ \A a \in Admins : UnderWay(a) => Guarded(op[a]) /\ Supplied(op[a]) /\ Known(op[a])
    /\ Orphans \subseteq raced \cup Seeding

AdminIInv == AdminTypes /\ Marks /\ Guards

-----------------------------------------------------------------------------
(* What requests look like.                                                *)

\* The values are some that the fields of id may take.
Sets(id, values) ==
    /\ DOMAIN values \subseteq Fields(id)
    /\ "status" \in DOMAIN values => values.status \in Settable
    /\ "protocol" \in DOMAIN values => values.protocol \in Protocols
    /\ "aliases" \in DOMAIN values => values.aliases \in SUBSET Names
    /\ "model" \in DOMAIN values => values.model \in Models
    /\ "provider" \in DOMAIN values => values.provider \in Providers

LEMMA FieldsOf ==
    /\ \A p \in Providers : Fields(p) = {"status", "protocol"}
    /\ \A m \in Models : Fields(m) = {"status", "aliases"}
    /\ \A c \in Candidates : Fields(c) = {"status", "model", "provider"}
  BY AdministrationAssumption DEF AdministrationAssumption, Fields

LEMMA RequestForm ==
    ASSUME NEW id \in Ids, NEW r \in RequestsTo(id)
    PROVE  /\ r = Request(r.do, id, r.values, r.rotate)
           /\ r.do \in {"create", "delete", "patch"}
           /\ r.do = "create" => r.values \in NewRowsOf(id) /\ ~r.rotate
           /\ r.do = "delete" => r.values = <<>> /\ ~r.rotate
           /\ r.do = "patch" =>
                /\ r.values \in ChangesTo(id)
                /\ r.rotate \in BOOLEAN
                /\ r.rotate => id \in Providers
                /\ r.values = <<>> => r.rotate
<1> USE DEF Request
<1>1. CASE r \in {Request("create", id, w, FALSE) : w \in NewRowsOf(id)}
  BY <1>1
<1>2. CASE r = Request("delete", id, <<>>, FALSE)
  BY <1>2
<1>3. CASE r \in {Request("patch", id, c, FALSE) : c \in ChangesTo(id) \ {<<>>}}
  <2>1. PICK c \in ChangesTo(id) : c # <<>> /\ r = Request("patch", id, c, FALSE)
    BY <1>3, Zenon
  <2> QED
    BY <2>1
<1>4. CASE r \in {Request("patch", id, c, TRUE) : c \in {d \in ChangesTo(id) : id \in Providers}}
  <2>1. PICK c \in ChangesTo(id) : id \in Providers /\ r = Request("patch", id, c, TRUE)
    BY <1>4, Zenon
  <2> QED
    BY <2>1
<1> QED
  BY <1>1, <1>2, <1>3, <1>4 DEF RequestsTo

LEMMA NewRowForm ==
    /\ \A p \in Providers : NewRowsOf(p) \subseteq [status : Settable, protocol : Protocols]
    /\ \A m \in Models : NewRowsOf(m) \subseteq [status : {"disabled"}, aliases : AliasSets]
    /\ \A c \in Candidates :
         NewRowsOf(c) \subseteq [status : Settable, model : Models, provider : Providers]
  BY FieldsOf DEF NewRowsOf, NewRows

LEMMA AliasesAreNames == AliasSets \subseteq SUBSET Names
  BY DEF AliasSets

\* A patch changes one field.
LEMMA ChangeForm ==
    ASSUME NEW id \in Ids, NEW v \in ChangesTo(id)
    PROVE  /\ Sets(id, v)
           /\ "status" \in DOMAIN v => v = [status |-> v.status]
           /\ "model" \in DOMAIN v => v = [model |-> v.model]
           /\ DOMAIN v = {} => v = <<>>
<1>1. DOMAIN v \subseteq Fields(id)
  BY DEF ChangesTo
<1>2. CASE v \in [{"status"} -> Settable]
  BY <1>1, <1>2 DEF Sets
<1>3. CASE v \in [{"protocol"} -> Protocols]
  BY <1>1, <1>3 DEF Sets
<1>4. CASE v \in [{"aliases"} -> AliasSets]
  BY <1>1, <1>4, AliasesAreNames DEF Sets
<1>5. CASE v \in [{"model"} -> Models]
  BY <1>1, <1>5 DEF Sets
<1>6. CASE v \in [{"provider"} -> Providers]
  BY <1>1, <1>6 DEF Sets
<1>7. CASE v \in [{} -> {}]
  BY <1>1, <1>7 DEF Sets
<1> QED
  BY <1>2, <1>3, <1>4, <1>5, <1>6, <1>7 DEF ChangesTo, Changes

\* The seeds that a document is made of.
LEMMA SeedForm ==
    ASSUME NEW p \in Providers, NEW protocol \in Protocols,
           NEW m \in Models, NEW c \in Candidates,
           NEW seed \in {ProviderSeed(p, protocol), ModelSeed(m), CandidateSeed(c, m, p)}
    PROVE  /\ seed = Request("seed", seed.id, seed.values, FALSE)
           /\ seed.id \in Ids
           /\ DOMAIN seed.values = Fields(seed.id)
           /\ Sets(seed.id, seed.values)
           /\ seed.values.status = "active"
<1>1. CASE seed = ProviderSeed(p, protocol)
  BY <1>1, FieldsOf DEF ProviderSeed, Request, Sets, Ids, Settable
<1>2. CASE seed = ModelSeed(m)
  BY <1>2, FieldsOf DEF ModelSeed, Request, Sets, Ids, Settable
<1>3. CASE seed = CandidateSeed(c, m, p)
  BY <1>3, FieldsOf DEF CandidateSeed, Request, Sets, Ids, Settable
<1> QED
  BY <1>1, <1>2, <1>3

LEMMA DocumentForm ==
    ASSUME NEW p \in Providers, NEW protocol \in Protocols, NEW m \in Models,
           NEW c \in Candidates,
           NEW seed \in {ProviderSeed(p, protocol), ModelSeed(m), CandidateSeed(c, m, p)}
    PROVE  Remainders(seed) \subseteq AnyRequest
<1> DEFINE doc == <<ProviderSeed(p, protocol), ModelSeed(m), CandidateSeed(c, m, p)>>
<1>1. doc \in Documents
  BY DEF Documents
<1>2. PICK n \in 1 .. 3 : doc[n] = seed
  OBVIOUS
<1> HIDE DEF doc
<1>3. Remainders(doc[n]) \subseteq SeedRequests
  BY <1>1 DEF SeedRequests
<1> QED
  BY <1>2, <1>3 DEF AnyRequest

\* What is left of a seed is a part of its values.
PartOf(part, values) ==
    DOMAIN part \subseteq DOMAIN values /\ part = [f \in DOMAIN part |-> values[f]]

LEMMA RemainderForm ==
    ASSUME NEW id, NEW values, NEW r \in Remainders(Request("seed", id, values, FALSE))
    PROVE  /\ r = Request("seed", id, r.values, r.rotate)
           /\ r.rotate \in BOOLEAN
           /\ PartOf(r.values, values)
<1> DEFINE whole == Request("seed", id, values, FALSE)
<1>1. whole.do = "seed" /\ whole.id = id /\ whole.values = values
  BY DEF Request
<1>2. r \in Remainders(whole)
  OBVIOUS
<1> HIDE DEF whole
<1>3. PICK kept \in SUBSET DOMAIN whole.values, rotate \in BOOLEAN :
        r = Request(whole.do, whole.id, Restrict(whole.values, kept), rotate)
  BY <1>2 DEF Remainders
<1>4. kept \subseteq DOMAIN values /\ Restrict(values, kept) = [f \in kept |-> values[f]]
  BY <1>1, <1>3 DEF Restrict
<1> QED
  BY <1>1, <1>3, <1>4 DEF Request, PartOf

LEMMA PartIsRemainder ==
    ASSUME NEW id, NEW values, NEW part, NEW rotate \in BOOLEAN,
           PartOf(part, values)
    PROVE  Request("seed", id, part, rotate) \in Remainders(Request("seed", id, values, FALSE))
<1> DEFINE whole == Request("seed", id, values, FALSE)
<1>1. whole.do = "seed" /\ whole.id = id /\ whole.values = values
  BY DEF Request
<1> HIDE DEF whole
<1>2. Restrict(whole.values, DOMAIN part) = part
  BY <1>1 DEF Restrict, PartOf
<1>3. DOMAIN part \in SUBSET DOMAIN whole.values
  BY <1>1 DEF PartOf
<1>4. Request("seed", id, part, rotate) \in Remainders(whole)
  BY <1>1, <1>2, <1>3 DEF Remainders
<1> QED
  BY <1>4 DEF whole

-----------------------------------------------------------------------------
(* What rows become.                                                       *)

\* The value a field has after a change.
After(row, change, f) == IF f \in DOMAIN change THEN change[f] ELSE row[f]

LEMMA ProviderUpdated ==
    ASSUME NEW row \in ProviderRows, NEW change, NEW n,
           DOMAIN change \subseteq {"status", "protocol"}
    PROVE  Update(row, change, n) =
             [status |-> After(row, change, "status"), protocol |-> After(row, change, "protocol"),
              sealed |-> IF "protocol" \in DOMAIN change THEN change.protocol ELSE row.sealed,
              stamp |-> n]
<1>1. Patched(row, change) =
        [status |-> After(row, change, "status"), protocol |-> After(row, change, "protocol"),
         sealed |-> row.sealed, stamp |-> row.stamp]
  BY DEF Patched, ProviderRows, After
<1>2. [Patched(row, change) EXCEPT !.stamp = n] =
        [status |-> After(row, change, "status"), protocol |-> After(row, change, "protocol"),
         sealed |-> row.sealed, stamp |-> n]
  BY <1>1
<1>3. CASE "protocol" \in DOMAIN change
  BY <1>2, <1>3 DEF Update
<1>4. CASE "protocol" \notin DOMAIN change
  BY <1>2, <1>4 DEF Update
<1> QED
  BY <1>3, <1>4

LEMMA ModelUpdated ==
    ASSUME NEW row \in ModelRows, NEW change, NEW n,
           DOMAIN change \subseteq {"status", "aliases"}
    PROVE  Update(row, change, n) =
             [status |-> After(row, change, "status"), aliases |-> After(row, change, "aliases"),
              stamp |-> n]
<1>1. Patched(row, change) =
        [status |-> After(row, change, "status"), aliases |-> After(row, change, "aliases"),
         stamp |-> row.stamp]
  BY DEF Patched, ModelRows, After
<1> QED
  BY <1>1 DEF Update

LEMMA CandidateUpdated ==
    ASSUME NEW row \in CandidateRows, NEW change, NEW n,
           DOMAIN change \subseteq {"status", "model", "provider"}
    PROVE  Update(row, change, n) =
             [status |-> After(row, change, "status"), model |-> After(row, change, "model"),
              provider |-> After(row, change, "provider"), stamp |-> n]
<1>1. Patched(row, change) =
        [status |-> After(row, change, "status"), model |-> After(row, change, "model"),
         provider |-> After(row, change, "provider"), stamp |-> row.stamp]
  BY DEF Patched, CandidateRows, After
<1> QED
  BY <1>1 DEF Update

\* A row of the table that id belongs to.
RowOf(id, row) ==
    /\ row \in AnyRow
    /\ id \in Providers => row \in ProviderRows
    /\ id \in Models => row \in ModelRows
    /\ id \in Candidates => row \in CandidateRows

LEMMA RowsHaveForm ==
    ASSUME AdminTypeOK, NEW id \in Ids, rows[id] # Absent
    PROVE  RowOf(id, rows[id]) /\ rows[id].stamp \in Nat /\ rows[id].stamp <= versions
<1>1. rows[id] \in AnyRow
  BY DEF AdminTypeOK
<1>2. rows[id].stamp \in Nat
  BY <1>1 DEF AnyRow, ProviderRows, ModelRows, CandidateRows
<1> QED
  BY <1>1, <1>2 DEF AdminTypeOK, RowOf

LEMMA Disjoint ==
    /\ \A p \in Providers : p \notin Models /\ p \notin Candidates
    /\ \A m \in Models : m \notin Providers /\ m \notin Candidates
    /\ \A c \in Candidates : c \notin Providers /\ c \notin Models
    /\ Ids = Providers \cup Models \cup Candidates
    /\ \A row \in AnyRow : row # Absent
  BY AdministrationAssumption DEF AdministrationAssumption, Ids

LEMMA UpdateForm ==
    ASSUME NEW id \in Ids, NEW row, RowOf(id, row),
           NEW change, Sets(id, change), NEW n \in Nat
    PROVE  RowOf(id, Update(row, change, n)) /\ Update(row, change, n).stamp = n
<1>1. CASE id \in Providers
  <2>1. DOMAIN change \subseteq {"status", "protocol"} /\ row \in ProviderRows
    BY <1>1, FieldsOf DEF Sets, RowOf
  <2>2. Update(row, change, n) \in ProviderRows /\ Update(row, change, n).stamp = n
    BY <2>1, ProviderUpdated DEF ProviderRows, After, Sets, Settable, Statuses
  <2> QED
    BY <1>1, <2>2, Disjoint DEF RowOf, AnyRow
<1>2. CASE id \in Models
  <2>1. DOMAIN change \subseteq {"status", "aliases"} /\ row \in ModelRows
    BY <1>2, FieldsOf DEF Sets, RowOf
  <2>2. Update(row, change, n) \in ModelRows /\ Update(row, change, n).stamp = n
    BY <2>1, ModelUpdated DEF ModelRows, After, Sets, Settable, Statuses
  <2> QED
    BY <1>2, <2>2, Disjoint DEF RowOf, AnyRow
<1>3. CASE id \in Candidates
  <2>1. DOMAIN change \subseteq {"status", "model", "provider"} /\ row \in CandidateRows
    BY <1>3, FieldsOf DEF Sets, RowOf
  <2>2. Update(row, change, n) \in CandidateRows /\ Update(row, change, n).stamp = n
    BY <2>1, CandidateUpdated DEF CandidateRows, After, Sets, Settable, Statuses
  <2> QED
    BY <1>3, <2>2, Disjoint DEF RowOf, AnyRow
<1> QED
  BY <1>1, <1>2, <1>3 DEF Ids

\* What a seed inserts has its values, and a credential sealed for its protocol.
LEMMA InsertForm ==
    ASSUME NEW id \in Ids, NEW values, Sets(id, values),
           DOMAIN values = Fields(id), NEW n \in Nat
    PROVE  /\ RowOf(id, Inserted(id, values, n))
           /\ Inserted(id, values, n).stamp = n
           /\ \A f \in Fields(id) : Inserted(id, values, n)[f] = values[f]
           /\ id \in Providers => Inserted(id, values, n).sealed = values.protocol
<1>1. CASE id \in Providers
  <2>1. Fields(id) = {"status", "protocol"}
    BY <1>1, FieldsOf
  <2>2. Inserted(id, values, n) = [status |-> values.status, protocol |-> values.protocol,
                                   sealed |-> values.protocol, stamp |-> n]
    BY <1>1, <2>1 DEF Inserted
  <2>3. Inserted(id, values, n) \in ProviderRows
    BY <2>1, <2>2 DEF ProviderRows, Sets, Settable, Statuses
  <2> QED
    BY <1>1, <2>1, <2>2, <2>3, Disjoint DEF RowOf, AnyRow
<1>2. CASE id \in Models
  <2>1. Fields(id) = {"status", "aliases"}
    BY <1>2, FieldsOf
  <2>2. Inserted(id, values, n) = [status |-> values.status, aliases |-> values.aliases, stamp |-> n]
    BY <1>2, <2>1, Disjoint DEF Inserted
  <2>3. Inserted(id, values, n) \in ModelRows
    BY <2>1, <2>2 DEF ModelRows, Sets, Settable, Statuses
  <2> QED
    BY <1>2, <2>1, <2>2, <2>3, Disjoint DEF RowOf, AnyRow
<1>3. CASE id \in Candidates
  <2>1. Fields(id) = {"status", "model", "provider"}
    BY <1>3, FieldsOf
  <2>2. Inserted(id, values, n) = [status |-> values.status, model |-> values.model,
                                   provider |-> values.provider, stamp |-> n]
    BY <1>3, <2>1, Disjoint DEF Inserted
  <2>3. Inserted(id, values, n) \in CandidateRows
    BY <2>1, <2>2 DEF CandidateRows, Sets, Settable, Statuses
  <2> QED
    BY <1>3, <2>1, <2>2, <2>3, Disjoint DEF RowOf, AnyRow
<1> QED
  BY <1>1, <1>2, <1>3 DEF Ids

-----------------------------------------------------------------------------
(* What an administrator's request becomes.                                *)

Act(request, reads, seen, current, wrote, overlapped, rest) ==
    [at |-> "busy", request |-> request, reads |-> reads, seen |-> seen, current |-> current,
     wrote |-> wrote, overlapped |-> overlapped, rest |-> rest]

\* An operation that is under way.
Acting(o) == o \in Ops /\ o # Idle /\ Formed(o)

LEMMA ActFields ==
    ASSUME NEW o \in Ops, o # Idle
    PROVE  /\ o = Act(o.request, o.reads, o.seen, o.current, o.wrote, o.overlapped, o.rest)
           /\ o.request \in AnyRequest /\ o.reads \in Seq(Reads) /\ o.rest \in Seq(AnyRequest)
           /\ o.seen \in AnyRow \cup {Absent} /\ o.current \in AnyRow \cup {Absent}
           /\ o.wrote \in 0 .. 1 /\ o.overlapped \in BOOLEAN
<1>1. o \in [at : {"busy"}, request : AnyRequest, reads : Seq(Reads),
             seen : AnyRow \cup {Absent}, current : AnyRow \cup {Absent},
             wrote : 0 .. 1, overlapped : BOOLEAN, rest : Seq(AnyRequest)]
  BY DEF Ops
<1> QED
  BY <1>1 DEF Act

LEMMA ActTyped ==
    ASSUME NEW request \in AnyRequest, NEW reads \in Seq(Reads),
           NEW seen \in AnyRow \cup {Absent},
           NEW current \in AnyRow \cup {Absent}, NEW wrote \in 0 .. 1,
           NEW overlapped \in BOOLEAN, NEW rest \in Seq(AnyRequest)
    PROVE  LET o == Act(request, reads, seen, current, wrote, overlapped, rest)
           IN  /\ o \in Ops /\ o # Idle
               /\ o.request = request /\ o.reads = reads /\ o.seen = seen /\ o.current = current
               /\ o.wrote = wrote /\ o.overlapped = overlapped /\ o.rest = rest
  BY DEF Act, Ops, Idle

LEMMA ReadListsTyped == Protecting \cup Referring \subseteq Seq(Reads)
  BY DEF Protecting, Referring, Reads

\* The lists of reads that ReadCurrent makes.
LEMMA ListsJoined ==
    /\ <<"model", "provider">> \o <<"own model", "others">>
         = <<"model", "provider", "own model", "others">>
    /\ <<"model", "provider">> \o <<>> = <<"model", "provider">>
    /\ <<>> \o <<"own model", "others">> = <<"own model", "others">>
    /\ <<>> \o <<>> = <<>>
<1>1. <<"model", "provider">> \o <<"own model", "others">>
         = <<"model", "provider", "own model", "others">>
  <2> DEFINE s == <<"model", "provider">>
             t == <<"own model", "others">>
             u == <<"model", "provider", "own model", "others">>
  <2>1. s \in Seq(Reads) /\ t \in Seq(Reads) /\ u \in Seq(Reads)
    BY DEF Reads
  <2>2. Len(s) = 2 /\ Len(t) = 2 /\ Len(u) = 4
    OBVIOUS
  <2>3. s[1] = u[1] /\ s[2] = u[2] /\ t[1] = u[3] /\ t[2] = u[4]
    OBVIOUS
  <2> HIDE DEF s, t, u
  <2>4. /\ s \o t \in Seq(Reads) /\ Len(s \o t) = 4
        /\ \A i \in 1 .. 4 : (s \o t)[i] = IF i <= 2 THEN s[i] ELSE t[i - 2]
    <3>1. /\ s \o t \in Seq(Reads) /\ Len(s \o t) = Len(s) + Len(t)
          /\ \A i \in 1 .. Len(s) + Len(t) :
                (s \o t)[i] = IF i <= Len(s) THEN s[i] ELSE t[i - Len(s)]
      BY <2>1, ConcatProperties, Zenon
    <3> QED
      BY <2>2, <3>1
  <2>6. \A i \in 1 .. 4 : i = 1 \/ i = 2 \/ i = 3 \/ i = 4
    OBVIOUS
  <2>7. \A i \in 1 .. 4 : (s \o t)[i] = u[i]
    BY <2>3, <2>4, <2>6
  <2>5. s \o t = u
    BY <2>1, <2>2, <2>4, <2>7, SeqEqual
  <2> QED
    BY <2>5 DEF s, t, u
<1>2. <<"model", "provider">> \in Seq(Reads) /\ <<"own model", "others">> \in Seq(Reads)
      /\ <<>> \in Seq(Reads)
  BY DEF Reads
<1>3. \A s \in Seq(Reads) : s \o <<>> = s /\ <<>> \o s = s
  BY ConcatEmptySeq
<1> QED
  BY <1>1, <1>2, <1>3

LEMMA CurrentRead ==
    ASSUME AdminTypes, NEW a \in Admins, UnderWay(a), ReadCurrent(a),
           Live(op[a].request.id)
    PROVE  LET o == op[a]
               m == Act(o.request, o.reads, o.seen, rows[o.request.id], o.wrote, o.overlapped, o.rest)
           IN  \E reads \in Protecting \cup Referring :
                  /\ Removes(m) => reads \in Protecting
                  /\ Continue(a, Act(o.request, reads, o.seen, rows[o.request.id], o.wrote,
                                     o.overlapped, o.rest))
<1> DEFINE o == op[a]
           m == [o EXCEPT !.current = rows[o.request.id]]
           references == IF o.request.do = "patch" THEN <<"model", "provider">> ELSE <<>>
           protection == IF Removes(m) THEN <<"own model", "others">> ELSE <<>>
           reads == references \o protection
<1>1. o \in Ops /\ o # Idle
  BY DEF AdminTypes, AdminTypeOK, UnderWay
<1>2. o = Act(o.request, o.reads, o.seen, o.current, o.wrote, o.overlapped, o.rest)
  BY <1>1, ActFields
<1>3. m = Act(o.request, o.reads, o.seen, rows[o.request.id], o.wrote, o.overlapped, o.rest)
  BY <1>2 DEF Act
<1>4. m.request = o.request
  BY <1>3 DEF Act
<1>5. Continue(a, [m EXCEPT !.reads = reads])
  BY <1>4 DEF ReadCurrent
<1>6. [m EXCEPT !.reads = reads] =
        Act(o.request, reads, o.seen, rows[o.request.id], o.wrote, o.overlapped, o.rest)
  <2> HIDE DEF reads, m
  <2> QED
    BY <1>3 DEF Act
<1>7. reads \in Protecting \cup Referring /\ (Removes(m) => reads \in Protecting)
  <2>1. CASE Removes(m)
    BY <2>1, ListsJoined DEF Protecting
  <2>2. CASE ~Removes(m)
    BY <2>2, ListsJoined DEF Referring
  <2> QED
    BY <2>1, <2>2
<1> HIDE DEF reads, m, o
<1> QED
  BY <1>3, <1>5, <1>6, <1>7 DEF o

LEMMA OtherRead ==
    ASSUME AdminTypes, NEW a \in Admins, UnderWay(a), ReadOther(a),
           Holds(op[a], Head(op[a].reads)),
           op[a].reads # <<>>
    PROVE  LET o == op[a]
               done == Head(o.reads) = "own model" /\ ~Active(o.current.model)
           IN  \E reads \in Seq(Reads) :
                 /\ reads = IF done THEN <<>> ELSE Tail(o.reads)
                 /\ Continue(a, Act(o.request, reads, o.seen, o.current, o.wrote,
                                    o.overlapped, o.rest))
<1> DEFINE o == op[a]
           done == Head(o.reads) = "own model" /\ ~Active(o.current.model)
           reads == IF done THEN <<>> ELSE Tail(o.reads)
<1>1. o \in Ops /\ o # Idle
  BY DEF AdminTypes, AdminTypeOK, UnderWay
<1>2. o = Act(o.request, o.reads, o.seen, o.current, o.wrote, o.overlapped, o.rest)
      /\ o.reads \in Seq(Reads)
  BY <1>1, ActFields
<1>3. Continue(a, [o EXCEPT !.reads = reads])
  BY DEF ReadOther
<1>4. reads \in Seq(Reads)
  <2>1. Tail(o.reads) \in Seq(Reads)
    BY <1>2
  <2>2. <<>> \in Seq(Reads)
    OBVIOUS
  <2> QED
    BY <2>1, <2>2
<1>5. [o EXCEPT !.reads = reads] =
        Act(o.request, reads, o.seen, o.current, o.wrote, o.overlapped, o.rest)
  <2> HIDE DEF reads
  <2> QED
    BY <1>2 DEF Act
<1> QED
  BY <1>3, <1>4, <1>5

-----------------------------------------------------------------------------
(* Seeds go through their document.                                        *)

\* A seed of a document and those that come after it.
Seedling(seed, rest) ==
    /\ seed = Request("seed", seed.id, seed.values, FALSE)
    /\ seed.id \in Ids
    /\ DOMAIN seed.values = Fields(seed.id)
    /\ Sets(seed.id, seed.values)
    /\ seed.values.status = "active"
    /\ Remainders(seed) \subseteq AnyRequest
    /\ rest \in Seq(AnyRequest)
    /\ seed \in Remainders(seed)
    /\ PartOf(seed.values, seed.values)

LEMMA PlaceForm ==
    ASSUME NEW p \in Providers, NEW protocol \in Protocols,
           NEW m \in Models, NEW c \in Candidates, NEW place \in Places(p, protocol, m, c)
    PROVE  Seedling(place.seed, place.rest)
<1> DEFINE seeds == {ProviderSeed(p, protocol), ModelSeed(m), CandidateSeed(c, m, p)}
<1>1. \A seed \in seeds :
         /\ seed = Request("seed", seed.id, seed.values, FALSE)
         /\ seed.id \in Ids
         /\ DOMAIN seed.values = Fields(seed.id)
         /\ Sets(seed.id, seed.values)
         /\ seed.values.status = "active"
  BY SeedForm
<1>2. \A seed \in seeds : Remainders(seed) \subseteq AnyRequest
  BY DocumentForm
<1>3. \A seed \in seeds : PartOf(seed.values, seed.values)
  BY DEF PartOf, ProviderSeed, ModelSeed, CandidateSeed, Request
<1>4. \A seed \in seeds : seed \in Remainders(seed)
  <2> SUFFICES ASSUME NEW seed \in seeds PROVE seed \in Remainders(seed)
    OBVIOUS
  <2>1. seed = Request("seed", seed.id, seed.values, FALSE)
    BY <1>1
  <2>2. Request("seed", seed.id, seed.values, FALSE)
          \in Remainders(Request("seed", seed.id, seed.values, FALSE))
    BY <1>3, PartIsRemainder
  <2> QED
    BY <2>1, <2>2
<1>5. place.seed \in seeds /\ place.rest \in Seq(seeds)
  <2>1. ProviderSeed(p, protocol) \in seeds /\ ModelSeed(m) \in seeds
        /\ CandidateSeed(c, m, p) \in seeds
    OBVIOUS
  <2> HIDE DEF seeds
  <2>2. CASE place = [seed |-> ProviderSeed(p, protocol),
                      rest |-> <<ModelSeed(m), CandidateSeed(c, m, p)>>]
    BY <2>1, <2>2
  <2>3. CASE place = [seed |-> ModelSeed(m), rest |-> <<CandidateSeed(c, m, p)>>]
    BY <2>1, <2>3
  <2>4. CASE place = [seed |-> CandidateSeed(c, m, p), rest |-> <<>>]
    BY <2>1, <2>4
  <2> QED
    BY <2>2, <2>3, <2>4 DEF Places
<1>6. seeds \subseteq AnyRequest
  BY <1>2, <1>4
<1> HIDE DEF seeds
<1>7. place.rest \in Seq(AnyRequest)
  BY <1>5, <1>6, SeqMonotonic
<1>8. place.seed \in seeds
  BY <1>5
<1> QED
  BY <1>1, <1>2, <1>3, <1>4, <1>7, <1>8, Zenon DEF Seedling

LEMMA ActWrites ==
    ASSUME NEW o, NEW request, NEW row,
           o = Act(o.request, o.reads, o.seen, o.current, o.wrote, o.overlapped, o.rest)
    PROVE  [o EXCEPT !.reads = <<>>, !.current = row, !.request = request]
             = Act(request, <<>>, o.seen, row, o.wrote, o.overlapped, o.rest)
<1> DEFINE n == [o EXCEPT !.reads = <<>>, !.current = row, !.request = request]
<1>1. DOMAIN o = {"at", "request", "reads", "seen", "current", "wrote", "overlapped", "rest"}
      /\ o.at = "busy"
  BY DEF Act
<1>2. DOMAIN n = DOMAIN o /\ n.at = o.at /\ n.request = request /\ n.reads = <<>>
      /\ n.seen = o.seen /\ n.current = row /\ n.wrote = o.wrote
      /\ n.overlapped = o.overlapped /\ n.rest = o.rest
  BY <1>1
<1>3. n = [f \in DOMAIN n |-> n[f]]
  OBVIOUS
<1> HIDE DEF n
<1>4. n = Act(n.request, n.reads, n.seen, n.current, n.wrote, n.overlapped, n.rest)
  BY <1>1, <1>2, <1>3 DEF Act
<1> QED
  BY <1>2, <1>4 DEF n

\* The values that a seed still has to write, given the row it found or wrote.
Leaves(seed, row, change, rotate) ==
    /\ PartOf(change, seed.values)
    /\ row = Absent => change = seed.values /\ ~rotate
    /\ rotate => seed.id \in Providers
    /\ row # Absent /\ seed.id \in Candidates =>
          \A f \in DOMAIN seed.values \ DOMAIN change : row[f] = seed.values[f]

\* A seed has still to give a model its candidate if what it does next has.
LEMMA FormedSame ==
    ASSUME NEW o, NEW n, n.request = o.request, n.reads = o.reads, n.current = o.current,
           n.wrote = o.wrote, n.rest = o.rest
    PROVE  /\ Formed(o) => Formed(n)
           /\ \A m \in Models : Seeds(o, m) => Seeds(n, m)
<1>1. \A seed : Follows(o, seed) => Follows(n, seed)
  BY DEF Follows
<1>2. \A p, protocol, m, c : SeedOf(o, p, protocol, m, c) => SeedOf(n, p, protocol, m, c)
  BY <1>1 DEF SeedOf
<1>3. \A m \in Models : Seeds(o, m) => Seeds(n, m)
  BY <1>2 DEF Seeds
<1> QED
  BY <1>3 DEF Formed, Asked

LEMMA OverlapForm ==
    ASSUME NEW o \in Ops, o # Idle
    PROVE  LET n == [o EXCEPT !.overlapped = TRUE]
           IN  /\ n \in Ops /\ n # Idle
               /\ n.request = o.request /\ n.reads = o.reads /\ n.seen = o.seen
               /\ n.current = o.current /\ n.wrote = o.wrote /\ n.overlapped = TRUE
               /\ n.rest = o.rest
<1>1. o \in [at : {"busy"}, request : AnyRequest, reads : Seq(Reads),
             seen : AnyRow \cup {Absent}, current : AnyRow \cup {Absent},
             wrote : 0 .. 1, overlapped : BOOLEAN, rest : Seq(AnyRequest)]
  BY DEF Ops
<1>2. [o EXCEPT !.overlapped = TRUE] # Idle
  BY <1>1 DEF Idle
<1> QED
  BY <1>1, <1>2 DEF Ops

\* A place of a document, with a row found or written: the seed is there.
LEMMA SeedPlaced ==
    ASSUME NEW p \in Providers, NEW protocol \in Protocols, NEW m \in Models,
           NEW c \in Candidates,
           NEW place \in Places(p, protocol, m, c),
           NEW n \in Ops, n # Idle, n.wrote = 0, n.request.do = "seed", n.rest = place.rest,
           Follows(n, place.seed)
    PROVE  Acting(n) /\ Seeds(n, m)
<1>1. SeedOf(n, p, protocol, m, c)
  BY DEF SeedOf
<1>2. Seeds(n, m)
  BY <1>1 DEF Seeds
<1> QED
  BY <1>2 DEF Acting, Formed, Asked

\* After one row of its document comes the next, unless it was the candidate.
LEMMA SeedProceeds ==
    ASSUME NEW p \in Providers, NEW protocol \in Protocols,
           NEW m \in Models, NEW c \in Candidates, NEW place \in Places(p, protocol, m, c),
           NEW o \in Ops, o # Idle, o.wrote = 0, o.rest = place.rest
    PROVE  \/ place.seed = CandidateSeed(c, m, p) /\ SeedNext(o) = Idle
           \/ /\ place.seed # CandidateSeed(c, m, p)
              /\ Acting(SeedNext(o)) /\ Seeds(SeedNext(o), m)
              /\ SeedNext(o).current = Absent /\ SeedNext(o).wrote = 0
              /\ SeedNext(o).request.do = "seed"
<1>1. ASSUME NEW next \in Places(p, protocol, m, c), NEW rest,
             place.rest = rest, rest # <<>>, Head(rest) = next.seed, Tail(rest) = next.rest
      PROVE  /\ Acting(SeedNext(o)) /\ Seeds(SeedNext(o), m)
             /\ SeedNext(o).current = Absent /\ SeedNext(o).wrote = 0
             /\ SeedNext(o).request.do = "seed"
  <2> DEFINE n == SeedNext(o)
  <2>1. Seedling(next.seed, next.rest)
    BY PlaceForm
  <2>2. o \in [at : {"busy"}, request : AnyRequest, reads : Seq(Reads),
             seen : AnyRow \cup {Absent}, current : AnyRow \cup {Absent},
             wrote : 0 .. 1, overlapped : BOOLEAN, rest : Seq(AnyRequest)]
    BY DEF Ops
  <2>3. next.seed \in AnyRequest /\ next.rest \in Seq(AnyRequest) /\ next.seed.do = "seed"
    BY <2>1 DEF Seedling, Request
  <2>4. <<"current">> \in Seq(Reads)
    BY DEF Reads
  <2>5. n = Act(next.seed, <<"current">>, o.seen, Absent, 0, o.overlapped, next.rest)
    BY <1>1, <2>2 DEF SeedNext, Act
  <2>6. /\ n \in Ops /\ n # Idle /\ n.request = next.seed /\ n.reads = <<"current">>
        /\ n.current = Absent /\ n.wrote = 0 /\ n.rest = next.rest
    BY <2>2, <2>3, <2>4, <2>5 DEF Act, Ops, Idle
  <2> HIDE DEF n
  <2>7. Follows(n, next.seed)
    BY <2>1, <2>6 DEF Follows, Seedling
  <2>8. Acting(n) /\ Seeds(n, m)
    BY <2>3, <2>6, <2>7, SeedPlaced
  <2> QED
    BY <2>3, <2>6, <2>8 DEF n
<1> DEFINE first  == [seed |-> ProviderSeed(p, protocol),
                      rest |-> <<ModelSeed(m), CandidateSeed(c, m, p)>>]
           second == [seed |-> ModelSeed(m), rest |-> <<CandidateSeed(c, m, p)>>]
           third  == [seed |-> CandidateSeed(c, m, p), rest |-> <<>>]
<1>2. first \in Places(p, protocol, m, c) /\ second \in Places(p, protocol, m, c)
      /\ third \in Places(p, protocol, m, c)
  BY DEF Places
<1>3. /\ ProviderSeed(p, protocol) # CandidateSeed(c, m, p)
      /\ ModelSeed(m) # CandidateSeed(c, m, p)
  BY Disjoint DEF ProviderSeed, ModelSeed, CandidateSeed, Request
<1>4. CASE place = first
  <2>1. place.rest = <<ModelSeed(m), CandidateSeed(c, m, p)>>
        /\ Head(<<ModelSeed(m), CandidateSeed(c, m, p)>>) = second.seed
        /\ Tail(<<ModelSeed(m), CandidateSeed(c, m, p)>>) = second.rest
        /\ <<ModelSeed(m), CandidateSeed(c, m, p)>> # <<>>
        /\ place.seed = ProviderSeed(p, protocol)
    BY <1>4
  <2> HIDE DEF second
  <2> QED
    BY <1>1, <1>2, <1>3, <2>1
<1>5. CASE place = second
  <2>1. place.rest = <<CandidateSeed(c, m, p)>>
        /\ Head(<<CandidateSeed(c, m, p)>>) = third.seed
        /\ Tail(<<CandidateSeed(c, m, p)>>) = third.rest
        /\ <<CandidateSeed(c, m, p)>> # <<>>
        /\ place.seed = ModelSeed(m)
    BY <1>5
  <2> HIDE DEF third
  <2> QED
    BY <1>1, <1>2, <1>3, <2>1
<1>6. CASE place = third
  BY <1>6 DEF SeedNext
<1> QED
  BY <1>4, <1>5, <1>6 DEF Places

-----------------------------------------------------------------------------
(* The steps are of three kinds: a request goes on or ends without         *)
(* writing, it writes a row, or a seed stops.                              *)

AdminFits(o) == Acting(o) /\ Shown(o) /\ Half(o) /\ Guarded(o) /\ Supplied(o) /\ Known(o)

GoesOn(a, o) ==
    /\ op' = [op EXCEPT ![a] = o]
    /\ UNCHANGED <<rows, versions, raced>>
    /\ begun' \in 0 .. MaxRequests /\ failures' \in 0 .. MaxFailures
    /\ o = Idle \/ AdminFits(o)
    /\ UnderWay(a) /\ o = Idle => op[a].wrote = 0 \/ op[a].overlapped \/ failures' # failures
    /\ \A m \in Models : UnderWay(a) /\ Seeds(op[a], m) => m \notin Orphans \/ (o # Idle /\ Seeds(o, m))

\* What a request goes on with after a write: a seed with its row or the next, or the
\* second half of a patch.
Resumed(o, id, row) ==
    /\ Acting(o)
    /\ \/ /\ o.request.do = "seed"
          /\ o.current = Absent \/ (o.current = row /\ o.request.id = id)
       \/ /\ o.request.do = "patch" /\ o.request.values = <<>> /\ o.reads = <<>>
          /\ o.request.id = id /\ id \in Providers /\ o.seen = row /\ row.status # "deleted"

WritesRow(a, id, row, next) ==
    /\ UnderWay(a)
    /\ Record(a, id, row, next)
    /\ RowOf(id, row)
    /\ row.stamp = versions + 1
    /\ id \in Providers => row.sealed = row.protocol
    /\ next = Idle \/ Resumed(next, id, row)
    /\ op[a].request.do = "patch" => op[a].request.id = id /\ rows[id] = op[a].seen
    /\ ~op[a].overlapped =>
          \A m \in Models : m \in Orphans' =>
             \/ m \in Orphans /\ ~Seeds(op[a], m)
             \/ m \in Deprived(a)
             \/ next # Idle /\ Seeds(next, m)

Stops(a) ==
    /\ UnderWay(a) /\ op[a].request.do = "seed"
    /\ op' = [op EXCEPT ![a] = Idle]
    /\ raced' = raced \cup (Orphans \cap BeingSeeded)
    /\ UNCHANGED <<rows, versions, begun>>
    /\ failures' \in 0 .. MaxFailures

Taken(a) ==
    \/ \E o \in Ops : GoesOn(a, o)
    \/ \E id \in Ids, row \in AnyRow, next \in Ops : WritesRow(a, id, row, next)
    \/ Stops(a)

LEMMA OpTyped ==
    ASSUME AdminTypes, NEW a \in Admins, UnderWay(a)
    PROVE  op[a] \in Ops /\ op[a] # Idle /\ Formed(op[a])
  BY DEF AdminTypes, AdminTypeOK, UnderWay

\* What the others' requests are after a step of a.
LEMMA OthersKeep ==
    ASSUME AdminTypes, NEW a \in Admins, NEW b \in Admins, b # a, NEW o \in Ops,
           op' = [op EXCEPT ![a] = o]
    PROVE  op'[b] = op[b] /\ op'[a] = o
  BY DEF AdminTypes, AdminTypeOK

LEMMA OthersOverlapped ==
    ASSUME AdminTypes, NEW a \in Admins, NEW b \in Admins, b # a, NEW id, NEW row,
           NEW next \in Ops,
           Record(a, id, row, next)
    PROVE  /\ (UnderWay(b))' <=> UnderWay(b)
           /\ UnderWay(b) =>
                /\ op'[b] \in Ops
                /\ op'[b].request = op[b].request /\ op'[b].reads = op[b].reads
                /\ op'[b].seen = op[b].seen /\ op'[b].current = op[b].current
                /\ op'[b].wrote = op[b].wrote /\ op'[b].overlapped = TRUE
                /\ op'[b].rest = op[b].rest
                /\ Formed(op'[b])
                /\ \A m \in Models : Seeds(op[b], m) => Seeds(op'[b], m)
<1>1. op'[b] = IF UnderWay(b) THEN [op[b] EXCEPT !.overlapped = TRUE] ELSE Idle
  BY DEF Record
<1>2. CASE ~UnderWay(b)
  BY <1>1, <1>2 DEF UnderWay
<1>3. CASE UnderWay(b)
  <2> DEFINE o == op[b]
             n == [o EXCEPT !.overlapped = TRUE]
  <2>1. o \in Ops /\ o # Idle /\ Formed(o)
    BY <1>3, OpTyped
  <2>2. op'[b] = n
    BY <1>1, <1>3
  <2>3. /\ n \in Ops /\ n # Idle
        /\ n.request = o.request /\ n.reads = o.reads /\ n.seen = o.seen
        /\ n.current = o.current /\ n.wrote = o.wrote /\ n.overlapped = TRUE
        /\ n.rest = o.rest
    BY <2>1, OverlapForm
  <2> HIDE DEF n, o
  <2>4. Formed(n) /\ \A m \in Models : Seeds(o, m) => Seeds(n, m)
    BY <2>1, <2>3, FormedSame
  <2>5. (UnderWay(b))'
    BY <2>2, <2>3 DEF UnderWay
  <2> QED
    BY <1>3, <2>2, <2>3, <2>4, <2>5 DEF o
<1> QED
  BY <1>2, <1>3

LEMMA IdleIsOp == Idle \in Ops
  BY DEF Ops

LEMMA GoesOnTypes ==
    ASSUME AdminTypes, NEW a \in Admins, NEW o \in Ops, GoesOn(a, o)
    PROVE  AdminTypes'
<1>1. AdminTypeOK'
  BY DEF GoesOn, AdminTypes, AdminTypeOK
<1>2. ASSUME NEW b \in Admins, (UnderWay(b))' PROVE Formed(op'[b])
  <2>1. CASE b = a
    <3>1. op'[b] = o
      BY <2>1 DEF GoesOn, AdminTypes, AdminTypeOK
    <3> QED
      BY <1>2, <3>1 DEF GoesOn, AdminFits, Acting, UnderWay
  <2>2. CASE b # a
    <3>1. op'[b] = op[b]
      BY <2>2, OthersKeep DEF GoesOn
    <3> QED
      BY <1>2, <3>1 DEF AdminTypes, UnderWay
  <2> QED
    BY <2>1, <2>2
<1> QED
  BY <1>1, <1>2 DEF AdminTypes

LEMMA RowWritten ==
    ASSUME AdminTypeOK, NEW a \in Admins, NEW id \in Ids, NEW row, NEW next,
           Record(a, id, row, next)
    PROVE  /\ \A x \in Ids : rows'[x] = IF x = id THEN row ELSE rows[x]
           /\ op'[a] = next /\ versions' = versions + 1 /\ versions \in Nat
           /\ begun' = begun /\ failures' = failures
  BY DEF AdminTypeOK, Record

LEMMA WritesTypes ==
    ASSUME AdminTypes, NEW a \in Admins, NEW id \in Ids, NEW row \in AnyRow,
           NEW next \in Ops, WritesRow(a, id, row, next)
    PROVE  AdminTypes'
<1> USE DEF WritesRow
<1>0. AdminTypeOK
  BY DEF AdminTypes
<1>1. /\ \A x \in Ids : rows'[x] = IF x = id THEN row ELSE rows[x]
      /\ op'[a] = next /\ versions' = versions + 1 /\ versions \in Nat
      /\ begun' = begun /\ failures' = failures
  BY <1>0, RowWritten
<1>2. rows' \in [Ids -> AnyRow \cup {Absent}]
  BY <1>0 DEF Record, AdminTypeOK
<1>3. /\ \A p \in Providers : rows'[p] \in ProviderRows \cup {Absent}
      /\ \A m \in Models : rows'[m] \in ModelRows \cup {Absent}
      /\ \A c \in Candidates : rows'[c] \in CandidateRows \cup {Absent}
  BY <1>0, <1>1, Disjoint DEF AdminTypeOK, RowOf
<1>4. ASSUME NEW x \in Ids, rows'[x] # Absent PROVE rows'[x].stamp <= versions'
  <2>1. CASE x = id
    BY <1>1, <2>1
  <2>2. CASE x # id
    <3>1. rows'[x] = rows[x]
      BY <1>1, <2>2
    <3>2. rows[x].stamp \in Nat /\ rows[x].stamp <= versions
      BY <1>0, <1>4, <3>1, RowsHaveForm
    <3> QED
      BY <1>1, <3>1, <3>2
  <2> QED
    BY <2>1, <2>2
<1>5. \A b \in Admins : op'[b] \in Ops
  <2> SUFFICES ASSUME NEW b \in Admins PROVE op'[b] \in Ops
    OBVIOUS
  <2>1. CASE b = a
    BY <1>1, <2>1
  <2>2. CASE b # a
    <3>1. CASE UnderWay(b)
      BY <2>2, <3>1, OthersOverlapped
    <3>2. CASE ~UnderWay(b)
      BY <2>2, <3>2, IdleIsOp DEF Record
    <3> QED
      BY <3>1, <3>2
  <2> QED
    BY <2>1, <2>2
<1>6. op' \in [Admins -> Ops]
  BY <1>5 DEF Record
<1>7. raced' \subseteq Models
  BY DEF Record, Orphans
<1>8. AdminTypeOK'
  BY <1>0, <1>1, <1>2, <1>3, <1>4, <1>6, <1>7 DEF AdminTypeOK
<1>9. ASSUME NEW b \in Admins, (UnderWay(b))' PROVE Formed(op'[b])
  <2>1. CASE b = a
    BY <1>1, <1>9, <2>1 DEF Resumed, Acting, UnderWay
  <2>2. CASE b # a
    BY <1>9, <2>2, OthersOverlapped
  <2> QED
    BY <2>1, <2>2
<1> QED
  BY <1>8, <1>9 DEF AdminTypes

LEMMA StopsTypes ==
    ASSUME AdminTypes, NEW a \in Admins, Stops(a)
    PROVE  AdminTypes'
<1>1. AdminTypeOK'
  BY IdleIsOp DEF Stops, SeedStops, AdminTypes, AdminTypeOK, Orphans
<1>2. ASSUME NEW b \in Admins, (UnderWay(b))' PROVE Formed(op'[b])
  <2>1. op'[b] = IF b = a THEN Idle ELSE op[b]
    BY DEF Stops, SeedStops, AdminTypes, AdminTypeOK
  <2> QED
    BY <1>2, <2>1 DEF AdminTypes, UnderWay
<1> QED
  BY <1>1, <1>2 DEF AdminTypes

\* A seed that has still to give a model its candidate names it.
LEMMA SeedingIsSeeded ==
    ASSUME NEW a \in Admins, UnderWay(a), NEW m \in Models, Seeds(op[a], m)
    PROVE  m \in BeingSeeded
<1> DEFINE o == op[a]
<1>0. PICK p \in Providers, protocol \in Protocols, c \in Candidates :
        SeedOf(o, p, protocol, m, c)
  BY DEF Seeds
<1>1. PICK place \in Places(p, protocol, m, c) : Follows(o, place.seed) /\ o.rest = place.rest
  BY <1>0 DEF SeedOf
<1>2. o.request.do = "seed"
  BY DEF Seeds
<1>3. CandidateSeed(c, m, p).id \in Candidates /\ CandidateSeed(c, m, p).values.model = m
  BY DEF CandidateSeed, Request
<1>4. CASE CandidateSeed(c, m, p) \in Range(o.rest)
  BY <1>2, <1>3, <1>4 DEF BeingSeeded
<1>5. CASE place.seed = CandidateSeed(c, m, p)
  <2>1. o.request \in Remainders(CandidateSeed(c, m, p))
    BY <1>1, <1>5 DEF Follows
  <2> DEFINE w == [status |-> "active", model |-> m, provider |-> p]
  <2>5. o.request \in Remainders(Request("seed", c, w, FALSE))
    BY <2>1 DEF CandidateSeed
  <2>2. o.request = Request("seed", c, o.request.values, o.request.rotate)
        /\ PartOf(o.request.values, w)
    BY <2>5, RemainderForm
  <2>3. o.request.id \in Candidates
    BY <2>2 DEF Request
  <2>4. "model" \in DOMAIN o.request.values => o.request.values.model = m
    BY <2>2 DEF PartOf
  <2> QED
    BY <1>2, <2>3, <2>4 DEF BeingSeeded
<1>6. place.seed = CandidateSeed(c, m, p) \/ CandidateSeed(c, m, p) \in Range(o.rest)
  <2> DEFINE d == CandidateSeed(c, m, p)
             e == ModelSeed(m)
  <2>1. d \in Range(<<e, d>>) /\ d \in Range(<<d>>)
    BY DEF Range
  <2> HIDE DEF d, e
  <2> QED
    BY <1>1, <2>1 DEF Places, d, e
<1> QED
  BY <1>4, <1>5, <1>6

\* While the tables stay, so does what is known of a request.
LEMMA TablesStay ==
    ASSUME UNCHANGED <<rows, versions>>, NEW o, NEW b, op'[b] = o
    PROVE  /\ Shown(o) => Shown(op[b])'
           /\ Half(o) => Half(op[b])'
           /\ Guarded(o) => Guarded(op[b])'
           /\ Supplied(o) => Supplied(op[b])'
           /\ Known(o) => Known(op[b])'
           /\ Sealed => Sealed'
           /\ Orphans' = Orphans
<1>1. \A id : Live(id)' <=> Live(id)
  BY DEF Live
<1>2. \A m : ActiveCandidates(m)' = ActiveCandidates(m)
  BY DEF ActiveCandidates, Active
<1>3. \A id : Active(id)' <=> Active(id)
  BY DEF Active
<1>4. Spared(o) => Spared(op[b])'
  BY <1>2, <1>3 DEF Spared
<1>5. Removes(op[b])' <=> Removes(o)
  BY DEF Removes, Intended
<1>6. Guarded(o) => Guarded(op[b])'
  BY <1>4, <1>5 DEF Guarded
<1>7. Supplied(o) => Supplied(op[b])'
  BY <1>2 DEF Supplied
<1>8. Orphans' = Orphans
  BY <1>2, <1>3 DEF Orphans
<1> QED
  BY <1>1, <1>6, <1>7, <1>8 DEF Shown, Half, Known, Sealed

LEMMA GoesOnKeeps ==
    ASSUME AdminIInv, NEW a \in Admins, NEW o \in Ops, GoesOn(a, o)
    PROVE  AdminIInv'
<1> USE DEF AdminIInv
<1>1. AdminTypes'
  BY GoesOnTypes
<1>2. UNCHANGED <<rows, versions, raced>> /\ op' = [op EXCEPT ![a] = o]
  BY DEF GoesOn
<1>3. op'[a] = o /\ \A b \in Admins : b # a => op'[b] = op[b]
  BY <1>2 DEF AdminTypes, AdminTypeOK
<1>4. \A b \in Admins : (UnderWay(b))' => (b # a /\ UnderWay(b)) \/ (b = a /\ AdminFits(o))
  <2>1. o = Idle \/ AdminFits(o)
    BY DEF GoesOn
  <2> QED
    BY <1>3, <2>1 DEF UnderWay
<1>5. Sealed' /\ Orphans' = Orphans
  BY <1>2, <1>3, TablesStay DEF Marks
<1>6. ASSUME NEW b \in Admins, (UnderWay(b))'
      PROVE  (Shown(op[b]) /\ Half(op[b]) /\ Guarded(op[b]) /\ Supplied(op[b]) /\ Known(op[b]))'
  <2>1. CASE b # a /\ UnderWay(b)
    <3>1. Shown(op[b]) /\ Half(op[b]) /\ Guarded(op[b]) /\ Supplied(op[b]) /\ Known(op[b])
      BY <2>1 DEF Marks, Guards
    <3>2. op'[b] = op[b]
      BY <1>3, <2>1
    <3> QED
      BY <1>2, <3>1, <3>2, TablesStay
  <2>2. CASE b = a /\ AdminFits(o)
    BY <1>2, <1>3, <2>2, TablesStay DEF AdminFits
  <2> QED
    BY <1>4, <1>6, <2>1, <2>2
<1>7. ASSUME NEW m \in Orphans PROVE m \in raced \cup Seeding'
  <2>1. m \in Models
    BY DEF Orphans
  <2>2. CASE m \in raced
    BY <2>2
  <2>3. CASE m \in Seeding
    <3>1. PICK b \in Admins : UnderWay(b) /\ Seeds(op[b], m)
      BY <2>3 DEF Seeding
    <3>2. CASE b = a
      <4>1. o # Idle /\ Seeds(o, m)
        BY <2>1, <3>1, <3>2 DEF GoesOn
      <4> QED
        BY <1>3, <2>1, <4>1 DEF Seeding, UnderWay
    <3>3. CASE b # a
      BY <1>3, <2>1, <3>1, <3>3 DEF Seeding, UnderWay
    <3> QED
      BY <3>2, <3>3
  <2> QED
    BY <2>2, <2>3 DEF Guards
<1>8. (Orphans \subseteq raced \cup Seeding)'
  BY <1>2, <1>5, <1>7
<1> QED
  BY <1>1, <1>5, <1>6, <1>8 DEF Marks, Guards

LEMMA StopsKeeps ==
    ASSUME AdminIInv, NEW a \in Admins, Stops(a)
    PROVE  AdminIInv'
<1> USE DEF AdminIInv
<1>1. AdminTypes'
  BY StopsTypes
<1>2. UNCHANGED <<rows, versions>>
  BY DEF Stops, SeedStops
<1>3. op'[a] = Idle /\ \A b \in Admins : b # a => op'[b] = op[b]
  BY DEF Stops, SeedStops, AdminTypes, AdminTypeOK
<1>4. \A b \in Admins : (UnderWay(b))' => b # a /\ UnderWay(b)
  BY <1>3 DEF UnderWay
<1>5. Sealed' /\ Orphans' = Orphans
  BY <1>2, <1>3, TablesStay DEF Marks
<1>6. ASSUME NEW b \in Admins, (UnderWay(b))'
      PROVE  (Shown(op[b]) /\ Half(op[b]) /\ Guarded(op[b]) /\ Supplied(op[b]) /\ Known(op[b]))'
  <2>1. Shown(op[b]) /\ Half(op[b]) /\ Guarded(op[b]) /\ Supplied(op[b]) /\ Known(op[b])
    BY <1>4, <1>6 DEF Marks, Guards
  <2>2. op'[b] = op[b]
    BY <1>3, <1>4, <1>6
  <2> QED
    BY <1>2, <2>1, <2>2, TablesStay
<1>7. ASSUME NEW m \in Orphans PROVE m \in raced' \cup Seeding'
  <2>1. m \in Models
    BY DEF Orphans
  <2>2. CASE m \in raced
    BY <2>2 DEF Stops, SeedStops
  <2>3. CASE m \in Seeding
    <3>1. PICK b \in Admins : UnderWay(b) /\ Seeds(op[b], m)
      BY <2>3 DEF Seeding
    <3>2. CASE b = a
      <4>1. m \in BeingSeeded
        BY <2>1, <3>1, SeedingIsSeeded
      <4> QED
        BY <4>1 DEF Stops, SeedStops
    <3>3. CASE b # a
      BY <1>3, <2>1, <3>1, <3>3 DEF Seeding, UnderWay
    <3> QED
      BY <3>2, <3>3
  <2> QED
    BY <2>2, <2>3 DEF Guards
<1>8. (Orphans \subseteq raced \cup Seeding)'
  BY <1>5, <1>7
<1> QED
  BY <1>1, <1>5, <1>6, <1>8 DEF Marks, Guards

LEMMA WritesKeeps ==
    ASSUME AdminIInv, NEW a \in Admins, NEW id \in Ids, NEW row \in AnyRow,
           NEW next \in Ops, WritesRow(a, id, row, next)
    PROVE  AdminIInv'
<1> USE DEF AdminIInv
<1>1. AdminTypes'
  BY WritesTypes
<1>0. AdminTypes /\ AdminTypeOK /\ Record(a, id, row, next)
  BY DEF AdminTypes, WritesRow
<1>2. /\ \A x \in Ids : rows'[x] = IF x = id THEN row ELSE rows[x]
      /\ op'[a] = next /\ versions' = versions + 1 /\ versions \in Nat
  BY <1>0, RowWritten
<1>3. row # Absent
  BY Disjoint
<1>4. Sealed'
  <2>1. ASSUME NEW p \in Providers, rows'[p] # Absent PROVE rows'[p].sealed = rows'[p].protocol
    BY <1>2, <2>1, Disjoint DEF WritesRow, Marks, Sealed
  <2> QED
    BY <2>1 DEF Sealed
<1>5. ASSUME NEW b \in Admins, (UnderWay(b))'
      PROVE  (Shown(op[b]) /\ Half(op[b]) /\ Guarded(op[b]) /\ Supplied(op[b]) /\ Known(op[b]))'
  <2>1. CASE b = a
    <3>1. Resumed(next, id, row)
      BY <1>2, <1>5, <2>1 DEF WritesRow, UnderWay
    <3>2. next \in Ops /\ next # Idle /\ Formed(next)
      BY <3>1 DEF Resumed, Acting
    <3>3. CASE next.request.do = "seed"
      <4>1. next.current = Absent \/ (next.current = row /\ next.request.id = id)
        BY <3>1, <3>3 DEF Resumed
      <4>2. next.wrote = 0
        BY <3>2, <3>3 DEF Formed
      <4>3. rows'[id] = row
        BY <1>2
      <4> QED
        BY <1>2, <2>1, <3>3, <4>1, <4>2, <4>3 DEF Shown, Half, Guarded, Supplied, Known
    <3>4. CASE next.request.do # "seed"
      <4>1. /\ next.request.do = "patch" /\ next.request.values = <<>> /\ next.reads = <<>>
            /\ next.request.id = id /\ id \in Providers /\ next.seen = row /\ row.status # "deleted"
        BY <3>1, <3>4 DEF Resumed
      <4>2. rows'[id] = row /\ row.stamp = versions'
        BY <1>2 DEF WritesRow
      <4>3. row.stamp <= versions'
        BY <1>2, <4>2
      <4>4. Live(next.request.id)'
        BY <1>3, <4>1, <4>2 DEF Live
      <4>5. id \notin Models /\ id \notin Candidates
        BY <4>1, Disjoint
      <4> QED
        BY <1>2, <1>3, <2>1, <4>1, <4>2, <4>3, <4>4, <4>5
           DEF Shown, Half, Guarded, Supplied, Known
    <3> QED
      BY <3>3, <3>4
  <2>2. CASE b # a
    <3>1. UnderWay(b)
      BY <1>0, <1>5, <2>2, OthersOverlapped
    <3>2. /\ op'[b].request = op[b].request /\ op'[b].reads = op[b].reads
          /\ op'[b].seen = op[b].seen /\ op'[b].current = op[b].current
          /\ op'[b].wrote = op[b].wrote /\ op'[b].overlapped = TRUE
      BY <1>0, <2>2, <3>1, OthersOverlapped
    <3>3. Shown(op[b]) /\ Half(op[b]) /\ Guarded(op[b]) /\ Formed(op[b])
      BY <3>1 DEF Marks, Guards, AdminTypes
    <3>4. Shown(op[b])'
      <4> SUFFICES ASSUME op[b].request.do = "patch"
                   PROVE  /\ op[b].seen # Absent /\ rows'[op[b].request.id] # Absent
                          /\ op[b].seen.stamp <= versions'
                          /\ rows'[op[b].request.id].stamp = op[b].seen.stamp
                               => rows'[op[b].request.id] = op[b].seen
        BY <3>2 DEF Shown
      <4>1. op[b].request.id \in Ids
        BY <3>3 DEF Formed, Asked
      <4>2. op[b].seen \in AnyRow
        BY <3>1, <3>3, OpTyped, ActFields DEF Shown
      <4>3. op[b].seen.stamp \in Nat
        BY <4>2 DEF AnyRow, ProviderRows, ModelRows, CandidateRows
      <4>4. op[b].seen.stamp <= versions
        BY <3>3 DEF Shown
      <4>5. op[b].seen.stamp <= versions' /\ op[b].seen.stamp # versions + 1
        BY <1>2, <4>3, <4>4
      <4>6. CASE op[b].request.id = id
        BY <1>2, <1>3, <3>3, <4>5, <4>6 DEF WritesRow, Shown
      <4>7. CASE op[b].request.id # id
        <5>1. rows'[op[b].request.id] = rows[op[b].request.id]
          BY <1>2, <4>1, <4>7
        <5> QED
          BY <3>3, <4>5, <5>1 DEF Shown
      <4> QED
        BY <4>6, <4>7
    <3>5. Half(op[b])'
      BY <3>2, <3>3 DEF Half
    <3>6. Guarded(op[b])'
      BY <3>2, <3>3 DEF Guarded
    <3>7. Supplied(op[b])' /\ Known(op[b])'
      BY <3>2 DEF Supplied, Known
    <3> QED
      BY <3>4, <3>5, <3>6, <3>7
  <2> QED
    BY <2>1, <2>2
<1>6. ASSUME NEW m \in Models, m \in Orphans' PROVE m \in raced' \cup Seeding'
  <2>1. raced' = Orphans' \cap (raced \cup IF op[a].overlapped THEN Models ELSE Deprived(a))
    BY <1>0 DEF Record
  <2>2. CASE op[a].overlapped
    BY <1>6, <2>1, <2>2
  <2>3. CASE m \in raced \/ (~op[a].overlapped /\ m \in Deprived(a))
    BY <1>6, <2>1, <2>3
  <2>4. CASE next # Idle /\ Seeds(next, m)
    BY <1>2, <2>4 DEF Seeding, UnderWay
  <2>5. CASE m \in Orphans /\ ~Seeds(op[a], m) /\ m \notin raced
    <3>1. PICK b \in Admins : UnderWay(b) /\ Seeds(op[b], m)
      BY <2>5 DEF Guards, Seeding
    <3>2. b # a
      BY <2>5, <3>1
    <3>3. (UnderWay(b))' /\ Seeds(op'[b], m)
      BY <1>0, <3>1, <3>2, OthersOverlapped
    <3> QED
      BY <3>3 DEF Seeding
  <2> QED
    BY <1>6, <2>2, <2>3, <2>4, <2>5 DEF WritesRow
<1>7. (Orphans \subseteq raced \cup Seeding)'
  BY <1>6 DEF Orphans
<1> QED
  BY <1>1, <1>4, <1>5, <1>7 DEF Marks, Guards

LEMMA TakenKeeps ==
    ASSUME AdminIInv, NEW a \in Admins, Taken(a)
    PROVE  AdminIInv'
  BY GoesOnKeeps, WritesKeeps, StopsKeeps DEF Taken

-----------------------------------------------------------------------------
(* The steps of administrators' requests that write nothing.               *)

LEMMA AdminSeeds ==
    ASSUME NEW o, o.request.do # "seed"
    PROVE  \A m \in Models : ~Seeds(o, m)
  BY DEF Seeds

LEMMA Wrote ==
    ASSUME AdminTypes, NEW a \in Admins, UnderWay(a)
    PROVE  op[a].wrote = 0 \/ op[a].wrote = 1
  BY OpTyped, ActFields

LEMMA RefuseTaken ==
    ASSUME AdminIInv, NEW a \in Admins, UnderWay(a), Reject(a), op[a].request.do # "seed",
           op[a].wrote = 1 => op[a].overlapped
    PROVE  Taken(a)
<1>1. begun' \in 0 .. MaxRequests /\ failures' \in 0 .. MaxFailures
  BY DEF AdminIInv, AdminTypes, AdminTypeOK, Reject
<1>2. op[a].wrote = 0 \/ op[a].overlapped
  BY Wrote DEF AdminIInv
<1>3. \A m \in Models : ~Seeds(op[a], m)
  BY AdminSeeds
<1>4. GoesOn(a, Idle)
  BY <1>1, <1>2, <1>3 DEF GoesOn, Reject
<1> QED
  BY <1>4, IdleIsOp DEF Taken

LEMMA AskTyped ==
    ASSUME NEW id \in Ids, NEW r \in RequestsTo(id), NEW reads \in Seq(Reads),
           NEW seen \in AnyRow \cup {Absent}, NEW current \in AnyRow \cup {Absent},
           NEW wrote \in 0 .. 1, NEW overlapped \in BOOLEAN
    PROVE  LET o == Act(r, reads, seen, current, wrote, overlapped, <<>>)
           IN  /\ o \in Ops /\ o # Idle
               /\ o.request = r /\ o.reads = reads /\ o.seen = seen /\ o.current = current
               /\ o.wrote = wrote /\ o.overlapped = overlapped /\ o.rest = <<>>
               /\ Acting(o)
<1> DEFINE o == Act(r, reads, seen, current, wrote, overlapped, <<>>)
<1>1. r \in AnyRequest
  BY DEF AnyRequest, AdminRequests
<1>2. r.id = id /\ r.do # "seed"
  BY RequestForm DEF Request
<1>3. <<>> \in Seq(AnyRequest)
  OBVIOUS
<1>4. /\ o \in Ops /\ o # Idle
      /\ o.request = r /\ o.reads = reads /\ o.seen = seen /\ o.current = current
      /\ o.wrote = wrote /\ o.overlapped = overlapped /\ o.rest = <<>>
  BY <1>1, <1>3 DEF Act, Ops, Idle
<1> HIDE DEF o
<1>5. Acting(o)
  BY <1>2, <1>4 DEF Acting, Formed, Asked
<1> QED
  BY <1>4, <1>5 DEF o

LEMMA FirstReadsForm ==
    ASSUME NEW id \in Ids, NEW r \in RequestsTo(id)
    PROVE  /\ FirstReads(r) \in Seq(Reads)
           /\ r.do \in {"patch", "delete"} /\ id \in Candidates => FirstReads(r) = <<"current">>
           /\ r.do = "patch" /\ id \in Models /\ r.values = [status |-> "active"]
                => FirstReads(r) = <<"candidates">>
<1>1. r.id = id
  BY RequestForm DEF Request
<1>2. /\ <<"model", "provider">> \in Seq(Reads) /\ <<"current">> \in Seq(Reads)
      /\ <<"candidates">> \in Seq(Reads) /\ <<>> \in Seq(Reads)
  BY DEF Reads
<1> QED
  BY <1>1, <1>2, Disjoint DEF FirstReads

LEMMA BeginTaken ==
    ASSUME AdminIInv, NEW a \in Admins, Begin(a)
    PROVE  Taken(a)
<1>0. AdminTypes /\ AdminTypeOK
  BY DEF AdminIInv, AdminTypes
<1>11. PICK id \in Ids : \E r \in RequestsTo(id) :
        /\ r.do # "create" => Live(id)
        /\ op' = [op EXCEPT ![a] = Act(r, FirstReads(r), rows[id], Absent, 0, FALSE, <<>>)]
  BY DEF Begin, Act
<1>1. PICK r \in RequestsTo(id) :
        /\ r.do # "create" => Live(id)
        /\ op' = [op EXCEPT ![a] = Act(r, FirstReads(r), rows[id], Absent, 0, FALSE, <<>>)]
  BY <1>11
<1> DEFINE o == Act(r, FirstReads(r), rows[id], Absent, 0, FALSE, <<>>)
<1>2. /\ rows[id] \in AnyRow \cup {Absent} /\ Absent \in AnyRow \cup {Absent}
      /\ 0 \in 0 .. 1 /\ FALSE \in BOOLEAN
  BY <1>0 DEF AdminTypeOK
<1>3. r.id = id /\ r.do \in {"create", "delete", "patch"}
  BY RequestForm DEF Request
<1>4. /\ FirstReads(r) \in Seq(Reads)
      /\ r.do \in {"patch", "delete"} /\ id \in Candidates => FirstReads(r) = <<"current">>
      /\ r.do = "patch" /\ id \in Models /\ r.values = [status |-> "active"]
           => FirstReads(r) = <<"candidates">>
  BY FirstReadsForm
<1>5. /\ o \in Ops /\ o # Idle
      /\ o.request = r /\ o.reads = FirstReads(r) /\ o.seen = rows[id] /\ o.current = Absent
      /\ o.wrote = 0 /\ o.overlapped = FALSE /\ o.rest = <<>>
      /\ Acting(o)
  BY <1>2, <1>4, AskTyped
<1> HIDE DEF o
<1>6. Shown(o)
  <2>1. CASE r.do = "patch"
    <3>1. rows[id] # Absent
      BY <1>1, <2>1 DEF Live
    <3>2. rows[id].stamp <= versions
      BY <1>0, <3>1, RowsHaveForm
    <3> QED
      BY <1>3, <1>5, <3>1, <3>2 DEF Shown
  <2> QED
    BY <1>5, <2>1 DEF Shown
<1>7. Half(o) /\ Guarded(o) /\ Supplied(o) /\ Known(o)
  BY <1>3, <1>4, <1>5 DEF Half, Guarded, Supplied, Known
<1>8. op' = [op EXCEPT ![a] = o]
  BY <1>1 DEF o
<1>9. begun' \in 0 .. MaxRequests /\ failures' \in 0 .. MaxFailures
  BY <1>0, AdministrationAssumption DEF AdministrationAssumption, AdminTypeOK, Begin
<1>10. ~UnderWay(a) /\ UNCHANGED <<rows, versions, raced>>
  BY DEF Begin
<1>12. GoesOn(a, o)
  BY <1>5, <1>6, <1>7, <1>8, <1>9, <1>10 DEF GoesOn, AdminFits
<1> QED
  BY <1>5, <1>12 DEF Taken

\* A request that reads: the row it was shown is as before.
LEMMA ReadsOn ==
    ASSUME AdminIInv, NEW a \in Admins, UnderWay(a), op[a].request.do # "seed",
           op[a].reads # <<>>,
           NEW reads \in Seq(Reads), NEW current \in AnyRow \cup {Absent},
           Continue(a, Act(op[a].request, reads, op[a].seen, current, op[a].wrote,
                           op[a].overlapped, op[a].rest)),
           \A n \in Ops : /\ n.request = op[a].request /\ n.reads = reads /\ n.current = current
                          /\ n.overlapped = op[a].overlapped
                          => Guarded(n) /\ Supplied(n)
    PROVE  Taken(a)
<1> DEFINE o == op[a]
           n == Act(o.request, reads, o.seen, current, o.wrote, o.overlapped, <<>>)
<1>0. AdminTypes /\ AdminTypeOK
  BY DEF AdminIInv, AdminTypes
<1>1. o \in Ops /\ o # Idle /\ Formed(o)
  BY <1>0, OpTyped
<1>2. /\ o.request \in AnyRequest /\ o.seen \in AnyRow \cup {Absent}
      /\ o.wrote \in 0 .. 1 /\ o.overlapped \in BOOLEAN
  BY <1>1, ActFields
<1>3. o.request.id \in Ids /\ o.request \in RequestsTo(o.request.id) /\ o.rest = <<>>
  BY <1>1 DEF Formed, Asked
<1>4. op' = [op EXCEPT ![a] = n] /\ UNCHANGED <<rows, versions, raced, begun, failures>>
  BY <1>3 DEF Continue
<1> HIDE DEF o
<1>5. /\ n \in Ops /\ n # Idle
      /\ n.request = o.request /\ n.reads = reads /\ n.seen = o.seen /\ n.current = current
      /\ n.wrote = o.wrote /\ n.overlapped = o.overlapped /\ n.rest = <<>>
  BY <1>2 DEF Act, Ops, Idle
<1> HIDE DEF n
<1>13. Acting(n)
  BY <1>3, <1>5 DEF Acting, Formed, Asked, o
<1>6. Shown(o) /\ Half(o)
  BY DEF AdminIInv, Marks, o
<1>7. o.wrote # 1
  BY <1>6 DEF Half, o
<1>8. Shown(n) /\ Half(n)
  BY <1>5, <1>6, <1>7 DEF Shown, Half
<1>9. Guarded(n) /\ Supplied(n) /\ Known(n)
  BY <1>5 DEF Known, o
<1>11. \A m \in Models : ~Seeds(op[a], m)
  BY AdminSeeds
<1>12. GoesOn(a, n)
  BY <1>0, <1>5, <1>8, <1>9, <1>4, <1>11, <1>13 DEF GoesOn, AdminFits, AdminTypeOK
<1> QED
  BY <1>5, <1>12 DEF Taken

LEMMA SameRemoves ==
    ASSUME NEW o, NEW n, n.request = o.request, n.current = o.current
    PROVE  (Removes(n) <=> Removes(o)) /\ (Spared(n) <=> Spared(o))
  BY DEF Removes, Intended, Spared

LEMMA ReadCurrentTaken ==
    ASSUME AdminIInv, NEW a \in Admins, UnderWay(a), op[a].request.do # "seed",
           op[a].reads # <<>>, Head(op[a].reads) = "current", ReadCurrent(a),
           Live(op[a].request.id)
    PROVE  Taken(a)
<1> DEFINE o == op[a]
           row == rows[o.request.id]
           m == Act(o.request, o.reads, o.seen, row, o.wrote, o.overlapped, o.rest)
<1>1. PICK reads \in Protecting \cup Referring :
        /\ Removes(m) => reads \in Protecting
        /\ Continue(a, Act(o.request, reads, o.seen, row, o.wrote, o.overlapped, o.rest))
  BY CurrentRead DEF AdminIInv
<1>2. o.request.id \in Ids
  BY OpTyped DEF AdminIInv, Formed, Asked
<1>3. row \in AnyRow \cup {Absent}
  BY <1>2 DEF AdminIInv, AdminTypes, AdminTypeOK
<1>4. reads \in Seq(Reads)
  BY ReadListsTyped
<1>5. m.request = o.request /\ m.current = row
  BY DEF Act
<1>6. Supplied(o)
  BY DEF AdminIInv, Guards
<1>7. o.reads # <<"candidates">>
  OBVIOUS
<1> HIDE DEF m
<1>8. ASSUME NEW n \in Ops, n.request = o.request, n.reads = reads, n.current = row,
             n.overlapped = o.overlapped
      PROVE  Guarded(n) /\ Supplied(n)
  <2>1. Removes(n) => reads \in Protecting
    BY <1>1, <1>5, <1>8, SameRemoves
  <2> HIDE DEF o, row
  <2>2. Guarded(n)
    BY <1>8, <2>1 DEF Guarded, row
  <2>3. Supplied(n)
    BY <1>6, <1>7, <1>8 DEF Supplied
  <2> QED
    BY <2>2, <2>3
<1> HIDE DEF row
<1> QED
  BY <1>1, <1>3, <1>4, <1>8, ReadsOn

LEMMA TailIs ==
    ASSUME NEW s \in Seq(Reads), NEW t \in Seq(Reads), Len(s) = Len(t) + 1,
           \A i \in 1 .. Len(t) : t[i] = s[i + 1]
    PROVE  Tail(s) = t
<1>1. s # <<>>
  OBVIOUS
<1>2. /\ Tail(s) \in Seq(Reads) /\ Len(Tail(s)) = Len(s) - 1
      /\ \A i \in 1 .. Len(Tail(s)) : Tail(s)[i] = s[i + 1]
  BY <1>1, HeadTailProperties
<1>3. Len(Tail(s)) = Len(t)
  BY <1>2
<1> QED
  BY <1>2, <1>3, SeqEqual

LEMMA Tails ==
    /\ Tail(<<"model", "provider", "own model", "others">>) = <<"provider", "own model", "others">>
    /\ Tail(<<"provider", "own model", "others">>) = <<"own model", "others">>
    /\ Tail(<<"own model", "others">>) = <<"others">>
    /\ Tail(<<"others">>) = <<>>
    /\ Tail(<<"model", "provider">>) = <<"provider">>
    /\ Tail(<<"provider">>) = <<>>
<1>0. /\ \A i \in 1 .. 1 : i = 1
      /\ \A i \in 1 .. 2 : i = 1 \/ i = 2
      /\ \A i \in 1 .. 3 : i = 1 \/ i = 2 \/ i = 3
  OBVIOUS
<1>1. Tail(<<"model", "provider", "own model", "others">>) = <<"provider", "own model", "others">>
  <2> DEFINE s == <<"model", "provider", "own model", "others">>
             t == <<"provider", "own model", "others">>
  <2>1. s \in Seq(Reads) /\ t \in Seq(Reads) /\ Len(s) = 4 /\ Len(t) = 3
    BY DEF Reads
  <2>2. t[1] = s[2] /\ t[2] = s[3] /\ t[3] = s[4]
    OBVIOUS
  <2> HIDE DEF s, t
  <2>3. \A i \in 1 .. 3 : t[i] = s[i + 1]
    BY <1>0, <2>2
  <2>5. Len(s) = Len(t) + 1 /\ \A i \in 1 .. Len(t) : t[i] = s[i + 1]
    BY <2>1, <2>3
  <2>4. Tail(s) = t
    BY <2>1, <2>5, TailIs, Zenon
  <2> QED
    BY <2>4 DEF s, t
<1>2. Tail(<<"provider", "own model", "others">>) = <<"own model", "others">>
  <2> DEFINE s == <<"provider", "own model", "others">>
             t == <<"own model", "others">>
  <2>1. s \in Seq(Reads) /\ t \in Seq(Reads) /\ Len(s) = 3 /\ Len(t) = 2
    BY DEF Reads
  <2>2. t[1] = s[2] /\ t[2] = s[3]
    OBVIOUS
  <2> HIDE DEF s, t
  <2>3. \A i \in 1 .. 2 : t[i] = s[i + 1]
    BY <1>0, <2>2
  <2>5. Len(s) = Len(t) + 1 /\ \A i \in 1 .. Len(t) : t[i] = s[i + 1]
    BY <2>1, <2>3
  <2>4. Tail(s) = t
    BY <2>1, <2>5, TailIs, Zenon
  <2> QED
    BY <2>4 DEF s, t
<1>3. Tail(<<"own model", "others">>) = <<"others">>
  <2> DEFINE s == <<"own model", "others">>
             t == <<"others">>
  <2>1. s \in Seq(Reads) /\ t \in Seq(Reads) /\ Len(s) = 2 /\ Len(t) = 1
    BY DEF Reads
  <2>2. t[1] = s[2]
    OBVIOUS
  <2> HIDE DEF s, t
  <2>3. \A i \in 1 .. 1 : t[i] = s[i + 1]
    BY <1>0, <2>2
  <2>5. Len(s) = Len(t) + 1 /\ \A i \in 1 .. Len(t) : t[i] = s[i + 1]
    BY <2>1, <2>3
  <2>4. Tail(s) = t
    BY <2>1, <2>5, TailIs, Zenon
  <2> QED
    BY <2>4 DEF s, t
<1>4. Tail(<<"others">>) = <<>>
  <2> DEFINE s == <<"others">>
             t == <<>>
  <2>1. s \in Seq(Reads) /\ t \in Seq(Reads) /\ Len(s) = 1 /\ Len(t) = 0
    BY DEF Reads
  <2> HIDE DEF s, t
  <2>5. Len(s) = Len(t) + 1 /\ \A i \in 1 .. Len(t) : t[i] = s[i + 1]
    BY <2>1
  <2>4. Tail(s) = t
    BY <2>1, <2>5, TailIs, Zenon
  <2> QED
    BY <2>4 DEF s, t
<1>5. Tail(<<"model", "provider">>) = <<"provider">>
  <2> DEFINE s == <<"model", "provider">>
             t == <<"provider">>
  <2>1. s \in Seq(Reads) /\ t \in Seq(Reads) /\ Len(s) = 2 /\ Len(t) = 1
    BY DEF Reads
  <2>2. t[1] = s[2]
    OBVIOUS
  <2> HIDE DEF s, t
  <2>3. \A i \in 1 .. 1 : t[i] = s[i + 1]
    BY <1>0, <2>2
  <2>5. Len(s) = Len(t) + 1 /\ \A i \in 1 .. Len(t) : t[i] = s[i + 1]
    BY <2>1, <2>3
  <2>4. Tail(s) = t
    BY <2>1, <2>5, TailIs, Zenon
  <2> QED
    BY <2>4 DEF s, t
<1>6. Tail(<<"provider">>) = <<>>
  <2> DEFINE s == <<"provider">>
             t == <<>>
  <2>1. s \in Seq(Reads) /\ t \in Seq(Reads) /\ Len(s) = 1 /\ Len(t) = 0
    BY DEF Reads
  <2> HIDE DEF s, t
  <2>5. Len(s) = Len(t) + 1 /\ \A i \in 1 .. Len(t) : t[i] = s[i + 1]
    BY <2>1
  <2>4. Tail(s) = t
    BY <2>1, <2>5, TailIs, Zenon
  <2> QED
    BY <2>4 DEF s, t
<1> QED
  BY <1>1, <1>2, <1>3, <1>4, <1>5, <1>6

\* What is read next, and what is known once the last of the reads has passed.
LEMMA NextReads ==
    ASSUME NEW reads \in Protecting \cup Referring, reads # <<>>
    PROVE  /\ Tail(reads) \in Protecting \cup Referring /\ <<>> \in Referring
           /\ reads \in Referring => /\ Tail(reads) \in Referring /\ reads \notin Protecting
                                     /\ Head(reads) # "own model"
           /\ reads \in Protecting => Tail(reads) \in Protecting \/ Head(reads) = "others"
<1>1. \A s \in Referring : s = <<>> \/ s[Len(s)] = "provider"
  BY DEF Referring
<1>2. \A s \in Protecting : s # <<>> /\ s[Len(s)] = "others"
  <2>1. Len(<<"model", "provider", "own model", "others">>) = 4
        /\ <<"model", "provider", "own model", "others">>[4] = "others"
    OBVIOUS
  <2>2. Len(<<"provider", "own model", "others">>) = 3
        /\ <<"provider", "own model", "others">>[3] = "others"
    OBVIOUS
  <2>3. Len(<<"own model", "others">>) = 2 /\ <<"own model", "others">>[2] = "others"
    OBVIOUS
  <2>4. Len(<<"others">>) = 1 /\ <<"others">>[1] = "others"
    OBVIOUS
  <2> SUFFICES ASSUME NEW s \in Protecting PROVE s # <<>> /\ s[Len(s)] = "others"
    OBVIOUS
  <2>5. Len(s) \in {1, 2, 3, 4} /\ s[Len(s)] = "others"
    BY <2>1, <2>2, <2>3, <2>4, Zenon DEF Protecting
  <2> QED
    BY <2>5
<1>3. reads \in Referring => reads \notin Protecting
  BY <1>1, <1>2
<1>4. <<>> \in Referring
  BY DEF Referring
<1>5. reads \in Referring => Tail(reads) \in Referring /\ Head(reads) # "own model"
  <2>1. CASE reads = <<"model", "provider">>
    <3>1. Tail(reads) = <<"provider">>
      BY <2>1, Tails, Zenon
    <3>2. Head(reads) = "model"
      BY <2>1
    <3> QED
      BY <3>1, <3>2 DEF Referring
  <2>2. CASE reads = <<"provider">>
    <3>1. Tail(reads) = <<>>
      BY <2>2, Tails, Zenon
    <3>2. Head(reads) = "provider"
      BY <2>2
    <3> QED
      BY <3>1, <3>2 DEF Referring
  <2> QED
    BY <2>1, <2>2 DEF Referring
<1>6. reads \in Protecting => /\ Tail(reads) \in Protecting \cup {<<>>}
                              /\ Tail(reads) \in Protecting \/ Head(reads) = "others"
  <2>1. CASE reads = <<"model", "provider", "own model", "others">>
    <3>1. Tail(reads) = <<"provider", "own model", "others">>
      BY <2>1, Tails, Zenon
    <3> QED
      BY <3>1 DEF Protecting
  <2>2. CASE reads = <<"provider", "own model", "others">>
    <3>1. Tail(reads) = <<"own model", "others">>
      BY <2>2, Tails, Zenon
    <3> QED
      BY <3>1 DEF Protecting
  <2>3. CASE reads = <<"own model", "others">>
    <3>1. Tail(reads) = <<"others">>
      BY <2>3, Tails, Zenon
    <3> QED
      BY <3>1 DEF Protecting
  <2>4. CASE reads = <<"others">>
    <3>1. Tail(reads) = <<>>
      BY <2>4, Tails, Zenon
    <3>2. Head(reads) = "others"
      BY <2>4
    <3> QED
      BY <3>1, <3>2
  <2> QED
    BY <2>1, <2>2, <2>3, <2>4 DEF Protecting
<1> QED
  BY <1>3, <1>4, <1>5, <1>6

LEMMA ReadOtherTaken ==
    ASSUME AdminIInv, NEW a \in Admins, UnderWay(a), op[a].request.do # "seed",
           op[a].reads # <<>>, Head(op[a].reads) # "current", ReadOther(a),
           Holds(op[a], Head(op[a].reads))
    PROVE  Taken(a)
<1> DEFINE o == op[a]
           done == Head(o.reads) = "own model" /\ ~Active(o.current.model)
<1>1. PICK reads \in Seq(Reads) :
        /\ reads = IF done THEN <<>> ELSE Tail(o.reads)
        /\ Continue(a, Act(o.request, reads, o.seen, o.current, o.wrote, o.overlapped, o.rest))
  BY OtherRead DEF AdminIInv
<1>2. o.current \in AnyRow \cup {Absent}
  BY OpTyped, ActFields DEF AdminIInv
<1>3. Guarded(o) /\ Supplied(o)
  BY DEF AdminIInv, Guards
<1>4. o.reads # <<"current">>
  OBVIOUS
<1>5. ASSUME NEW n \in Ops, n.request = o.request, n.reads = reads, n.current = o.current,
             n.overlapped = o.overlapped
      PROVE  Guarded(n) /\ Supplied(n)
  <2>1. (Removes(n) <=> Removes(o)) /\ (Spared(n) <=> Spared(o))
    BY <1>5, SameRemoves
  <2>2. Supplied(n)
    <3>1. CASE o.reads = <<"candidates">> /\ o.request.id \in Models
      <4>1. Head(o.reads) = "candidates"
        BY <3>1
      <4>2. ActiveCandidates(o.request.id) # {}
        BY <4>1 DEF Holds
      <4> HIDE DEF o
      <4> QED
        BY <1>5, <4>2 DEF Supplied
    <3>2. CASE ~(o.reads = <<"candidates">> /\ o.request.id \in Models)
      <4> HIDE DEF o
      <4> QED
        BY <1>3, <1>5, <3>2 DEF Supplied
    <3> QED
      BY <3>1, <3>2
  <2>3. Guarded(n)
    <3> SUFFICES ASSUME o.request.do \in {"patch", "delete"}, o.request.id \in Candidates
                 PROVE  /\ reads \in Protecting \cup Referring
                        /\ ~o.overlapped =>
                             /\ o.current = rows[o.request.id]
                             /\ reads \in Protecting \/ ~Removes(o) \/ Spared(o)
      <4> HIDE DEF o
      <4> QED
        BY <1>5, <2>1 DEF Guarded
    <3>1. /\ o.reads \in Protecting \cup Referring
          /\ ~o.overlapped =>
               /\ o.current = rows[o.request.id]
               /\ o.reads \in Protecting \/ ~Removes(o) \/ Spared(o)
      BY <1>3, <1>4 DEF Guarded
    <3>2. /\ Tail(o.reads) \in Protecting \cup Referring /\ <<>> \in Referring
          /\ o.reads \in Referring => Tail(o.reads) \in Referring /\ o.reads \notin Protecting
                                      /\ Head(o.reads) # "own model"
          /\ o.reads \in Protecting => \/ Tail(o.reads) \in Protecting
                                       \/ Head(o.reads) = "others"
      BY <3>1, NextReads
    <3>3. done => Spared(o)
      BY DEF Spared
    <3>4. Head(o.reads) = "others" => Spared(o)
      BY DEF Holds, Spared
    <3> HIDE DEF o
    <3> QED
      BY <1>1, <3>1, <3>2, <3>3, <3>4
  <2> QED
    BY <2>2, <2>3
<1> HIDE DEF done
<1> QED
  BY <1>1, <1>2, <1>5, ReadsOn

LEMMA ReadTaken ==
    ASSUME AdminIInv, NEW a \in Admins, Read(a)
    PROVE  Taken(a)
<1>1. UnderWay(a) /\ op[a].request.do # "seed" /\ op[a].reads # <<>>
  BY DEF Read
<1>2. op[a].wrote # 1
  BY <1>1 DEF AdminIInv, Marks, Half
<1>3. CASE Reject(a)
  BY <1>1, <1>2, <1>3, RefuseTaken
<1>4. CASE ~Reject(a) /\ Head(op[a].reads) = "current"
  <2>1. ReadCurrent(a)
    BY <1>4 DEF Read
  <2>2. Live(op[a].request.id)
    <3>1. [op[a] EXCEPT !.current = rows[op[a].request.id]].request = op[a].request
      BY <1>1, OpTyped, ActFields DEF AdminIInv, Act
    <3> QED
      BY <1>4, <2>1, <3>1 DEF ReadCurrent
  <2> QED
    BY <1>1, <1>4, <2>1, <2>2, ReadCurrentTaken
<1>5. CASE ~Reject(a) /\ Head(op[a].reads) # "current"
  BY <1>1, <1>5, ReadOtherTaken DEF Read, ReadOther
<1> QED
  BY <1>3, <1>4, <1>5

-----------------------------------------------------------------------------
(* The writes of administrators' requests.                                 *)

\* A model is newly without a candidate only if the row written is the model's or its
\* candidate's.
LEMMA NewOrphan ==
    ASSUME NEW id \in Ids, NEW row \in AnyRow,
           \A x \in Ids : rows'[x] = IF x = id THEN row ELSE rows[x],
           NEW m \in Models, m \in Orphans'
    PROVE  /\ id \in Providers => m \in Orphans
           /\ id \in Models => \/ m \in Orphans
                               \/ m = id /\ row.status = "active" /\ ActiveCandidates(id) = {}
           /\ id \in Candidates => /\ Active(m) /\ ActiveCandidates(m) \subseteq {id}
                                   /\ ~(row.status = "active" /\ row.model = m)
<1>1. row # Absent
  BY Disjoint
<1>2. \A x \in Ids : x # id => (Active(x)' <=> Active(x))
  BY DEF Active
<1>3. Active(id)' <=> row.status = "active"
  BY <1>1 DEF Active
<1>4. Active(m)' /\ \A c \in Candidates : ~(Active(c)' /\ rows'[c].model = m)
  BY DEF Orphans, ActiveCandidates
<1>5. Models \subseteq Ids /\ Candidates \subseteq Ids
  BY DEF Ids
<1>6. \A c \in Candidates : c # id => ~(Active(c) /\ rows[c].model = m)
  BY <1>2, <1>4, <1>5
<1>7. ActiveCandidates(m) \subseteq {id}
  BY <1>6 DEF ActiveCandidates
<1>8. m # id => Active(m)
  BY <1>2, <1>4, <1>5
<1>9. id \notin Candidates => ActiveCandidates(m) = {}
  BY <1>6 DEF ActiveCandidates
<1>10. CASE id \in Providers
  <2>1. id \notin Candidates /\ id \notin Models
    BY <1>10, Disjoint
  <2> QED
    BY <1>8, <1>9, <2>1 DEF Orphans
<1>11. CASE id \in Models
  <2>1. id \notin Candidates /\ id \notin Providers
    BY <1>11, Disjoint
  <2> QED
    BY <1>3, <1>4, <1>8, <1>9, <2>1 DEF Orphans
<1>12. CASE id \in Candidates
  <2>1. id \notin Models /\ id \notin Providers
    BY <1>12, Disjoint
  <2> QED
    BY <1>3, <1>4, <1>7, <1>8, <1>12, <2>1
<1> QED
  BY <1>10, <1>11, <1>12 DEF Ids

\* What one transaction of an administrator's request needs to be a step.
LEMMA AdminWrites ==
    ASSUME AdminIInv, NEW a \in Admins, UnderWay(a), op[a].request.do # "seed",
           NEW row, RowOf(op[a].request.id, row), row.stamp = versions + 1,
           NEW next \in Ops, Record(a, op[a].request.id, row, next),
           op[a].request.id \in Providers => row.sealed = row.protocol,
           next = Idle \/ Resumed(next, op[a].request.id, row),
           op[a].request.do = "patch" => rows[op[a].request.id] = op[a].seen,
           op[a].request.id \in Models /\ row.status = "active" /\ ~op[a].overlapped =>
              Active(op[a].request.id) \/ ActiveCandidates(op[a].request.id) # {},
           op[a].request.id \in Candidates /\ Active(op[a].request.id) /\ ~op[a].overlapped =>
              \/ row.status = "active" /\ row.model = rows[op[a].request.id].model
              \/ /\ Active(rows[op[a].request.id].model)
                 => ~(ActiveCandidates(rows[op[a].request.id].model) \subseteq {op[a].request.id})
    PROVE  Taken(a)
<1> DEFINE id == op[a].request.id
<1>1. Formed(op[a]) /\ AdminTypeOK
  BY OpTyped DEF AdminIInv, AdminTypes
<1>2. id \in Ids
  BY <1>1 DEF Formed, Asked
<1>3. row \in AnyRow
  BY DEF RowOf
<1>4. \A x \in Ids : rows'[x] = IF x = id THEN row ELSE rows[x]
  BY <1>1, <1>2, RowWritten
<1>5. \A m \in Models : ~Seeds(op[a], m)
  BY AdminSeeds
<1>6. ASSUME NEW m \in Models, m \in Orphans', ~op[a].overlapped PROVE m \in Orphans
  <2>1. /\ id \in Providers => m \in Orphans
        /\ id \in Models => \/ m \in Orphans
                            \/ m = id /\ row.status = "active" /\ ActiveCandidates(id) = {}
        /\ id \in Candidates => /\ Active(m) /\ ActiveCandidates(m) \subseteq {id}
                                /\ ~(row.status = "active" /\ row.model = m)
    BY <1>2, <1>3, <1>4, <1>6, NewOrphan
  <2>2. CASE id \in Models
    BY <1>6, <2>1, <2>2 DEF Orphans
  <2>3. CASE id \in Candidates
    <3>1. Active(m) /\ ActiveCandidates(m) \subseteq {id} /\ ~(row.status = "active" /\ row.model = m)
      BY <2>1, <2>3
    <3>2. CASE ActiveCandidates(m) = {}
      BY <3>1, <3>2 DEF Orphans
    <3>3. CASE ActiveCandidates(m) # {}
      <4>1. Active(id) /\ rows[id].model = m
        BY <3>1, <3>3 DEF ActiveCandidates
      <4> QED
        BY <1>6, <2>3, <3>1, <4>1
    <3> QED
      BY <3>2, <3>3
  <2> QED
    BY <1>2, <2>1, <2>2, <2>3 DEF Ids
<1>7. WritesRow(a, id, row, next)
  BY <1>5, <1>6 DEF WritesRow
<1> QED
  BY <1>2, <1>3, <1>7 DEF Taken

LEMMA NothingWritten ==
    ASSUME AdminIInv, NEW a \in Admins, UnderWay(a),
           op[a].reads # <<>> \/ op[a].request.do # "patch" \/ op[a].request.values # <<>>
    PROVE  op[a].wrote # 1
  BY DEF AdminIInv, Marks, Half

LEMMA CreateForm ==
    ASSUME AdminIInv, NEW a \in Admins, UnderWay(a), op[a].request.do = "create"
    PROVE  /\ op[a].request.id \in Ids
           /\ op[a].request.values \in NewRowsOf(op[a].request.id)
           /\ versions + 1 \in Nat
<1>1. Formed(op[a])
  BY OpTyped DEF AdminIInv
<1>2. op[a].request.id \in Ids /\ op[a].request \in RequestsTo(op[a].request.id)
  BY <1>1 DEF Formed, Asked
<1> QED
  BY <1>2, RequestForm DEF AdminIInv, AdminTypes, AdminTypeOK

LEMMA CreateTaken ==
    ASSUME AdminIInv, NEW a \in Admins, UnderWay(a),
           NEW row, NEW allowed, CreateRow(a, row, allowed),
           RowOf(op[a].request.id, row), row.stamp = versions + 1,
           op[a].request.id \in Providers => row.sealed = row.protocol,
           op[a].request.id \in Models => row.status # "active"
    PROVE  Taken(a)
<1>1. op[a].request.do = "create"
  BY DEF CreateRow
<1>2. CASE Reject(a)
  BY <1>1, <1>2, NothingWritten, RefuseTaken
<1>3. CASE ~Reject(a)
  <2>1. rows[op[a].request.id] = Absent /\ Record(a, op[a].request.id, row, Idle)
    BY <1>3 DEF CreateRow
  <2>2. ~Active(op[a].request.id)
    BY <2>1 DEF Active
  <2> QED
    BY <1>1, <2>1, <2>2, IdleIsOp, AdminWrites
<1> QED
  BY <1>2, <1>3

LEMMA CreateProviderTaken ==
    ASSUME AdminIInv, NEW a \in Admins, CreateProvider(a)
    PROVE  Taken(a)
<1> DEFINE values == op[a].request.values
           row == [status |-> values.status, protocol |-> values.protocol,
                   sealed |-> values.protocol, stamp |-> versions + 1]
<1>1. UnderWay(a) /\ op[a].request.id \in Providers /\ CreateRow(a, row, TRUE)
  BY DEF CreateProvider
<1>2. values \in [status : Settable, protocol : Protocols] /\ versions + 1 \in Nat
  BY <1>1, CreateForm, NewRowForm DEF CreateRow
<1>3. RowOf(op[a].request.id, row)
  BY <1>1, <1>2, Disjoint DEF RowOf, AnyRow, ProviderRows, Settable, Statuses
<1>4. row.sealed = row.protocol /\ row.stamp = versions + 1
  OBVIOUS
<1>5. op[a].request.id \notin Models
  BY <1>1, Disjoint
<1> HIDE DEF row
<1> QED
  BY <1>1, <1>3, <1>4, <1>5, CreateTaken

LEMMA CreateModelTaken ==
    ASSUME AdminIInv, NEW a \in Admins, CreateModel(a)
    PROVE  Taken(a)
<1> DEFINE values == op[a].request.values
           row == [status |-> values.status, aliases |-> values.aliases, stamp |-> versions + 1]
           free == AliasesFree(op[a].request.id, values.aliases)
<1>1. UnderWay(a) /\ op[a].request.id \in Models /\ CreateRow(a, row, free)
  BY DEF CreateModel
<1>2. values \in [status : {"disabled"}, aliases : AliasSets] /\ versions + 1 \in Nat
  BY <1>1, CreateForm, NewRowForm DEF CreateRow
<1>3. RowOf(op[a].request.id, row)
  BY <1>1, <1>2, AliasesAreNames, Disjoint DEF RowOf, AnyRow, ModelRows, Statuses
<1>4. row.status # "active" /\ row.stamp = versions + 1
  BY <1>2
<1>5. op[a].request.id \notin Providers
  BY <1>1, Disjoint
<1> HIDE DEF row, free
<1> QED
  BY <1>1, <1>3, <1>4, <1>5, CreateTaken

LEMMA CreateCandidateTaken ==
    ASSUME AdminIInv, NEW a \in Admins, CreateCandidate(a)
    PROVE  Taken(a)
<1> DEFINE values == op[a].request.values
           row == [status |-> values.status, model |-> values.model,
                   provider |-> values.provider, stamp |-> versions + 1]
<1>1. UnderWay(a) /\ op[a].request.id \in Candidates /\ CreateRow(a, row, TRUE)
  BY DEF CreateCandidate
<1>2. values \in [status : Settable, model : Models, provider : Providers] /\ versions + 1 \in Nat
  BY <1>1, CreateForm, NewRowForm DEF CreateRow
<1>3. RowOf(op[a].request.id, row)
  BY <1>1, <1>2, Disjoint DEF RowOf, AnyRow, CandidateRows, Settable, Statuses
<1>4. row.stamp = versions + 1
  OBVIOUS
<1>5. op[a].request.id \notin Providers /\ op[a].request.id \notin Models
  BY <1>1, Disjoint
<1> HIDE DEF row
<1> QED
  BY <1>1, <1>3, <1>4, <1>5, CreateTaken

\* The request of an administrator that writes a row it finds.
LEMMA WriterForm ==
    ASSUME AdminIInv, NEW a \in Admins, UnderWay(a), op[a].request.do # "seed"
    PROVE  /\ op[a].request.id \in Ids
           /\ op[a].request \in RequestsTo(op[a].request.id)
           /\ op[a] \in Ops /\ op[a] # Idle /\ op[a].rest = <<>>
           /\ versions + 1 \in Nat
           /\ Live(op[a].request.id) => RowOf(op[a].request.id, rows[op[a].request.id])
           /\ Sealed /\ Shown(op[a]) /\ Half(op[a]) /\ Guarded(op[a]) /\ Supplied(op[a])
<1>1. op[a] \in Ops /\ op[a] # Idle /\ Formed(op[a])
  BY OpTyped DEF AdminIInv
<1>2. op[a].request.id \in Ids /\ op[a].request \in RequestsTo(op[a].request.id) /\ op[a].rest = <<>>
  BY <1>1 DEF Formed, Asked
<1>3. AdminTypeOK
  BY DEF AdminIInv, AdminTypes
<1>4. Live(op[a].request.id) => RowOf(op[a].request.id, rows[op[a].request.id])
  BY <1>2, <1>3, RowsHaveForm DEF Live
<1> QED
  BY <1>1, <1>2, <1>3, <1>4 DEF AdminIInv, Marks, Guards, AdminTypeOK

\* What the guards of a candidate's request have found when it comes to write.
LEMMA GuardedWrite ==
    ASSUME AdminIInv, NEW a \in Admins, UnderWay(a),
           op[a].request.do \in {"patch", "delete"}, op[a].request.id \in Candidates,
           op[a].reads = <<>>, ~op[a].overlapped
    PROVE  /\ op[a].current = rows[op[a].request.id]
           /\ ~Removes(op[a]) \/ Spared(op[a])
<1>1. Guarded(op[a])
  BY DEF AdminIInv, Guards
<1>2. op[a].reads # <<"current">>
  OBVIOUS
<1>3. <<>> \notin Protecting
  BY DEF Protecting
<1> QED
  BY <1>1, <1>2, <1>3 DEF Guarded

LEMMA DeleteTaken ==
    ASSUME AdminIInv, NEW a \in Admins, UnderWay(a), DeleteRow(a)
    PROVE  Taken(a)
<1> DEFINE id == op[a].request.id
           row == [rows[id] EXCEPT !.status = "deleted", !.stamp = versions + 1]
<1>1. op[a].request.do = "delete" /\ op[a].reads = <<>>
  BY DEF DeleteRow
<1>2. CASE Reject(a)
  BY <1>1, <1>2, NothingWritten, RefuseTaken
<1>3. CASE ~Reject(a)
  <2>1. Live(id) /\ Record(a, id, row, Idle)
    BY <1>3 DEF DeleteRow
  <2>2. /\ id \in Ids /\ versions + 1 \in Nat /\ RowOf(id, rows[id]) /\ Sealed
    BY <1>1, <2>1, WriterForm
  <2>3. RowOf(id, row) /\ row.stamp = versions + 1 /\ row.status = "deleted"
    <3>1. CASE id \in Providers
      BY <2>2, <3>1, Disjoint DEF RowOf, AnyRow, ProviderRows, Statuses
    <3>2. CASE id \in Models
      BY <2>2, <3>2, Disjoint DEF RowOf, AnyRow, ModelRows, Statuses
    <3>3. CASE id \in Candidates
      BY <2>2, <3>3, Disjoint DEF RowOf, AnyRow, CandidateRows, Statuses
    <3> QED
      BY <2>2, <3>1, <3>2, <3>3 DEF Ids
  <2>4. id \in Providers => row.sealed = row.protocol
    BY <2>1, <2>2 DEF Sealed, RowOf, ProviderRows, Live
  <2>5. ASSUME id \in Candidates, Active(id), ~op[a].overlapped
        PROVE  Active(rows[id].model) => ~(ActiveCandidates(rows[id].model) \subseteq {id})
    <3>1. op[a].current = rows[id] /\ (~Removes(op[a]) \/ Spared(op[a]))
      BY <1>1, <2>5, GuardedWrite
    <3>2. Removes(op[a])
      BY <1>1, <2>5, <3>1 DEF Removes, Active
    <3> QED
      BY <3>1, <3>2 DEF Spared
  <2> HIDE DEF row
  <2> QED
    BY <1>1, <2>1, <2>3, <2>4, <2>5, IdleIsOp, AdminWrites
<1> QED
  BY <1>2, <1>3

\* A row that lives and is updated.
LEMMA UpdatedForm ==
    ASSUME AdminIInv, NEW id \in Ids, Live(id), NEW values, Sets(id, values)
    PROVE  LET row == Update(rows[id], values, versions + 1)
           IN  /\ RowOf(id, row) /\ row.stamp = versions + 1
               /\ row.status = After(rows[id], values, "status")
               /\ id \in Providers => row.sealed = row.protocol
               /\ id \in Candidates => row.model = After(rows[id], values, "model")
<1> DEFINE row == Update(rows[id], values, versions + 1)
<1>1. AdminTypeOK /\ rows[id] # Absent /\ Sealed
  BY DEF AdminIInv, AdminTypes, Marks, Live
<1>2. RowOf(id, rows[id]) /\ versions + 1 \in Nat
  BY <1>1, RowsHaveForm DEF AdminTypeOK
<1>3. RowOf(id, row) /\ row.stamp = versions + 1
  BY <1>2, UpdateForm
<1>4. CASE id \in Providers
  <2>1. rows[id] \in ProviderRows /\ DOMAIN values \subseteq {"status", "protocol"}
    BY <1>2, <1>4, FieldsOf DEF RowOf, Sets
  <2>2. rows[id].sealed = rows[id].protocol
    BY <1>1, <1>4 DEF Sealed
  <2>3. row.status = After(rows[id], values, "status") /\ row.sealed = row.protocol
    BY <2>1, <2>2, ProviderUpdated DEF After
  <2> QED
    BY <1>3, <1>4, <2>3, Disjoint
<1>5. CASE id \in Models
  <2>1. rows[id] \in ModelRows /\ DOMAIN values \subseteq {"status", "aliases"}
    BY <1>2, <1>5, FieldsOf DEF RowOf, Sets
  <2>2. row.status = After(rows[id], values, "status")
    BY <2>1, ModelUpdated
  <2> QED
    BY <1>3, <1>5, <2>2, Disjoint
<1>6. CASE id \in Candidates
  <2>1. rows[id] \in CandidateRows /\ DOMAIN values \subseteq {"status", "model", "provider"}
    BY <1>2, <1>6, FieldsOf DEF RowOf, Sets
  <2>2. row.status = After(rows[id], values, "status") /\ row.model = After(rows[id], values, "model")
    BY <2>1, CandidateUpdated
  <2> QED
    BY <1>3, <1>6, <2>2, Disjoint
<1> QED
  BY <1>4, <1>5, <1>6 DEF Ids

\* A connection that lives and whose credential is sealed again.
LEMMA RotatedForm ==
    ASSUME AdminIInv, NEW id \in Providers, Live(id)
    PROVE  LET row == [rows[id] EXCEPT !.sealed = rows[id].protocol, !.stamp = versions + 1]
           IN  RowOf(id, row) /\ row.stamp = versions + 1 /\ row.sealed = row.protocol
<1>1. id \in Ids /\ AdminTypeOK /\ rows[id] # Absent
  BY DEF AdminIInv, AdminTypes, Live, Ids
<1>2. rows[id] \in ProviderRows /\ versions + 1 \in Nat
  BY <1>1, RowsHaveForm DEF RowOf, AdminTypeOK
<1> QED
  BY <1>2, Disjoint DEF RowOf, AnyRow, ProviderRows

LEMMA PatchForm ==
    ASSUME AdminIInv, NEW a \in Admins, UnderWay(a), op[a].request.do = "patch",
           Live(op[a].request.id)
    PROVE  LET id == op[a].request.id
               values == op[a].request.values
               row == Update(rows[id], values, versions + 1)
           IN  /\ values \in ChangesTo(id)
               /\ Sets(id, values)
               /\ RowOf(id, row) /\ row.stamp = versions + 1
               /\ row.status = After(rows[id], values, "status")
               /\ id \in Providers => row.sealed = row.protocol
               /\ id \in Candidates => row.model = After(rows[id], values, "model")
<1> DEFINE id == op[a].request.id
           values == op[a].request.values
<1>1. id \in Ids /\ op[a].request \in RequestsTo(id)
  BY WriterForm
<1>2. values \in ChangesTo(id)
  BY <1>1, RequestForm
<1>3. Sets(id, values)
  BY <1>1, <1>2, ChangeForm
<1> HIDE DEF id, values
<1> QED
  BY <1>1, <1>2, <1>3, UpdatedForm DEF id, values

LEMMA RequestEmptied ==
    ASSUME NEW r, r = Request(r.do, r.id, r.values, r.rotate)
    PROVE  [r EXCEPT !.values = <<>>] = Request(r.do, r.id, <<>>, r.rotate)
  BY DEF Request

LEMMA HalfWritten ==
    ASSUME NEW o, NEW row,
           o = Act(o.request, o.reads, o.seen, o.current, o.wrote, o.overlapped, o.rest)
    PROVE  SecondHalf(o, row)
             = Act([o.request EXCEPT !.values = <<>>], o.reads, row, o.current, 1, FALSE, o.rest)
<1> DEFINE first == [o EXCEPT !.request.values = <<>>]
           n == [first EXCEPT !.seen = row, !.wrote = 1, !.overlapped = FALSE]
<1>1. DOMAIN o = {"at", "request", "reads", "seen", "current", "wrote", "overlapped", "rest"}
      /\ o.at = "busy"
  BY DEF Act
<1>2. DOMAIN first = DOMAIN o /\ first.at = o.at /\ first.reads = o.reads
      /\ first.request = [o.request EXCEPT !.values = <<>>]
      /\ first.current = o.current /\ first.rest = o.rest
  BY <1>1
<1>3. SecondHalf(o, row) = n
  BY DEF SecondHalf
<1> HIDE DEF first
<1>4. DOMAIN n = DOMAIN first /\ n.at = first.at /\ n.request = first.request
      /\ n.reads = first.reads /\ n.seen = row /\ n.current = first.current /\ n.wrote = 1
      /\ n.overlapped = FALSE /\ n.rest = first.rest
  BY <1>1, <1>2
<1>5. n = [f \in DOMAIN n |-> n[f]]
  OBVIOUS
<1> HIDE DEF n
<1>6. n = Act(n.request, n.reads, n.seen, n.current, n.wrote, n.overlapped, n.rest)
  BY <1>1, <1>2, <1>4, <1>5 DEF Act
<1> QED
  BY <1>2, <1>3, <1>4, <1>6

\* The second half of a patch that brings a credential.
LEMMA SecondHalfForm ==
    ASSUME AdminIInv, NEW a \in Admins, UnderWay(a), op[a].request.do = "patch",
           op[a].request.rotate, op[a].reads = <<>>, NEW row \in AnyRow, row.status # "deleted"
    PROVE  /\ SecondHalf(op[a], row) \in Ops
           /\ Resumed(SecondHalf(op[a], row), op[a].request.id, row)
<1> DEFINE o == op[a]
           id == o.request.id
           r == Request("patch", id, <<>>, TRUE)
           n == Act(r, <<>>, row, o.current, 1, FALSE, <<>>)
<1>1. /\ id \in Ids /\ o.request \in RequestsTo(id) /\ o \in Ops /\ o # Idle /\ o.rest = <<>>
  BY WriterForm
<1>2. o = Act(o.request, o.reads, o.seen, o.current, o.wrote, o.overlapped, o.rest)
      /\ o.current \in AnyRow \cup {Absent}
  BY <1>1, ActFields
<1>3. o.request = Request("patch", id, o.request.values, TRUE) /\ id \in Providers
  <2>1. /\ o.request = Request(o.request.do, id, o.request.values, o.request.rotate)
        /\ o.request.rotate \in BOOLEAN /\ id \in Providers
    BY <1>1, RequestForm
  <2> QED
    BY <2>1
<1>4. r \in RequestsTo(id)
  <2>1. <<>> \in Changes
    BY DEF Changes
  <2>2. <<>> \in ChangesTo(id)
    BY <2>1 DEF ChangesTo
  <2>3. <<>> \in {d \in ChangesTo(id) : id \in Providers}
    BY <1>3, <2>2
  <2> QED
    BY <2>3 DEF RequestsTo
<1>5. SecondHalf(o, row) = n
  <2>1. [o.request EXCEPT !.values = <<>>] = r
    <3>1. [o.request EXCEPT !.values = <<>>]
            = Request(o.request.do, o.request.id, <<>>, o.request.rotate)
      BY <1>1, RequestForm, RequestEmptied
    <3>2. o.request.do = "patch" /\ o.request.rotate = TRUE
      BY <1>1, RequestForm
    <3> QED
      BY <3>1, <3>2
  <2>2. SecondHalf(o, row) = Act(r, o.reads, row, o.current, 1, FALSE, o.rest)
    <3>1. SecondHalf(o, row)
            = Act([o.request EXCEPT !.values = <<>>], o.reads, row, o.current, 1, FALSE, o.rest)
      <4> HIDE DEF o
      <4> QED
        BY <1>2, HalfWritten, Zenon
    <3> QED
      BY <2>1, <3>1
  <2> QED
    BY <1>1, <2>2
<1>6. r.do = "patch" /\ r.id = id /\ r.values = <<>>
  BY DEF Request
<1>7. /\ <<>> \in Seq(Reads) /\ 1 \in 0 .. 1 /\ FALSE \in BOOLEAN
      /\ row \in AnyRow \cup {Absent}
  OBVIOUS
<1> HIDE DEF r
<1>10. r \in AnyRequest
  BY <1>1, <1>4 DEF AnyRequest, AdminRequests
<1>8. /\ n \in Ops /\ n # Idle /\ n.request = r /\ n.reads = <<>> /\ n.seen = row
      /\ n.rest = <<>>
  BY <1>2, <1>7, <1>10 DEF Act, Ops, Idle
<1> HIDE DEF n
<1>11. Acting(n)
  BY <1>1, <1>4, <1>6, <1>8 DEF Acting, Formed, Asked
<1>9. Resumed(n, id, row)
  BY <1>3, <1>6, <1>8, <1>11 DEF Resumed
<1> QED
  BY <1>5, <1>8, <1>9

LEMMA PatchProviderTaken ==
    ASSUME AdminIInv, NEW a \in Admins, PatchProvider(a)
    PROVE  Taken(a)
<1> DEFINE o == op[a]
           id == o.request.id
           row == Update(rows[id], o.request.values, versions + 1)
           next == IF o.request.rotate THEN SecondHalf(o, row) ELSE Idle
<1>1. UnderWay(a) /\ id \in Providers /\ PatchRow(a, row, TRUE, next)
  BY DEF PatchProvider
<1>2. o.request.do = "patch" /\ o.reads = <<>> /\ o.request.values # <<>>
  BY <1>1 DEF PatchRow
<1>3. CASE Reject(a)
  BY <1>1, <1>2, <1>3, NothingWritten, RefuseTaken
<1>4. CASE ~Reject(a)
  <2>1. Live(id) /\ Unchanged(o) /\ Record(a, id, row, next)
    BY <1>1, <1>4 DEF PatchRow
  <2>2. /\ RowOf(id, row) /\ row.stamp = versions + 1 /\ row.sealed = row.protocol
        /\ row.status = After(rows[id], o.request.values, "status")
        /\ Sets(id, o.request.values)
    BY <1>1, <1>2, <2>1, PatchForm
  <2>3. row.status # "deleted"
    BY <2>1, <2>2 DEF After, Sets, Settable, Live
  <2>4. rows[id] = o.seen
    BY <1>1, <1>2, <2>1, WriterForm DEF Shown, Unchanged
  <2>5. row \in AnyRow
    BY <2>2 DEF RowOf
  <2>6. next \in Ops /\ (next = Idle \/ Resumed(next, id, row))
    <3>1. CASE o.request.rotate
      <4> HIDE DEF row
      <4> QED
        BY <1>1, <1>2, <2>3, <2>5, <3>1, SecondHalfForm
    <3>2. CASE ~o.request.rotate
      BY <3>2, IdleIsOp
    <3> QED
      BY <3>1, <3>2
  <2>7. id \notin Models /\ id \notin Candidates
    BY <1>1, Disjoint
  <2> HIDE DEF row, next
  <2> QED
    BY <1>1, <1>2, <2>1, <2>2, <2>4, <2>6, <2>7, AdminWrites
<1> QED
  BY <1>3, <1>4

LEMMA PatchModelTaken ==
    ASSUME AdminIInv, NEW a \in Admins, PatchModel(a)
    PROVE  Taken(a)
<1> DEFINE o == op[a]
           id == o.request.id
           values == o.request.values
           row == Update(rows[id], values, versions + 1)
           free == AliasesFree(id, row.aliases)
<1>1. UnderWay(a) /\ id \in Models /\ PatchRow(a, row, free, Idle)
  BY DEF PatchModel
<1>2. o.request.do = "patch" /\ o.reads = <<>> /\ values # <<>>
  BY <1>1 DEF PatchRow
<1>3. CASE Reject(a)
  BY <1>1, <1>2, <1>3, NothingWritten, RefuseTaken
<1>4. CASE ~Reject(a)
  <2>1. Live(id) /\ Unchanged(o) /\ Record(a, id, row, Idle)
    BY <1>1, <1>4 DEF PatchRow
  <2>2. /\ RowOf(id, row) /\ row.stamp = versions + 1
        /\ row.status = After(rows[id], values, "status")
        /\ values \in ChangesTo(id)
    BY <1>1, <1>2, <2>1, PatchForm
  <2>3. rows[id] = o.seen
    BY <1>1, <1>2, <2>1, WriterForm DEF Shown, Unchanged
  <2>4. ASSUME row.status = "active", ~o.overlapped
        PROVE  Active(id) \/ ActiveCandidates(id) # {}
    <3>1. CASE "status" \in DOMAIN values
      <4>1. id \in Ids
        BY <1>1 DEF Ids
      <4>2. values = [status |-> values.status] /\ values.status = "active"
        BY <2>2, <2>4, <3>1, <4>1, ChangeForm DEF After
      <4>3. Supplied(o)
        BY <1>1, <1>2, WriterForm
      <4>4. o.reads # <<"candidates">>
        BY <1>2
      <4> QED
        BY <1>1, <1>2, <2>4, <4>2, <4>3, <4>4 DEF Supplied
    <3>2. CASE "status" \notin DOMAIN values
      BY <2>1, <2>2, <2>4, <3>2 DEF After, Active, Live
    <3> QED
      BY <3>1, <3>2
  <2>5. id \notin Providers /\ id \notin Candidates
    BY <1>1, Disjoint
  <2> HIDE DEF row
  <2> QED
    BY <1>1, <1>2, <2>1, <2>2, <2>3, <2>4, <2>5, IdleIsOp, AdminWrites
<1> QED
  BY <1>3, <1>4

LEMMA PatchCandidateTaken ==
    ASSUME AdminIInv, NEW a \in Admins, PatchCandidate(a)
    PROVE  Taken(a)
<1> DEFINE o == op[a]
           id == o.request.id
           values == o.request.values
           row == Update(rows[id], values, versions + 1)
<1>1. UnderWay(a) /\ id \in Candidates /\ PatchRow(a, row, TRUE, Idle)
  BY DEF PatchCandidate
<1>2. o.request.do = "patch" /\ o.reads = <<>> /\ values # <<>>
  BY <1>1 DEF PatchRow
<1>3. CASE Reject(a)
  BY <1>1, <1>2, <1>3, NothingWritten, RefuseTaken
<1>4. CASE ~Reject(a)
  <2>1. Live(id) /\ Unchanged(o) /\ Record(a, id, row, Idle)
    BY <1>1, <1>4 DEF PatchRow
  <2>2. /\ RowOf(id, row) /\ row.stamp = versions + 1
        /\ row.status = After(rows[id], values, "status")
        /\ row.model = After(rows[id], values, "model")
        /\ values \in ChangesTo(id) /\ Sets(id, values)
    BY <1>1, <1>2, <2>1, PatchForm
  <2>3. rows[id] = o.seen /\ RowOf(id, rows[id])
    BY <1>1, <1>2, <2>1, WriterForm DEF Shown, Unchanged
  <2>4. ASSUME Active(id), ~o.overlapped
        PROVE  \/ row.status = "active" /\ row.model = rows[id].model
               \/ Active(rows[id].model) => ~(ActiveCandidates(rows[id].model) \subseteq {id})
    <3>1. o.current = rows[id] /\ (~Removes(o) \/ Spared(o))
      BY <1>1, <1>2, <2>4, GuardedWrite
    <3>2. CASE Spared(o)
      BY <3>1, <3>2 DEF Spared
    <3>3. CASE ~Removes(o)
      <4>1. rows[id].status = "active"
        BY <2>4 DEF Active
      <4>2. Intended(o).model = rows[id].model /\ values # [status |-> "disabled"]
        BY <3>1, <3>3, <4>1 DEF Removes
      <4>3. Patched(rows[id], values).model = rows[id].model
        BY <1>2, <3>1, <4>2 DEF Intended
      <4>4. row.model = rows[id].model
        <5>1. "model" \in DOMAIN rows[id]
          BY <1>1, <2>3 DEF RowOf, CandidateRows
        <5> QED
          BY <2>2, <4>3, <5>1 DEF Patched, After
      <4>5. row.status = "active"
        <5>1. CASE "status" \in DOMAIN values
          <6>1. id \in Ids
            BY <1>1 DEF Ids
          <6>2. values = [status |-> values.status] /\ values.status \in Settable
            BY <2>2, <5>1, <6>1, ChangeForm DEF Sets
          <6>3. values.status # "disabled"
            BY <4>2, <6>2
          <6> QED
            BY <2>2, <5>1, <6>2, <6>3 DEF After, Settable
        <5>2. CASE "status" \notin DOMAIN values
          BY <2>2, <4>1, <5>2 DEF After
        <5> QED
          BY <5>1, <5>2
      <4> QED
        BY <4>4, <4>5
    <3> QED
      BY <3>1, <3>2, <3>3
  <2>5. id \notin Providers /\ id \notin Models
    BY <1>1, Disjoint
  <2> HIDE DEF row
  <2> QED
    BY <1>1, <1>2, <2>1, <2>2, <2>3, <2>4, <2>5, IdleIsOp, AdminWrites
<1> QED
  BY <1>3, <1>4

LEMMA RotateTaken ==
    ASSUME AdminIInv, NEW a \in Admins, Rotate(a)
    PROVE  Taken(a)
<1> DEFINE o == op[a]
           id == o.request.id
           row == [rows[id] EXCEPT !.sealed = rows[id].protocol, !.stamp = versions + 1]
<1>1. UnderWay(a) /\ o.request.do = "patch" /\ o.reads = <<>> /\ o.request.values = <<>>
  BY DEF Rotate
<1>2. /\ id \in Ids /\ o.request \in RequestsTo(id) /\ Shown(o) /\ Half(o)
      /\ versions + 1 \in Nat /\ (Live(id) => RowOf(id, rows[id]))
  BY <1>1, WriterForm
<1>3. id \in Providers
  BY <1>1, <1>2, RequestForm
<1>4. CASE Reject(a)
  <2>1. CASE o.wrote = 1 /\ ~o.overlapped
    <3>1. Live(id) /\ rows[id] = o.seen
      BY <1>2, <2>1 DEF Half
    <3>2. Record(a, id, row, Idle)
      BY <1>1, <3>1 DEF Rotate, Unchanged
    <3> QED
      BY <1>2, <1>4, <3>2 DEF Reject, Record
  <2>2. CASE ~(o.wrote = 1 /\ ~o.overlapped)
    BY <1>1, <1>4, <2>2, RefuseTaken
  <2> QED
    BY <2>1, <2>2
<1>5. CASE ~Reject(a)
  <2>1. Live(id) /\ Unchanged(o) /\ Record(a, id, row, Idle)
    BY <1>5 DEF Rotate
  <2>3. RowOf(id, row) /\ row.stamp = versions + 1 /\ row.sealed = row.protocol
    BY <1>3, <2>1, RotatedForm
  <2>4. rows[id] = o.seen
    BY <1>1, <1>2, <2>1 DEF Shown, Unchanged
  <2>5. id \notin Models /\ id \notin Candidates
    BY <1>3, Disjoint
  <2> HIDE DEF row
  <2> QED
    BY <1>1, <1>3, <2>1, <2>3, <2>4, <2>5, IdleIsOp, AdminWrites
<1> QED
  BY <1>4, <1>5

-----------------------------------------------------------------------------
(* The steps of seeds.                                                     *)

LEMMA SeedAt ==
    ASSUME AdminTypes, NEW a \in Admins, UnderWay(a), op[a].request.do = "seed"
    PROVE  /\ op[a] \in Ops /\ op[a] # Idle /\ op[a].wrote = 0
           /\ \E m \in Models : Seeds(op[a], m)
  BY OpTyped DEF Formed

LEMMA SeedPlace ==
    ASSUME NEW o, NEW m \in Models, Seeds(o, m)
    PROVE  \E p \in Providers, protocol \in Protocols, c \in Candidates :
              \E place \in Places(p, protocol, m, c) :
                 Follows(o, place.seed) /\ o.rest = place.rest
  BY DEF Seeds, SeedOf

\* The request of a seed is for the row of its place.
LEMMA FollowsForm ==
    ASSUME NEW o, NEW seed, NEW rest, Seedling(seed, rest), Follows(o, seed)
    PROVE  /\ o.request.id = seed.id /\ o.request.do = "seed"
           /\ PartOf(o.request.values, seed.values)
<1>1. o.request \in Remainders(Request("seed", seed.id, seed.values, FALSE))
  BY DEF Follows, Seedling
<1>2. /\ o.request = Request("seed", seed.id, o.request.values, o.request.rotate)
      /\ PartOf(o.request.values, seed.values)
  BY <1>1, RemainderForm
<1> QED
  BY <1>2 DEF Request

\* What a seed goes on with, and when it has come to its end.
LEMMA SeedGoesOnForm ==
    ASSUME NEW p \in Providers, NEW protocol \in Protocols,
           NEW m \in Models, NEW c \in Candidates, NEW place \in Places(p, protocol, m, c),
           NEW o \in Ops, o # Idle, o.wrote = 0, o.request.id = place.seed.id,
           o.rest = place.rest,
           NEW row \in AnyRow \cup {Absent}, NEW rotate \in BOOLEAN, NEW change,
           change # <<>> \/ rotate => Leaves(place.seed, row, change, rotate)
    PROVE  LET n == SeedGoesOn(o, row, change, rotate)
           IN  \/ n = Idle /\ change = <<>> /\ ~rotate /\ place.seed = CandidateSeed(c, m, p)
               \/ /\ Acting(n) /\ Seeds(n, m) /\ n.wrote = 0 /\ n.request.do = "seed"
                  /\ n.current = Absent \/ (n.current = row /\ n.request.id = o.request.id)
<1> DEFINE n == SeedGoesOn(o, row, change, rotate)
<1>1. CASE change = <<>> /\ ~rotate
  <2>1. n = SeedNext(o)
    BY <1>1 DEF SeedGoesOn
  <2>2. \/ place.seed = CandidateSeed(c, m, p) /\ SeedNext(o) = Idle
        \/ /\ Acting(SeedNext(o)) /\ Seeds(SeedNext(o), m)
           /\ SeedNext(o).current = Absent /\ SeedNext(o).wrote = 0
           /\ SeedNext(o).request.do = "seed"
    BY SeedProceeds
  <2> HIDE DEF n
  <2> QED
    BY <1>1, <2>1, <2>2 DEF n
<1>2. CASE change # <<>> \/ rotate
  <2> DEFINE r == Request("seed", place.seed.id, change, rotate)
  <2>1. n = [o EXCEPT !.reads = <<>>, !.current = row, !.request = r]
    BY <1>2 DEF SeedGoesOn
  <2> HIDE DEF n
  <2>2. Seedling(place.seed, place.rest) /\ Leaves(place.seed, row, change, rotate)
    BY <1>2, PlaceForm
  <2>3. r \in Remainders(place.seed)
    <3>1. r \in Remainders(Request("seed", place.seed.id, place.seed.values, FALSE))
      BY <2>2, PartIsRemainder DEF Leaves
    <3> QED
      BY <2>2, <3>1 DEF Seedling
  <2>4. r \in AnyRequest /\ place.rest \in Seq(AnyRequest)
    BY <2>2, <2>3 DEF Seedling
  <2>5. /\ r.rotate = rotate /\ r.values = change
        /\ row = Absent => r = place.seed
    BY <2>2 DEF Request, Seedling, Leaves
  <2>6. r.do = "seed" /\ r.id = place.seed.id
    BY DEF r, Request
  <2> HIDE DEF r
  <2>7. n = Act(r, <<>>, o.seen, row, 0, o.overlapped, place.rest)
    <3>1. o = Act(o.request, o.reads, o.seen, o.current, o.wrote, o.overlapped, o.rest)
      BY ActFields
    <3>2. n = Act(r, <<>>, o.seen, row, o.wrote, o.overlapped, o.rest)
      BY <2>1, <3>1, ActWrites
    <3> QED
      BY <3>2
  <2>8. /\ n \in Ops /\ n # Idle /\ n.request = r /\ n.reads = <<>>
         /\ n.current = row /\ n.wrote = 0 /\ n.rest = place.rest
    <3> DEFINE k == Act(r, <<>>, o.seen, row, 0, o.overlapped, place.rest)
    <3>1. o.seen \in AnyRow \cup {Absent} /\ o.overlapped \in BOOLEAN
      BY ActFields
    <3>2. <<>> \in Seq(Reads) /\ 0 \in 0 .. 1
      OBVIOUS
    <3>3. /\ k \in Ops /\ k # Idle /\ k.request = r /\ k.reads = <<>>
          /\ k.current = row /\ k.wrote = 0 /\ k.rest = place.rest
      BY <2>4, <3>1, <3>2 DEF Act, Ops, Idle
    <3> HIDE DEF k
    <3> QED
      BY <2>7, <3>3 DEF k
  <2>9. Follows(n, place.seed)
    <3>1. CASE row = Absent
      BY <2>3, <2>5, <2>8, <3>1 DEF Follows
    <3>2. CASE row # Absent
      BY <2>2, <2>3, <2>5, <2>8, <3>2 DEF Follows, Leaves
    <3> QED
      BY <3>1, <3>2
  <2>10. Acting(n) /\ Seeds(n, m)
    BY <2>6, <2>8, <2>9, SeedPlaced
  <2> QED
    BY <2>6, <2>8, <2>10 DEF n
<1> QED
  BY <1>1, <1>2

LEMMA BeginSeedTaken ==
    ASSUME AdminIInv, NEW a \in Admins, BeginSeed(a)
    PROVE  Taken(a)
<1>0. AdminTypes /\ AdminTypeOK
  BY DEF AdminIInv, AdminTypes
<1>1. PICK d \in Documents :
        op' = [op EXCEPT ![a] = Act(Head(d), <<"current">>, Absent, Absent, 0, FALSE, Tail(d))]
  BY DEF BeginSeed, Act
<1>2. PICK p \in Providers, protocol \in Protocols, m \in Models, c \in Candidates :
        d = <<ProviderSeed(p, protocol), ModelSeed(m), CandidateSeed(c, m, p)>>
  BY DEF Documents
<1> DEFINE place == [seed |-> ProviderSeed(p, protocol),
                     rest |-> <<ModelSeed(m), CandidateSeed(c, m, p)>>]
           o == Act(place.seed, <<"current">>, Absent, Absent, 0, FALSE, place.rest)
<1>3. place \in Places(p, protocol, m, c)
  BY DEF Places
<1>4. Head(d) = place.seed /\ Tail(d) = place.rest
  BY <1>2
<1>5. op' = [op EXCEPT ![a] = o]
  BY <1>1, <1>4
<1> HIDE DEF place
<1>6. Seedling(place.seed, place.rest)
  BY <1>3, PlaceForm
<1>7. place.seed \in AnyRequest /\ place.rest \in Seq(AnyRequest) /\ place.seed.do = "seed"
  BY <1>6 DEF Seedling, Request
<1>8. <<"current">> \in Seq(Reads)
  BY DEF Reads
<1>9. /\ o \in Ops /\ o # Idle /\ o.request = place.seed /\ o.reads = <<"current">>
      /\ o.current = Absent /\ o.wrote = 0 /\ o.rest = place.rest
  BY <1>7, <1>8 DEF Act, Ops, Idle
<1> HIDE DEF o
<1>10. Follows(o, place.seed)
  BY <1>6, <1>9 DEF Follows, Seedling
<1>11. Acting(o)
  BY <1>3, <1>7, <1>9, <1>10, SeedPlaced
<1>12. Shown(o) /\ Half(o) /\ Guarded(o) /\ Supplied(o) /\ Known(o)
  BY <1>7, <1>9 DEF Shown, Half, Guarded, Supplied, Known
<1>13. begun' \in 0 .. MaxRequests /\ failures' \in 0 .. MaxFailures
  BY <1>0, AdministrationAssumption DEF AdministrationAssumption, AdminTypeOK, BeginSeed
<1>14. ~UnderWay(a) /\ UNCHANGED <<rows, versions, raced>>
  BY DEF BeginSeed
<1>15. GoesOn(a, o)
  BY <1>5, <1>11, <1>12, <1>13, <1>14 DEF GoesOn, AdminFits
<1> QED
  BY <1>9, <1>15 DEF Taken

\* What a seed leaves to write of the row it read.
LEMMA DifferingLeaves ==
    ASSUME NEW seed, NEW rest, Seedling(seed, rest), NEW row, row # Absent,
           NEW rotate \in BOOLEAN,
           rotate => seed.id \in Providers
    PROVE  Leaves(seed, row, Differing(row, seed.values), rotate)
<1> DEFINE change == Differing(row, seed.values)
<1>1. DOMAIN change = {g \in DOMAIN seed.values : row[g] # seed.values[g]}
      /\ PartOf(change, seed.values)
  BY DEF Differing, PartOf
<1>2. \A f \in DOMAIN seed.values \ DOMAIN change : row[f] = seed.values[f]
  BY <1>1
<1> HIDE DEF change
<1> QED
  BY <1>1, <1>2 DEF Leaves, change

LEMMA SeedReadOn ==
    ASSUME AdminIInv, NEW a \in Admins, UnderWay(a), op[a].request.do = "seed",
           NEW n \in Ops, Continue(a, n),
           n = Idle \/ /\ Acting(n) /\ n.wrote = 0 /\ n.request.do = "seed"
                       /\ n.current = Absent \/ n.current = rows[n.request.id],
           \A m \in Models : Seeds(op[a], m) => m \notin Orphans \/ (n # Idle /\ Seeds(n, m))
    PROVE  Taken(a)
<1>1. op[a].wrote = 0
  BY SeedAt DEF AdminIInv
<1>2. n = Idle \/ AdminFits(n)
  BY DEF AdminFits, Shown, Half, Guarded, Supplied, Known
<1>3. begun' \in 0 .. MaxRequests /\ failures' \in 0 .. MaxFailures
  BY DEF AdminIInv, AdminTypes, AdminTypeOK, Continue
<1>4. GoesOn(a, n)
  BY <1>1, <1>2, <1>3 DEF GoesOn, Continue
<1> QED
  BY <1>4 DEF Taken

LEMMA SeedReadTaken ==
    ASSUME AdminIInv, NEW a \in Admins, SeedRead(a)
    PROVE  Taken(a)
<1> DEFINE o == op[a]
           id == o.request.id
           row == IF Live(id) THEN rows[id] ELSE Absent
           change == IF Live(id) THEN Differing(rows[id], o.request.values) ELSE o.request.values
<1>1. UnderWay(a) /\ o.request.do = "seed" /\ o.reads # <<>>
  BY DEF SeedRead
<1>2. o \in Ops /\ o # Idle /\ o.wrote = 0 /\ \E m \in Models : Seeds(o, m)
  BY <1>1, SeedAt DEF AdminIInv
<1>3. PICK rotate \in BOOLEAN : /\ rotate => Live(id) /\ id \in Providers
                                /\ Continue(a, SeedGoesOn(o, row, change, rotate))
  BY DEF SeedRead, Fingerprints
<1> DEFINE n == SeedGoesOn(o, row, change, rotate)
<1>4. ASSUME NEW m \in Models, Seeds(o, m)
      PROVE  /\ id \in Ids
             /\ \/ n = Idle /\ m \notin Orphans
                \/ /\ Acting(n) /\ Seeds(n, m) /\ n.wrote = 0 /\ n.request.do = "seed"
                   /\ n.current = Absent \/ (n.current = row /\ n.request.id = id)
  <2>1. PICK p \in Providers, protocol \in Protocols, c \in Candidates :
              \E place \in Places(p, protocol, m, c) :
                 Follows(o, place.seed) /\ o.rest = place.rest
    BY <1>4, SeedPlace
  <2>2. PICK place \in Places(p, protocol, m, c) : Follows(o, place.seed) /\ o.rest = place.rest
    BY <2>1
  <2> DEFINE seed == place.seed
  <2>3. Seedling(seed, place.rest)
    BY PlaceForm
  <2>4. o.request = seed
    BY <1>1, <2>2 DEF Follows
  <2>5. id = seed.id /\ id \in Ids /\ PartOf(seed.values, seed.values) /\ DOMAIN seed.values = Fields(id)
    BY <2>3, <2>4 DEF Seedling
  <2>6. Leaves(seed, row, change, rotate)
    <3>1. CASE Live(id)
      <4>1. row = rows[id] /\ row # Absent /\ change = Differing(row, seed.values)
        BY <2>4, <3>1 DEF Live
      <4> HIDE DEF row, change, seed
      <4> QED
        BY <1>3, <2>3, <2>5, <4>1, DifferingLeaves
    <3>2. CASE ~Live(id)
      BY <1>3, <2>4, <2>5, <3>2 DEF Leaves
    <3> QED
      BY <3>1, <3>2
  <2>7. row \in AnyRow \cup {Absent}
    BY <2>5 DEF AdminIInv, AdminTypes, AdminTypeOK
  <2>8. ASSUME change = <<>>, ~rotate, seed = CandidateSeed(c, m, p)
        PROVE  m \notin Orphans
    <3>1. DOMAIN seed.values = {"status", "model", "provider"} /\ seed.id = c
          /\ seed.values.status = "active" /\ seed.values.model = m
      BY <2>8 DEF CandidateSeed, Request
    <3>2. Live(id)
      BY <2>4, <2>8, <3>1
    <3>3. \A f \in DOMAIN seed.values : row[f] = seed.values[f]
      <4>1. row # Absent
        BY <3>2 DEF Live
      <4> HIDE DEF row, change, seed
      <4> QED
        BY <2>5, <2>6, <2>8, <3>1, <4>1 DEF Leaves
    <3>4. rows[c].status = "active" /\ rows[c].model = m /\ rows[c] # Absent
      BY <2>5, <3>1, <3>2, <3>3 DEF Live
    <3>5. c \in ActiveCandidates(m)
      BY <3>4 DEF ActiveCandidates, Active
    <3> QED
      BY <3>5 DEF Orphans
  <2> HIDE DEF row, change
  <2>9. \/ n = Idle /\ change = <<>> /\ ~rotate /\ place.seed = CandidateSeed(c, m, p)
        \/ /\ Acting(n) /\ Seeds(n, m) /\ n.wrote = 0 /\ n.request.do = "seed"
           /\ n.current = Absent \/ (n.current = row /\ n.request.id = o.request.id)
    BY <1>2, <2>2, <2>5, <2>6, <2>7, SeedGoesOnForm
  <2> HIDE DEF n
  <2> QED
    BY <2>5, <2>8, <2>9
<1>5. PICK m \in Models : Seeds(o, m)
  BY <1>2
<1> HIDE DEF n
<1>6. n = Idle \/ /\ Acting(n) /\ n.wrote = 0 /\ n.request.do = "seed"
                  /\ n.current = Absent \/ n.current = rows[n.request.id]
  BY <1>4, <1>5 DEF Live
<1>7. n \in Ops
  BY <1>6, IdleIsOp DEF Acting
<1>8. \A k \in Models : Seeds(o, k) => k \notin Orphans \/ (n # Idle /\ Seeds(n, k))
  BY <1>4 DEF Acting
<1>9. Continue(a, n)
  BY <1>3 DEF n
<1> QED
  BY <1>1, <1>6, <1>7, <1>8, <1>9, SeedReadOn

\* What one transaction of a seed needs to be a step.
LEMMA SeedWritesRow ==
    ASSUME AdminIInv, NEW a \in Admins, UnderWay(a), op[a].request.do = "seed",
           op[a].request.id \in Ids,
           NEW row, RowOf(op[a].request.id, row), row.stamp = versions + 1,
           op[a].request.id \in Providers => row.sealed = row.protocol,
           NEW next \in Ops, Record(a, op[a].request.id, row, next),
           next = Idle \/ Resumed(next, op[a].request.id, row),
           \A m \in Models : Seeds(op[a], m) =>
              \/ next # Idle /\ Seeds(next, m)
              \/ ~op[a].overlapped =>
                   op[a].request.id \in Candidates /\ row.status = "active" /\ row.model = m,
           op[a].request.id \in Candidates /\ Active(op[a].request.id) /\ ~op[a].overlapped =>
              rows[op[a].request.id].model \in Deprived(a)
    PROVE  Taken(a)
<1> DEFINE id == op[a].request.id
<1>1. AdminTypeOK
  BY DEF AdminIInv, AdminTypes
<1>2. row \in AnyRow
  BY DEF RowOf
<1>3. \A x \in Ids : rows'[x] = IF x = id THEN row ELSE rows[x]
  BY <1>1, RowWritten
<1>4. PICK m0 \in Models : Seeds(op[a], m0)
  BY SeedAt DEF AdminIInv
<1>5. id \in Models => id = m0
  <2>1. PICK p \in Providers, protocol \in Protocols, c \in Candidates :
              \E place \in Places(p, protocol, m0, c) :
                 Follows(op[a], place.seed) /\ op[a].rest = place.rest
    BY <1>4, SeedPlace
  <2>2. PICK place \in Places(p, protocol, m0, c) : Follows(op[a], place.seed)
    BY <2>1
  <2>3. Seedling(place.seed, place.rest)
    BY PlaceForm
  <2>4. id = place.seed.id
    BY <2>2, <2>3, FollowsForm
  <2>5. place.seed.id \in {p, m0, c}
    BY DEF Places, ProviderSeed, ModelSeed, CandidateSeed, Request
  <2> QED
    BY <2>4, <2>5, Disjoint
<1>6. ASSUME NEW m \in Models, m \in Orphans', ~op[a].overlapped
      PROVE  \/ m \in Orphans /\ ~Seeds(op[a], m)
             \/ m \in Deprived(a)
             \/ next # Idle /\ Seeds(next, m)
  <2>1. /\ id \in Providers => m \in Orphans
        /\ id \in Models => \/ m \in Orphans
                            \/ m = id /\ row.status = "active" /\ ActiveCandidates(id) = {}
        /\ id \in Candidates => /\ Active(m) /\ ActiveCandidates(m) \subseteq {id}
                                /\ ~(row.status = "active" /\ row.model = m)
    BY <1>2, <1>3, <1>6, NewOrphan
  <2>2. CASE Seeds(op[a], m)
    BY <1>6, <2>1, <2>2
  <2>3. CASE ~Seeds(op[a], m)
    <3>1. CASE id \in Candidates /\ ActiveCandidates(m) # {}
      <4>1. Active(id) /\ rows[id].model = m
        BY <2>1, <3>1 DEF ActiveCandidates
      <4> QED
        BY <1>6, <3>1, <4>1
    <3>2. CASE id \in Candidates /\ ActiveCandidates(m) = {}
      BY <2>1, <2>3, <3>2 DEF Orphans
    <3>3. CASE id \notin Candidates
      BY <1>4, <1>5, <2>1, <2>3, <3>3 DEF Ids
    <3> QED
      BY <3>1, <3>2, <3>3
  <2> QED
    BY <2>2, <2>3
<1>7. WritesRow(a, id, row, next)
  BY <1>6 DEF WritesRow
<1> QED
  BY <1>2, <1>7 DEF Taken

\* What a seed still writes of its row.
LEMMA SeedPart ==
    ASSUME NEW o, NEW p \in Providers, NEW protocol \in Protocols,
           NEW m \in Models, NEW c \in Candidates, NEW place \in Places(p, protocol, m, c),
           Follows(o, place.seed)
    PROVE  /\ o.request.id = place.seed.id /\ o.request.id \in Ids
           /\ Sets(o.request.id, o.request.values)
           /\ o.reads = <<>> /\ o.current # Absent =>
                /\ o.request.rotate => o.request.id \in Providers
                /\ o.request.id \in Candidates =>
                     \A f \in DOMAIN place.seed.values \ DOMAIN o.request.values :
                        o.current[f] = place.seed.values[f]
           /\ \A f \in DOMAIN o.request.values : o.request.values[f] = place.seed.values[f]
           /\ Seedling(place.seed, place.rest)
<1> DEFINE seed == place.seed
<1>1. Seedling(seed, place.rest)
  BY PlaceForm
<1> HIDE DEF seed
<1>2. o.request.id = seed.id /\ PartOf(o.request.values, seed.values)
  BY <1>1, FollowsForm DEF seed
<1>3. o.request.id \in Ids /\ Sets(seed.id, seed.values)
  BY <1>1, <1>2 DEF Seedling
<1>4. \A f \in DOMAIN o.request.values : f \in DOMAIN seed.values /\ o.request.values[f] = seed.values[f]
  BY <1>2 DEF PartOf
<1>5. Sets(o.request.id, o.request.values)
  BY <1>2, <1>3, <1>4 DEF Sets
<1>6. o.reads = <<>> => o.reads # <<"current">>
  OBVIOUS
<1>7. Follows(o, seed)
  BY DEF seed
<1>8. o.reads = <<>> /\ o.current # Absent =>
           /\ o.request.rotate => seed.id \in Providers
           /\ seed.id \in Candidates =>
                \A f \in DOMAIN seed.values \ DOMAIN o.request.values :
                   o.current[f] = seed.values[f]
  BY <1>6, <1>7 DEF Follows
<1> QED
  BY <1>1, <1>2, <1>3, <1>4, <1>5, <1>8 DEF seed

LEMMA SeedStopsTaken ==
    ASSUME AdminIInv, NEW a \in Admins, UnderWay(a), op[a].request.do = "seed", SeedStops(a)
    PROVE  Taken(a)
  BY DEF SeedStops, Stops, Taken, AdminIInv, AdminTypes, AdminTypeOK

LEMMA SeedInsertTaken ==
    ASSUME AdminIInv, NEW a \in Admins, SeedInsert(a)
    PROVE  Taken(a)
<1> DEFINE o == op[a]
           id == o.request.id
           row == Inserted(id, o.request.values, versions + 1)
           next == SeedNext(o)
<1>1. UnderWay(a) /\ o.request.do = "seed" /\ o.reads = <<>> /\ o.current = Absent
  BY DEF SeedInsert
<1>2. o \in Ops /\ o # Idle /\ o.wrote = 0 /\ \E m \in Models : Seeds(o, m)
  BY <1>1, SeedAt DEF AdminIInv
<1>3. CASE SeedStops(a)
  BY <1>1, <1>3, SeedStopsTaken
<1>4. CASE ~SeedStops(a)
  <2>1. rows[id] = Absent /\ Record(a, id, row, next)
    BY <1>4 DEF SeedInsert
  <2>2. ASSUME NEW m \in Models, Seeds(o, m)
        PROVE  /\ id \in Ids
               /\ RowOf(id, row) /\ row.stamp = versions + 1
               /\ id \in Providers => row.sealed = row.protocol
               /\ \/ next = Idle /\ id \in Candidates /\ row.status = "active" /\ row.model = m
                  \/ /\ Acting(next) /\ Seeds(next, m) /\ next.request.do = "seed"
                     /\ next.current = Absent
    <3>1. PICK p \in Providers, protocol \in Protocols, c \in Candidates :
                \E place \in Places(p, protocol, m, c) :
                   Follows(o, place.seed) /\ o.rest = place.rest
      BY <2>2, SeedPlace
    <3>2. PICK place \in Places(p, protocol, m, c) : Follows(o, place.seed) /\ o.rest = place.rest
      BY <3>1
    <3>3. o.request = place.seed /\ Seedling(place.seed, place.rest)
      <4>1. o.request = place.seed
        BY <1>1, <3>2 DEF Follows
      <4>2. Seedling(place.seed, place.rest)
        BY PlaceForm
      <4> QED
        BY <1>1, <4>1, <4>2
    <3>4. /\ id \in Ids /\ Sets(id, o.request.values) /\ DOMAIN o.request.values = Fields(id)
      BY <3>3 DEF Seedling
    <3>5. versions + 1 \in Nat
      BY DEF AdminIInv, AdminTypes, AdminTypeOK
    <3>6. /\ RowOf(id, row) /\ row.stamp = versions + 1
          /\ \A f \in Fields(id) : row[f] = o.request.values[f]
          /\ id \in Providers => row.sealed = o.request.values.protocol
      BY <3>4, <3>5, InsertForm
    <3>7. id \in Providers => row.sealed = row.protocol
      BY <3>6, FieldsOf
    <3>8. \/ place.seed = CandidateSeed(c, m, p) /\ next = Idle
          \/ /\ Acting(next) /\ Seeds(next, m)
             /\ next.current = Absent /\ next.wrote = 0 /\ next.request.do = "seed"
      BY <1>2, <3>2, SeedProceeds
    <3>9. ASSUME place.seed = CandidateSeed(c, m, p)
          PROVE  id \in Candidates /\ row.status = "active" /\ row.model = m
      <4>1. id = c /\ o.request.values.status = "active" /\ o.request.values.model = m
        BY <3>3, <3>9 DEF CandidateSeed, Request
      <4>2. Fields(id) = {"status", "model", "provider"}
        BY <4>1, FieldsOf
      <4> HIDE DEF row
      <4> QED
        BY <3>6, <4>1, <4>2
    <3> HIDE DEF row, next
    <3> QED
      BY <3>4, <3>6, <3>7, <3>8, <3>9
  <2>3. PICK m \in Models : Seeds(o, m)
    BY <1>2
  <2>4. ~Active(id)
    BY <2>1 DEF Active
  <2> HIDE DEF row, next
  <2>5. next \in Ops /\ (next = Idle \/ Resumed(next, id, row))
    BY <2>2, <2>3, IdleIsOp DEF Acting, Resumed
  <2>6. \A k \in Models : Seeds(o, k) =>
           \/ next # Idle /\ Seeds(next, k)
           \/ id \in Candidates /\ row.status = "active" /\ row.model = k
    BY <2>2 DEF Acting
  <2>7. /\ id \in Ids /\ RowOf(id, row) /\ row.stamp = versions + 1
        /\ id \in Providers => row.sealed = row.protocol
    BY <2>2, <2>3
  <2> QED
    BY <1>1, <2>1, <2>4, <2>5, <2>6, <2>7, SeedWritesRow
<1> QED
  BY <1>3, <1>4

LEMMA SeedUpdateTaken ==
    ASSUME AdminIInv, NEW a \in Admins, SeedUpdate(a)
    PROVE  Taken(a)
<1> DEFINE o == op[a]
           id == o.request.id
           values == o.request.values
           updated == Update(rows[id], values, versions + 1)
           rotated == [rows[id] EXCEPT !.sealed = rows[id].protocol, !.stamp = versions + 1]
<1>1. UnderWay(a) /\ o.request.do = "seed" /\ o.reads = <<>> /\ o.current # Absent
  BY DEF SeedUpdate
<1>2. o \in Ops /\ o # Idle /\ o.wrote = 0 /\ \E m \in Models : Seeds(o, m)
  BY <1>1, SeedAt DEF AdminIInv
<1>3. CASE ~Live(id)
  <2>1. SeedStops(a)
    BY <1>3 DEF SeedUpdate
  <2> QED
    BY <1>1, <2>1, SeedStopsTaken
<1>4. \A m \in Models : Seeds(o, m) =>
         \E p \in Providers, protocol \in Protocols, c \in Candidates :
            \E place \in Places(p, protocol, m, c) :
               Follows(o, place.seed) /\ o.rest = place.rest
  BY SeedPlace
<1>5. \A m \in Models : Seeds(o, m) =>
         id \in Ids /\ Sets(id, values) /\ (o.request.rotate => id \in Providers)
  <2> SUFFICES ASSUME NEW m \in Models, Seeds(o, m)
               PROVE  id \in Ids /\ Sets(id, values) /\ (o.request.rotate => id \in Providers)
    OBVIOUS
  <2>1. PICK p \in Providers, protocol \in Protocols, c \in Candidates :
           \E place \in Places(p, protocol, m, c) : Follows(o, place.seed) /\ o.rest = place.rest
    BY <1>4
  <2>2. PICK place \in Places(p, protocol, m, c) : Follows(o, place.seed)
    BY <2>1
  <2> HIDE DEF o
  <2> QED
    BY <1>1, <2>2, SeedPart
<1>6. id \in Ids /\ Sets(id, values) /\ (o.request.rotate => id \in Providers)
  BY <1>2, <1>5
<1>7. ~o.overlapped => o.current = rows[id]
  BY <1>1 DEF AdminIInv, Guards, Known
<1>8. id \in Candidates /\ ~o.overlapped => rows[id].model \in Deprived(a)
  BY <1>1, <1>7 DEF Deprived
<1>9. CASE Live(id) /\ o.request.rotate
  <2> DEFINE next == SeedNext(o)
  <2>1. Record(a, id, rotated, next)
    BY <1>9 DEF SeedUpdate
  <2>2. RowOf(id, rotated) /\ rotated.stamp = versions + 1 /\ rotated.sealed = rotated.protocol
    BY <1>6, <1>9, RotatedForm
  <2>3. ASSUME NEW m \in Models, Seeds(o, m)
        PROVE  /\ Acting(next) /\ Seeds(next, m) /\ next.request.do = "seed"
               /\ next.current = Absent
    <3>1. PICK p \in Providers, protocol \in Protocols, c \in Candidates :
             \E place \in Places(p, protocol, m, c) : Follows(o, place.seed) /\ o.rest = place.rest
      BY <1>4, <2>3
    <3>2. PICK place \in Places(p, protocol, m, c) : Follows(o, place.seed) /\ o.rest = place.rest
      BY <3>1
    <3>3. id = place.seed.id
      <4> HIDE DEF o
      <4> QED
        BY <3>2, SeedPart
    <3>4. place.seed # CandidateSeed(c, m, p)
      BY <1>6, <1>9, <3>3, Disjoint DEF CandidateSeed, Request
    <3> QED
      BY <1>2, <3>2, <3>4, SeedProceeds
  <2>4. PICK m \in Models : Seeds(o, m)
    BY <1>2
  <2> HIDE DEF next, rotated
  <2>5. next \in Ops /\ Resumed(next, id, rotated)
    BY <2>3, <2>4 DEF Acting, Resumed
  <2>6. \A k \in Models : Seeds(o, k) => next # Idle /\ Seeds(next, k)
    BY <2>3 DEF Acting
  <2> QED
    BY <1>1, <1>6, <1>8, <2>1, <2>2, <2>5, <2>6, SeedWritesRow
<1>10. CASE Live(id) /\ ~o.request.rotate
  <2>1. PICK rotate \in Fingerprints(id) : Record(a, id, updated, SeedGoesOn(o, updated, <<>>, rotate))
    BY <1>10 DEF SeedUpdate
  <2>2. rotate \in BOOLEAN /\ (rotate => id \in Providers)
    BY DEF Fingerprints
  <2> DEFINE next == SeedGoesOn(o, updated, <<>>, rotate)
  <2>3. /\ RowOf(id, updated) /\ updated.stamp = versions + 1
        /\ updated.status = After(rows[id], values, "status")
        /\ id \in Providers => updated.sealed = updated.protocol
        /\ id \in Candidates => updated.model = After(rows[id], values, "model")
    BY <1>6, <1>10, UpdatedForm
  <2>4. updated \in AnyRow \cup {Absent} /\ updated # Absent
    BY <2>3, Disjoint DEF RowOf
  <2> HIDE DEF updated
  <2>5. ASSUME NEW m \in Models, Seeds(o, m)
        PROVE  \/ /\ next = Idle
                  /\ ~o.overlapped =>
                       id \in Candidates /\ updated.status = "active" /\ updated.model = m
               \/ /\ Acting(next) /\ Seeds(next, m) /\ next.request.do = "seed"
                  /\ next.current = Absent \/ (next.current = updated /\ next.request.id = id)
    <3>1. PICK p \in Providers, protocol \in Protocols, c \in Candidates :
             \E place \in Places(p, protocol, m, c) : Follows(o, place.seed) /\ o.rest = place.rest
      BY <1>4, <2>5
    <3>2. PICK place \in Places(p, protocol, m, c) : Follows(o, place.seed) /\ o.rest = place.rest
      BY <3>1
    <3>3. /\ id = place.seed.id
          /\ id \in Candidates =>
               \A f \in DOMAIN place.seed.values \ DOMAIN values : o.current[f] = place.seed.values[f]
          /\ \A f \in DOMAIN values : values[f] = place.seed.values[f]
      <4> HIDE DEF o
      <4> QED
        BY <1>1, <3>2, SeedPart, SMTT(60)
    <3>4. rotate => Leaves(place.seed, updated, <<>>, rotate)
      <4>1. PartOf(<<>>, place.seed.values)
        BY DEF PartOf
      <4> QED
        BY <2>2, <2>4, <3>3, <4>1, Disjoint DEF Leaves
    <3>5. \/ next = Idle /\ ~rotate /\ place.seed = CandidateSeed(c, m, p)
          \/ /\ Acting(next) /\ Seeds(next, m) /\ next.wrote = 0 /\ next.request.do = "seed"
             /\ next.current = Absent \/ (next.current = updated /\ next.request.id = id)
      BY <1>2, <2>2, <2>4, <3>2, <3>3, <3>4, SeedGoesOnForm
    <3>6. ASSUME place.seed = CandidateSeed(c, m, p), ~o.overlapped
          PROVE  id \in Candidates /\ updated.status = "active" /\ updated.model = m
      <4>1. /\ id = c /\ DOMAIN place.seed.values = {"status", "model", "provider"}
            /\ place.seed.values.status = "active" /\ place.seed.values.model = m
        BY <3>3, <3>6 DEF CandidateSeed, Request
      <4>2. \A f \in DOMAIN place.seed.values : After(rows[id], values, f) = place.seed.values[f]
        BY <1>7, <3>3, <3>6, <4>1 DEF After
      <4> QED
        BY <2>3, <4>1, <4>2
    <3> HIDE DEF next
    <3> QED
      BY <3>5, <3>6
  <2>6. PICK m \in Models : Seeds(o, m)
    BY <1>2
  <2> HIDE DEF next
  <2>7. next \in Ops /\ (next = Idle \/ Resumed(next, id, updated))
    BY <2>5, <2>6, IdleIsOp DEF Acting, Resumed
  <2>8. \A k \in Models : Seeds(o, k) =>
           \/ next # Idle /\ Seeds(next, k)
           \/ ~o.overlapped => id \in Candidates /\ updated.status = "active" /\ updated.model = k
    BY <2>5 DEF Acting
  <2>9. Record(a, id, updated, next)
    BY <2>1 DEF next
  <2> QED
    BY <1>1, <1>6, <1>8, <2>3, <2>7, <2>8, <2>9, SeedWritesRow
<1> QED
  BY <1>3, <1>9, <1>10

\* A failure ends a request as a refusal does, and a seed as its own error does.
LEMMA FailsTaken ==
    ASSUME AdminIInv, NEW a \in Admins, RequestFails(a)
    PROVE  Taken(a)
<1>1. /\ UnderWay(a) /\ op' = [op EXCEPT ![a] = Idle]
      /\ UNCHANGED <<rows, versions, begun>>
      /\ raced' = IF op[a].request.do = "seed" THEN raced \cup (Orphans \cap BeingSeeded)
                  ELSE raced
  BY DEF RequestFails
<1>2. /\ begun' \in 0 .. MaxRequests
      /\ failures' \in 0 .. MaxFailures /\ failures' # failures
  BY AdministrationAssumption
     DEF RequestFails, AdministrationAssumption, AdminIInv, AdminTypes, AdminTypeOK
<1>3. CASE op[a].request.do = "seed"
  BY <1>1, <1>2, <1>3 DEF Stops, Taken
<1>4. CASE op[a].request.do # "seed"
  <2>1. \A m \in Models : ~Seeds(op[a], m)
    BY <1>4, AdminSeeds
  <2>2. GoesOn(a, Idle)
    BY <1>1, <1>2, <1>4, <2>1 DEF GoesOn
  <2> QED
    BY <2>2, IdleIsOp DEF Taken
<1> QED
  BY <1>3, <1>4

-----------------------------------------------------------------------------
(* The invariant holds, and what follows from it.                          *)

LEMMA InitHolds ==
    ASSUME AdminInit
    PROVE  AdminIInv
<1> DEFINE P == [Providers -> [status : {"active"}, protocol : Protocols, stamp : {0}] \cup {Absent}]
           M == [Models -> [status : Settable, aliases : {{}}, stamp : {0}] \cup {Absent}]
           C == [Candidates -> [status : Settable, model : Models, provider : Providers,
                                stamp : {0}] \cup {Absent}]
           Table(p, m, c, id) ==
             CASE id \in Models     -> m[id]
               [] id \in Candidates -> c[id]
               [] id \in Providers  ->
                    IF p[id] = Absent THEN Absent
                    ELSE [status |-> p[id].status, protocol |-> p[id].protocol,
                          sealed |-> p[id].protocol, stamp |-> 0]
<1>1. PICK p \in P, m \in M, c \in C :
        /\ rows = [id \in Ids |-> Table(p, m, c, id)]
        /\ \A k \in Candidates :
              c[k] # Absent => m[c[k].model] # Absent /\ p[c[k].provider] # Absent
  BY Zenon DEF AdminInit
<1>2. ASSUME NEW x \in Models
      PROVE  /\ rows[x] \in ModelRows \cup {Absent}
             /\ rows[x] # Absent => rows[x].stamp = 0
  <2>1. rows[x] = m[x]
    BY <1>1, Disjoint
  <2> QED
    BY <2>1 DEF ModelRows, Settable, Statuses
<1>3. ASSUME NEW x \in Candidates
      PROVE  /\ rows[x] \in CandidateRows \cup {Absent}
             /\ rows[x] # Absent => rows[x].stamp = 0
  <2>1. rows[x] = c[x]
    BY <1>1, Disjoint
  <2> QED
    BY <2>1 DEF CandidateRows, Settable, Statuses
<1>4. ASSUME NEW x \in Providers
      PROVE  /\ rows[x] \in ProviderRows \cup {Absent}
             /\ rows[x] # Absent => rows[x].stamp = 0 /\ rows[x].sealed = rows[x].protocol
  <2>1. rows[x] = IF p[x] = Absent THEN Absent
                  ELSE [status |-> p[x].status, protocol |-> p[x].protocol,
                        sealed |-> p[x].protocol, stamp |-> 0]
    BY <1>1, Disjoint
  <2>2. p[x] # Absent => p[x].status = "active" /\ p[x].protocol \in Protocols
    OBVIOUS
  <2> QED
    BY <2>1, <2>2 DEF ProviderRows, Statuses
<1>5. rows \in [Ids -> AnyRow \cup {Absent}]
  <2>1. \A x \in Ids : rows[x] \in AnyRow \cup {Absent}
    BY <1>2, <1>3, <1>4 DEF Ids, AnyRow
  <2> HIDE DEF Table
  <2>2. DOMAIN rows = Ids /\ rows = [x \in DOMAIN rows |-> rows[x]]
    BY <1>1
  <2> QED
    BY <2>1, <2>2
<1>6. versions = 0 /\ begun = 0 /\ failures = 0 /\ raced = {} /\ Orphans = {} /\ op = [a \in Admins |-> Idle]
  BY DEF AdminInit
<1>7. \A a \in Admins : ~UnderWay(a)
  BY <1>6 DEF UnderWay
<1>8. \A x \in Ids : rows[x] # Absent => rows[x].stamp <= versions
  BY <1>2, <1>3, <1>4, <1>6 DEF Ids
<1>9. AdminTypeOK
  BY <1>2, <1>3, <1>4, <1>5, <1>6, <1>8, IdleIsOp, AdministrationAssumption DEF AdminTypeOK,
     AdministrationAssumption
<1>10. Sealed
  BY <1>4 DEF Sealed
<1> QED
  BY <1>6, <1>7, <1>9, <1>10 DEF AdminIInv, AdminTypes, Marks, Guards

LEMMA StutterKeeps ==
    ASSUME AdminIInv, UNCHANGED adminVars
    PROVE  AdminIInv'
<1>1. UNCHANGED <<rows, versions, op, raced, begun, failures>>
  BY DEF adminVars
<1>2. AdminTypeOK'
  BY <1>1 DEF AdminIInv, AdminTypes, AdminTypeOK
<1>3. \A a \in Admins : (UnderWay(a))' <=> UnderWay(a)
  BY <1>1 DEF UnderWay
<1>4. ASSUME NEW a \in Admins, (UnderWay(a))'
      PROVE  /\ Formed(op[a])'
             /\ (Shown(op[a]) /\ Half(op[a]) /\ Guarded(op[a]) /\ Supplied(op[a]) /\ Known(op[a]))'
  <2>1. /\ Formed(op[a])
        /\ Shown(op[a]) /\ Half(op[a]) /\ Guarded(op[a]) /\ Supplied(op[a]) /\ Known(op[a])
    BY <1>3, <1>4 DEF AdminIInv, AdminTypes, Marks, Guards
  <2>2. op'[a] = op[a]
    BY <1>1
  <2>3. UNCHANGED <<rows, versions>>
    BY <1>1
  <2> QED
    BY <2>1, <2>2, <2>3, TablesStay
<1>5. Sealed' /\ (Orphans \subseteq raced \cup Seeding)'
  BY <1>1 DEF AdminIInv, Marks, Guards, Sealed, Orphans, Active, ActiveCandidates, Seeding,
     UnderWay
<1> QED
  BY <1>2, <1>4, <1>5 DEF AdminIInv, AdminTypes, Marks, Guards

\* Every step is of one of the three kinds.
LEMMA NextTaken ==
    ASSUME AdminIInv, AdminNext
    PROVE  \E a \in Admins : Taken(a)
<1>1. PICK a \in Admins :
        \/ Begin(a) \/ Read(a)
        \/ CreateProvider(a) \/ CreateModel(a) \/ CreateCandidate(a)
        \/ PatchProvider(a) \/ PatchModel(a) \/ PatchCandidate(a) \/ Rotate(a)
        \/ DeleteProvider(a) \/ DeleteModel(a) \/ DeleteCandidate(a)
        \/ BeginSeed(a) \/ SeedRead(a) \/ SeedInsert(a) \/ SeedUpdate(a)
        \/ RequestFails(a)
  BY DEF AdminNext
<1>2. CASE Begin(a)
  BY <1>2, BeginTaken
<1>3. CASE Read(a)
  BY <1>3, ReadTaken
<1>4. CASE CreateProvider(a)
  BY <1>4, CreateProviderTaken
<1>5. CASE CreateModel(a)
  BY <1>5, CreateModelTaken
<1>6. CASE CreateCandidate(a)
  BY <1>6, CreateCandidateTaken
<1>7. CASE PatchProvider(a)
  BY <1>7, PatchProviderTaken
<1>8. CASE PatchModel(a)
  BY <1>8, PatchModelTaken
<1>9. CASE PatchCandidate(a)
  BY <1>9, PatchCandidateTaken
<1>10. CASE Rotate(a)
  BY <1>10, RotateTaken
<1>11. CASE DeleteProvider(a) \/ DeleteModel(a) \/ DeleteCandidate(a)
  BY <1>11, DeleteTaken DEF DeleteProvider, DeleteModel, DeleteCandidate
<1>12. CASE BeginSeed(a)
  BY <1>12, BeginSeedTaken
<1>13. CASE SeedRead(a)
  BY <1>13, SeedReadTaken
<1>14. CASE SeedInsert(a)
  BY <1>14, SeedInsertTaken
<1>15. CASE SeedUpdate(a)
  BY <1>15, SeedUpdateTaken
<1>16. CASE RequestFails(a)
  BY <1>16, FailsTaken
<1> QED
  BY <1>1, <1>2, <1>3, <1>4, <1>5, <1>6, <1>7, <1>8, <1>9, <1>10, <1>11, <1>12, <1>13, <1>14,
     <1>15, <1>16

LEMMA AdminInvariance ==
    AdminSpec => []AdminIInv
<1>1. AdminInit => AdminIInv
  BY InitHolds
<1>2. AdminIInv /\ [AdminNext]_adminVars => AdminIInv'
  BY NextTaken, TakenKeeps, StutterKeeps
<1> QED
  BY <1>1, <1>2, PTL DEF AdminSpec

\* Rows have the fields of their table, requests the form the endpoints give them, and
\* no mutation is recorded twice.
THEOREM AdminTypeCorrect ==
    AdminSpec => []AdminTypeOK
<1>1. AdminIInv => AdminTypeOK
  BY DEF AdminIInv, AdminTypes
<1> QED
  BY <1>1, AdminInvariance, PTL

\* A publication never finds a candidate without its model or connection, or a
\* credential it cannot open: an update seals the credential for the new protocol in
\* the transaction that writes it.
THEOREM LoadsStayWhole ==
    AdminSpec => []LoadsAreWhole
<1>1. ASSUME AdminIInv PROVE LoadsAreWhole
  <2>1. \A c \in Routable : rows[c].model \in Listed(Models) /\ rows[c].provider \in Listed(Providers)
    <3> SUFFICES ASSUME NEW c \in Routable
                 PROVE  rows[c].model \in Listed(Models) /\ rows[c].provider \in Listed(Providers)
      OBVIOUS
    <3>1. c \in Candidates /\ rows[c] # Absent /\ Active(rows[c].model) /\ Active(rows[c].provider)
      BY DEF Routable, Listed, Active
    <3>2. rows[c] \in CandidateRows
      BY <1>1, <3>1 DEF AdminIInv, AdminTypes, AdminTypeOK
    <3> QED
      BY <3>1, <3>2 DEF Listed, CandidateRows
  <2>2. \A p \in Listed(Providers) : rows[p].sealed = rows[p].protocol
    BY <1>1 DEF AdminIInv, Marks, Sealed, Listed, Active
  <2> DEFINE models == Listed(Models)
             candidateWrong == \E c \in Routable : rows[c].model \notin models
                                               \/ rows[c].provider \notin Listed(Providers)
             credentialWrong == \E p \in Listed(Providers) : rows[p].sealed # rows[p].protocol
  <2>3. ~candidateWrong /\ ~credentialWrong
    BY <2>1, <2>2
  <2> QED
    BY <2>3 DEF LoadsAreWhole, PublicationCode
<1> QED
  BY <1>1, AdminInvariance, PTL

\* A model that is active without a candidate lost it to requests that overlapped, to a
\* seed that moved the candidate or stopped half way, or is being seeded: whatever
\* administrators and seeds read and write in between.
THEOREM OrphansAreExplained ==
    AdminSpec => []OrphanedOnlyByOverlap
<1>1. ASSUME AdminIInv PROVE OrphanedOnlyByOverlap
  <2>1. Seeding \subseteq BeingSeeded
    BY SeedingIsSeeded DEF Seeding
  <2> QED
    BY <1>1, <2>1 DEF AdminIInv, Guards, OrphanedOnlyByOverlap
<1> QED
  BY <1>1, AdminInvariance, PTL

\* A patch, and the second half of one, changes the very row its administrator was
\* shown, as every mutation gives the row an updated_at of its own.
THEOREM PatchesWriteWhatWasSeen ==
    AdminSpec => PatchesKeepOthers
<1> DEFINE A == \A a \in Admins :
                   Writes(a) /\ op[a].request.do = "patch" => rows[op[a].request.id] = op[a].seen
<1>1. ASSUME AdminIInv, NEW a \in Admins, Taken(a) PROVE A
  <2> SUFFICES ASSUME NEW b \in Admins, Writes(b), op[b].request.do = "patch"
               PROVE  rows[op[b].request.id] = op[b].seen
    OBVIOUS
  <2>1. versions \in Nat
    BY <1>1 DEF AdminIInv, AdminTypes, AdminTypeOK
  <2>2. PICK id \in Ids, row \in AnyRow, next \in Ops : WritesRow(a, id, row, next)
    BY <1>1, <2>1 DEF Taken, GoesOn, Stops, SeedStops, Writes
  <2>3. CASE b = a
    BY <2>2, <2>3 DEF WritesRow
  <2>4. CASE b # a
    <3>1. UnderWay(b) /\ AdminTypes /\ Record(a, id, row, next)
      BY <1>1, <2>2 DEF Writes, WritesRow, AdminIInv
    <3>2. op'[b].wrote = op[b].wrote /\ op'[b] # Idle
      BY <2>4, <3>1, OthersOverlapped DEF UnderWay
    <3>3. op[b].wrote = 0 \/ op[b].wrote = 1
      BY <3>1, Wrote
    <3> QED
      BY <3>2, <3>3 DEF Writes
  <2> QED
    BY <2>3, <2>4
<1>2. AdminIInv /\ [AdminNext]_adminVars => [A]_adminVars
  BY <1>1, NextTaken
<1> QED
  BY <1>2, AdminInvariance, PTL DEF AdminSpec, PatchesKeepOthers

\* A patch of a connection with a new credential is left half done only when another
\* request wrote between its two transactions, or the request failed there.
THEOREM HalvesNeedOverlap ==
    AdminSpec => HalvesOnlyByOverlap
<1> DEFINE A == \A a \in Admins :
                   UnderWay(a) /\ op'[a] = Idle /\ versions' = versions
                      => op[a].wrote = 0 \/ op[a].overlapped \/ failures' # failures
<1>1. ASSUME AdminIInv, NEW a \in Admins, Taken(a) PROVE A
  <2> SUFFICES ASSUME NEW b \in Admins, UnderWay(b), op'[b] = Idle, versions' = versions
               PROVE  op[b].wrote = 0 \/ op[b].overlapped \/ failures' # failures
    OBVIOUS
  <2>1. AdminTypes /\ AdminTypeOK
    BY <1>1 DEF AdminIInv, AdminTypes
  <2>2. CASE \E o \in Ops : GoesOn(a, o)
    <3>1. PICK o \in Ops : GoesOn(a, o)
      BY <2>2
    <3>2. CASE b = a
      <4>1. op'[a] = o
        BY <2>1, <3>1 DEF GoesOn, AdminTypeOK
      <4> QED
        BY <3>1, <3>2, <4>1 DEF GoesOn
    <3>3. CASE b # a
      BY <2>1, <3>1, <3>3, OthersKeep DEF GoesOn, UnderWay
    <3> QED
      BY <3>2, <3>3
  <2>3. CASE \E id \in Ids, row \in AnyRow, next \in Ops : WritesRow(a, id, row, next)
    BY <2>1, <2>3 DEF WritesRow, Record, AdminTypeOK
  <2>4. CASE Stops(a)
    <3>1. CASE b = a
      BY <2>1, <2>4, <3>1, SeedAt DEF Stops
    <3>2. CASE b # a
      BY <2>1, <2>4, <3>2 DEF Stops, SeedStops, AdminTypeOK, UnderWay
    <3> QED
      BY <3>1, <3>2
  <2> QED
    BY <1>1, <2>2, <2>3, <2>4 DEF Taken
<1>2. AdminIInv /\ [AdminNext]_adminVars => [A]_adminVars
  BY <1>1, NextTaken
<1> QED
  BY <1>2, AdminInvariance, PTL DEF AdminSpec, HalvesOnlyByOverlap
=============================================================================
