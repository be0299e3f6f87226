-------------------------- MODULE AdmissionProofs --------------------------
(***************************************************************************)
(* Theorems about Admission and Routing, for any snapshots, requests, keys *)
(* and sessions and any number of deaths and expiries.                     *)
(***************************************************************************)
EXTENDS Admission, FiniteSetTheorems, TLAPS

-----------------------------------------------------------------------------
(* Routing: what a plan of an accepted request is made of.                 *)

\* The candidates a request may be routed to.
Fitting(r) ==
    Eligible(Snapshots[seen[r]], Resolve(Snapshots[seen[r]], Ask[input[r].body].model),
             Ask[input[r].body], pinned[r])

LEMMA ReasonList ==
    /\ Reasons[1] = "model_disabled" /\ Reasons[2] = "connection_not_pinned"
    /\ Reasons[3] = "provider_not_pinned" /\ Reasons[4] = "embeddings_not_supported"
    /\ Reasons[5] = "missing_output_modality" /\ Reasons[6] = "missing_input_modality"
    /\ Reasons[7] = "strict_schema_not_supported" /\ Reasons[8] = "tools_not_supported"
    /\ DOMAIN Reasons = 1..8
  BY DEF Reasons

\* A candidate nothing speaks against is active, where it has to be, and has
\* what is needed.
LEMMA NothingAgainst ==
    ASSUME NEW c, NEW ask, NEW where, Against(c, ask, where) = {}, ask.needs \subseteq Features
    PROVE  /\ c.active /\ PinnedTo(c, where) /\ NamedBy(c, ask.provider)
           /\ ask.needs \subseteq c.offers
<1>1. \A i \in 1..8 : ~SpeaksAgainst(Reasons[i], c, ask, where)
  BY ReasonList DEF Against
<1>2. \A reason \in {"model_disabled", "connection_not_pinned", "provider_not_pinned",
        "embeddings_not_supported", "missing_output_modality", "missing_input_modality",
        "strict_schema_not_supported", "tools_not_supported"} :
        ~SpeaksAgainst(reason, c, ask, where)
  BY <1>1, ReasonList
<1>3. c.active /\ PinnedTo(c, where) /\ NamedBy(c, ask.provider)
  BY <1>2 DEF SpeaksAgainst
<1>4. \A f \in Features : ~Lacks(c, ask, f)
  BY <1>2 DEF SpeaksAgainst, Features
<1> QED
  BY <1>3, <1>4 DEF Lacks

\* A model a principal may use under the name it asked for is permitted to it.
LEMMA ResolvedIsPermitted ==
    ASSUME NEW snapshot, NEW name, NEW names, NEW model,
           model = Resolve(snapshot, name), model # None, MayUse(snapshot, names, model)
    PROVE  /\ \/ model = name
              \/ name \in DOMAIN snapshot.aliases /\ snapshot.aliases[name] = model
           /\ \/ names = Unrestricted
              \/ model \in names
              \/ \E n \in names \intersect DOMAIN snapshot.aliases : snapshot.aliases[n] = model
<1>1. \A n : Resolve(snapshot, n) = model =>
        model = n \/ (n \in DOMAIN snapshot.aliases /\ snapshot.aliases[n] = model)
  BY DEF Resolve
<1>2. names = Unrestricted \/ \E n \in names : Resolve(snapshot, n) = model
  BY DEF MayUse, Canonical
<1> QED
  BY <1>1, <1>2

\* Every route goes through the eligible candidates only and has a first one.
LEMMA RouteOfEligible ==
    ASSUME NEW S, IsFiniteSet(S), S # {}, NEW objective, NEW candidates \in Orders(S, objective)
    PROVE  candidates \in Seq(S) /\ candidates # <<>>
<1>1. Cardinality(S) \in Nat /\ Cardinality(S) # 0
  BY FS_CardinalityType, FS_EmptySet
<1>2. candidates \in [1..Cardinality(S) -> S]
  BY DEF Orders, SetToSeqs
<1> QED
  BY <1>1, <1>2

-----------------------------------------------------------------------------
(* Types, with what is known of a request at each of its steps.            *)

Types ==
    /\ active \in DOMAIN Snapshots
    /\ record \in [Scopes -> Records \union {None}]
    /\ pin \in [Sessions -> Connections \union {None}]
    /\ pc \in [Requests -> Steps]
    /\ input \in [Requests -> Inputs \union {None}]
    /\ seen \in [Requests -> DOMAIN Snapshots \union {0}]
    /\ pinned \in [Requests -> Connections \union {None}]
    /\ route \in [Requests -> Seq(Candidates)]
    /\ served \in [Requests -> Candidates \union {None}]
    /\ answer = [r \in Requests |-> answer[r]]
    /\ bills \in [Scopes -> Nat]
    /\ excuses \in [Scopes -> Nat]

\* What the request began with, and what it knows of its session.
Begun ==
    \A r \in Requests :
        /\ pc[r] # "idle" => input[r] \in Inputs /\ seen[r] \in DOMAIN Snapshots
        /\ pc[r] \in {"idle", "replay", "session"} => pinned[r] = None
        /\ pc[r] = "pin" => input[r].session \in Sessions

Fits(r) ==
    Suits(served[r], Snapshots[seen[r]], Ask[input[r].body], input[r].allow, pinned[r])

\* The model a request may use, once it is planned.
Model(r) == Resolve(Snapshots[seen[r]], Ask[input[r].body].model)
Planned(r) ==
    /\ Model(r) # None
    /\ MayUse(Snapshots[seen[r]], input[r].allow, Model(r))
    /\ route[r] \in Seq(Fitting(r))
    /\ route[r] # <<>>

Served ==
    \A r \in Requests :
        /\ pc[r] \in {"idle", "replay", "session", "plan", "call"} => served[r] = None
        /\ pc[r] = "call" => Planned(r)
        /\ pc[r] \in {"pin", "settle", "store"} => Fits(r)
        /\ served[r] # None => Fits(r)

Places == Types /\ Begun /\ Served

LEMMA Constants ==
    /\ Len(Snapshots) \in Nat /\ 1 \in DOMAIN Snapshots /\ DOMAIN Snapshots = 1..Len(Snapshots)
    /\ \A i \in DOMAIN Snapshots : IsFiniteSet(Snapshots[i].candidates)
    /\ \A i \in DOMAIN Snapshots : Snapshots[i].candidates \subseteq Candidates
    /\ \A c \in Candidates : c.connection \in Connections
    /\ \A i \in Inputs : /\ i.body \in Bodies
                         /\ i.key \in IdemKeys \union {None}
                         /\ i.session \in Sessions \union {None}
                         /\ Ask[i.body].endpoint \in Endpoints
                         /\ Ask[i.body].needs \subseteq Features
    /\ None \notin IdemKeys /\ None \notin Sessions /\ None \notin Requests /\ None \notin Records
<1>1. Len(Snapshots) \in Nat /\ 1 \in DOMAIN Snapshots /\ DOMAIN Snapshots = 1..Len(Snapshots)
  BY AdmissionAssumption
<1>2. \A i \in DOMAIN Snapshots : Snapshots[i].candidates \subseteq Candidates
  BY DEF Candidates
<1>3. \A c \in Candidates : c.connection \in Connections
  BY DEF Candidates, Connections
<1> QED
  BY <1>1, <1>2, <1>3, AdmissionAssumption, NamesAssumption DEF Endpoints

\* What Plan, Replay and Failed refuse a request with.
LEMMA CodesOfRefusals ==
    /\ "idempotency_key_reused" \in Codes
    /\ "provider_unavailable" \in Codes
    /\ \A i \in DOMAIN Snapshots, q \in Inputs, c \in Connections \union {None} :
         ~Accepts(Snapshots[i], Ask[q.body], q.allow, c)
           => Refusal(Snapshots[i], Ask[q.body], q.allow, c) \in Codes
    /\ \A code \in Codes : code \notin Requests
<1>1. ASSUME NEW i \in DOMAIN Snapshots, NEW q \in Inputs, NEW c \in Connections \union {None},
             ~Accepts(Snapshots[i], Ask[q.body], q.allow, c)
      PROVE  Refusal(Snapshots[i], Ask[q.body], q.allow, c) \in Codes
  <2> DEFINE t == [snapshot |-> i, input |-> q, pin |-> c]
  <2>1. /\ t \in [snapshot : DOMAIN Snapshots, input : Inputs, pin : Connections \union {None}]
        /\ t.snapshot = i /\ t.input = q /\ t.pin = c
    OBVIOUS
  <2> HIDE DEF t
  <2>2. t \in Refused
    BY <1>1, <2>1 DEF Refused
  <2> QED
    BY <2>1, <2>2 DEF Codes
<1>2. {"idempotency_key_reused", "provider_unavailable"} \subseteq Codes
  BY DEF Codes
<1> QED
  BY <1>1, <1>2, NamesAssumption

LEMMA ScopeType ==
    ASSUME NEW r \in Requests, input[r] \in Inputs, input[r].key # None
    PROVE  Scope(r) \in Scopes
  BY Constants DEF Scope, Endpoint, Scopes

LEMMA FittingIsFinite ==
    ASSUME NEW r \in Requests, seen[r] \in DOMAIN Snapshots
    PROVE  /\ IsFiniteSet(Fitting(r))
           /\ Fitting(r) \subseteq Candidates
           /\ Fitting(r) \subseteq Snapshots[seen[r]].candidates
<1>1. Fitting(r) \subseteq Snapshots[seen[r]].candidates
  BY DEF Fitting, Eligible
<1>2. IsFiniteSet(Fitting(r))
  BY <1>1, Constants, FS_Subset
<1> QED
  BY <1>1, <1>2, Constants

\* The first candidate of a planned route suits the request.
LEMMA PlannedFits ==
    ASSUME NEW r \in Requests, Places, pc[r] = "call"
    PROVE  /\ Head(route[r]) \in Candidates
           /\ Suits(Head(route[r]), Snapshots[seen[r]], Ask[input[r].body], input[r].allow, pinned[r])
<1> DEFINE c == Head(route[r])
           snapshot == Snapshots[seen[r]]
           ask == Ask[input[r].body]
<1>1. input[r] \in Inputs /\ seen[r] \in DOMAIN Snapshots /\ Planned(r)
  BY DEF Places, Begun, Served
<1>2. c \in Fitting(r)
  BY <1>1 DEF Planned
<1>3. c \in snapshot.candidates /\ c.model = Model(r) /\ Against(c, ask, pinned[r]) = {}
  BY <1>2 DEF Fitting, Eligible, Model
<1>4. ask.needs \subseteq Features
  BY <1>1, Constants
<1>5. /\ c.active /\ PinnedTo(c, pinned[r]) /\ NamedBy(c, ask.provider)
      /\ ask.needs \subseteq c.offers
  BY <1>3, <1>4, NothingAgainst
<1>6. /\ \/ Model(r) = ask.model
         \/ ask.model \in DOMAIN snapshot.aliases /\ snapshot.aliases[ask.model] = Model(r)
      /\ \/ input[r].allow = Unrestricted
         \/ Model(r) \in input[r].allow
         \/ \E n \in input[r].allow \intersect DOMAIN snapshot.aliases : snapshot.aliases[n] = Model(r)
  BY <1>1, ResolvedIsPermitted DEF Planned, Model
<1>7. c \in Candidates
  BY <1>1, <1>2, FittingIsFinite
<1>8. Suits(c, snapshot, ask, input[r].allow, pinned[r])
  BY <1>3, <1>5, <1>6 DEF Suits, PinnedTo, NamedBy
<1> QED
  BY <1>7, <1>8

LEMMA InitPlaces == Init => Places
  BY Constants DEF Init, Places, Types, Begun, Served, Steps

\* A request keeps its place in a step that leaves what it is made of.
Same(r) ==
    /\ seen'[r] = seen[r] /\ input'[r] = input[r] /\ pinned'[r] = pinned[r]
    /\ route'[r] = route[r] /\ served'[r] = served[r]

LEMMA SameFits ==
    ASSUME NEW r \in Requests, Same(r)
    PROVE  (Fits(r)' <=> Fits(r)) /\ (Planned(r)' <=> Planned(r))
  BY DEF Same, Fits, Planned, Model, Fitting

LEMMA OthersServed ==
    ASSUME Served, NEW r \in Requests,
           \A q \in Requests : q # r => Same(q) /\ pc'[q] = pc[q],
           /\ pc'[r] \in {"idle", "replay", "session", "plan", "call"} => served'[r] = None
           /\ pc'[r] = "call" => Planned(r)'
           /\ pc'[r] \in {"pin", "settle", "store"} => Fits(r)'
           /\ served'[r] # None => Fits(r)'
    PROVE  Served'
<1> SUFFICES ASSUME NEW q \in Requests, q # r
             PROVE  /\ pc'[q] \in {"idle", "replay", "session", "plan", "call"} => served'[q] = None
                    /\ pc'[q] = "call" => Planned(q)'
                    /\ pc'[q] \in {"pin", "settle", "store"} => Fits(q)'
                    /\ served'[q] # None => Fits(q)'
  BY DEF Served
<1>1. (Fits(q)' <=> Fits(q)) /\ (Planned(q)' <=> Planned(q))
  BY SameFits
<1> QED
  BY <1>1 DEF Served, Same

\* The steps of a request that change no more than its place and its answer.
LEMMA MovesOn ==
    ASSUME Places, NEW r \in Requests, UNCHANGED <<askVars, planVars>>,
           \A q \in Requests : q # r => pc'[q] = pc[q],
           pc'[r] \in Steps,
           pc'[r] \in {"idle", "replay", "session"} => pc[r] \in {"idle", "replay", "session"},
           pc'[r] # "idle" => pc[r] # "idle",
           pc'[r] # "pin",
           pc'[r] # "plan" /\ pc'[r] # "call",
           pc'[r] \in {"settle", "store"} => pc[r] \in {"pin", "settle", "store"}
    PROVE  Begun' /\ Served'
<1>1. \A q \in Requests : Same(q)
  BY DEF Same, askVars, planVars
<1>2. (Fits(r)' <=> Fits(r)) /\ (Planned(r)' <=> Planned(r))
  BY <1>1, SameFits
<1>3. Served'
  <2>1. /\ pc'[r] \in {"idle", "replay", "session", "plan", "call"} => served'[r] = None
        /\ pc'[r] = "call" => Planned(r)'
        /\ pc'[r] \in {"pin", "settle", "store"} => Fits(r)'
        /\ served'[r] # None => Fits(r)'
    BY <1>1, <1>2 DEF Places, Served, Same
  <2> QED
    BY <1>1, <2>1, OthersServed DEF Places
<1>4. Begun'
  BY <1>1 DEF Places, Begun, Same
<1> QED
  BY <1>3, <1>4

LEMMA GotoType ==
    ASSUME Types, NEW r \in Requests, NEW step \in Steps, Goto(r, step)
    PROVE  /\ pc' \in [Requests -> Steps]
           /\ pc'[r] = step
           /\ \A q \in Requests : q # r => pc'[q] = pc[q]
  BY DEF Types, Goto

LEMMA EndType ==
    ASSUME Types, NEW r \in Requests, NEW result, End(r, result)
    PROVE  /\ pc' \in [Requests -> Steps]
           /\ pc'[r] = "ended" /\ answer'[r] = result
           /\ \A q \in Requests : q # r => pc'[q] = pc[q] /\ answer'[q] = answer[q]
           /\ answer' = [q \in Requests |-> answer'[q]]
<1>1. Goto(r, "ended") /\ answer' = [answer EXCEPT ![r] = result]
  BY DEF End
<1>2. "ended" \in Steps
  BY DEF Steps
<1> QED
  BY <1>1, <1>2, GotoType DEF Types

LEMMA ExcuseType ==
    ASSUME Types, NEW x \in Scopes, Excuse(x)
    PROVE  /\ excuses' \in [Scopes -> Nat]
           /\ excuses'[x] = excuses[x] + 1
           /\ \A y \in Scopes : y # x => excuses'[y] = excuses[y]
  BY DEF Types, Excuse

LEMMA PlacesPreserved == Places /\ [Next]_vars => Places'
<1> SUFFICES ASSUME Places, [Next]_vars PROVE Places'
  OBVIOUS
<1>1. ASSUME NEW r \in Requests, Begin(r) PROVE Places'
  <2>1. PICK i \in Inputs : input' = [input EXCEPT ![r] = i]
    BY <1>1 DEF Begin
  <2>2. Goto(r, "replay") /\ seen' = [seen EXCEPT ![r] = active] /\ pc[r] = "idle"
        /\ UNCHANGED <<active, record, pin, answer, bills, excuses>> /\ UNCHANGED planVars
    BY <1>1 DEF Begin, history
  <2>3. /\ pc' \in [Requests -> Steps] /\ pc'[r] = "replay"
        /\ \A q \in Requests : q # r => pc'[q] = pc[q]
    BY <2>2, GotoType DEF Places, Steps
  <2>4. Types'
    BY <2>1, <2>2, <2>3 DEF Places, Types, planVars
  <2>5. \A q \in Requests : q # r => Same(q)
    BY <2>1, <2>2 DEF Places, Types, Same, planVars
  <2>6. Served'
    <3>1. served'[r] = None
      BY <2>2 DEF Places, Served, planVars
    <3> QED
      BY <2>3, <2>5, <3>1, OthersServed DEF Places
  <2>7. Begun'
    BY <2>1, <2>2, <2>3 DEF Places, Types, Begun, planVars
  <2> QED
    BY <2>4, <2>6, <2>7 DEF Places
<1>2. ASSUME NEW r \in Requests, Replay(r) PROVE Places'
  <2>1. UNCHANGED <<active, record, pin, bills>> /\ UNCHANGED <<askVars, planVars>> /\ pc[r] = "replay"
    BY <1>2 DEF Replay
  <2>2. input[r] \in Inputs
    BY <2>1 DEF Places, Begun
  <2>3. /\ pc' \in [Requests -> Steps] /\ pc'[r] \in {"session", "ended"}
        /\ \A q \in Requests : q # r => pc'[q] = pc[q]
        /\ answer' = [q \in Requests |-> answer'[q]]
    <3>1. CASE Goto(r, "session") /\ UNCHANGED answer
      BY <3>1, GotoType DEF Places, Types, Steps
    <3>2. CASE \E result : End(r, result)
      BY <3>2, EndType DEF Places
    <3> QED
      BY <1>2, <3>1, <3>2 DEF Replay
  <2>4. excuses' \in [Scopes -> Nat]
    <3>1. CASE input[r].key # None /\ Excuse(Scope(r))
      BY <2>2, <3>1, ScopeType, ExcuseType DEF Places
    <3>2. CASE UNCHANGED excuses
      BY <3>2 DEF Places, Types
    <3> QED
      BY <1>2, <3>1, <3>2 DEF Replay
  <2>5. Types'
    BY <2>1, <2>3, <2>4 DEF Places, Types, askVars, planVars
  <2>6. Begun' /\ Served'
    <3>1. CASE pc'[r] = "ended"
      BY <2>1, <2>3, <3>1, MovesOn DEF Steps
    <3>2. CASE pc'[r] = "session"
      BY <2>1, <2>3, <3>2, MovesOn DEF Steps
    <3> QED
      BY <2>3, <3>1, <3>2
  <2> QED
    BY <2>5, <2>6 DEF Places
<1>3. ASSUME NEW r \in Requests, ReadPin(r) PROVE Places'
  <2>1. /\ UNCHANGED <<active, record, pin, answer, bills, excuses>> /\ UNCHANGED askVars
        /\ UNCHANGED <<route, served>> /\ pc[r] = "session" /\ Goto(r, "plan")
        /\ pinned' = [pinned EXCEPT ![r] = IF input[r].session = None THEN None ELSE pin[input[r].session]]
    BY <1>3 DEF ReadPin, history
  <2>2. (IF input[r].session = None THEN None ELSE pin[input[r].session]) \in Connections \union {None}
    BY <2>1, Constants DEF Places, Begun, Types
  <2>3. /\ pc' \in [Requests -> Steps] /\ pc'[r] = "plan"
        /\ \A q \in Requests : q # r => pc'[q] = pc[q]
    BY <2>1, GotoType DEF Places, Steps
  <2>4. Types'
    BY <2>1, <2>2, <2>3 DEF Places, Types, askVars
  <2>5. \A q \in Requests : q # r => Same(q)
    BY <2>1 DEF Places, Types, Same, askVars
  <2>6. served'[r] = None
    BY <2>1 DEF Places, Served
  <2>7. Served'
    BY <2>3, <2>5, <2>6, OthersServed DEF Places
  <2>8. Begun'
    BY <2>1, <2>3, <2>5 DEF Places, Begun, Same, askVars
  <2> QED
    BY <2>4, <2>7, <2>8 DEF Places
<1>4. ASSUME NEW r \in Requests, Plan(r) PROVE Places'
  <2> DEFINE snapshot == Snapshots[seen[r]]
             ask == Ask[input[r].body]
             code == Refusal(snapshot, ask, input[r].allow, pinned[r])
  <2>1. /\ UNCHANGED <<active, record, pin, bills, excuses>> /\ UNCHANGED askVars
        /\ UNCHANGED <<pinned, served, spoilt>> /\ pc[r] = "plan"
    BY <1>4 DEF Plan, history
  <2>2. CASE End(r, code) /\ UNCHANGED route
    <3>1. /\ pc' \in [Requests -> Steps] /\ pc'[r] = "ended"
          /\ \A q \in Requests : q # r => pc'[q] = pc[q]
          /\ answer' = [q \in Requests |-> answer'[q]]
      BY <2>2, EndType DEF Places
    <3>2. Types'
      BY <2>1, <2>2, <3>1 DEF Places, Types, askVars
    <3>3. Begun' /\ Served'
      BY <2>1, <2>2, <3>1, MovesOn DEF Steps, planVars
    <3> QED
      BY <3>2, <3>3 DEF Places
  <2>3. CASE /\ Accepts(snapshot, ask, input[r].allow, pinned[r])
             /\ \E candidates \in Routes(snapshot, ask, pinned[r], ask.objective) :
                  route' = [route EXCEPT ![r] = candidates]
             /\ Goto(r, "call")
             /\ UNCHANGED answer
    <3>1. input[r] \in Inputs /\ seen[r] \in DOMAIN Snapshots
      BY <2>1 DEF Places, Begun
    <3>2. PICK candidates : /\ candidates \in Orders(Fitting(r), ask.objective)
                            /\ route' = [route EXCEPT ![r] = candidates]
      BY <2>3 DEF Routes, Fitting
    <3>3. Model(r) # None /\ MayUse(snapshot, input[r].allow, Model(r)) /\ Fitting(r) # {}
      BY <2>3 DEF Accepts, Model, Fitting
    <3>4. IsFiniteSet(Fitting(r)) /\ Fitting(r) \subseteq Candidates
      BY <3>1, FittingIsFinite
    <3>5. candidates \in Seq(Fitting(r)) /\ candidates # <<>>
      BY <3>2, <3>3, <3>4, RouteOfEligible
    <3>6. candidates \in Seq(Candidates)
      BY <3>4, <3>5
    <3>7. /\ pc' \in [Requests -> Steps] /\ pc'[r] = "call"
          /\ \A q \in Requests : q # r => pc'[q] = pc[q]
      BY <2>3, GotoType DEF Places, Steps
    <3>8. route'[r] = candidates
      BY <3>2 DEF Places, Types
    <3>9. Types'
      BY <2>1, <2>3, <3>2, <3>6, <3>7 DEF Places, Types, askVars
    <3>10. \A q \in Requests : q # r => Same(q)
      BY <2>1, <3>2 DEF Places, Types, Same, askVars
    <3>11. Planned(r)'
      BY <2>1, <3>3, <3>5, <3>8 DEF Planned, Model, Fitting, askVars
    <3>12. served'[r] = None
      BY <2>1 DEF Places, Served
    <3>13. Served'
      BY <3>7, <3>10, <3>11, <3>12, OthersServed DEF Places
    <3>14. Begun'
      BY <2>1, <3>7 DEF Places, Begun, askVars
    <3> QED
      BY <3>9, <3>13, <3>14 DEF Places
  <2> QED
    BY <1>4, <2>2, <2>3 DEF Plan
<1>5. ASSUME NEW r \in Requests, Answered(r) PROVE Places'
  <2>1. /\ UNCHANGED <<active, record, pin, answer, bills, excuses>> /\ UNCHANGED askVars
        /\ UNCHANGED <<pinned, route>> /\ pc[r] = "call"
        /\ served' = [served EXCEPT ![r] = Head(route[r])]
        /\ Goto(r, IF input[r].session # None /\ Endpoint(r) = "responses" THEN "pin" ELSE "settle")
    BY <1>5 DEF Answered, history
  <2>2. /\ pc' \in [Requests -> Steps] /\ pc'[r] \in {"pin", "settle"}
        /\ pc'[r] = "pin" => input[r].session # None
        /\ \A q \in Requests : q # r => pc'[q] = pc[q]
    BY <2>1, GotoType DEF Places, Steps
  <2>3. /\ Head(route[r]) \in Candidates
        /\ Suits(Head(route[r]), Snapshots[seen[r]], Ask[input[r].body], input[r].allow, pinned[r])
    BY <2>1, PlannedFits
  <2>4. Types'
    BY <2>1, <2>2, <2>3 DEF Places, Types, askVars
  <2>5. \A q \in Requests : q # r => Same(q)
    BY <2>1 DEF Places, Types, Same, askVars
  <2>6. served'[r] = Head(route[r])
    BY <2>1 DEF Places, Types
  <2>7. Fits(r)'
    BY <2>1, <2>3, <2>6 DEF Fits, askVars
  <2>8. Served'
    BY <2>2, <2>5, <2>7, OthersServed DEF Places
  <2>9. Begun'
    BY <2>1, <2>2, Constants DEF Places, Begun, askVars
  <2> QED
    BY <2>4, <2>8, <2>9 DEF Places
<1>6. ASSUME NEW r \in Requests, Failed(r) PROVE Places'
  <2>1. /\ UNCHANGED <<active, record, pin, bills, excuses>> /\ UNCHANGED askVars
        /\ UNCHANGED <<pinned, served>> /\ pc[r] = "call"
        /\ route' = [route EXCEPT ![r] = Tail(@)]
        /\ \/ Tail(route[r]) # <<>> /\ UNCHANGED <<pc, answer>>
           \/ Goto(r, "charge") /\ UNCHANGED answer
           \/ End(r, "provider_unavailable")
    BY <1>6 DEF Failed, history
  <2>2. Planned(r)
    BY <2>1 DEF Places, Served
  <2>3. /\ Tail(route[r]) \in Seq(Fitting(r)) /\ route'[r] = Tail(route[r])
        /\ Tail(route[r]) \in Seq(Candidates)
    BY <2>1, <2>2 DEF Planned, Places, Types
  <2>4. /\ pc' \in [Requests -> Steps] /\ \A q \in Requests : q # r => pc'[q] = pc[q]
        /\ answer' = [q \in Requests |-> answer'[q]]
        /\ pc'[r] \in {"charge", "ended"} \/ (pc'[r] = "call" /\ Tail(route[r]) # <<>>)
    <3>1. CASE Tail(route[r]) # <<>> /\ UNCHANGED <<pc, answer>>
      BY <2>1, <3>1 DEF Places, Types
    <3>2. CASE Goto(r, "charge") /\ UNCHANGED answer
      BY <3>2, GotoType DEF Places, Types, Steps
    <3>3. CASE End(r, "provider_unavailable")
      BY <3>3, EndType DEF Places
    <3> QED
      BY <2>1, <3>1, <3>2, <3>3
  <2>5. Types'
    BY <2>1, <2>3, <2>4 DEF Places, Types, askVars
  <2>6. \A q \in Requests : q # r => Same(q)
    BY <2>1 DEF Places, Types, Same, askVars
  <2>7. pc'[r] = "call" => Planned(r)'
    BY <2>1, <2>2, <2>3, <2>4 DEF Planned, Model, Fitting, askVars
  <2>8. served'[r] = None
    BY <2>1 DEF Places, Served
  <2>9. Served'
    BY <2>4, <2>6, <2>7, <2>8, OthersServed DEF Places
  <2>10. Begun'
    BY <2>1, <2>4 DEF Places, Begun, askVars
  <2> QED
    BY <2>5, <2>9, <2>10 DEF Places
<1>7. ASSUME NEW r \in Requests, SetPin(r) PROVE Places'
  <2>1. /\ UNCHANGED <<active, record, answer, bills, excuses>> /\ UNCHANGED <<askVars, planVars>>
        /\ pc[r] = "pin" /\ Goto(r, "settle")
        /\ pin' = [pin EXCEPT ![input[r].session] = served[r].connection]
    BY <1>7 DEF SetPin, MovePin
  <2>2. /\ pc' \in [Requests -> Steps] /\ pc'[r] = "settle"
        /\ \A q \in Requests : q # r => pc'[q] = pc[q]
    BY <2>1, GotoType DEF Places, Steps
  <2>3. served[r].connection \in Connections
    <3>1. Fits(r) /\ seen[r] \in DOMAIN Snapshots
      BY <2>1 DEF Places, Served, Begun
    <3>2. served[r] \in Snapshots[seen[r]].candidates
      BY <3>1 DEF Fits, Suits
    <3> QED
      BY <3>1, <3>2, Constants
  <2>4. Types'
    BY <2>1, <2>2, <2>3 DEF Places, Types, Begun, askVars, planVars
  <2>5. Begun' /\ Served'
    BY <2>1, <2>2, MovesOn DEF Steps
  <2> QED
    BY <2>4, <2>5 DEF Places
<1>8. ASSUME NEW r \in Requests, Settle(r) PROVE Places'
  <2>1. /\ UNCHANGED <<active, record, pin, answer, excuses>> /\ UNCHANGED <<askVars, planVars>>
        /\ pc[r] = "settle" /\ Goto(r, "store")
        /\ bills' = IF input[r].key = None THEN bills ELSE [bills EXCEPT ![Scope(r)] = @ + 1]
    BY <1>8 DEF Settle
  <2>2. /\ pc' \in [Requests -> Steps] /\ pc'[r] = "store"
        /\ \A q \in Requests : q # r => pc'[q] = pc[q]
    BY <2>1, GotoType DEF Places, Steps
  <2>3. bills' \in [Scopes -> Nat]
    <3>1. input[r] \in Inputs
      BY <2>1 DEF Places, Begun
    <3>2. input[r].key # None => Scope(r) \in Scopes
      BY <3>1, ScopeType
    <3>3. CASE input[r].key = None
      BY <2>1, <3>3 DEF Places, Types
    <3>4. CASE input[r].key # None
      BY <2>1, <3>2, <3>4 DEF Places, Types
    <3> QED
      BY <3>3, <3>4
  <2>4. Types'
    BY <2>1, <2>2, <2>3 DEF Places, Types, askVars, planVars
  <2>5. Begun' /\ Served'
    BY <2>1, <2>2, MovesOn DEF Steps
  <2> QED
    BY <2>4, <2>5 DEF Places
<1>9. ASSUME NEW r \in Requests, Store(r) PROVE Places'
  <2>1. /\ UNCHANGED <<active, pin, bills, excuses>> /\ UNCHANGED <<askVars, planVars>>
        /\ pc[r] = "store" /\ End(r, r)
    BY <1>9 DEF Store, history
  <2>2. /\ pc' \in [Requests -> Steps] /\ pc'[r] = "ended"
        /\ \A q \in Requests : q # r => pc'[q] = pc[q]
        /\ answer' = [q \in Requests |-> answer'[q]]
    BY <2>1, EndType DEF Places
  <2>3. input[r] \in Inputs
    BY <2>1 DEF Places, Begun
  <2>4. [body |-> input[r].body, answer |-> r] \in Records
    BY <2>3, Constants DEF Records
  <2>5. record' \in [Scopes -> Records \union {None}]
    BY <1>9, <2>4 DEF Store, StoreFirst, Places, Types
  <2>6. Types'
    BY <2>1, <2>2, <2>5 DEF Places, Types, askVars, planVars
  <2>7. Begun' /\ Served'
    BY <2>1, <2>2, MovesOn DEF Steps
  <2> QED
    BY <2>6, <2>7 DEF Places
<1>10. ASSUME NEW r \in Requests, Die(r) PROVE Places'
  <2>1. /\ UNCHANGED <<active, record, pin, answer, bills>> /\ UNCHANGED <<askVars, planVars>>
        /\ pc[r] = "replay" \/ InFlight(r)
        /\ Goto(r, "ended")
        /\ IF pc[r] = "store" /\ input[r].key # None THEN Excuse(Scope(r)) ELSE UNCHANGED excuses
    BY <1>10 DEF Die
  <2>2. /\ pc' \in [Requests -> Steps] /\ pc'[r] = "ended"
        /\ \A q \in Requests : q # r => pc'[q] = pc[q]
    BY <2>1, GotoType DEF Places, Steps
  <2>3. pc[r] # "idle" /\ input[r] \in Inputs
    BY <2>1 DEF Places, Begun, InFlight
  <2>4. excuses' \in [Scopes -> Nat]
    BY <2>1, <2>3, ScopeType, ExcuseType DEF Places, Types
  <2>5. Types'
    BY <2>1, <2>2, <2>4 DEF Places, Types, askVars, planVars
  <2>6. Begun' /\ Served'
    BY <2>1, <2>2, <2>3, MovesOn DEF Steps
  <2> QED
    BY <2>5, <2>6 DEF Places
<1>11. ASSUME UNCHANGED <<pc, askVars, planVars>> PROVE Begun' /\ Served'
  <2>1. \A q \in Requests : Same(q) /\ pc'[q] = pc[q]
    BY <1>11 DEF Same, askVars, planVars
  <2>2. \A q \in Requests : (Fits(q)' <=> Fits(q)) /\ (Planned(q)' <=> Planned(q))
    BY <2>1, SameFits
  <2> QED
    BY <2>1, <2>2 DEF Places, Begun, Served, Same
<1>12. CASE Publish
  <2>1. Types'
    BY <1>12, Constants DEF Publish, Places, Types, askVars, planVars, history
  <2> QED
    BY <1>11, <1>12, <2>1 DEF Publish, Places
<1>13. ASSUME NEW x \in Scopes, ExpireRecord(x) PROVE Places'
  <2>1. Types'
    BY <1>13, ExcuseType DEF ExpireRecord, Places, Types, askVars, planVars
  <2> QED
    BY <1>11, <1>13, <2>1 DEF ExpireRecord, Places
<1>14. ASSUME NEW s \in Sessions, ExpirePin(s) PROVE Places'
  <2>1. Types'
    BY <1>14 DEF ExpirePin, MovePin, Places, Types, askVars, planVars
  <2> QED
    BY <1>11, <1>14, <2>1 DEF ExpirePin, Places
<1>15. CASE UNCHANGED vars
  BY <1>11, <1>15 DEF vars, Places, Types, askVars, planVars, history
<1>16. ASSUME NEW r \in Requests, ChargeFailure(r) PROVE Places'
  <2>1. /\ UNCHANGED <<active, record, pin>> /\ UNCHANGED <<askVars, planVars>>
        /\ pc[r] = "charge" /\ End(r, "provider_unavailable")
        /\ \/ input[r].key = None /\ UNCHANGED <<bills, excuses>>
           \/ /\ input[r].key # None
              /\ bills' = [bills EXCEPT ![Scope(r)] = @ + 1]
              /\ Excuse(Scope(r))
    BY <1>16 DEF ChargeFailure
  <2>2. /\ pc' \in [Requests -> Steps] /\ pc'[r] = "ended"
        /\ \A q \in Requests : q # r => pc'[q] = pc[q]
        /\ answer' = [q \in Requests |-> answer'[q]]
    BY <2>1, EndType DEF Places
  <2>3. input[r] \in Inputs
    BY <2>1 DEF Places, Begun
  <2>4. bills' \in [Scopes -> Nat] /\ excuses' \in [Scopes -> Nat]
    <3>1. CASE input[r].key = None
      BY <2>1, <3>1 DEF Places, Types
    <3>2. CASE input[r].key # None
      <4>1. Scope(r) \in Scopes
        BY <2>3, <3>2, ScopeType
      <4>2. excuses' \in [Scopes -> Nat]
        BY <2>1, <3>2, <4>1, ExcuseType DEF Places
      <4>3. bills' \in [Scopes -> Nat]
        BY <2>1, <3>2, <4>1 DEF Places, Types
      <4> QED
        BY <4>2, <4>3
    <3> QED
      BY <3>1, <3>2
  <2>5. Types'
    BY <2>1, <2>2, <2>4 DEF Places, Types, askVars, planVars
  <2>6. Begun' /\ Served'
    BY <2>1, <2>2, MovesOn DEF Steps
  <2> QED
    BY <2>5, <2>6 DEF Places
<1> QED
  BY <1>1, <1>2, <1>3, <1>4, <1>5, <1>6, <1>7, <1>8, <1>9, <1>10, <1>12, <1>13, <1>14, <1>15, <1>16
     DEF Next, Step

LEMMA PlacesHold == Spec => []Places
  BY InitPlaces, PlacesPreserved, PTL DEF Spec

\* What TypeOK says beyond Types.
Bounds ==
    /\ spoilt \subseteq Requests
    /\ answer \in [Requests -> Requests \union Codes \union {None}]
    /\ moved \subseteq Requests
    /\ losses \in 0..MaxLosses
    /\ deaths \in 0..MaxDeaths

LEMMA BoundsPreserved == Places /\ Bounds /\ [Next]_vars => Bounds'
<1> SUFFICES ASSUME Places, Bounds, [Next]_vars PROVE Bounds'
  OBVIOUS
<1>1. ASSUME NEW r \in Requests, NEW result \in Requests \union Codes \union {None},
             End(r, result), UNCHANGED <<moved, losses, deaths>>, spoilt' \subseteq Requests
      PROVE  Bounds'
  BY <1>1 DEF End, Bounds
<1>2. ASSUME UNCHANGED <<answer, losses, deaths>>, moved' \subseteq Requests,
             spoilt' \subseteq Requests
      PROVE  Bounds'
  BY <1>2 DEF Bounds
<1>3. ASSUME NEW r \in Requests, Replay(r) PROVE Bounds'
  <2>1. UNCHANGED <<moved, losses, deaths, spoilt>> /\ pc[r] = "replay"
    BY <1>3 DEF Replay, planVars
  <2>2. CASE UNCHANGED answer
    BY <1>2, <2>1, <2>2 DEF Bounds
  <2>3. CASE /\ input[r].key # None /\ record[Scope(r)] # None
             /\ End(r, IF record[Scope(r)].body = input[r].body THEN record[Scope(r)].answer
                       ELSE "idempotency_key_reused")
    <3>1. Scope(r) \in Scopes
      BY <2>1, <2>3, ScopeType DEF Places, Begun
    <3>2. record[Scope(r)].answer \in Requests
      BY <2>3, <3>1 DEF Places, Types, Records
    <3>3. (IF record[Scope(r)].body = input[r].body THEN record[Scope(r)].answer
           ELSE "idempotency_key_reused") \in Requests \union Codes \union {None}
      BY <3>2, CodesOfRefusals
    <3> QED
      BY <1>1, <2>1, <2>3, <3>3 DEF Bounds
  <2> QED
    BY <1>3, <2>2, <2>3 DEF Replay
<1>4. ASSUME NEW r \in Requests, Plan(r) PROVE Bounds'
  <2> DEFINE code == Refusal(Snapshots[seen[r]], Ask[input[r].body], input[r].allow, pinned[r])
  <2>1. UNCHANGED <<moved, losses, deaths, spoilt>> /\ pc[r] = "plan"
    BY <1>4 DEF Plan, history
  <2>2. CASE UNCHANGED answer
    BY <1>2, <2>1, <2>2 DEF Bounds
  <2>3. CASE ~Accepts(Snapshots[seen[r]], Ask[input[r].body], input[r].allow, pinned[r]) /\ End(r, code)
    <3>1. input[r] \in Inputs /\ seen[r] \in DOMAIN Snapshots /\ pinned[r] \in Connections \union {None}
      BY <2>1 DEF Places, Begun, Types
    <3>2. code \in Codes
      BY <2>3, <3>1, CodesOfRefusals
    <3> QED
      BY <1>1, <2>1, <2>3, <3>2 DEF Bounds
  <2> QED
    BY <1>4, <2>2, <2>3 DEF Plan
<1>5. ASSUME NEW r \in Requests, Failed(r) \/ ChargeFailure(r) \/ Store(r) PROVE Bounds'
  <2>1. UNCHANGED <<moved, losses, deaths>> /\ spoilt' \subseteq Requests
    BY <1>5 DEF Failed, ChargeFailure, Store, Bounds, planVars, history
  <2>2. UNCHANGED answer \/ End(r, "provider_unavailable") \/ End(r, r)
    BY <1>5 DEF Failed, ChargeFailure, Store
  <2> QED
    BY <1>1, <1>2, <2>1, <2>2, CodesOfRefusals DEF Bounds
<1>6. ASSUME NEW r \in Requests, Begin(r) \/ ReadPin(r) \/ Answered(r) \/ SetPin(r) \/ Settle(r)
      PROVE  Bounds'
  BY <1>2, <1>6 DEF Begin, ReadPin, Answered, SetPin, Settle, MovePin, Bounds, planVars, history
<1>7. ASSUME NEW r \in Requests, Die(r) PROVE Bounds'
  BY <1>7, AdmissionAssumption DEF Die, Bounds, planVars
<1>8. ASSUME NEW x \in Scopes, ExpireRecord(x) PROVE Bounds'
  BY <1>8, AdmissionAssumption DEF ExpireRecord, Bounds, planVars
<1>9. ASSUME NEW s \in Sessions, ExpirePin(s) PROVE Bounds'
  BY <1>9, AdmissionAssumption DEF ExpirePin, MovePin, Bounds, planVars
<1>10. CASE Publish \/ UNCHANGED vars
  BY <1>2, <1>10 DEF Publish, vars, Bounds, planVars, history
<1> QED
  BY <1>3, <1>4, <1>5, <1>6, <1>7, <1>8, <1>9, <1>10 DEF Next, Step

\* Every request has its types and its place, with any bound on losses and
\* deaths.
THEOREM TypeCorrect == Spec => []TypeOK
<1>1. Init => Bounds
  BY AdmissionAssumption DEF Init, Bounds
<1>2. Places /\ Bounds => TypeOK
  <2>1. \A r \in Requests : input[r] \in Inputs => input[r] # None
    BY AdmissionAssumption
  <2> QED
    BY <2>1 DEF Places, Types, Begun, Bounds, TypeOK
<1> QED
  BY <1>1, <1>2, BoundsPreserved, PlacesHold, PTL DEF Spec

\* routing.py and app.py: the candidate that answers a request is one its
\* snapshot, its model, its allowlist, its needs, its session and its own pin
\* let it have, whatever is published and however many candidates fail.
THEOREM AllServedAsAsked == Spec => []ServedAsAsked
<1>1. Places => ServedAsAsked
  BY DEF Places, Served, Fits, ServedAsAsked
<1> QED
  BY <1>1, PlacesHold, PTL

-----------------------------------------------------------------------------
(* Answers: what is replayed was made for the same body.                   *)

\* The answer of q is one to the body b, for good.
Made(q, b) == q \in Requests /\ pc[q] = "ended" /\ input[q].body = b

Answers ==
    /\ \A x \in Scopes : record[x] # None => Made(record[x].answer, record[x].body)
    /\ \A r \in Requests : answer[r] \in Requests => pc[r] = "ended" /\ Made(answer[r], input[r].body)

LEMMA InitAnswers == Init => Answers
  BY Constants DEF Init, Answers

\* What is made stays made; only the end of a request gives it an answer.
LEMMA MadeStays ==
    ASSUME Places, [Next]_vars, NEW q \in Requests, pc[q] = "ended"
    PROVE  pc'[q] = "ended" /\ input'[q] = input[q]
<1>1. CASE UNCHANGED <<pc, input>>
  BY <1>1
<1>2. ASSUME NEW r \in Requests, r # q, \A p \in Requests : p # r => pc'[p] = pc[p] /\ input'[p] = input[p]
      PROVE  pc'[q] = "ended" /\ input'[q] = input[q]
  BY <1>2
<1>3. ASSUME NEW r \in Requests, NEW step \in Steps, Goto(r, step), UNCHANGED input, pc[r] # "ended"
      PROVE  pc'[q] = "ended" /\ input'[q] = input[q]
  BY <1>3 DEF Goto, Places, Types
<1>4. ASSUME NEW r \in Requests, Begin(r) PROVE pc'[q] = "ended" /\ input'[q] = input[q]
  BY <1>4 DEF Begin, Goto, Places, Types
<1>5. ASSUME NEW r \in Requests, Step(r) \/ Die(r) PROVE pc'[q] = "ended" /\ input'[q] = input[q]
  <2>1. UNCHANGED input /\ pc[r] # "ended"
    BY <1>5 DEF Step, Die, Replay, ReadPin, Plan, Answered, Failed,
       ChargeFailure, SetPin, Settle, Store, InFlight, askVars
  <2>2. UNCHANGED pc \/ \E step \in Steps : Goto(r, step)
    BY <1>5 DEF Step, Die, Replay, ReadPin, Plan, Answered, Failed,
       ChargeFailure, SetPin, Settle, Store, End, Steps
  <2> QED
    BY <1>3, <2>1, <2>2
<1> QED
  BY <1>1, <1>4, <1>5 DEF Next, Publish, ExpireRecord, ExpirePin, vars, askVars

LEMMA AnswersPreserved == Places /\ Answers /\ [Next]_vars => Answers'
<1> SUFFICES ASSUME Places, Answers, [Next]_vars PROVE Answers'
  OBVIOUS
<1>1. \A q, b : Made(q, b) => Made(q, b)'
  BY MadeStays DEF Made
<1>2. \A q \in Requests : pc[q] = "ended" => pc'[q] = "ended" /\ input'[q] = input[q]
  BY MadeStays
<1>3. CASE UNCHANGED answer /\ \A x \in Scopes : record'[x] \in {record[x], None}
  BY <1>1, <1>2, <1>3 DEF Answers
<1>4. ASSUME NEW r \in Requests, NEW result, End(r, result), UNCHANGED input,
             result \in Requests => Made(result, input[r].body) \/ result = r,
             \A x \in Scopes : \/ record'[x] \in {record[x], None}
                               \/ record'[x] = [body |-> input[r].body, answer |-> r]
      PROVE  Answers'
  <2>1. /\ pc'[r] = "ended" /\ answer'[r] = result
        /\ \A q \in Requests : q # r => answer'[q] = answer[q]
    BY <1>4, EndType DEF Places
  <2>2. Made(r, input[r].body)'
    BY <1>4, <2>1 DEF Made
  <2>3. ASSUME NEW x \in Scopes, record'[x] # None
        PROVE  Made(record[x].answer, record[x].body)'
    <3>1. CASE record'[x] = record[x]
      BY <1>2, <2>3, <3>1 DEF Answers, Made
    <3>2. CASE record'[x] = [body |-> input[r].body, answer |-> r]
      BY <1>4, <2>2, <3>2 DEF Made
    <3> QED
      BY <1>4, <2>3, <3>1, <3>2
  <2>4. ASSUME NEW q \in Requests, answer'[q] \in Requests
        PROVE  pc'[q] = "ended" /\ Made(answer[q], input[q].body)'
    <3>1. CASE q = r
      BY <1>2, <1>4, <2>1, <2>2, <2>4, <3>1 DEF Made
    <3>2. CASE q # r
      BY <1>2, <2>1, <2>4, <3>2 DEF Answers, Made
    <3> QED
      BY <3>1, <3>2
  <2> QED
    BY <2>3, <2>4 DEF Answers
<1>5. ASSUME NEW r \in Requests, Replay(r) PROVE Answers'
  <2>1. UNCHANGED record /\ UNCHANGED input /\ pc[r] = "replay"
    BY <1>5 DEF Replay, askVars
  <2>2. CASE UNCHANGED answer
    BY <1>3, <2>1, <2>2
  <2>3. CASE /\ input[r].key # None /\ record[Scope(r)] # None
             /\ End(r, IF record[Scope(r)].body = input[r].body THEN record[Scope(r)].answer
                       ELSE "idempotency_key_reused")
    <3>1. Scope(r) \in Scopes
      BY <2>1, <2>3, ScopeType DEF Places, Begun
    <3>2. Made(record[Scope(r)].answer, record[Scope(r)].body)
      BY <2>3, <3>1 DEF Answers
    <3>3. "idempotency_key_reused" \notin Requests
      BY CodesOfRefusals
    <3> QED
      BY <1>4, <2>1, <2>3, <3>2, <3>3
  <2> QED
    BY <1>5, <2>2, <2>3 DEF Replay
<1>6. ASSUME NEW r \in Requests, Plan(r) PROVE Answers'
  <2>1. UNCHANGED record /\ UNCHANGED input /\ pc[r] = "plan"
    BY <1>6 DEF Plan, askVars
  <2>2. CASE UNCHANGED answer
    BY <1>3, <2>1, <2>2
  <2>3. CASE /\ ~Accepts(Snapshots[seen[r]], Ask[input[r].body], input[r].allow, pinned[r])
             /\ End(r, Refusal(Snapshots[seen[r]], Ask[input[r].body], input[r].allow, pinned[r]))
    <3>1. input[r] \in Inputs /\ seen[r] \in DOMAIN Snapshots /\ pinned[r] \in Connections \union {None}
      BY <2>1 DEF Places, Begun, Types
    <3>2. Refusal(Snapshots[seen[r]], Ask[input[r].body], input[r].allow, pinned[r]) \notin Requests
      BY <2>3, <3>1, CodesOfRefusals
    <3> QED
      BY <1>4, <2>1, <2>3, <3>2
  <2> QED
    BY <1>6, <2>2, <2>3 DEF Plan
<1>7. ASSUME NEW r \in Requests, Failed(r) \/ ChargeFailure(r) PROVE Answers'
  <2>1. UNCHANGED record /\ UNCHANGED input /\ (End(r, "provider_unavailable") \/ UNCHANGED answer)
    BY <1>7 DEF Failed, ChargeFailure, askVars
  <2>2. "provider_unavailable" \notin Requests
    BY CodesOfRefusals
  <2> QED
    BY <1>3, <1>4, <2>1, <2>2
<1>8. ASSUME NEW r \in Requests, Store(r) PROVE Answers'
  <2>1. UNCHANGED input /\ End(r, r)
    BY <1>8 DEF Store, askVars
  <2>2. \A x \in Scopes : \/ record'[x] \in {record[x], None}
                          \/ record'[x] = [body |-> input[r].body, answer |-> r]
    BY <1>8 DEF Store, StoreFirst, Places, Types
  <2> QED
    BY <1>4, <2>1, <2>2
<1>9. ASSUME NEW r \in Requests, Begin(r) \/ ReadPin(r) \/ Answered(r) \/ SetPin(r) \/ Settle(r) \/ Die(r)
      PROVE  Answers'
  BY <1>3, <1>9 DEF Begin, ReadPin, Answered, SetPin, Settle, Die
<1>10. ASSUME NEW x \in Scopes, ExpireRecord(x) PROVE Answers'
  BY <1>3, <1>10 DEF ExpireRecord, Places, Types
<1>11. CASE Publish \/ (\E s \in Sessions : ExpirePin(s)) \/ UNCHANGED vars
  BY <1>3, <1>11 DEF Publish, ExpirePin, vars
<1> QED
  BY <1>5, <1>6, <1>7, <1>8, <1>9, <1>10, <1>11 DEF Next, Step

\* idempotency.py: a replayed answer is one to the body it is given for, with
\* any number of requests, keys and bodies and whatever expires or dies.
THEOREM AllAnswersFit == Spec => []AnswersFit
<1>1. Answers => AnswersFit
  BY DEF Answers, Made, AnswersFit
<1>2. Spec => []Answers
  BY InitAnswers, AnswersPreserved, PlacesHold, PTL DEF Spec
<1> QED
  BY <1>1, <1>2, PTL

LEMMA RecordStep ==
    ASSUME Places, [Next]_vars, NEW x \in Scopes, record[x] # None
    PROVE  record'[x] \in {record[x], None}
<1>1. ASSUME NEW r \in Requests, Store(r) PROVE record'[x] \in {record[x], None}
  BY <1>1 DEF Store, StoreFirst, Places, Types
<1>2. ASSUME NEW y \in Scopes, ExpireRecord(y) PROVE record'[x] \in {record[x], None}
  BY <1>2 DEF ExpireRecord, Places, Types
<1>3. CASE UNCHANGED record
  BY <1>3
<1> QED
  BY <1>1, <1>2, <1>3 DEF Next, Step, Begin, Replay, ReadPin, Plan, Answered, Failed, ChargeFailure,
     SetPin, Settle, Die, Publish, ExpirePin, vars

\* _STORE: no later answer takes the place of the first, whoever is late.
THEOREM TheFirstAnswerStays == Spec => FirstAnswerStays
<1>1. Places /\ [Next]_vars =>
        [\A x \in Scopes : record[x] # None => record'[x] \in {record[x], None}]_record
  BY RecordStep
<1> QED
  BY <1>1, PlacesHold, PTL DEF Spec, FirstAnswerStays

-----------------------------------------------------------------------------
(* Sessions: a request that read a pin is told when it moves.              *)

Pins ==
    \A r \in Requests :
        pc[r] \in {"plan", "call", "pin"} /\ pinned[r] # None /\ r \notin moved =>
            input[r].session \in Sessions /\ pin[input[r].session] = pinned[r]

LEMMA InitPins == Init => Pins
  BY DEF Init, Pins

LEMMA MovedPins ==
    ASSUME Places, Pins, NEW s \in Sessions, NEW connection, MovePin(s, connection),
           UNCHANGED <<input, pinned>>, NEW r \in Requests,
           pc[r] \in {"plan", "call", "pin"}, pinned[r] # None, r \notin moved'
    PROVE  input[r].session \in Sessions /\ pin'[input[r].session] = pinned[r]
<1>1. r \notin moved /\ (pinned[r] # connection => input[r].session # s)
  BY DEF MovePin
<1>2. input[r].session \in Sessions /\ pin[input[r].session] = pinned[r]
  BY <1>1 DEF Pins
<1>3. CASE input[r].session = s
  BY <1>1, <1>2, <1>3 DEF MovePin, Places, Types
<1>4. CASE input[r].session # s
  BY <1>2, <1>4 DEF MovePin, Places, Types
<1> QED
  BY <1>3, <1>4

LEMMA PinsPreserved == Places /\ Pins /\ [Next]_vars => Pins'
<1> SUFFICES ASSUME Places, Pins, [Next]_vars PROVE Pins'
  OBVIOUS
<1>1. ASSUME UNCHANGED <<pin, moved, input, pinned>>,
             \A q \in Requests : pc'[q] \in {"plan", "call", "pin"} => pc[q] \in {"plan", "call", "pin"}
      PROVE  Pins'
  BY <1>1 DEF Pins
<1>2. ASSUME NEW r \in Requests, NEW step \in Steps \ {"plan", "call", "pin"},
             Goto(r, step), UNCHANGED <<pin, moved, input, pinned>>
      PROVE  Pins'
  BY <1>1, <1>2, GotoType DEF Places
<1>3. ASSUME NEW r \in Requests, Begin(r) PROVE Pins'
  <2>1. /\ UNCHANGED <<pin, moved, pinned>> /\ pc'[r] = "replay"
        /\ \A q \in Requests : q # r => pc'[q] = pc[q] /\ input'[q] = input[q]
    <3>1. Goto(r, "replay") /\ "replay" \in Steps
      BY <1>3 DEF Begin, Steps
    <3> QED
      BY <1>3, <3>1, GotoType DEF Begin, Places, Types, history, planVars
  <2> QED
    BY <2>1 DEF Pins
<1>4. ASSUME NEW r \in Requests, ReadPin(r) PROVE Pins'
  <2>1. /\ UNCHANGED <<pin, moved, input>> /\ pc'[r] = "plan" /\ pc[r] = "session"
        /\ pinned'[r] = IF input[r].session = None THEN None ELSE pin[input[r].session]
        /\ \A q \in Requests : q # r => pc'[q] = pc[q] /\ pinned'[q] = pinned[q]
    <3>1. Goto(r, "plan") /\ "plan" \in Steps
      BY <1>4 DEF ReadPin, Steps
    <3> QED
      BY <1>4, <3>1, GotoType DEF ReadPin, Places, Types, history, askVars
  <2>2. input[r].session \in Sessions \union {None}
    BY <2>1, Constants DEF Places, Begun
  <2> QED
    BY <2>1, <2>2 DEF Pins
<1>5. ASSUME NEW r \in Requests, SetPin(r) PROVE Pins'
  <2>1. /\ MovePin(input[r].session, served[r].connection) /\ UNCHANGED <<input, pinned>>
        /\ pc[r] = "pin" /\ pc'[r] = "settle" /\ \A q \in Requests : q # r => pc'[q] = pc[q]
    <3>1. Goto(r, "settle") /\ "settle" \in Steps
      BY <1>5 DEF SetPin, Steps
    <3> QED
      BY <1>5, <3>1, GotoType DEF SetPin, Places, askVars, planVars
  <2>2. input[r].session \in Sessions
    BY <2>1 DEF Places, Begun
  <2> QED
    BY <2>1, <2>2, MovedPins DEF Pins
<1>6. ASSUME NEW s \in Sessions, ExpirePin(s) PROVE Pins'
  <2>1. MovePin(s, None) /\ UNCHANGED <<pc, input, pinned>>
    BY <1>6 DEF ExpirePin, askVars, planVars
  <2> QED
    BY <2>1, MovedPins DEF Pins
<1>7. ASSUME NEW r \in Requests, Replay(r) \/ ChargeFailure(r) \/ Settle(r) \/ Store(r) \/ Die(r)
      PROVE  Pins'
  <2>1. UNCHANGED <<pin, moved, input, pinned>>
    BY <1>7 DEF Replay, ChargeFailure, Settle, Store, Die, askVars, planVars, history
  <2>2. \E step \in Steps \ {"plan", "call", "pin"} : Goto(r, step)
    BY <1>7 DEF Replay, ChargeFailure, Settle, Store, Die, End, Steps
  <2> QED
    BY <1>2, <2>1, <2>2
<1>8. ASSUME NEW r \in Requests, Plan(r) \/ Answered(r) \/ Failed(r) PROVE Pins'
  <2>1. UNCHANGED <<pin, moved, input, pinned>> /\ pc[r] \in {"plan", "call"}
    BY <1>8 DEF Plan, Answered, Failed, askVars, planVars, history
  <2>2. UNCHANGED pc \/ \E step \in Steps : Goto(r, step)
    BY <1>8 DEF Plan, Answered, Failed, End, Steps
  <2> QED
    BY <1>1, <2>1, <2>2, GotoType DEF Places
<1>9. CASE Publish \/ (\E x \in Scopes : ExpireRecord(x)) \/ UNCHANGED vars
  BY <1>1, <1>9 DEF Publish, ExpireRecord, vars, askVars, planVars, history
<1> QED
  BY <1>3, <1>4, <1>5, <1>6, <1>7, <1>8, <1>9 DEF Next, Step

\* Only a request that found no pin, or whose pin went meanwhile, moves one.
LEMMA PinStep ==
    ASSUME Places, Pins, [Next]_vars, NEW s \in Sessions,
           pin[s] # None, pin'[s] \notin {pin[s], None}
    PROVE  \E r \in Requests : /\ pc[r] = "pin" /\ input[r].session = s
                               /\ pinned[r] = None \/ r \in moved
<1>1. ASSUME NEW r \in Requests, SetPin(r)
      PROVE  pc[r] = "pin" /\ input[r].session = s /\ (pinned[r] = None \/ r \in moved)
  <2>1. pc[r] = "pin" /\ pin' = [pin EXCEPT ![input[r].session] = served[r].connection]
    BY <1>1 DEF SetPin, MovePin
  <2>2. input[r].session = s /\ pin'[s] = served[r].connection
    BY <2>1 DEF Places, Types
  <2>3. ASSUME pinned[r] # None, r \notin moved PROVE FALSE
    <3>1. pin[s] = pinned[r]
      BY <2>1, <2>2, <2>3 DEF Pins
    <3>2. served[r].connection = pinned[r]
      BY <2>1, <2>3 DEF Places, Served, Fits, Suits
    <3> QED
      BY <2>2, <3>1, <3>2
  <2> QED
    BY <2>1, <2>2, <2>3
<1>2. ASSUME NEW t \in Sessions, ExpirePin(t) PROVE FALSE
  BY <1>2 DEF ExpirePin, MovePin, Places, Types
<1>3. ~UNCHANGED pin
  OBVIOUS
<1> QED
  BY <1>1, <1>2, <1>3 DEF Next, Step, Begin, Replay, ReadPin, Plan, Answered, Failed, ChargeFailure,
     Settle, Store, Die, Publish, ExpireRecord, vars

\* sessions.py: a session stays where it is but for the races and expiries that
\* SessionStays names, with any number of sessions, requests and candidates.
THEOREM AllSessionsStay == Spec => SessionStays
<1>1. Places /\ Pins /\ [Next]_vars =>
        [\A s \in Sessions :
           pin[s] # None /\ pin'[s] \notin {pin[s], None} =>
              \E r \in Requests : /\ pc[r] = "pin" /\ input[r].session = s
                                  /\ pinned[r] = None \/ r \in moved]_pin
  BY PinStep
<1> QED
  BY <1>1, InitPins, PinsPreserved, PlacesHold, PTL DEF Spec, SessionStays

-----------------------------------------------------------------------------
(* Bills: what was settled under a key and what still may be, against the  *)
(* excuses and the one bill that a record or a request under way stands    *)
(* for.                                                                    *)

Busy(x) == {r \in Requests : InFlight(r) /\ input[r].key # None /\ Scope(r) = x}
Unbilled(x) == {r \in Busy(x) : pc[r] # "store"}
Covered(x) == IF record[x] # None \/ Busy(x) # {} THEN 1 ELSE 0
Counted(x) == bills[x] + Cardinality(Unbilled(x)) <= excuses[x] + Covered(x)
Bills == \A x \in Scopes : Counted(x)

LEMMA InitBills == Init => Bills
<1> SUFFICES ASSUME Init, NEW x \in Scopes PROVE Counted(x)
  BY DEF Bills
<1>1. Unbilled(x) = {} /\ bills[x] = 0 /\ excuses[x] = 0
  BY DEF Init, Unbilled, Busy, InFlight
<1>2. Cardinality(Unbilled(x)) = 0
  BY <1>1, FS_EmptySet
<1> QED
  BY <1>1, <1>2 DEF Counted, Covered

LEMMA BillsType ==
    ASSUME Places, NEW x \in Scopes
    PROVE  /\ bills[x] \in Nat /\ excuses[x] \in Nat /\ Covered(x) \in {0, 1}
           /\ IsFiniteSet(Unbilled(x)) /\ Cardinality(Unbilled(x)) \in Nat
<1>1. Unbilled(x) \subseteq Requests
  BY DEF Unbilled, Busy
<1>2. IsFiniteSet(Unbilled(x)) /\ Cardinality(Unbilled(x)) \in Nat
  BY <1>1, AdmissionAssumption, FS_Subset, FS_CardinalityType
<1> QED
  BY <1>2 DEF Places, Types, Covered

\* Nobody but r enters or leaves a key.
LEMMA OthersBusy ==
    ASSUME NEW r \in Requests, NEW x,
           \A q \in Requests : q # r => pc'[q] = pc[q] /\ input'[q] = input[q]
    PROVE  Busy(x)' \ {r} = Busy(x) \ {r} /\ Unbilled(x)' \ {r} = Unbilled(x) \ {r}
<1>1. \A q \in Requests : q # r =>
        /\ InFlight(q)' <=> InFlight(q)
        /\ Scope(q)' = Scope(q)
        /\ input'[q] = input[q] /\ pc'[q] = pc[q]
  BY DEF InFlight, Scope, Endpoint
<1> QED
  BY <1>1 DEF Busy, Unbilled

\* A step in which nobody is billed, enters or leaves.
LEMMA SameBills ==
    ASSUME Places, Places', NEW x \in Scopes, Counted(x),
           bills'[x] = bills[x], Busy(x)' = Busy(x), Unbilled(x)' = Unbilled(x),
           \/ record'[x] = record[x] /\ excuses'[x] >= excuses[x]
           \/ excuses'[x] = excuses[x] + 1
    PROVE  Counted(x)'
<1>1. Covered(x)' \in {0, 1} /\ (record'[x] = record[x] => Covered(x)' = Covered(x))
  BY DEF Covered
<1>2. excuses'[x] \in Nat
  BY DEF Places, Types
<1>3. bills[x] + Cardinality(Unbilled(x)) <= excuses'[x] + Covered(x)'
  BY <1>1, <1>2, BillsType DEF Counted
<1> QED
  BY <1>3 DEF Counted

\* A step of a request that stays where it is with regard to its key.
LEMMA StaysBusy ==
    ASSUME Places, Places', Bills, NEW r \in Requests,
           \A q \in Requests : q # r => pc'[q] = pc[q] /\ input'[q] = input[q],
           \/ ~InFlight(r) /\ ~InFlight(r)'
           \/ /\ InFlight(r) /\ InFlight(r)' /\ input'[r] = input[r]
              /\ pc[r] # "store" /\ pc'[r] # "store"
           \/ input'[r] = input[r] /\ input[r].key = None,
           UNCHANGED <<record, bills, excuses>>
    PROVE  Bills'
<1> SUFFICES ASSUME NEW x \in Scopes PROVE Counted(x)'
  BY DEF Bills
<1>1. (r \in Busy(x)' <=> r \in Busy(x)) /\ (r \in Unbilled(x)' <=> r \in Unbilled(x))
  BY DEF Busy, Unbilled, Scope, Endpoint
<1>2. Busy(x)' \ {r} = Busy(x) \ {r} /\ Unbilled(x)' \ {r} = Unbilled(x) \ {r}
  BY OthersBusy
<1>3. Busy(x)' = Busy(x) /\ Unbilled(x)' = Unbilled(x)
  BY <1>1, <1>2
<1>4. excuses'[x] >= excuses[x]
  BY BillsType
<1> QED
  BY <1>3, <1>4, SameBills DEF Bills

\* A step in which a request ends: before its bill, or with an excuse or a
\* record in its place.
LEMMA EndsBusy ==
    ASSUME Places, Places', Bills, NEW r \in Requests, InFlight(r), pc'[r] = "ended",
           \A q \in Requests : q # r => pc'[q] = pc[q] /\ input'[q] = input[q],
           UNCHANGED bills,
           \A x \in Scopes : excuses'[x] >= excuses[x] /\ (record[x] # None => record'[x] # None),
           \A x \in Scopes : pc[r] = "store" /\ r \in Busy(x) =>
                record'[x] # None \/ excuses'[x] = excuses[x] + 1
    PROVE  Bills'
<1> SUFFICES ASSUME NEW x \in Scopes PROVE Counted(x)'
  BY DEF Bills
<1>1. r \notin Busy(x)' /\ r \notin Unbilled(x)'
  BY DEF Busy, Unbilled, InFlight
<1>2. Busy(x)' \ {r} = Busy(x) \ {r} /\ Unbilled(x)' \ {r} = Unbilled(x) \ {r}
  BY OthersBusy
<1>3. Busy(x)' = Busy(x) \ {r} /\ Unbilled(x)' = Unbilled(x) \ {r}
  BY <1>1, <1>2
<1>4. bills[x] + Cardinality(Unbilled(x)) <= excuses[x] + Covered(x)
  BY DEF Bills, Counted
<1>5. excuses'[x] \in Nat
  BY DEF Places, Types
<1>6. SUFFICES bills[x] + Cardinality(Unbilled(x)') <= excuses'[x] + Covered(x)'
  BY DEF Counted
<1>7. CASE r \notin Busy(x)
  <2>1. Busy(x)' = Busy(x) /\ Unbilled(x)' = Unbilled(x)
    BY <1>3, <1>7 DEF Unbilled
  <2>2. Covered(x)' \in {0, 1} /\ Covered(x)' >= Covered(x)
    BY <2>1 DEF Covered
  <2> QED
    BY <1>4, <1>5, <2>1, <2>2, BillsType
<1>8. CASE r \in Unbilled(x)
  <2>1. Cardinality(Unbilled(x)') = Cardinality(Unbilled(x)) - 1
    BY <1>3, <1>8, BillsType, FS_RemoveElement
  <2>2. Covered(x)' \in {0, 1} /\ Covered(x) \in {0, 1}
    BY DEF Covered
  <2> QED
    BY <1>4, <1>5, <2>1, <2>2, BillsType
<1>9. CASE r \in Busy(x) /\ pc[r] = "store"
  <2>1. Unbilled(x)' = Unbilled(x)
    BY <1>3, <1>9 DEF Unbilled
  <2>2. Covered(x)' \in {0, 1} /\ Covered(x) = 1 /\ (record'[x] # None => Covered(x)' = 1)
    BY <1>9 DEF Covered
  <2> QED
    BY <1>4, <1>9, <1>5, <2>1, <2>2, BillsType
<1> QED
  BY <1>7, <1>8, <1>9 DEF Unbilled

LEMMA BillsPreserved == Places /\ Places' /\ Bills /\ [Next]_vars => Bills'
<1> SUFFICES ASSUME Places, Places', Bills, [Next]_vars PROVE Bills'
  OBVIOUS
<1>1. ASSUME NEW r \in Requests, Begin(r) PROVE Bills'
  <2>1. pc[r] = "idle" /\ Goto(r, "replay") /\ "replay" \in Steps
    BY <1>1 DEF Begin, Steps
  <2>2. pc'[r] = "replay" /\ \A q \in Requests : q # r => pc'[q] = pc[q] /\ input'[q] = input[q]
    BY <1>1, <2>1, GotoType DEF Begin, Places, Types
  <2>3. UNCHANGED <<record, bills, excuses>>
    BY <1>1 DEF Begin, history
  <2>4. ~InFlight(r) /\ ~InFlight(r)'
    BY <2>1, <2>2 DEF InFlight
  <2> QED
    BY <2>2, <2>3, <2>4, StaysBusy
<1>2. ASSUME NEW r \in Requests, Replay(r) PROVE Bills'
  <2>1. UNCHANGED <<record, bills, input>> /\ pc[r] = "replay"
    BY <1>2 DEF Replay, askVars
  <2>2. CASE input[r].key = None /\ Goto(r, "session") /\ UNCHANGED excuses
    <3>1. \A q \in Requests : q # r => pc'[q] = pc[q] /\ input'[q] = input[q]
      BY <2>1, <2>2, GotoType DEF Places, Steps
    <3> QED
      BY <2>1, <2>2, <3>1, StaysBusy
  <2>3. CASE (\E result : End(r, result)) /\ UNCHANGED excuses
    <3>1. pc'[r] = "ended" /\ \A q \in Requests : q # r => pc'[q] = pc[q] /\ input'[q] = input[q]
      BY <2>1, <2>3, EndType DEF Places
    <3>2. ~InFlight(r) /\ ~InFlight(r)'
      BY <2>1, <3>1 DEF InFlight
    <3> QED
      BY <2>1, <2>3, <3>1, <3>2, StaysBusy
  <2>4. CASE /\ input[r].key # None /\ record[Scope(r)] = None /\ Goto(r, "session")
             /\ IF \E q \in Requests : InFlight(q) /\ input[q].key # None /\ Scope(q) = Scope(r)
                THEN Excuse(Scope(r)) ELSE UNCHANGED excuses
    <3>1. pc'[r] = "session" /\ \A q \in Requests : q # r => pc'[q] = pc[q] /\ input'[q] = input[q]
      BY <2>1, <2>4, GotoType DEF Places, Steps
    <3>2. Scope(r) \in Scopes /\ Scope(r)' = Scope(r)
      BY <2>1, <2>4, ScopeType DEF Places, Begun, Scope, Endpoint
    <3>3. ~InFlight(r) /\ InFlight(r)'
      BY <2>1, <3>1 DEF InFlight
    <3>4. SUFFICES ASSUME NEW x \in Scopes PROVE Counted(x)'
      BY DEF Bills
    <3>5. Busy(x)' \ {r} = Busy(x) \ {r} /\ Unbilled(x)' \ {r} = Unbilled(x) \ {r}
      BY <3>1, OthersBusy
    <3>6. r \notin Busy(x) /\ r \notin Unbilled(x)
      BY <3>3 DEF Busy, Unbilled
    <3>7. CASE x # Scope(r)
      <4>1. Busy(x)' = Busy(x) /\ Unbilled(x)' = Unbilled(x)
        BY <3>2, <3>5, <3>6, <3>7 DEF Busy, Unbilled
      <4>2. excuses'[x] >= excuses[x]
        BY <2>4, <3>2, <3>7, ExcuseType, BillsType DEF Places
      <4> QED
        BY <2>1, <4>1, <4>2, SameBills DEF Bills
    <3>8. CASE x = Scope(r)
      <4>1. r \in Busy(x)' /\ r \in Unbilled(x)'
        BY <2>1, <2>4, <3>1, <3>2, <3>3, <3>8 DEF Busy, Unbilled
      <4>2. Unbilled(x)' = Unbilled(x) \union {r} /\ Busy(x)' # {}
        BY <3>5, <3>6, <4>1
      <4>3. Cardinality(Unbilled(x)') = Cardinality(Unbilled(x)) + 1
        BY <3>6, <4>2, BillsType, FS_AddElement
      <4>4. Covered(x)' = 1
        BY <4>2 DEF Covered
      <4>5. excuses[x] + Covered(x) <= excuses'[x]
        <5>1. CASE Busy(x) = {}
          <6>1. Covered(x) = 0 /\ UNCHANGED excuses
            BY <2>4, <3>8, <5>1 DEF Covered, Busy
          <6> QED
            BY <6>1, BillsType
        <5>2. CASE Busy(x) # {}
          <6>1. Excuse(x)
            BY <2>4, <3>8, <5>2 DEF Busy, Excuse
          <6> QED
            BY <6>1, ExcuseType, BillsType DEF Places
        <5> QED
          BY <5>1, <5>2
      <4>6. excuses'[x] \in Nat /\ bills'[x] = bills[x]
        BY <2>1 DEF Places, Types
      <4>7. bills[x] + Cardinality(Unbilled(x)) <= excuses[x] + Covered(x)
        BY DEF Bills, Counted
      <4>8. bills[x] + Cardinality(Unbilled(x)') <= excuses'[x] + Covered(x)'
        BY <4>3, <4>4, <4>5, <4>6, <4>7, BillsType
      <4> QED
        BY <4>6, <4>8 DEF Counted
    <3> QED
      BY <3>7, <3>8
  <2> QED
    BY <1>2, <2>2, <2>3, <2>4 DEF Replay
<1>3. ASSUME NEW r \in Requests, ReadPin(r) \/ Plan(r) \/ Answered(r) \/ Failed(r) \/ SetPin(r)
      PROVE  Bills'
  <2>1. /\ UNCHANGED <<record, bills, excuses, input>>
        /\ pc[r] \in {"session", "plan", "call", "pin"}
    BY <1>3 DEF ReadPin, Plan, Answered, Failed, SetPin, askVars, history
  <2>2. \/ UNCHANGED pc
        \/ \E step \in {"plan", "call", "charge", "pin", "settle", "ended"} : Goto(r, step)
    BY <1>3 DEF ReadPin, Plan, Answered, Failed, SetPin, End
  <2>3. /\ \A q \in Requests : q # r => pc'[q] = pc[q] /\ input'[q] = input[q]
        /\ pc'[r] \in {"session", "plan", "call", "charge", "pin", "settle", "ended"}
    BY <2>1, <2>2, GotoType DEF Places, Steps
  <2>4. InFlight(r)
    BY <2>1 DEF InFlight
  <2>5. CASE pc'[r] = "ended"
    <3>1. \A x \in Scopes : excuses'[x] >= excuses[x]
      BY <2>1, BillsType
    <3> QED
      BY <2>1, <2>3, <2>4, <2>5, <3>1, EndsBusy
  <2>6. CASE pc'[r] # "ended"
    <3>1. InFlight(r)' /\ pc'[r] # "store" /\ pc[r] # "store" /\ input'[r] = input[r]
      BY <2>1, <2>3, <2>6 DEF InFlight
    <3> QED
      BY <2>1, <2>3, <2>4, <3>1, StaysBusy
  <2> QED
    BY <2>5, <2>6
<1>10. ASSUME NEW r \in Requests, ChargeFailure(r) PROVE Bills'
  <2>1. /\ UNCHANGED <<record, input>> /\ pc[r] = "charge" /\ InFlight(r)
        /\ End(r, "provider_unavailable")
        /\ \/ input[r].key = None /\ UNCHANGED <<bills, excuses>>
           \/ /\ input[r].key # None
              /\ bills' = [bills EXCEPT ![Scope(r)] = @ + 1]
              /\ Excuse(Scope(r))
    BY <1>10 DEF ChargeFailure, askVars, InFlight
  <2>2. pc'[r] = "ended" /\ \A q \in Requests : q # r => pc'[q] = pc[q] /\ input'[q] = input[q]
    BY <2>1, EndType DEF Places
  <2>3. CASE input[r].key = None
    <3>1. \A x \in Scopes : excuses'[x] >= excuses[x]
      BY <2>1, <2>3, BillsType
    <3> QED
      BY <2>1, <2>2, <2>3, <3>1, EndsBusy
  <2>4. CASE input[r].key # None
    <3>1. Scope(r) \in Scopes
      BY <2>1, <2>4, ScopeType DEF Places, Begun
    <3>2. SUFFICES ASSUME NEW x \in Scopes PROVE Counted(x)'
      BY DEF Bills
    <3>3. Busy(x)' \ {r} = Busy(x) \ {r} /\ Unbilled(x)' \ {r} = Unbilled(x) \ {r}
      BY <2>2, OthersBusy
    <3>4. r \notin Busy(x)' /\ r \notin Unbilled(x)'
      BY <2>2 DEF Busy, Unbilled, InFlight
    <3>5. CASE x # Scope(r)
      <4>1. r \notin Busy(x) /\ r \notin Unbilled(x)
        BY <3>5 DEF Busy, Unbilled
      <4>2. Busy(x)' = Busy(x) /\ Unbilled(x)' = Unbilled(x)
        BY <3>3, <3>4, <4>1
      <4>3. bills'[x] = bills[x] /\ excuses'[x] = excuses[x]
        BY <2>1, <2>4, <3>1, <3>5, ExcuseType DEF Places, Types
      <4>4. excuses'[x] >= excuses[x]
        BY <4>3, BillsType
      <4> QED
        BY <2>1, <4>2, <4>3, <4>4, SameBills DEF Bills
    <3>6. CASE x = Scope(r)
      <4>1. r \in Unbilled(x) /\ Unbilled(x)' = Unbilled(x) \ {r}
        BY <2>1, <2>4, <3>3, <3>4, <3>6 DEF Busy, Unbilled
      <4>2. Cardinality(Unbilled(x)') = Cardinality(Unbilled(x)) - 1
        BY <4>1, BillsType, FS_RemoveElement
      <4>3. bills'[x] = bills[x] + 1 /\ excuses'[x] = excuses[x] + 1
        BY <2>1, <2>4, <3>1, <3>6, ExcuseType DEF Places, Types
      <4>4. bills[x] + Cardinality(Unbilled(x)) <= excuses[x] + Covered(x)
        BY DEF Bills, Counted
      <4>5. Covered(x)' \in {0, 1} /\ Covered(x) \in {0, 1}
        BY DEF Covered
      <4>6. bills'[x] + Cardinality(Unbilled(x)') <= excuses'[x] + Covered(x)'
        BY <4>2, <4>3, <4>4, <4>5, BillsType
      <4> QED
        BY <4>6 DEF Counted
    <3> QED
      BY <3>5, <3>6
  <2> QED
    BY <2>3, <2>4
<1>4. ASSUME NEW r \in Requests, Settle(r) PROVE Bills'
  <2>1. /\ UNCHANGED <<record, excuses, input>> /\ pc[r] = "settle" /\ Goto(r, "store")
        /\ bills' = IF input[r].key = None THEN bills ELSE [bills EXCEPT ![Scope(r)] = @ + 1]
    BY <1>4 DEF Settle, askVars
  <2>2. pc'[r] = "store" /\ \A q \in Requests : q # r => pc'[q] = pc[q] /\ input'[q] = input[q]
    BY <2>1, GotoType DEF Places, Steps
  <2>3. CASE input[r].key = None
    BY <2>1, <2>2, <2>3, StaysBusy
  <2>4. CASE input[r].key # None
    <3>1. Scope(r) \in Scopes /\ Scope(r)' = Scope(r) /\ InFlight(r) /\ InFlight(r)'
      BY <2>1, <2>2, <2>4, ScopeType DEF Places, Begun, Scope, Endpoint, InFlight
    <3>2. SUFFICES ASSUME NEW x \in Scopes PROVE Counted(x)'
      BY DEF Bills
    <3>3. Busy(x)' \ {r} = Busy(x) \ {r} /\ Unbilled(x)' \ {r} = Unbilled(x) \ {r}
      BY <2>2, OthersBusy
    <3>4. (r \in Busy(x) <=> x = Scope(r)) /\ (r \in Busy(x)' <=> x = Scope(r)) /\ r \notin Unbilled(x)'
      BY <2>1, <2>2, <2>4, <3>1 DEF Busy, Unbilled
    <3>5. Busy(x)' = Busy(x)
      BY <3>3, <3>4
    <3>6. CASE x # Scope(r)
      <4>1. Unbilled(x)' = Unbilled(x) /\ bills'[x] = bills[x] /\ excuses'[x] >= excuses[x]
        BY <2>1, <2>4, <3>3, <3>4, <3>6, BillsType DEF Unbilled, Places, Types
      <4> QED
        BY <2>1, <3>5, <4>1, SameBills DEF Bills
    <3>7. CASE x = Scope(r)
      <4>1. r \in Unbilled(x) /\ Unbilled(x)' = Unbilled(x) \ {r}
        BY <2>1, <3>3, <3>4, <3>7 DEF Unbilled
      <4>2. Cardinality(Unbilled(x)') = Cardinality(Unbilled(x)) - 1
        BY <4>1, BillsType, FS_RemoveElement
      <4>3. bills'[x] = bills[x] + 1
        BY <2>1, <2>4, <3>7 DEF Places, Types
      <4>4. Covered(x)' = Covered(x) /\ excuses'[x] = excuses[x]
        BY <2>1, <3>5 DEF Covered
      <4>5. bills[x] + Cardinality(Unbilled(x)) <= excuses[x] + Covered(x)
        BY DEF Bills, Counted
      <4>6. bills'[x] + Cardinality(Unbilled(x)') <= excuses'[x] + Covered(x)'
        BY <4>2, <4>3, <4>4, <4>5, BillsType
      <4> QED
        BY <4>6 DEF Counted
    <3> QED
      BY <3>6, <3>7
  <2> QED
    BY <2>3, <2>4
<1>5. ASSUME NEW r \in Requests, Store(r) PROVE Bills'
  <2>1. /\ UNCHANGED <<bills, excuses, input>> /\ pc[r] = "store" /\ InFlight(r) /\ End(r, r)
    BY <1>5 DEF Store, askVars, history, InFlight
  <2>2. pc'[r] = "ended" /\ \A q \in Requests : q # r => pc'[q] = pc[q] /\ input'[q] = input[q]
    BY <2>1, EndType DEF Places
  <2>3. [body |-> input[r].body, answer |-> r] # None
    <3>1. input[r] \in Inputs
      BY <2>1 DEF Places, Begun
    <3>2. [body |-> input[r].body, answer |-> r] \in Records
      BY <3>1, Constants DEF Records
    <3> QED
      BY <3>2, Constants
  <2>4. ASSUME NEW x \in Scopes
        PROVE  /\ excuses'[x] >= excuses[x]
               /\ record[x] # None => record'[x] # None
               /\ r \in Busy(x) => record'[x] # None
    <3>1. excuses'[x] >= excuses[x]
      BY <2>1, BillsType
    <3>2. r \in Busy(x) => input[r].key # None /\ Scope(r) = x
      BY DEF Busy
    <3>3. CASE input[r].key = None
      BY <1>5, <3>1, <3>2, <3>3 DEF Store
    <3>4. CASE input[r].key # None
      <4>1. StoreFirst(Scope(r), [body |-> input[r].body, answer |-> r])
        BY <1>5, <3>4 DEF Store
      <4> QED
        BY <2>3, <3>1, <3>2, <4>1 DEF StoreFirst, Places, Types
    <3> QED
      BY <3>3, <3>4
  <2> QED
    BY <2>1, <2>2, <2>4, EndsBusy
<1>6. ASSUME NEW r \in Requests, Die(r) PROVE Bills'
  <2>1. /\ UNCHANGED <<record, bills, input>> /\ Goto(r, "ended") /\ (pc[r] = "replay" \/ InFlight(r))
        /\ IF pc[r] = "store" /\ input[r].key # None THEN Excuse(Scope(r)) ELSE UNCHANGED excuses
    BY <1>6 DEF Die, askVars
  <2>2. pc'[r] = "ended" /\ \A q \in Requests : q # r => pc'[q] = pc[q] /\ input'[q] = input[q]
    BY <2>1, GotoType DEF Places, Steps
  <2>3. CASE pc[r] = "replay"
    <3>1. ~InFlight(r) /\ ~InFlight(r)' /\ UNCHANGED excuses
      BY <2>1, <2>2, <2>3 DEF InFlight
    <3> QED
      BY <2>1, <2>2, <3>1, StaysBusy
  <2>4. CASE InFlight(r)
    <3>1. ASSUME NEW x \in Scopes
          PROVE  /\ excuses'[x] >= excuses[x]
                 /\ pc[r] = "store" /\ r \in Busy(x) => excuses'[x] = excuses[x] + 1
      <4>1. CASE pc[r] = "store" /\ input[r].key # None
        <5>1. Scope(r) \in Scopes
          BY <4>1, ScopeType DEF Places, Begun
        <5>2. /\ excuses'[Scope(r)] = excuses[Scope(r)] + 1
              /\ \A y \in Scopes : y # Scope(r) => excuses'[y] = excuses[y]
          BY <2>1, <4>1, <5>1, ExcuseType DEF Places
        <5>3. r \in Busy(x) => x = Scope(r)
          BY DEF Busy
        <5> QED
          BY <5>1, <5>2, <5>3, BillsType
      <4>2. CASE ~(pc[r] = "store" /\ input[r].key # None)
        BY <2>1, <4>2, BillsType DEF Busy
      <4> QED
        BY <4>1, <4>2
    <3> QED
      BY <2>1, <2>2, <2>4, <3>1, EndsBusy
  <2> QED
    BY <2>1, <2>3, <2>4
<1>7. ASSUME UNCHANGED <<pc, input, bills>>,
             \A x \in Scopes : \/ record'[x] = record[x] /\ excuses'[x] >= excuses[x]
                               \/ excuses'[x] = excuses[x] + 1
      PROVE  Bills'
  <2>1. \A q \in Requests : (InFlight(q)' <=> InFlight(q)) /\ Scope(q)' = Scope(q)
    BY <1>7 DEF InFlight, Scope, Endpoint
  <2>2. \A x : Busy(x)' = Busy(x) /\ Unbilled(x)' = Unbilled(x)
    BY <1>7, <2>1 DEF Busy, Unbilled
  <2> QED
    BY <1>7, <2>2, SameBills DEF Bills
<1>8. CASE Publish \/ (\E s \in Sessions : ExpirePin(s)) \/ UNCHANGED vars
  <2>1. UNCHANGED <<pc, input, bills, record, excuses>>
    BY <1>8 DEF Publish, ExpirePin, vars, askVars, history
  <2>2. \A x \in Scopes : excuses'[x] >= excuses[x]
    BY <2>1, BillsType
  <2> QED
    BY <1>7, <2>1, <2>2
<1>9. ASSUME NEW y \in Scopes, ExpireRecord(y) PROVE Bills'
  <2>1. /\ UNCHANGED <<pc, input, bills>> /\ Excuse(y) /\ record' = [record EXCEPT ![y] = None]
    BY <1>9 DEF ExpireRecord, askVars
  <2>2. \A x \in Scopes : \/ record'[x] = record[x] /\ excuses'[x] >= excuses[x]
                          \/ excuses'[x] = excuses[x] + 1
    BY <2>1, ExcuseType, BillsType DEF Places, Types
  <2> QED
    BY <1>7, <2>1, <2>2
<1> QED
  BY <1>1, <1>2, <1>3, <1>4, <1>5, <1>6, <1>8, <1>9, <1>10 DEF Next, Step

LEMMA BillsHold == Spec => []Bills
<1>1. Places /\ Bills /\ [Next]_vars => Bills'
  BY PlacesPreserved, BillsPreserved
<1> QED
  BY <1>1, InitBills, PlacesHold, PTL DEF Spec

\* app.py with idempotency.py: one bill for a key and one more for every overlap,
\* refusal charged for invalid answers, death after the settlement and expiry,
\* with any number of requests.
THEOREM AllBilledOnce == Spec => []BilledOnce
<1>1. Places /\ Bills => BilledOnce
  <2> SUFFICES ASSUME Places, Bills, NEW x \in Scopes PROVE bills[x] <= 1 + excuses[x]
    BY DEF BilledOnce
  <2>1. bills[x] + Cardinality(Unbilled(x)) <= excuses[x] + Covered(x)
    BY DEF Bills, Counted
  <2> QED
    BY <2>1, BillsType
<1> QED
  BY <1>1, BillsHold, PlacesHold, PTL

=============================================================================
