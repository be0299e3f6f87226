----------------------------- MODULE Admission -----------------------------
(***************************************************************************)
(* What decides whether, where and how often a public request is served:   *)
(* create_response and create_embedding of mixapi/app.py with the replay of*)
(* answers (runtime/idempotency.py), sticky sessions (runtime/sessions.py) *)
(* and route planning (Routing).  Gateway has what happens to the budget,  *)
(* the quotas and the circuits between Plan and Settle.                    *)
(*                                                                         *)
(* A request keeps the snapshot that was active when it began.  All belong *)
(* to one tenant, whose keys and sessions no other tenant shares.          *)
(*                                                                         *)
(* A step is one Redis command or script, one upstream call, or the        *)
(* settlement in PostgreSQL.                                               *)
(***************************************************************************)
EXTENDS Routing, FiniteSets

CONSTANTS
    Requests,      \* public requests
    IdemKeys,      \* values of Idempotency-Key
    Sessions,      \* values of x-mixapi-session-id
    Bodies,        \* request bodies
    Ask,           \* of each body: endpoint, model, needs, provider, objective, and
                   \* whether its answer has to be valid for a schema
    Inputs,        \* what requests bring: a body, perhaps a key and a session, and
                   \* the allowlist of their principal
    Snapshots,     \* the snapshots that are activated, one after the other
    MaxLosses,     \* bound on records and pins that expire
    MaxDeaths      \* bound on requests that fail between two steps

ASSUME AdmissionAssumption ==
    /\ Len(Snapshots) \in Nat \ {0} /\ DOMAIN Snapshots = 1..Len(Snapshots)
    /\ \A b \in Bodies : /\ Ask[b].endpoint \in {"responses", "embeddings"}
                         /\ Ask[b].needs \subseteq Features
                         /\ Ask[b].schema \in BOOLEAN
    /\ \A i \in DOMAIN Snapshots : IsFiniteSet(Snapshots[i].candidates)
    /\ \A i \in Inputs : /\ i.body \in Bodies
                         /\ i.key \in IdemKeys \union {None}
                         /\ i.session \in Sessions \union {None}
    /\ IsFiniteSet(Requests)
    /\ None \notin IdemKeys \union Sessions \union Requests
    /\ None \notin Inputs
    /\ {MaxLosses, MaxDeaths} \subseteq Nat

VARIABLES
    active,    \* the active snapshot
    record,    \* idempotency:{endpoint}:{key}: body and answer, or None
    pin,       \* session:{id}: a provider connection, or None
    pc,        \* what the request does next
    input,     \* what it brings
    seen,      \* its snapshot
    pinned,    \* the pin it read
    route,     \* candidates it has not tried
    served,    \* the candidate that answered
    spoilt,    \* requests that a candidate answered with invalid output
    answer,    \* its answer, named after the request it was made for, or a code
    (* history *)
    bills,     \* requests settled under a key
    excuses,   \* why there may be more than one
    moved,     \* requests whose session lost its pin, or changed it, after they read it
    losses, deaths

askVars  == <<input, seen>>
planVars == <<pinned, route, served, spoilt>>
history  == <<bills, excuses, moved>>
vars == <<active, record, pin, pc, askVars, planVars, answer, history, losses, deaths>>

Endpoints == {"responses", "embeddings"}
Scopes == Endpoints \X IdemKeys
Connections == {c.connection : c \in UNION {Snapshots[i].candidates : i \in DOMAIN Snapshots}}
Candidates == UNION {Snapshots[i].candidates : i \in DOMAIN Snapshots}

\* What is stored: the body of a request and its answer.
Records == [body : Bodies, answer : Requests]

\* The codes that requests are refused with.
Refused ==
    {t \in [snapshot : DOMAIN Snapshots, input : Inputs, pin : Connections \union {None}] :
        ~Accepts(Snapshots[t.snapshot], Ask[t.input.body], t.input.allow, t.pin)}
Codes ==
    {"idempotency_key_reused", "provider_unavailable"} \union
    {Refusal(Snapshots[t.snapshot], Ask[t.input.body], t.input.allow, t.pin) : t \in Refused}

\* No record is taken for the lack of one, no code for a request.
ASSUME NamesAssumption == None \notin Records /\ Codes \intersect Requests = {}

Steps == {"idle", "replay", "session", "plan", "call", "charge", "pin", "settle", "store", "ended"}

TypeOK ==
    /\ active \in DOMAIN Snapshots
    /\ record \in [Scopes -> Records \union {None}]
    /\ pin \in [Sessions -> Connections \union {None}]
    /\ pc \in [Requests -> Steps]
    /\ input \in [Requests -> Inputs \union {None}]
    /\ \A r \in Requests : pc[r] # "idle" => input[r] # None
    /\ seen \in [Requests -> DOMAIN Snapshots \union {0}]
    /\ pinned \in [Requests -> Connections \union {None}]
    /\ route \in [Requests -> Seq(Candidates)]
    /\ served \in [Requests -> Candidates \union {None}]
    /\ spoilt \subseteq Requests
    /\ answer \in [Requests -> Requests \union Codes \union {None}]
    /\ bills \in [Scopes -> Nat]
    /\ excuses \in [Scopes -> Nat]
    /\ moved \subseteq Requests
    /\ losses \in 0..MaxLosses
    /\ deaths \in 0..MaxDeaths

Init ==
    /\ active = 1
    /\ record = [x \in Scopes |-> None]
    /\ pin = [s \in Sessions |-> None]
    /\ pc = [r \in Requests |-> "idle"]
    /\ input = [r \in Requests |-> None]
    /\ seen = [r \in Requests |-> 0]
    /\ pinned = [r \in Requests |-> None]
    /\ route = [r \in Requests |-> <<>>]
    /\ served = [r \in Requests |-> None]
    /\ spoilt = {}
    /\ answer = [r \in Requests |-> None]
    /\ bills = [x \in Scopes |-> 0]
    /\ excuses = [x \in Scopes |-> 0]
    /\ moved = {}
    /\ losses = 0 /\ deaths = 0

-----------------------------------------------------------------------------
Goto(r, step) == pc' = [pc EXCEPT ![r] = step]

\* The request ends with an answer or an error code.
End(r, result) ==
    /\ Goto(r, "ended")
    /\ answer' = [answer EXCEPT ![r] = result]

Endpoint(r) == Ask[input[r].body].endpoint
Scope(r) == <<Endpoint(r), input[r].key>>

\* Between its replay and its end.
InFlight(r) == pc[r] \in {"session", "plan", "call", "charge", "pin", "settle", "store"}

\* A reason for one more bill under a key.
Excuse(x) == excuses' = [excuses EXCEPT ![x] = @ + 1]

-----------------------------------------------------------------------------
(* Mutated forms.                                                          *)

\* A record answers whatever body its key comes with.
ReplayAny(r) ==
    /\ pc[r] = "replay"
    /\ \/ /\ input[r].key = None
          /\ Goto(r, "session")
          /\ UNCHANGED <<answer, excuses>>
       \/ /\ input[r].key # None /\ record[Scope(r)] = None
          /\ Goto(r, "session")
          /\ IF \E q \in Requests : InFlight(q) /\ input[q].key # None /\ Scope(q) = Scope(r)
             THEN Excuse(Scope(r)) ELSE UNCHANGED excuses
          /\ UNCHANGED answer
       \/ /\ input[r].key # None /\ record[Scope(r)] # None
          /\ End(r, record[Scope(r)].answer)
          /\ UNCHANGED excuses
    /\ UNCHANGED <<active, record, pin, askVars, planVars, bills, moved, losses, deaths>>

\* A store that is left out.
KeepRecord(x, value) == UNCHANGED record

\* The request is planned on the snapshot that is active by then.
PlanOnActive(r) ==
    /\ pc[r] = "plan"
    /\ LET ask == Ask[input[r].body]
           allow == input[r].allow
       IN \/ /\ ~Accepts(Snapshots[active], ask, allow, pinned[r])
             /\ End(r, Refusal(Snapshots[active], ask, allow, pinned[r]))
             /\ UNCHANGED route
          \/ /\ Accepts(Snapshots[active], ask, allow, pinned[r])
             /\ \E candidates \in Routes(Snapshots[active], ask, pinned[r], ask.objective) :
                  route' = [route EXCEPT ![r] = candidates]
             /\ Goto(r, "call")
             /\ UNCHANGED answer
    /\ UNCHANGED <<active, record, pin, askVars, pinned, served, spoilt, history, losses, deaths>>

-----------------------------------------------------------------------------
(* The request.                                                            *)

\* The middleware takes the snapshot, authentication the allowlist.  Streams,
\* which carry no key and set no pin, are Gateway's.
Begin(r) ==
    /\ pc[r] = "idle"
    /\ \E i \in Inputs : input' = [input EXCEPT ![r] = i]
    /\ seen' = [seen EXCEPT ![r] = active]
    /\ Goto(r, "replay")
    /\ UNCHANGED <<active, record, pin, planVars, answer, history, losses, deaths>>

\* RedisIdempotencyStore.replay, before any planning.
Replay(r) ==
    /\ pc[r] = "replay"
    /\ \/ /\ input[r].key = None
          /\ Goto(r, "session")
          /\ UNCHANGED <<answer, excuses>>
       \/ /\ input[r].key # None /\ record[Scope(r)] = None
          /\ Goto(r, "session")
          /\ IF \E q \in Requests : InFlight(q) /\ input[q].key # None /\ Scope(q) = Scope(r)
             THEN Excuse(Scope(r)) ELSE UNCHANGED excuses
          /\ UNCHANGED answer
       \/ /\ input[r].key # None /\ record[Scope(r)] # None
          /\ End(r, IF record[Scope(r)].body = input[r].body THEN record[Scope(r)].answer
                    ELSE "idempotency_key_reused")
          /\ UNCHANGED excuses
    /\ UNCHANGED <<active, record, pin, askVars, planVars, bills, moved, losses, deaths>>

\* get_connection_id.  The EXPIRE after the GET changes nothing that lives on.
ReadPin(r) ==
    /\ pc[r] = "session"
    /\ pinned' = [pinned EXCEPT ![r] = IF input[r].session = None THEN None ELSE pin[input[r].session]]
    /\ Goto(r, "plan")
    /\ UNCHANGED <<active, record, pin, askVars, route, served, spoilt, answer, history, losses, deaths>>

\* plan_route.
Plan(r) ==
    /\ pc[r] = "plan"
    /\ LET ask == Ask[input[r].body]
           allow == input[r].allow
       IN \/ /\ ~Accepts(Snapshots[seen[r]], ask, allow, pinned[r])
             /\ End(r, Refusal(Snapshots[seen[r]], ask, allow, pinned[r]))
             /\ UNCHANGED route
          \/ /\ Accepts(Snapshots[seen[r]], ask, allow, pinned[r])
             /\ \E candidates \in Routes(Snapshots[seen[r]], ask, pinned[r], ask.objective) :
                  route' = [route EXCEPT ![r] = candidates]
             /\ Goto(r, "call")
             /\ UNCHANGED answer
    /\ UNCHANGED <<active, record, pin, askVars, pinned, served, spoilt, history, losses, deaths>>

\* A candidate of the route answers or fails: at its circuit, for its cost, at a
\* quota or upstream.
Answered(r) ==
    /\ pc[r] = "call"
    /\ served' = [served EXCEPT ![r] = Head(route[r])]
    /\ Goto(r, IF input[r].session # None /\ Endpoint(r) = "responses" THEN "pin" ELSE "settle")
    /\ UNCHANGED <<active, record, pin, askVars, pinned, route, spoilt, answer, history, losses, deaths>>

\* An answer that is invalid for the schema is a failure that has to be paid for.
\* The codes of exhausted routes are one here.
Failed(r) ==
    /\ pc[r] = "call"
    /\ route' = [route EXCEPT ![r] = Tail(@)]
    /\ \/ UNCHANGED spoilt
       \/ Ask[input[r].body].schema /\ spoilt' = spoilt \union {r}
    /\ \/ Tail(route[r]) # <<>> /\ UNCHANGED <<pc, answer>>
       \/ Tail(route[r]) = <<>> /\ r \in spoilt' /\ Goto(r, "charge") /\ UNCHANGED answer
       \/ Tail(route[r]) = <<>> /\ r \notin spoilt' /\ End(r, "provider_unavailable")
    /\ UNCHANGED <<active, record, pin, askVars, pinned, served, history, losses, deaths>>

\* AllCandidatesFailed with billable dispatches: _settle_accounting, and the error
\* is raised without a store.
ChargeFailure(r) ==
    /\ pc[r] = "charge"
    /\ \/ input[r].key = None /\ UNCHANGED <<bills, excuses>>
       \/ /\ input[r].key # None
          /\ bills' = [bills EXCEPT ![Scope(r)] = @ + 1]
          /\ Excuse(Scope(r))
    /\ End(r, "provider_unavailable")
    /\ UNCHANGED <<active, record, pin, askVars, planVars, moved, losses, deaths>>

\* The requests that read a pin which is about to change.
MovePin(s, connection) ==
    /\ pin' = [pin EXCEPT ![s] = connection]
    /\ moved' = moved \union {r \in Requests : /\ pinned[r] \notin {None, connection}
                                              /\ input[r].session = s}

\* set_connection_id.
SetPin(r) ==
    /\ pc[r] = "pin"
    /\ MovePin(input[r].session, served[r].connection)
    /\ Goto(r, "settle")
    /\ UNCHANGED <<active, record, askVars, planVars, answer, bills, excuses, losses, deaths>>

\* _settle_accounting.
Settle(r) ==
    /\ pc[r] = "settle"
    /\ bills' = IF input[r].key = None THEN bills ELSE [bills EXCEPT ![Scope(r)] = @ + 1]
    /\ Goto(r, "store")
    /\ UNCHANGED <<active, record, pin, askVars, planVars, answer, excuses, moved, losses, deaths>>

\* _STORE: the first answer stays.
StoreFirst(x, value) ==
    record' = IF record[x] = None THEN [record EXCEPT ![x] = value] ELSE record

Store(r) ==
    /\ pc[r] = "store"
    /\ \/ input[r].key = None /\ UNCHANGED record
       \/ input[r].key # None /\ StoreFirst(Scope(r), [body |-> input[r].body, answer |-> r])
    /\ End(r, r)
    /\ UNCHANGED <<active, pin, askVars, planVars, history, losses, deaths>>

-----------------------------------------------------------------------------
(* The rest of the world.                                                  *)

Publish ==
    /\ active < Len(Snapshots)
    /\ active' = active + 1
    /\ UNCHANGED <<record, pin, pc, askVars, planVars, answer, history, losses, deaths>>

\* A call fails or the process dies.  After the settlement the answer is paid
\* for and nobody has it.
Die(r) ==
    /\ deaths < MaxDeaths
    /\ pc[r] = "replay" \/ InFlight(r)
    /\ deaths' = deaths + 1
    /\ Goto(r, "ended")
    /\ IF pc[r] = "store" /\ input[r].key # None THEN Excuse(Scope(r)) ELSE UNCHANGED excuses
    /\ UNCHANGED <<active, record, pin, askVars, planVars, answer, bills, moved, losses>>

\* The time to live of a record or a pin ends.
ExpireRecord(x) ==
    /\ losses < MaxLosses
    /\ record[x] # None
    /\ record' = [record EXCEPT ![x] = None]
    /\ Excuse(x)
    /\ losses' = losses + 1
    /\ UNCHANGED <<active, pin, pc, askVars, planVars, answer, bills, moved, deaths>>

ExpirePin(s) ==
    /\ losses < MaxLosses
    /\ pin[s] # None
    /\ MovePin(s, None)
    /\ losses' = losses + 1
    /\ UNCHANGED <<active, record, pc, askVars, planVars, answer, bills, excuses, deaths>>

-----------------------------------------------------------------------------
Step(r) ==
    \/ Replay(r) \/ ReadPin(r) \/ Plan(r) \/ Answered(r) \/ Failed(r)
    \/ ChargeFailure(r) \/ SetPin(r) \/ Settle(r) \/ Store(r)

Next ==
    \/ \E r \in Requests : Begin(r) \/ Step(r) \/ Die(r)
    \/ Publish
    \/ \E x \in Scopes : ExpireRecord(x)
    \/ \E s \in Sessions : ExpirePin(s)

Spec == Init /\ [][Next]_vars

-----------------------------------------------------------------------------
(* Properties.                                                             *)

\* idempotency.py: whoever is answered out of a record asked the same thing of
\* the same endpoint, whatever the records and the requests in between were.
AnswersFit ==
    \A r \in Requests : answer[r] \in Requests => input[answer[r]].body = input[r].body

\* _STORE: a record, once written, is only ever dropped.
FirstAnswerStays ==
    [][\A x \in Scopes : record[x] # None => record'[x] \in {record[x], None}]_record

\* app.py: requests under one key are billed once, but for those that overlap,
\* those that are charged for invalid answers and then refused (nothing is
\* stored, so a retry pays again), those whose process dies between the
\* settlement and the store, and records that expire.
BilledOnce == \A x \in Scopes : bills[x] <= 1 + excuses[x]

\* routing.py, said at once instead of check by check: the candidate that
\* answers is active in the snapshot the request began with, belongs to the
\* model its name stands for, which its list permits under any of its names,
\* has what it needs, and is where its session and the request pin it to.
Suits(c, snapshot, ask, names, where) ==
    /\ c \in snapshot.candidates /\ c.active
    /\ c.model = ask.model \/ (ask.model \in DOMAIN snapshot.aliases
                                 /\ snapshot.aliases[ask.model] = c.model)
    /\ \/ names = Unrestricted
       \/ c.model \in names
       \/ \E n \in names \intersect DOMAIN snapshot.aliases : snapshot.aliases[n] = c.model
    /\ ask.needs \subseteq c.offers
    /\ where # None => c.connection = where
    /\ ask.provider # None => ask.provider \in {c.name, c.connection, c.protocol}
ServedAsAsked ==
    \A r \in Requests : served[r] # None =>
        Suits(served[r], Snapshots[seen[r]], Ask[input[r].body], input[r].allow, pinned[r])

\* sessions.py with routing.py: a session moves to another connection only
\* because of a request that found no pin, or whose pin expired or was moved by
\* such a request under way.
SessionStays ==
    [][\A s \in Sessions :
         pin[s] # None /\ pin'[s] \notin {pin[s], None} =>
            \E r \in Requests : /\ pc[r] = "pin" /\ input[r].session = s
                                /\ pinned[r] = None \/ r \in moved]_pin
=============================================================================
