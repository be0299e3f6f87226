--------------------------- MODULE Administration ---------------------------
(***************************************************************************)
(* The administration of the routing configuration: connections, logical   *)
(* models with their aliases, and the candidates that join them            *)
(* (mixapi/admin/providers.py, mixapi/admin/models.py, and the mutations   *)
(* of mixapi/repositories/configuration.py), and the seeds that            *)
(* BootstrapService.apply writes into it (mixapi/bootstrap.py).            *)
(*                                                                         *)
(* An endpoint reads what its guards need first, each read in a            *)
(* transaction of its own, and writes in one more: what a guard saw may be *)
(* gone when the row is written.  Only the row itself is read again under  *)
(* its lock and compared with the updated_at the administrator sent.  A    *)
(* seed reads and writes one row after the other, and compares nothing.    *)
(*                                                                         *)
(* A row's updated_at is the version its last mutation was recorded under: *)
(* every mutation has a version of its own.  A connection keeps its        *)
(* protocol and the protocol its credential is sealed for; a candidate has *)
(* an upstream name of its own, so that no two are the same mapping.       *)
(* Fields that no guard reads are left out.                                *)
(*                                                                         *)
(* No name here is one of Publication's, so that a module may extend both. *)
(***************************************************************************)
EXTENDS Naturals, Sequences, FiniteSets, Functions

CONSTANTS
    Admins,       \* administrators and bootstrap commands, one request each at a time
    Providers,    \* identifiers of connections
    Models,       \* identifiers of logical models
    Candidates,   \* identifiers of candidates
    Aliases,      \* names that are no identifier of a model
    Protocols,    \* the protocols a connection may speak
    MaxRequests,  \* bound on requests and seeds
    MaxFailures,  \* bound on requests and seeds that fail or die half way
    Absent        \* what the tables hold for a row never inserted

Ids   == Providers \cup Models \cup Candidates
Names == Models \cup Aliases

VARIABLES
    rows,      \* the three tables: a row for each identifier
    versions,  \* configuration_versions: how many mutations were recorded
    op,        \* what each administrator's request is doing
    raced,     \* history: models left without a candidate by a request that another
               \* overlapped, or by a seed that stopped half way or moved a candidate
    begun,     \* requests and seeds so far
    failures   \* of these, how many failed or died

adminVars == <<rows, versions, op, raced, begun, failures>>

-----------------------------------------------------------------------------
(* Rows *)

Statuses == {"active", "disabled", "deleted"}

ProviderRows  == [status : Statuses, protocol : Protocols, sealed : Protocols, stamp : Nat]
ModelRows     == [status : Statuses, aliases : SUBSET Names, stamp : Nat]
CandidateRows == [status : Statuses, model : Models, provider : Providers, stamp : Nat]

AnyRow == ProviderRows \cup ModelRows \cup CandidateRows

ASSUME AdministrationAssumption ==
    /\ Providers \cap Models = {} /\ Providers \cap Candidates = {} /\ Models \cap Candidates = {}
    /\ Absent \notin AnyRow
    /\ MaxRequests \in Nat /\ MaxFailures \in Nat

\* A row that a query with "deleted_at IS NULL" returns.
Live(id)   == rows[id] # Absent /\ rows[id].status # "deleted"
Active(id) == rows[id] # Absent /\ rows[id].status = "active"

\* count_active_candidates: it looks at the candidates' own rows only.
ActiveCandidates(m) == {c \in Candidates : Active(c) /\ rows[c].model = m}

Orphans == {m \in Models : Active(m) /\ ActiveCandidates(m) = {}}

Patched(row, change) ==
    [f \in DOMAIN row |-> IF f \in DOMAIN change THEN change[f] ELSE row[f]]

-----------------------------------------------------------------------------
(* What publication makes of the tables *)

Listed(ids) == {id \in ids : Active(id)}

Routable == {c \in Listed(Candidates) : Active(rows[c].model) /\ Active(rows[c].provider)}

\* The code publication refuses the loaded tables with; "" when it accepts.
PublicationCode ==
    LET models  == Listed(Models)
        aliases == UNION {rows[m].aliases : m \in models}
    IN  CASE Listed(Providers) = {} \/ models = {} -> "incomplete_configuration"
          [] aliases \cap models # {} -> "invalid_alias"
          [] \E c \in Routable : rows[c].model \notin models
                              \/ rows[c].provider \notin Listed(Providers)
               -> "invalid_model_candidate"
          [] \E m \in models : \A c \in Routable : rows[c].model # m
               -> "missing_model_candidate"
          [] \E p \in Listed(Providers) : rows[p].sealed # rows[p].protocol
               -> "invalid_provider_credential"
          [] OTHER -> ""

-----------------------------------------------------------------------------
(* Requests *)

Settable  == {"active", "disabled"}
AliasSets == {{}} \cup {{n} : n \in Names}   \* bound: at most one alias to a model

NewRows ==
    [status : Settable, protocol : Protocols]
      \cup [status : {"disabled"}, aliases : AliasSets]    \* no candidate yet
      \cup [status : Settable, model : Models, provider : Providers]

\* What one patch may change: bound, one field at a time.
Changes ==
    UNION {[{"status"} -> Settable], [{"protocol"} -> Protocols], [{"aliases"} -> AliasSets],
           [{"model"} -> Models], [{"provider"} -> Providers], [{} -> {}]}

\* The fields that a table's rows have and a request may set.
Fields(id) ==
    CASE id \in Providers  -> {"status", "protocol"}
      [] id \in Models     -> {"status", "aliases"}
      [] id \in Candidates -> {"status", "model", "provider"}

NewRowsOf(id)  == {r \in NewRows : DOMAIN r = Fields(id)}
ChangesTo(id)  == {c \in Changes : DOMAIN c \subseteq Fields(id)}

\* rotate: the request brings a new credential, written after the change and apart
\* from it.  A patch that changes nothing at all is refused before it reads.
Request(do, id, values, rotate) ==
    [do |-> do, id |-> id, values |-> values, rotate |-> rotate]

RequestsTo(id) ==
         {Request("create", id, r, FALSE) : r \in NewRowsOf(id)}
    \cup {Request("delete", id, <<>>, FALSE)}
    \cup {Request("patch", id, c, FALSE) : c \in ChangesTo(id) \ {<<>>}}
    \cup {Request("patch", id, c, TRUE) : c \in {d \in ChangesTo(id) : id \in Providers}}

\* A seed names rows with all their fields: a connection, a model and a candidate to
\* join them, in the order apply goes through them.  Bound: one of each, and active as
\* validate_graph has it.
ProviderSeed(p, protocol) ==
    Request("seed", p, [status |-> "active", protocol |-> protocol], FALSE)
ModelSeed(m) == Request("seed", m, [status |-> "active", aliases |-> {}], FALSE)
CandidateSeed(c, m, p) ==
    Request("seed", c, [status |-> "active", model |-> m, provider |-> p], FALSE)

Documents ==
    {<<ProviderSeed(p, protocol), ModelSeed(m), CandidateSeed(c, m, p)>> :
     p \in Providers, protocol \in Protocols, m \in Models, c \in Candidates}

\* A seed's request keeps only the values that its row has to change.
Remainders(r) ==
    {Request(r.do, r.id, Restrict(r.values, kept), rotate) :
     kept \in SUBSET DOMAIN r.values, rotate \in BOOLEAN}

AdminRequests == UNION {RequestsTo(id) : id \in Ids}
SeedRequests  == UNION {Remainders(d[i]) : d \in Documents, i \in 1 .. 3}

AnyRequest == AdminRequests \cup SeedRequests

\* The reads a request makes before it writes: each is a transaction.
Reads == {"current", "model", "provider", "own model", "others", "candidates"}

FirstReads(r) ==
    IF r.id \in Candidates
      THEN IF r.do = "create" THEN <<"model", "provider">> ELSE <<"current">>
      ELSE IF r.id \in Models /\ r.do = "patch" /\ r.values = [status |-> "active"]
             THEN <<"candidates">> ELSE <<>>

\* seen: the row as the administrator got it, whose updated_at the patch brings;
\* current: the candidate as the endpoint reads it; wrote: mutations recorded so far;
\* overlapped: another request has written since this one began; rest: what a seed
\* goes on with.
Idle == [at |-> "idle"]

UnderWay(a) == op[a] # Idle

Ops == {Idle} \cup
    [at : {"busy"}, request : AnyRequest, reads : Seq(Reads),
     seen : AnyRow \cup {Absent}, current : AnyRow \cup {Absent},
     wrote : 0 .. 1, overlapped : BOOLEAN, rest : Seq(AnyRequest)]

\* Models a seed has still to give the candidate of its document.
BeingSeeded ==
    {m \in Models : \E a \in Admins :
        /\ UnderWay(a)
        /\ op[a].request.do = "seed"
        /\ \E r \in {op[a].request} \cup Range(op[a].rest) :
              r.id \in Candidates /\ ("model" \in DOMAIN r.values => r.values.model = m)}

\* The candidate as the request would have it.
Intended(o) ==
    IF o.request.do = "create" THEN o.request.values ELSE Patched(o.current, o.request.values)

\* Mutant: a candidate moved to another model is not missed.
Disables(o) ==
    /\ o.current.status = "active"
    /\ o.request.do = "delete" \/ o.request.values = [status |-> "disabled"]

\* The request takes a candidate that serves away from its model.
Removes(o) ==
    /\ o.current.status = "active"
    /\ \/ o.request.do = "delete"
       \/ o.request.values = [status |-> "disabled"]
       \/ Intended(o).model # o.current.model

-----------------------------------------------------------------------------
(* Initial state: any tables that requests made one at a time may have     *)
(* left.  Bound: connections begin active or absent, no model has an alias. *)

AdminInit ==
    /\ \E p \in [Providers -> [status : {"active"}, protocol : Protocols, stamp : {0}]
                                \cup {Absent}],
          m \in [Models -> [status : Settable, aliases : {{}}, stamp : {0}] \cup {Absent}],
          c \in [Candidates -> [status : Settable, model : Models, provider : Providers,
                                stamp : {0}] \cup {Absent}] :
          /\ rows = [id \in Ids |->
                       CASE id \in Models     -> m[id]
                         [] id \in Candidates -> c[id]
                         [] id \in Providers  ->
                              IF p[id] = Absent THEN Absent
                              ELSE [status |-> p[id].status, protocol |-> p[id].protocol,
                                    sealed |-> p[id].protocol, stamp |-> 0]]
          /\ \A k \in Candidates :
                c[k] # Absent => m[c[k].model] # Absent /\ p[c[k].provider] # Absent
    /\ Orphans = {}
    /\ versions = 0
    /\ op = [a \in Admins |-> Idle]
    /\ raced = {}
    /\ begun = 0
    /\ failures = 0

-----------------------------------------------------------------------------
(* The endpoints *)

\* An administrator sends a request.  New connections and candidates get a fresh
\* identifier; anything else names a row the administrator has seen.
Begin(a) ==
    /\ ~UnderWay(a)
    /\ begun < MaxRequests
    /\ begun' = begun + 1
    /\ \E id \in Ids : \E r \in RequestsTo(id) :
          /\ IF r.do = "create"
               THEN id \in Models \/ /\ rows[id] = Absent
                                     /\ \A b \in Admins : UnderWay(b) => op[b].request.id # id
               ELSE Live(id)
          /\ op' = [op EXCEPT ![a] =
                [at |-> "busy", request |-> r, reads |-> FirstReads(r), seen |-> rows[id],
                 current |-> Absent, wrote |-> 0, overlapped |-> FALSE, rest |-> <<>>]]
    /\ UNCHANGED <<rows, versions, raced, failures>>

\* An error is answered: nothing of this transaction stays.
Reject(a) ==
    /\ op' = [op EXCEPT ![a] = Idle]
    /\ UNCHANGED <<rows, versions, raced, begun, failures>>

Continue(a, o) ==
    /\ op' = [op EXCEPT ![a] = o]
    /\ UNCHANGED <<rows, versions, raced, begun, failures>>

\* The endpoint reads the candidate it is to change: that decides what else it reads.
ReadCurrent(a) ==
    LET o == [op[a] EXCEPT !.current = rows[op[a].request.id]]
        references == IF o.request.do = "patch" THEN <<"model", "provider">> ELSE <<>>
        protection == IF Removes(o) THEN <<"own model", "others">> ELSE <<>>
    IN  IF Live(o.request.id)
          THEN Continue(a, [o EXCEPT !.reads = references \o protection])
          ELSE Reject(a)

\* What a read after the first has to find for the request to go on.
Holds(o, read) ==
    CASE read = "model"      -> Live(Intended(o).model)
      [] read = "provider"   -> /\ Live(Intended(o).provider)
                                /\ \/ Active(Intended(o).provider)
                                   \/ Intended(o).status # "active"
      [] read = "own model"  -> Live(o.current.model)
      [] read = "others"     -> ActiveCandidates(o.current.model) \ {o.request.id} # {}
      [] read = "candidates" -> ActiveCandidates(o.request.id) # {}

\* One of the further reads of _references, _protect_last or the activation guard.
\* Only the last candidate of an active model is protected.
ReadOther(a) ==
    LET o == op[a]
        read == Head(o.reads)
        done == read = "own model" /\ ~Active(o.current.model)
    IN  IF Holds(o, read)
          THEN Continue(a, [o EXCEPT !.reads = IF done THEN <<>> ELSE Tail(o.reads)])
          ELSE Reject(a)

Read(a) ==
    /\ UnderWay(a)
    /\ op[a].request.do # "seed"
    /\ op[a].reads # <<>>
    /\ IF Head(op[a].reads) = "current" THEN ReadCurrent(a) ELSE ReadOther(a)

-----------------------------------------------------------------------------
(* The repository: one transaction, with the row under its lock *)

\* The model a seed takes a candidate from: only the endpoint protects the last one.
Deprived(a) ==
    IF op[a].request.do = "seed" /\ op[a].request.id \in Candidates /\ op[a].current # Absent
      THEN {op[a].current.model} ELSE {}

\* Every mutation is recorded with its version; the row carries it.
Record(a, id, row, next) ==
    /\ rows' = [rows EXCEPT ![id] = row]
    /\ versions' = versions + 1
    /\ op' = [b \in Admins |-> IF b = a THEN next
                               ELSE IF UnderWay(b) THEN [op[b] EXCEPT !.overlapped = TRUE]
                               ELSE Idle]
    /\ raced' = Orphans' \cap (raced \cup IF op[a].overlapped THEN Models ELSE Deprived(a))
    /\ UNCHANGED <<begun, failures>>

\* The alias table holds a name once, deleted models' names included.
AliasesFree(m, names) ==
    /\ m \notin names
    /\ \A n \in Models \ {m} : rows[n] # Absent => rows[n].aliases \cap names = {}

\* The row goes in if its identifier is new and nothing else forbids it.
CreateRow(a, row, allowed) ==
    /\ op[a].reads = <<>>
    /\ op[a].request.do = "create"
    /\ IF rows[op[a].request.id] = Absent /\ allowed
         THEN Record(a, op[a].request.id, row, Idle)
         ELSE Reject(a)

CreateProvider(a) ==
    LET values == op[a].request.values
    IN  /\ UnderWay(a)
        /\ op[a].request.id \in Providers
        /\ CreateRow(a, [status |-> values.status, protocol |-> values.protocol,
                         sealed |-> values.protocol, stamp |-> versions + 1], TRUE)

CreateModel(a) ==
    LET values == op[a].request.values
    IN  /\ UnderWay(a)
        /\ op[a].request.id \in Models
        /\ CreateRow(a, [status |-> values.status, aliases |-> values.aliases,
                         stamp |-> versions + 1],
                      AliasesFree(op[a].request.id, values.aliases))

CreateCandidate(a) ==
    LET values == op[a].request.values
    IN  /\ UnderWay(a)
        /\ op[a].request.id \in Candidates
        /\ CreateRow(a, [status |-> values.status, model |-> values.model,
                         provider |-> values.provider, stamp |-> versions + 1], TRUE)

\* Mutant: any row will do.
Exists(o) == Live(o.request.id)

\* expected_updated_at against the row under its lock.
Unchanged(o) == rows[o.request.id].stamp = o.seen.stamp

\* Mutant: the old credential stays as it is sealed.
UpdatePlain(row, change, stamp) == [Patched(row, change) EXCEPT !.stamp = stamp]

\* A credential is sealed for its connection's protocol: a new protocol seals it again.
Update(row, change, stamp) ==
    LET next == [Patched(row, change) EXCEPT !.stamp = stamp]
    IN  IF "protocol" \in DOMAIN change THEN [next EXCEPT !.sealed = change.protocol] ELSE next

\* Mutant: the second half expects what the request expected.
SecondHalfAsSent(o, row) == [o EXCEPT !.request.values = <<>>, !.wrote = 1, !.overlapped = FALSE]

\* When the patch brings a credential too, the endpoint goes on with the row as this
\* transaction left it.
SecondHalf(o, row) ==
    [o EXCEPT !.request.values = <<>>, !.seen = row, !.wrote = 1, !.overlapped = FALSE]

\* The row is written if it lives, is as it was seen, and nothing else forbids it.
PatchRow(a, row, allowed, next) ==
    LET o == op[a]
    IN  /\ o.reads = <<>>
        /\ o.request.do = "patch"
        /\ o.request.values # <<>>
        /\ IF Live(o.request.id) /\ Unchanged(o) /\ allowed
             THEN Record(a, o.request.id, row, next)
             ELSE Reject(a)

PatchProvider(a) ==
    LET o == op[a]
        row == Update(rows[o.request.id], o.request.values, versions + 1)
    IN  /\ UnderWay(a)
        /\ o.request.id \in Providers
        /\ PatchRow(a, row, TRUE, IF o.request.rotate THEN SecondHalf(o, row) ELSE Idle)

PatchModel(a) ==
    LET o == op[a]
        row == Update(rows[o.request.id], o.request.values, versions + 1)
    IN  /\ UnderWay(a)
        /\ o.request.id \in Models
        /\ PatchRow(a, row, AliasesFree(o.request.id, row.aliases), Idle)

PatchCandidate(a) ==
    LET o == op[a]
    IN  /\ UnderWay(a)
        /\ o.request.id \in Candidates
        /\ PatchRow(a, Update(rows[o.request.id], o.request.values, versions + 1), TRUE, Idle)

\* A new credential is sealed for the protocol the row has under its lock.
Rotate(a) ==
    LET o == op[a]
        id == o.request.id
        row == [rows[id] EXCEPT !.sealed = rows[id].protocol, !.stamp = versions + 1]
    IN  /\ UnderWay(a)
        /\ o.reads = <<>>
        /\ o.request.do = "patch"
        /\ o.request.values = <<>>
        /\ IF Live(id) /\ Unchanged(o) THEN Record(a, id, row, Idle) ELSE Reject(a)

\* Nothing is expected of the row but that it lives; who refers to it is not looked at.
DeleteRow(a) ==
    LET id == op[a].request.id
    IN  /\ op[a].reads = <<>>
        /\ op[a].request.do = "delete"
        /\ IF Live(id)
             THEN Record(a, id, [rows[id] EXCEPT !.status = "deleted", !.stamp = versions + 1],
                         Idle)
             ELSE Reject(a)

DeleteProvider(a) == UnderWay(a) /\ op[a].request.id \in Providers /\ DeleteRow(a)

DeleteModel(a) == UnderWay(a) /\ op[a].request.id \in Models /\ DeleteRow(a)

DeleteCandidate(a) == UnderWay(a) /\ op[a].request.id \in Candidates /\ DeleteRow(a)

-----------------------------------------------------------------------------
(* BootstrapService.apply *)

BeginSeed(a) ==
    /\ ~UnderWay(a)
    /\ begun < MaxRequests
    /\ begun' = begun + 1
    /\ \A b \in Admins : UnderWay(b) => op[b].request.do # "seed"   \* bound: one at a time
    /\ \E d \in Documents :
          op' = [op EXCEPT ![a] =
             [at |-> "busy", request |-> Head(d), reads |-> <<"current">>, seen |-> Absent,
              current |-> Absent, wrote |-> 0, overlapped |-> FALSE, rest |-> Tail(d)]]
    /\ UNCHANGED <<rows, versions, raced, failures>>

\* The fields whose stored value is not the seed's.
Differing(row, values) ==
    [f \in {g \in DOMAIN values : row[g] # values[g]} |-> values[f]]

SeedNext(o) ==
    IF o.rest = <<>> THEN Idle
    ELSE [o EXCEPT !.request = Head(o.rest), !.rest = Tail(o.rest), !.reads = <<"current">>,
                   !.current = Absent]

\* Whether the fingerprint of the stored credential is another than the seed's.
Fingerprints(id) == IF id \in Providers THEN BOOLEAN ELSE {FALSE}

\* What a seed does with the row it found: it changes what differs, then rotates the
\* credential if that is another, and passes over what is as it should be.
SeedGoesOn(o, row, change, rotate) ==
    IF change = <<>> /\ ~rotate THEN SeedNext(o)
    ELSE [o EXCEPT !.reads = <<>>, !.current = row,
                   !.request = Request("seed", o.request.id, change, rotate)]

\* get_provider, get_logical_model, get_candidate.
SeedRead(a) ==
    LET o == op[a]
        id == o.request.id
    IN  /\ UnderWay(a)
        /\ o.request.do = "seed"
        /\ o.reads # <<>>
        /\ IF Live(id)
             THEN LET change == Differing(rows[id], o.request.values)
                  IN  \E rotate \in IF change = <<>> THEN Fingerprints(id) ELSE {FALSE} :
                         Continue(a, SeedGoesOn(o, rows[id], change, rotate))
             ELSE Continue(a, SeedGoesOn(o, Absent, o.request.values, FALSE))

\* A seed that fails has written the rows before this one.
SeedStops(a) ==
    /\ op' = [op EXCEPT ![a] = Idle]
    /\ raced' = raced \cup (Orphans \cap BeingSeeded)
    /\ UNCHANGED <<rows, versions, begun, failures>>

\* The row of a seed: a connection's credential is sealed for its protocol.
Inserted(id, values, stamp) ==
    [f \in Fields(id) \cup {"stamp"} \cup (IF id \in Providers THEN {"sealed"} ELSE {}) |->
        CASE f = "stamp" -> stamp [] f = "sealed" -> values.protocol [] OTHER -> values[f]]

SeedInsert(a) ==
    LET o == op[a]
        id == o.request.id
    IN  /\ UnderWay(a)
        /\ o.request.do = "seed" /\ o.reads = <<>> /\ o.current = Absent
        /\ IF rows[id] = Absent
             THEN Record(a, id, Inserted(id, o.request.values, versions + 1), SeedNext(o))
             ELSE SeedStops(a)

\* The update, or the rotation that may come after it, whatever the row has become.
SeedUpdate(a) ==
    LET o == op[a]
        id == o.request.id
        updated == Update(rows[id], o.request.values, versions + 1)
        rotated == [rows[id] EXCEPT !.sealed = rows[id].protocol, !.stamp = versions + 1]
    IN  /\ UnderWay(a)
        /\ o.request.do = "seed" /\ o.reads = <<>> /\ o.current # Absent
        /\ CASE ~Live(id) -> SeedStops(a)
             [] Live(id) /\ o.request.rotate -> Record(a, id, rotated, SeedNext(o))
             [] OTHER -> \E rotate \in Fingerprints(id) :
                            Record(a, id, updated, SeedGoesOn(o, updated, <<>>, rotate))

\* A call fails or the process dies, between any two transactions: nothing goes on
\* with what the request or the seed has left to do.
RequestFails(a) ==
    /\ UnderWay(a)
    /\ failures < MaxFailures
    /\ failures' = failures + 1
    /\ op' = [op EXCEPT ![a] = Idle]
    /\ raced' = IF op[a].request.do = "seed" THEN raced \cup (Orphans \cap BeingSeeded)
                ELSE raced
    /\ UNCHANGED <<rows, versions, begun>>

AdminNext == \E a \in Admins :
    \/ Begin(a) \/ Read(a)
    \/ CreateProvider(a) \/ CreateModel(a) \/ CreateCandidate(a)
    \/ PatchProvider(a) \/ PatchModel(a) \/ PatchCandidate(a) \/ Rotate(a)
    \/ DeleteProvider(a) \/ DeleteModel(a) \/ DeleteCandidate(a)
    \/ BeginSeed(a) \/ SeedRead(a) \/ SeedInsert(a) \/ SeedUpdate(a)
    \/ RequestFails(a)

AdminSpec == AdminInit /\ [][AdminNext]_adminVars

-----------------------------------------------------------------------------
(* Properties *)

\* Rows have the fields of their table, and no mutation is recorded twice.
AdminTypeOK ==
    /\ rows \in [Ids -> AnyRow \cup {Absent}]
    /\ \A p \in Providers : rows[p] \in ProviderRows \cup {Absent}
    /\ \A m \in Models : rows[m] \in ModelRows \cup {Absent}
    /\ \A c \in Candidates : rows[c] \in CandidateRows \cup {Absent}
    /\ \A id \in Ids : rows[id] # Absent => rows[id].stamp <= versions
    /\ versions \in Nat
    /\ begun \in 0 .. MaxRequests /\ failures \in 0 .. MaxFailures
    /\ op \in [Admins -> Ops]
    /\ raced \subseteq Models

\* A request that nobody overlaps leaves no active model without a candidate, nor does
\* a seed that comes to its end, but for one that moves the last candidate away.  This
\* is how far the guards reach; LastIsProtected is what was promised of them.
OrphanedOnlyByOverlap == Orphans \subseteq raced \cup BeingSeeded

\* The tables are never such that a publication finds a candidate without its model
\* or connection, or a credential it cannot open: whatever was patched, rotated,
\* moved or deleted in between, by whom and in which order (publication.py 225-276).
LoadsAreWhole ==
    PublicationCode \notin {"invalid_model_candidate", "invalid_provider_credential"}

Writes(a) == UnderWay(a) /\ versions' > versions /\ (op'[a] = Idle \/ op'[a].wrote > op[a].wrote)

\* The design of the administration API: a mutation that would leave an active model
\* without an active candidate is rejected (docs/plans, dynamic-routing-design.md 177).
\* The guards read before the transaction that writes, so two requests may each take a
\* model's candidate and both find the other's there (models.py 228-232, 250-255).
LastIsProtected ==
    [][\A a \in Admins :
          Writes(a) /\ op[a].request.do # "seed" => Orphans' \subseteq Orphans]_adminVars

\* A patch, and the second half of one that brings a credential, changes the very row
\* its administrator was shown: no other administrator's change is written over.
PatchesKeepOthers ==
    [][\A a \in Admins :
          Writes(a) /\ op[a].request.do = "patch" => rows[op[a].request.id] = op[a].seen]_adminVars

\* A patch of a connection with a new credential is two transactions
\* (providers.py 102-122).  The second half is refused, or never tried, the first
\* staying, only when another request wrote between the two or the request failed.
HalvesOnlyByOverlap ==
    [][\A a \in Admins :
          UnderWay(a) /\ op'[a] = Idle /\ versions' = versions
             => op[a].wrote = 0 \/ op[a].overlapped \/ failures' # failures]_adminVars
=============================================================================
