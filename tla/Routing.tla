------------------------------ MODULE Routing ------------------------------
(***************************************************************************)
(* Planning the route of a request on a configuration snapshot:            *)
(* mixapi/routing.py and mixapi/routing_catalog.py.                        *)
(*                                                                         *)
(* A snapshot is a record of its logical models, its aliases (a function   *)
(* from names to models) and its candidates.  A candidate offers features, *)
(* a request needs some; a feature stands for the modalities, the schema   *)
(* support, the tools and the embeddings the code compares one by one.     *)
(***************************************************************************)
EXTENDS Integers, Sequences, SequencesExt

CONSTANTS Unrestricted, None

\* In the order _rejection_reason looks for them.
Reasons == <<"model_disabled", "connection_not_pinned", "provider_not_pinned",
             "embeddings_not_supported", "missing_output_modality", "missing_input_modality",
             "strict_schema_not_supported", "tools_not_supported">>
Features == {"embeddings", "output", "input", "strict", "tools"}

\* snapshot.resolve_model_id: a model, or what an alias stands for.
Resolve(snapshot, name) ==
    CASE name \in snapshot.models -> name
      [] name \notin snapshot.models /\ name \in DOMAIN snapshot.aliases ->
           snapshot.aliases[name]
      [] OTHER -> None

\* _canonical_allowlist.
Canonical(snapshot, names) == {Resolve(snapshot, name) : name \in names} \ {None}
MayUse(snapshot, allow, model) ==
    allow # Unrestricted => model \in Canonical(snapshot, allow)

\* The candidates of a model in the order of catalog_from_snapshot.
Catalog(snapshot, model) ==
    SetToSortSeq({c \in snapshot.candidates : c.model = model},
                 LAMBDA c, d : \/ c.priority < d.priority
                               \/ c.priority = d.priority /\ c.id < d.id)

-----------------------------------------------------------------------------
\* _rejection_reason: what speaks against a candidate; the first of it is the
\* reason of its rejection.
NamedBy(c, provider) == provider \in {None, c.name, c.connection, c.protocol}
PinnedToAny(c, pin) == TRUE  \* mutated: the pin of the session is left out
PinnedTo(c, pin) == pin \in {None, c.connection}
Lacks(c, ask, feature) == feature \in ask.needs \ c.offers

SpeaksAgainst(reason, c, ask, pin) ==
    \/ reason = "model_disabled" /\ ~c.active
    \/ reason = "connection_not_pinned" /\ ~PinnedTo(c, pin)
    \/ reason = "provider_not_pinned" /\ ~NamedBy(c, ask.provider)
    \/ reason = "embeddings_not_supported" /\ Lacks(c, ask, "embeddings")
    \/ reason = "missing_output_modality" /\ Lacks(c, ask, "output")
    \/ reason = "missing_input_modality" /\ Lacks(c, ask, "input")
    \/ reason = "strict_schema_not_supported" /\ Lacks(c, ask, "strict")
    \/ reason = "tools_not_supported" /\ Lacks(c, ask, "tools")

Against(c, ask, pin) == {i \in DOMAIN Reasons : SpeaksAgainst(Reasons[i], c, ask, pin)}

Eligible(snapshot, model, ask, pin) ==
    {c \in snapshot.candidates : c.model = model /\ Against(c, ask, pin) = {}}

\* _best_rejection_code: the first reason that is not a pin, when none is eligible.
BestCode(snapshot, model, ask, pin) ==
    LET first == [i \in DOMAIN Catalog(snapshot, model) |->
                    Reasons[Min(Against(Catalog(snapshot, model)[i], ask, pin))]]
        others == SelectSeq(first, LAMBDA x : x \notin {"provider_not_pinned",
                                                        "connection_not_pinned"})
    IN IF first = <<>> THEN "no_eligible_provider" ELSE Head(others \o first)

\* _score_candidate; the default is the balanced objective.
Score(c, objective) ==
    CASE objective = "lowest-cost" -> c.cost
      [] objective = "lowest-latency" -> c.latency
      [] objective = "highest-reliability" -> -c.reliability
      [] OTHER -> c.priority

\* _ordered_candidates: ascending scores; the request id decides by its hash
\* among candidates of equal score.
Orders(eligible, objective) ==
    {route \in SetToSeqs(eligible) :
        \A i, j \in DOMAIN route :
            i < j => Score(route[i], objective) <= Score(route[j], objective)}

-----------------------------------------------------------------------------
\* plan_route: whether it accepts a request, the code it refuses one with and
\* the routes it may plan for one it accepts.
Accepts(snapshot, ask, allow, pin) ==
    LET model == Resolve(snapshot, ask.model)
    IN /\ model # None
       /\ MayUse(snapshot, allow, model)
       /\ model \in snapshot.models
       /\ Eligible(snapshot, model, ask, pin) # {}

Refusal(snapshot, ask, allow, pin) ==
    LET model == Resolve(snapshot, ask.model)
    IN CASE model = None -> "model_not_found"
         [] model # None /\ ~MayUse(snapshot, allow, model) -> "model_not_allowed"
         [] /\ model \notin snapshot.models \union {None}
            /\ MayUse(snapshot, allow, model) -> "model_not_found"
         [] model \in snapshot.models /\ model # None /\ MayUse(snapshot, allow, model) ->
              BestCode(snapshot, model, ask, pin)

Routes(snapshot, ask, pin, objective) ==
    Orders(Eligible(snapshot, Resolve(snapshot, ask.model), ask, pin), objective)
=============================================================================
