---------------------------- MODULE MCAdmission ----------------------------
(* Instances of Admission for TLC.                                         *)
EXTENDS Admission

CONSTANTS r1, r2, r3, b1, b2, b3

\* Two vendors of a chat model, one of embeddings.
Candidate(id, connection, model, priority, cost, offers) ==
    [id |-> id, connection |-> connection, name |-> connection, protocol |-> "openai",
     model |-> model, active |-> TRUE, priority |-> priority, cost |-> cost,
     latency |-> 1, reliability |-> 1, offers |-> offers]
A == Candidate(1, "A", "chat", 10, 2, {"output", "input", "strict"})
B == Candidate(2, "B", "chat", 10, 1, {"output", "input"})
E == Candidate(3, "B", "embed", 10, 1, {"output", "embeddings", "input"})

\* A is disabled, B gets another price.
First == [models |-> {"chat", "embed"}, aliases |-> [x \in {"fast"} |-> "chat"],
          candidates |-> {A, B, E}]
Second == [models |-> {"chat", "embed"}, aliases |-> [x \in {"fast"} |-> "chat"],
           candidates |-> {[B EXCEPT !.cost = 3], E}]
TwoSnapshots == <<First, Second>>

Asked(endpoint, model, needs, objective, schema) ==
    [endpoint |-> endpoint, model |-> model, needs |-> needs, provider |-> None,
     objective |-> objective, schema |-> schema]
Asks ==
    [b \in {b1, b2, b3} |->
        CASE b = b1 -> Asked("responses", "fast", {"output", "input"}, "balanced", FALSE)
          [] b = b2 -> Asked("responses", "chat", {"output", "input", "strict"}, "lowest-cost", TRUE)
          [] b = b3 -> Asked("embeddings", "embed", {"output", "input", "embeddings"}, "balanced", FALSE)]

Request(b, key, session, allow) ==
    [body |-> b, key |-> key, session |-> session, allow |-> allow]
Requested ==
    {Request(b1, "k", "s", Unrestricted), Request(b1, "k", None, {"fast"}),
     Request(b2, "k", "s", Unrestricted), Request(b3, "k", "s", Unrestricted),
     Request(b1, None, "s", {"embed"})}
Symmetry == Permutations(Requests)
=============================================================================
