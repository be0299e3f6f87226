------------------------------ MODULE Gateway ------------------------------
(***************************************************************************)
(* Handling one public request: create_response and create_embedding of    *)
(* mixapi/app.py over runtime/quota.py, runtime/circuits.py and            *)
(* repositories/usage.py.                                                  *)
(*                                                                         *)
(* A request is planned, reserves budget, tokens and a request of its key's*)
(* quota, records a usage intent, and then tries its candidates in turn:   *)
(* each try takes a concurrency slot and a request of the connection's     *)
(* quota.  What was answered is settled, counted against the token quota   *)
(* and fed to the circuit breaker; what was not is given back.             *)
(*                                                                         *)
(* All requests come from one API key.  A candidate stands for its provider*)
(* connection, its model and their circuit.  The unit of tokens is what is *)
(* estimated for one dispatch; what a provider reports for it may be less  *)
(* or more.  One step is one Lua script, one SQL transaction or one        *)
(* upstream call; what Budget does for a reservation is the single step of *)
(* its call.                                                               *)
(***************************************************************************)
EXTENDS Integers, Sequences, FiniteSets, Sums

CONSTANTS
    Requests,     \* public requests of one API key
    Connections,  \* provider connections, each offering one candidate
    Kinds,        \* the kinds of request that occur
    Offers,       \* the sets of candidates that plan_route may find for a request
    Rankings,     \* the orders it may give them: each maps a set to a sequence of it
    SlotLimit,    \* concurrency_limit of a connection, 0 for none
    CallQuota,    \* request_quota of a connection, 0 for none
    TokenLimit,   \* token_limit of the API key
    RequestLimit, \* request_limit of the API key
    Threshold,    \* failure_threshold of the circuits
    Absent,       \* a Redis key that does not exist
    Reports,      \* what the answers to a request may add up to, in reported tokens
    MaxFaults,    \* bound on crashes, unexpected errors and slow requests
    MaxLosses     \* bound on counters that Redis loses

ASSUME GatewayAssumption ==
    /\ IsFiniteSet(Requests)
    /\ Kinds \subseteq {"response", "structured", "embedding", "stream"}
    /\ Offers \subseteq SUBSET Connections
    /\ \A rank \in Rankings, S \in SUBSET Connections :
          rank[S] \in Seq(Connections) /\ (rank[S] = <<>> <=> S = {})
    /\ SlotLimit \in [Connections -> Nat]
    /\ CallQuota \in [Connections -> Nat]
    /\ TokenLimit \in Nat
    /\ RequestLimit \in Nat
    /\ Threshold \in Nat \ {0}
    /\ Absent \notin Nat
    /\ Reports \subseteq Nat
    /\ MaxFaults \in Nat
    /\ MaxLosses \in Nat

VARIABLES
    (* Redis *)
    slots,     \* concurrency:{connection}
    called,    \* quota:connection_requests:{connection}
    failures,  \* failures field of the circuit, counted up to the threshold
    opened,    \* its opened_ms: "no", "recent" or "elapsed"
    requests,  \* quota:request:{key}; the key may have been used before
    actual,    \* quota:tokens:{key}:actual
    reserved,  \* quota:tokens:{key}:reserved
    tokens,    \* quota:tokens:{key}:reservation:{id} of each request
    (* PostgreSQL *)
    intent,    \* status of the request's usage_write_intents row
    events,    \* how many usage events it has been charged for
    used,      \* the tokens these events report
    (* the request *)
    budget,    \* what it did with its budget reservation
    kind,      \* its kind
    pc,        \* what it does next
    rest,      \* the candidates not yet given up
    trial,     \* dispatch_index of the current candidate
    answers,   \* upstream answers it has to pay for
    resume,    \* where it goes on once the slot is released
    verdict,   \* what a stream reports to the circuit at its end
    undo,      \* what it still gives back
    faults,    \* how many faults there have been
    losses,    \* how many times Redis lost counters in use
    (* history, which no step reads *)
    excess     \* tokens reported above the reservations they were reconciled with

connVars  == <<slots, called, failures, opened>>
tokenVars == <<actual, reserved, tokens, excess>>
pgVars    == <<intent, events, used>>
planVars  == <<kind, rest, trial>>
endVars   == <<resume, verdict, undo>>
faultVars == <<faults, losses>>
accountVars == <<requests, tokenVars, pgVars, budget>>
vars == <<connVars, accountVars, planVars, pc, answers, endVars, faultVars>>

Steps == {"idle", "budget", "tokens", "admit", "intent", "slot", "quota", "call", "opened",
          "streaming", "release", "settle", "reconcile", "verdict", "undo", "ended", "aborted"}
Final == {"ended", "aborted"}
\* The steps of a request whose slot on its candidate is to be released later.
Holding == {"quota", "call", "opened", "streaming", "release"}
Upstream == {"call", "opened", "streaming"}

ConnectionTypeOK ==
    /\ slots \in [Connections -> Nat]
    /\ called \in [Connections -> Nat]
    /\ failures \in [Connections -> 0..Threshold]
    /\ opened \in [Connections -> {"no", "recent", "elapsed"}]

AccountTypeOK ==
    /\ requests \in Nat
    /\ actual \in Nat
    /\ reserved \in Int
    /\ tokens \in [Requests -> Nat \union {Absent}]
    /\ intent \in [Requests -> {"none", "pending", "completed", "failed"}]
    /\ events \in [Requests -> Nat]
    /\ used \in [Requests -> Nat]
    /\ excess \in Nat
    /\ budget \in [Requests -> {"none", "held", "settled", "released"}]

ProgressTypeOK ==
    /\ kind \in [Requests -> {"response", "structured", "embedding", "stream"}]
    /\ pc \in [Requests -> Steps]
    /\ rest \in [Requests -> Seq(Connections)]
    /\ trial \in [Requests -> {0, 1}]
    /\ answers \in [Requests -> Nat]
    /\ resume \in [Requests -> {"slot", "settle", "aborted"}]
    /\ verdict \in [Requests -> {"success", "transient", "other"}]
    /\ undo \in [Requests -> Seq({"budget", "tokens", "intent"})]
    /\ \A r \in Requests : pc[r] \in Holding => rest[r] # <<>>
    /\ \A r \in Requests : pc[r] = "undo" => undo[r] # <<>>

TypeOK ==
    /\ ConnectionTypeOK
    /\ AccountTypeOK
    /\ ProgressTypeOK
    /\ faults \in Nat
    /\ losses \in Nat

Init ==
    /\ slots = [c \in Connections |-> 0]
    /\ called = [c \in Connections |-> 0]
    /\ failures = [c \in Connections |-> 0]
    /\ opened = [c \in Connections |-> "no"]
    /\ requests \in 0..RequestLimit
    /\ actual = 0
    /\ reserved = 0
    /\ tokens = [r \in Requests |-> Absent]
    /\ intent = [r \in Requests |-> "none"]
    /\ events = [r \in Requests |-> 0]
    /\ used = [r \in Requests |-> 0]
    /\ excess = 0
    /\ budget = [r \in Requests |-> "none"]
    /\ kind = [r \in Requests |-> "response"]
    /\ pc = [r \in Requests |-> "idle"]
    /\ rest = [r \in Requests |-> <<>>]
    /\ trial = [r \in Requests |-> 0]
    /\ answers = [r \in Requests |-> 0]
    /\ resume = [r \in Requests |-> "slot"]
    /\ verdict = [r \in Requests |-> "other"]
    /\ undo = [r \in Requests |-> <<>>]
    /\ faults = 0
    /\ losses = 0

-----------------------------------------------------------------------------
(* Control.                                                                *)

Candidate(r) == Head(rest[r])
Goto(r, s) == pc' = [pc EXCEPT ![r] = s]

\* Give back what is listed, in that order, and answer with an error.
Undo(r, list) == Goto(r, "undo") /\ undo' = [undo EXCEPT ![r] = list]

\* On to the next candidate.
Skip(r) ==
    /\ Goto(r, "slot")
    /\ rest' = [rest EXCEPT ![r] = Tail(@)]
    /\ trial' = [trial EXCEPT ![r] = 0]

\* Release the slot of the candidate, then go on at s.
ReleaseThen(r, s) == Goto(r, "release") /\ resume' = [resume EXCEPT ![r] = s]

-----------------------------------------------------------------------------
(* Circuits.                                                               *)

ResetCircuit(c) ==
    /\ failures' = [failures EXCEPT ![c] = 0]
    /\ opened' = [opened EXCEPT ![c] = "no"]

\* _FAILURE: at the threshold, and at every failure after it, the circuit opens.
CountFailure(c) ==
    /\ failures' = [failures EXCEPT ![c] = IF @ < Threshold THEN @ + 1 ELSE @]
    /\ opened' = [opened EXCEPT ![c] = IF failures[c] + 1 >= Threshold THEN "recent" ELSE @]

\* record_failure counts transient reasons only; _record_circuit_state then looks at
\* the circuit, and _IS_OPEN forgets it when its recovery timeout is over.
RecordFailure(c, reason) ==
    IF reason = "transient" THEN CountFailure(c)
    ELSE IF opened[c] = "elapsed" THEN ResetCircuit(c)
    ELSE UNCHANGED <<failures, opened>>

RecordSuccess(c) == ResetCircuit(c)

-----------------------------------------------------------------------------
(* Mutated forms of definitions below, each a plausible bug that one of the *)
(* properties must catch; nothing refers to them.                           *)

EstimateOnce(r) == IF kind[r] = "structured" THEN Len(rest[r]) ELSE 1

ReserveTokensAlone(r) ==
    LET amount == IF kind[r] = "structured" THEN 2 * Len(rest[r]) ELSE 1
    IN  /\ pc[r] = "tokens"
        /\ IF actual + amount > TokenLimit
           THEN Undo(r, <<"budget">>) /\ UNCHANGED <<reserved, tokens>>
           ELSE /\ tokens' = [tokens EXCEPT ![r] = amount]
                /\ reserved' = reserved + amount
                /\ Goto(r, "admit")
                /\ UNCHANGED undo
        /\ UNCHANGED <<connVars, requests, actual, excess, pgVars, budget, planVars,
                       answers, resume, verdict, faultVars>>

ReserveSlotPastLimit(r) ==
    LET c == Candidate(r)
    IN  /\ pc[r] = "slot"
        /\ rest[r] # <<>>
        /\ IF SlotLimit[c] > 0 /\ slots[c] > SlotLimit[c]
           THEN Skip(r) /\ UNCHANGED slots
           ELSE /\ slots' = IF SlotLimit[c] > 0 THEN [slots EXCEPT ![c] = @ + 1] ELSE slots
                /\ Goto(r, "quota")
                /\ UNCHANGED <<rest, trial>>
        /\ UNCHANGED <<called, failures, opened, accountVars, kind, answers, endVars,
                       faultVars>>

ExhaustedUnpaid(r) ==
    /\ pc[r] = "slot"
    /\ rest[r] = <<>>
    /\ Undo(r, <<"budget", "tokens", "intent">>)
    /\ UNCHANGED <<connVars, accountVars, planVars, answers, resume, verdict, faultVars>>

FreeTokensTwice(r) ==
    /\ UNCHANGED tokens
    /\ reserved' = IF tokens[r] = Absent THEN reserved ELSE reserved - tokens[r]

-----------------------------------------------------------------------------
(* Up to the dispatch.                                                     *)

\* plan_route and _circuit_eligible_candidates: _IS_OPEN forgets a circuit whose
\* recovery timeout is over.  The scripts concern one circuit each.  Candidates that
\* only the cost limit of the request excludes are left out of the offer: that their
\* circuits are looked at too is no more than CircuitExpires.
Plan(r) ==
    /\ pc[r] = "idle"
    /\ \E k \in Kinds, offer \in Offers, rank \in Rankings :
          LET eligible == {c \in offer : opened[c] # "recent"}
              forgotten == {c \in offer : opened[c] = "elapsed"}
          IN  /\ kind' = [kind EXCEPT ![r] = k]
              /\ rest' = [rest EXCEPT ![r] = rank[eligible]]
              /\ Goto(r, IF eligible = {} THEN "ended" ELSE "budget")
              /\ failures' = [c \in Connections |-> IF c \in forgotten THEN 0 ELSE failures[c]]
              /\ opened' = [c \in Connections |-> IF c \in forgotten THEN "no" ELSE opened[c]]
    /\ UNCHANGED <<slots, called, accountVars, trial, answers, endVars, faultVars>>

\* _reserve_budget
ReserveBudget(r) ==
    /\ pc[r] = "budget"
    /\ \/ Goto(r, "tokens") /\ budget' = [budget EXCEPT ![r] = "held"]
       \/ Goto(r, "ended") /\ UNCHANGED budget
    /\ UNCHANGED <<connVars, requests, tokenVars, pgVars, planVars, answers, endVars,
                   faultVars>>

\* _estimate_request_tokens: for structured output two dispatches per candidate.
Estimate(r) == IF kind[r] = "structured" THEN 2 * Len(rest[r]) ELSE 1

\* _RESERVE_TOKENS
ReserveTokens(r) ==
    /\ pc[r] = "tokens"
    /\ IF actual + reserved + Estimate(r) > TokenLimit
       THEN Undo(r, <<"budget">>) /\ UNCHANGED <<reserved, tokens>>
       ELSE /\ tokens' = [tokens EXCEPT ![r] = Estimate(r)]
            /\ reserved' = reserved + Estimate(r)
            /\ Goto(r, "admit")
            /\ UNCHANGED undo
    /\ UNCHANGED <<connVars, requests, actual, excess, pgVars, budget, planVars, answers,
                   resume, verdict, faultVars>>

\* _RESERVE_REQUEST
ReserveRequest(r) ==
    /\ pc[r] = "admit"
    /\ IF requests >= RequestLimit
       THEN Undo(r, <<"tokens", "budget">>) /\ UNCHANGED requests
       ELSE requests' = requests + 1 /\ Goto(r, "intent") /\ UNCHANGED undo
    /\ UNCHANGED <<connVars, tokenVars, pgVars, budget, planVars, answers, resume,
                   verdict, faultVars>>

\* Every request has an id of its own: an x-request-id that a client sends again is
\* left out.
BeginIntent(r) ==
    /\ pc[r] = "intent"
    /\ intent' = [intent EXCEPT ![r] = "pending"]
    /\ Goto(r, "slot")
    /\ UNCHANGED <<connVars, requests, tokenVars, events, used, budget, planVars, answers,
                   endVars, faultVars>>

-----------------------------------------------------------------------------
(* The dispatch loops.                                                     *)

\* _RESERVE_CONCURRENCY
ReserveSlot(r) ==
    LET c == Candidate(r)
        taken == SlotLimit[c] > 0 /\ slots[c] >= SlotLimit[c]
    IN  /\ pc[r] = "slot"
        /\ rest[r] # <<>>
        /\ IF taken
           THEN Skip(r) /\ UNCHANGED slots
           ELSE /\ slots' = IF SlotLimit[c] > 0 THEN [slots EXCEPT ![c] = @ + 1] ELSE slots
                /\ Goto(r, "quota")
                /\ UNCHANGED <<rest, trial>>
        /\ UNCHANGED <<called, failures, opened, accountVars, kind, answers, endVars,
                       faultVars>>

\* _RESERVE_CONNECTION_REQUESTS: refused, the loop goes on with the slot taken.
ReserveCall(r) ==
    LET c == Candidate(r)
    IN  /\ pc[r] = "quota"
        /\ IF CallQuota[c] > 0 /\ called[c] >= CallQuota[c]
           THEN Skip(r) /\ UNCHANGED called
           ELSE /\ called' = IF CallQuota[c] > 0 THEN [called EXCEPT ![c] = @ + 1] ELSE called
                /\ Goto(r, "call")
                /\ UNCHANGED <<rest, trial>>
        /\ UNCHANGED <<slots, failures, opened, accountVars, kind, answers, endVars,
                       faultVars>>

\* An answer.  A response keeps its slot for good; structured output that is not
\* valid is asked for once more; a stream is only open.
Answered(r) ==
    /\ pc[r] = "call"
    /\ answers' = [answers EXCEPT ![r] = @ + 1]
    /\ IF kind[r] = "stream"
       THEN UNCHANGED <<failures, opened>>
       ELSE RecordSuccess(Candidate(r))
    /\ \/ /\ kind[r] \in {"response", "structured"}
          /\ Goto(r, "settle")
          /\ UNCHANGED <<trial, resume>>
       \/ /\ kind[r] = "structured"
          /\ IF trial[r] = 0
             THEN trial' = [trial EXCEPT ![r] = 1] /\ UNCHANGED <<pc, resume>>
             ELSE ReleaseThen(r, "slot") /\ UNCHANGED trial
       \/ /\ kind[r] = "embedding"
          /\ ReleaseThen(r, "settle")
          /\ UNCHANGED trial
       \/ /\ kind[r] = "stream"
          /\ Goto(r, "opened")
          /\ UNCHANGED <<trial, resume>>
    /\ UNCHANGED <<slots, called, accountVars, kind, rest, verdict, undo, faultVars>>

\* A ProviderDispatchError.  The loop of streams gives the slot back before it records
\* the failure; nothing that reads the one depends on the other.
Failed(r) ==
    /\ pc[r] = "call"
    /\ \E reason \in {"transient", "other"} : RecordFailure(Candidate(r), reason)
    /\ ReleaseThen(r, "slot")
    /\ UNCHANGED <<slots, called, accountVars, planVars, answers, verdict, undo,
                   faultVars>>

\* _RELEASE_CONCURRENCY
ReleaseSlot(r) ==
    LET c == Candidate(r)
    IN  /\ pc[r] = "release"
        /\ slots' = IF SlotLimit[c] > 0 /\ slots[c] > 0
                    THEN [slots EXCEPT ![c] = @ - 1]
                    ELSE slots
        /\ IF resume[r] = "slot"
           THEN Skip(r)
           ELSE Goto(r, resume[r]) /\ UNCHANGED <<rest, trial>>
        /\ UNCHANGED <<called, failures, opened, accountVars, kind, answers, endVars,
                       faultVars>>

\* AllCandidatesFailed: what was answered is paid for, else everything is given back.
Exhausted(r) ==
    /\ pc[r] = "slot"
    /\ rest[r] = <<>>
    /\ IF answers[r] > 0
       THEN Goto(r, "settle") /\ UNCHANGED undo
       ELSE Undo(r, <<"budget", "tokens", "intent">>)
    /\ UNCHANGED <<connVars, accountVars, planVars, answers, resume, verdict, faultVars>>

-----------------------------------------------------------------------------
(* Streams.                                                                *)

\* The server starts the generator of the StreamingResponse.
StartStream(r) ==
    /\ pc[r] = "opened"
    /\ Goto(r, "streaming")
    /\ UNCHANGED <<connVars, accountVars, planVars, answers, endVars, faultVars>>

\* The client left before: a generator that never ran has no clean-up.
LeaveUnstarted(r) ==
    /\ pc[r] = "opened"
    /\ Goto(r, "aborted")
    /\ UNCHANGED <<connVars, accountVars, planVars, answers, endVars, faultVars>>

\* Completion, an upstream error or a client that leaves: the stream is closed
\* and its accounting done in each case.
EndStream(r) ==
    /\ pc[r] = "streaming"
    /\ ReleaseThen(r, "settle")
    /\ \E v \in {"success", "transient", "other"} : verdict' = [verdict EXCEPT ![r] = v]
    /\ UNCHANGED <<connVars, accountVars, planVars, answers, undo, faultVars>>

-----------------------------------------------------------------------------
(* Accounting.                                                             *)

\* _settle_accounting: the events and the intent are one transaction.  The events
\* report what the providers did, whatever was estimated and reserved.
Settle(r) ==
    /\ pc[r] = "settle"
    /\ events' = [events EXCEPT ![r] = answers[r]]
    /\ \E n \in Reports : used' = [used EXCEPT ![r] = n]
    /\ intent' = [intent EXCEPT ![r] = IF @ = "pending" THEN "completed" ELSE @]
    /\ budget' = [budget EXCEPT ![r] = "settled"]
    /\ Goto(r, "reconcile")
    /\ UNCHANGED <<connVars, requests, tokenVars, planVars, answers, endVars, faultVars>>

\* What _RECONCILE_TOKENS and _RELEASE_TOKENS share.
FreeTokens(r) ==
    /\ tokens' = [tokens EXCEPT ![r] = Absent]
    /\ reserved' = IF tokens[r] = Absent THEN reserved ELSE reserved - tokens[r]

\* _RECONCILE_TOKENS: what was reported is counted, whatever was reserved.
ReconcileTokens(r) ==
    /\ pc[r] = "reconcile"
    /\ FreeTokens(r)
    /\ IF tokens[r] = Absent
       THEN UNCHANGED <<actual, excess>>
       ELSE /\ actual' = actual + used[r]
            /\ excess' = IF used[r] > tokens[r] THEN excess + (used[r] - tokens[r]) ELSE excess
    /\ Goto(r, IF kind[r] = "stream" THEN "verdict" ELSE "ended")
    /\ UNCHANGED <<connVars, requests, pgVars, budget, planVars, answers, endVars,
                   faultVars>>

\* A stream tells the circuit at its very end.
ReportStream(r) ==
    /\ pc[r] = "verdict"
    /\ IF verdict[r] = "success"
       THEN RecordSuccess(Candidate(r))
       ELSE RecordFailure(Candidate(r), verdict[r])
    /\ Goto(r, "ended")
    /\ UNCHANGED <<slots, called, accountVars, planVars, answers, endVars, faultVars>>

\* budget.release, release_tokens and fail_intent of the error paths, one by one.
GiveBack(r) ==
    LET what == Head(undo[r])
    IN  /\ pc[r] = "undo"
        /\ undo' = [undo EXCEPT ![r] = Tail(@)]
        /\ Goto(r, IF Tail(undo[r]) = <<>> THEN "ended" ELSE "undo")
        /\ budget' = IF what = "budget" THEN [budget EXCEPT ![r] = "released"] ELSE budget
        /\ IF what = "tokens" THEN FreeTokens(r) ELSE UNCHANGED <<reserved, tokens>>
        /\ intent' = IF what = "intent" /\ intent[r] = "pending"
                     THEN [intent EXCEPT ![r] = "failed"] ELSE intent
        /\ UNCHANGED <<connVars, requests, actual, excess, events, used, planVars, answers,
                       resume, verdict, faultVars>>

-----------------------------------------------------------------------------
(* Faults and the passing of time.                                         *)

Fault == faults < MaxFaults /\ faults' = faults + 1 /\ UNCHANGED losses
Loss == losses < MaxLosses /\ losses' = losses + 1 /\ UNCHANGED faults

\* begin_intent fails: the reservations are given back.
IntentFails(r) ==
    /\ Fault
    /\ pc[r] = "intent"
    /\ Undo(r, <<"budget", "tokens">>)
    /\ UNCHANGED <<connVars, accountVars, planVars, answers, resume, verdict>>

\* An error that is no ProviderDispatchError: only the embedding and the stream
\* loop release the slot, nobody gives anything else back.
Breaks(r) ==
    /\ Fault
    /\ pc[r] \in {"call", "streaming"}
    /\ IF kind[r] \in {"embedding", "stream"}
       THEN ReleaseThen(r, "aborted")
       ELSE Goto(r, "aborted") /\ UNCHANGED resume
    /\ UNCHANGED <<connVars, accountVars, planVars, answers, verdict, undo>>

\* The process dies, or another call of the request fails.
Dies(r) ==
    /\ Fault
    /\ pc[r] \notin Final \union {"idle"}
    /\ Goto(r, "aborted")
    /\ UNCHANGED <<connVars, accountVars, planVars, answers, endVars>>

\* fail_expired_intents; the request that began it may be merely slow.
ExpireIntent(r) ==
    /\ intent[r] = "pending"
    /\ IF pc[r] \in Final THEN UNCHANGED faultVars ELSE Fault
    /\ intent' = [intent EXCEPT ![r] = "failed"]
    /\ UNCHANGED <<connVars, requests, tokenVars, events, used, budget, planVars, pc,
                   answers, endVars>>

CircuitElapses(c) ==
    /\ opened[c] = "recent"
    /\ opened' = [opened EXCEPT ![c] = "elapsed"]
    /\ UNCHANGED <<slots, called, failures, accountVars, planVars, pc, answers, endVars,
                   faultVars>>

\* The TTL of a circuit, at least twice the recovery timeout after its last failure.
CircuitExpires(c) ==
    /\ failures[c] > 0
    /\ opened[c] # "recent"
    /\ ResetCircuit(c)
    /\ UNCHANGED <<slots, called, accountVars, planVars, pc, answers, endVars, faultVars>>

Holders(c) == {r \in Requests : pc[r] \in Holding /\ Candidate(r) = c}

\* The slot counter expires an hour after the last slot was taken, which loses the
\* slots of requests that have lasted as long.
SlotsExpire(c) ==
    /\ slots[c] > 0
    /\ IF Holders(c) = {} THEN UNCHANGED faultVars ELSE Loss
    /\ slots' = [slots EXCEPT ![c] = 0]
    /\ UNCHANGED <<called, failures, opened, accountVars, planVars, pc, answers, endVars>>

\* Redis is flushed or restored empty.
RedisLoss ==
    /\ Loss
    /\ slots' = [c \in Connections |-> 0]
    /\ called' = [c \in Connections |-> 0]
    /\ failures' = [c \in Connections |-> 0]
    /\ opened' = [c \in Connections |-> "no"]
    /\ requests' = 0
    /\ actual' = 0
    /\ reserved' = 0
    /\ tokens' = [r \in Requests |-> Absent]
    /\ UNCHANGED <<excess, pgVars, budget, planVars, pc, answers, endVars>>

-----------------------------------------------------------------------------
Advance(r) ==
    \/ ReserveBudget(r)
    \/ ReserveTokens(r)
    \/ ReserveRequest(r)
    \/ BeginIntent(r)
    \/ ReserveSlot(r)
    \/ ReserveCall(r)
    \/ Answered(r)
    \/ Failed(r)
    \/ ReleaseSlot(r)
    \/ Exhausted(r)
    \/ StartStream(r)
    \/ LeaveUnstarted(r)
    \/ EndStream(r)
    \/ Settle(r)
    \/ ReconcileTokens(r)
    \/ ReportStream(r)
    \/ GiveBack(r)

Disturb(r) == IntentFails(r) \/ Breaks(r) \/ Dies(r) \/ ExpireIntent(r)

Next ==
    \/ \E r \in Requests : Plan(r) \/ Advance(r) \/ Disturb(r)
    \/ \E c \in Connections : CircuitElapses(c) \/ CircuitExpires(c) \/ SlotsExpire(c)
    \/ RedisLoss

Spec == Init /\ [][Next]_vars

-----------------------------------------------------------------------------
(* What request handling promises.                                         *)

Active(c) == {r \in Requests : pc[r] \in Upstream /\ Candidate(r) = c}

\* A connection never has more requests upstream than its concurrency_limit,
\* however many instances dispatch to it and whatever fails.
ActiveWithinLimit ==
    losses = 0 =>
        \A c \in Connections : SlotLimit[c] > 0 => Cardinality(Active(c)) <= SlotLimit[c]

\* What an API key has used or reserved passes its quota by no more than providers
\* have reported above the reservations of their requests: _RECONCILE_TOKENS adds what
\* was reported, unchecked, but however many requests run at once, fall back and retry,
\* together they pass the quota by nothing else.
TokensWithinLimit == losses = 0 => actual + reserved <= TokenLimit + excess

Holds(r) == tokens[r] # Absent

\* The reserved counter is the sum of the reservations, and the actual one what
\* was reported of the requests reconciled: neither counts one twice or loses one.
TokensAreCounted ==
    /\ reserved = SumOf(tokens, {r \in Requests : Holds(r)})
    /\ losses = 0 =>
         actual = SumOf(used, {r \in Requests : pc[r] \in {"verdict", "ended", "aborted"}
                                                 /\ events[r] > 0 /\ ~Holds(r)})

\* While an answer is not paid for, the budget reservation is there to pay it and,
\* unless Redis lost it, a token reservation with the estimate of every answer so far.
AnswersAreCovered ==
    \A r \in Requests :
        answers[r] > events[r] =>
            /\ budget[r] = "held"
            /\ losses = 0 => Holds(r) /\ answers[r] <= tokens[r]

\* A request that ran to its end paid for all its answers, or had none and gave
\* everything back: nothing stays reserved either way.
Paid(r) ==
    /\ answers[r] > 0
    /\ events[r] = answers[r]
    /\ budget[r] = "settled"
    /\ intent[r] \in {"completed", "failed"}
Waived(r) ==
    /\ answers[r] = 0
    /\ events[r] = 0
    /\ budget[r] \in {"none", "released"}
    /\ intent[r] \in {"none", "failed"}
EndedIsBalanced ==
    \A r \in Requests : pc[r] = "ended" => ~Holds(r) /\ (Paid(r) \/ Waived(r))

-----------------------------------------------------------------------------
(* What the documentation says and the code does not do.                   *)

\* "Limit active requests per upstream connection" (TASKS.md): a candidate is refused for its
\* concurrency_limit only while that many requests are at work on the connection.
RefusedOnlyWhenBusy ==
    [][\A r \in Requests :
          LET c == Candidate(r)
          IN  pc[r] = "slot" /\ rest[r] # <<>> /\ rest'[r] # rest[r]
              => Cardinality(Holders(c)) >= SlotLimit[c]]_vars
=============================================================================
