------------------------------ MODULE Streams ------------------------------
(***************************************************************************)
(* One streamed response: the dispatch loop, the adapters' readers of the  *)
(* four upstream formats, ProviderStream, and the generator that relays    *)
(* the events to the client and settles (mixapi/adapters.py, mixapi/app.py).*)
(* What other requests do shows only as refused slots and quotas; Gateway  *)
(* composes many, for which a stream is one step between opening and end.  *)
(*                                                                         *)
(* Upstream sends frames.  A frame carries texts, perhaps counts of tokens,*)
(* perhaps the declared end, perhaps something that cannot be read.  Every *)
(* text counts one token; it is named after its candidate and its place.   *)
(***************************************************************************)
EXTENDS Integers, Sequences, FiniteSetsExt

CONSTANTS
    Routes,      \* the routes that may be planned: sequences of protocols
    Counts,      \* counts of tokens upstream may report
    InputTokens, \* count_tokens of the input
    MaxFrames,   \* bound on the frames of one upstream response
    None,        \* in a frame: no report of usage
    Omitted      \* in a frame: a report of usage without this count

ASSUME StreamsAssumption ==
    /\ Routes \subseteq Seq({"openai", "anthropic", "gemini", "ollama"})
    /\ Counts \subseteq Nat /\ InputTokens \in Nat /\ MaxFrames \in Nat
    /\ None \notin Nat \union {"transient", "other", "invalid", "odd", "left",
                              "completed", "failed"}
    /\ Omitted \notin Nat \union {None}

VARIABLES
    route,    \* the candidates' protocols
    at,       \* the candidate that is tried, then the one selected
    pc,
    slots,    \* of each candidate: slots taken and not given back
    opened,   \* candidates with an open upstream response
    read,     \* the frames read of the present response
    report,   \* the counts the reader keeps
    due,      \* events that are decoded and not yet asked for
    relayed,  \* texts the client was handed
    reason,   \* why the stream was interrupted, or None
    told,     \* what the client was told at the end, or None
    bills,    \* what was settled
    (* history *)
    said,     \* number of texts in the frames read
    closed,   \* whether upstream ended its response
    kept      \* candidates whose slot the dispatch loop leaves taken

upstream == <<read, report, due, said, closed>>
client   == <<relayed, told>>
account  == <<reason, bills>>
vars == <<route, at, pc, slots, opened, upstream, client, account, kept>>

Tokens == Counts \union {None, Omitted}
Nothing == [texts |-> 0, input |-> None, output |-> None, last |-> FALSE, fault |-> None]

\* What a reader meets.  A fault ends it: "invalid" is what the reader catches,
\* "odd" a list element that is no object, whose AttributeError it does not.  An
\* error message of openai or gemini is one more frame with nothing in it.
Invalid == [Nothing EXCEPT !.fault = "invalid"]
Odd == [Nothing EXCEPT !.fault = "odd"]
Final == [Nothing EXCEPT !.last = TRUE]
Filled(texts, count) == [Nothing EXCEPT !.texts = texts, !.input = count, !.output = count]

OpenAIFrames == {Invalid, Odd, Final} \union {Filled(n, c) : n \in 0..1, c \in Tokens}
AnthropicFrames ==
    {Invalid, Final, [Nothing EXCEPT !.texts = 1]}
    \union {[Nothing EXCEPT !.input = c] : c \in Tokens}
    \union {[Nothing EXCEPT !.output = c] : c \in Tokens}
GeminiFrames == {Invalid, Odd} \union {Filled(n, c) : n \in 0..2, c \in Tokens}

\* Only the last frame is looked at for counts.
OllamaFrames ==
    LET Ends(frame) == [frame EXCEPT !.last = TRUE]
    IN {Invalid} \union {Filled(n, None) : n \in 0..1}
       \union {Ends([Filled(n, None) EXCEPT !.fault = "invalid"]) : n \in 0..1}
       \union {Ends(Filled(n, c)) : n \in 0..1, c \in Counts \union {Omitted}}

Frames(protocol) ==
    CASE protocol = "openai" -> OpenAIFrames
      [] protocol = "anthropic" -> AnthropicFrames
      [] protocol = "gemini" -> GeminiFrames
      [] protocol = "ollama" -> OllamaFrames

Texts == [from : Nat, number : Nat]
Text(n) == [from |-> at, number |-> n]
Delta(text) == [type |-> "delta", text |-> text]
Completed == [type |-> "completed"]
Failed(why) == [type |-> "failed", reason |-> why]
Raised == [type |-> "raised"]

Init ==
    /\ route \in Routes
    /\ at = 1
    /\ pc = "try"
    /\ slots = [i \in DOMAIN route |-> 0]
    /\ opened = {}
    /\ read = <<>>
    /\ report = [input |-> None, output |-> None]
    /\ due = <<>>
    /\ relayed = <<>>
    /\ reason = None
    /\ told = None
    /\ bills = <<>>
    /\ said = 0
    /\ closed = FALSE
    /\ kept = {}

Goto(step) == pc' = step

-----------------------------------------------------------------------------
(* Mutated forms.                                                          *)

\* Every reader takes the end of its input for the end of the response.
AtAnyEnd(protocol, saw) == IF saw THEN <<Completed>> ELSE <<Failed("invalid")>>

\* The counts of the last candidate are still there.
KeepReport == UNCHANGED report

\* The slot is given back whether the stream is closed already or not.
CloseAnyhow ==
    /\ opened' = opened \ {at}
    /\ slots' = [slots EXCEPT ![at] = @ - 1]

-----------------------------------------------------------------------------
(* ProviderStream and the readers.                                         *)

\* close, with the wrapper that gives the slot back.
Close ==
    IF at \in opened
    THEN /\ opened' = opened \ {at}
         /\ slots' = [slots EXCEPT ![at] = @ - 1]
    ELSE UNCHANGED <<opened, slots>>

NewReport == report' = [input |-> None, output |-> None]

\* Every reader takes 0 for a count that a report of usage leaves out.
Number(count) == IF count = Omitted THEN 0 ELSE count
Reported(frame) ==
    [input |-> IF frame.input = None THEN report.input ELSE Number(frame.input),
     output |-> IF frame.output = None THEN report.output ELSE Number(frame.output)]

\* What a frame makes a reader yield or raise.
Events(frame) ==
    [n \in 1..frame.texts |-> Delta(Text(said + n))] \o
    CASE frame.fault = "invalid" -> <<Failed("invalid")>>
      [] frame.fault = "odd" -> <<Raised>>
      [] frame.fault = None -> IF frame.last THEN <<Completed>> ELSE <<>>

\* Only the reader of gemini, which knows no last frame, takes the end of its
\* input for the end of the response.
AtEnd(protocol, saw) ==
    IF protocol = "gemini" /\ saw THEN <<Completed>> ELSE <<Failed("invalid")>>

Reading == pc \in {"prime", "relay"} /\ due = <<>>

ReadFrame ==
    /\ Reading
    /\ Len(read) < MaxFrames
    /\ \E frame \in Frames(route[at]) :
         /\ read' = Append(read, frame)
         /\ report' = Reported(frame)
         /\ due' = Events(frame)
         /\ said' = said + frame.texts
    /\ UNCHANGED <<route, at, pc, slots, opened, closed, client, account, kept>>

ReadEnd ==
    /\ Reading
    /\ closed' = TRUE
    /\ due' = AtEnd(route[at], read # <<>>)
    /\ UNCHANGED <<route, at, pc, slots, opened, read, report, said, client, account, kept>>

\* httpx.TimeoutException, httpx.HTTPError.
ReadBreaks ==
    /\ Reading
    /\ due' = <<Failed("transient")>>
    /\ UNCHANGED <<route, at, pc, slots, opened, read, report, said, closed, client, account, kept>>

-----------------------------------------------------------------------------
(* _dispatch_response_stream_with_fallback.                                *)

\* Slot and request quota of the next candidate.  A refused quota leaves the slot
\* taken.
Try ==
    /\ pc = "try"
    /\ at \in DOMAIN route
    /\ \/ /\ at' = at + 1
          /\ UNCHANGED <<pc, slots, kept>>
       \/ /\ at' = at + 1
          /\ slots' = [slots EXCEPT ![at] = @ + 1]
          /\ kept' = kept \union {at}
          /\ UNCHANGED pc
       \/ /\ slots' = [slots EXCEPT ![at] = @ + 1]
          /\ Goto("open")
          /\ UNCHANGED <<at, kept>>
    /\ UNCHANGED <<route, opened, upstream, client, account>>

\* AllCandidatesFailed: what the handler then gives back is Gateway's.
Exhausted ==
    /\ pc = "try"
    /\ at \notin DOMAIN route
    /\ Goto("over")
    /\ UNCHANGED <<route, at, slots, opened, upstream, client, account, kept>>

\* _open_provider_stream.
Open ==
    /\ pc = "open"
    /\ opened' = opened \union {at}
    /\ NewReport
    /\ read' = <<>> /\ due' = <<>> /\ said' = 0 /\ closed' = FALSE
    /\ Goto("prime")
    /\ UNCHANGED <<route, at, slots, client, account, kept>>

GiveSlotBack == slots' = [slots EXCEPT ![at] = @ - 1]

\* No response, or one with an error status; or an exception of another kind, which
\* the loop passes on.
Refused ==
    /\ pc = "open"
    /\ GiveSlotBack
    /\ \/ /\ \E why \in {"transient", "other"} : reason' = why
          /\ Goto("blame")
       \/ /\ Goto("over")
          /\ UNCHANGED reason
    /\ UNCHANGED <<route, at, opened, upstream, client, bills, kept>>

\* The constructor of ProviderStream asks for the first event and keeps it.  When
\* that fails it closes the response, and the loop gives the slot back.
Prime ==
    /\ pc = "prime"
    /\ due # <<>>
    /\ \/ /\ Head(due).type \in {"delta", "completed"}
          /\ Goto("primed")
          /\ UNCHANGED <<slots, opened, reason>>
       \/ /\ Head(due).type = "failed"
          /\ reason' = Head(due).reason
          /\ Close
          /\ Goto("blame")
       \/ /\ Head(due).type = "raised"
          /\ Close
          /\ Goto("over")
          /\ UNCHANGED reason
    /\ UNCHANGED <<route, at, upstream, client, bills, kept>>

\* record_failure of the candidate; the next one is tried.
Blame ==
    /\ pc = "blame"
    /\ at' = at + 1
    /\ reason' = None
    /\ Goto("try")
    /\ UNCHANGED <<route, slots, opened, upstream, client, bills, kept>>

-----------------------------------------------------------------------------
(* _native_response_event_stream.                                          *)

\* The server starts the generator, which yields response.created.
Start ==
    /\ pc = "primed"
    /\ Goto("handed")
    /\ UNCHANGED <<route, at, slots, opened, upstream, client, account, kept>>

\* The client left before: nobody closes the stream, and the response goes with
\* the last reference to it.
LeaveUnstarted ==
    /\ pc = "primed"
    /\ opened' = {}
    /\ kept' = kept \union {at}
    /\ Goto("over")
    /\ UNCHANGED <<route, at, slots, upstream, client, account>>

\* The client took what was yielded.
Proceed ==
    /\ pc = "handed"
    /\ Goto("relay")
    /\ UNCHANGED <<route, at, slots, opened, upstream, client, account, kept>>

\* GeneratorExit ends the loop over the stream, whose iterator closes it if the
\* loop had begun; then the handler closes it.
Leave ==
    /\ pc = "handed"
    /\ reason' = "left"
    /\ IF relayed = <<>> THEN UNCHANGED <<slots, opened>> ELSE Close
    /\ Goto("close")
    /\ UNCHANGED <<route, at, upstream, client, bills, kept>>

CloseAgain ==
    /\ pc = "close"
    /\ Close
    /\ Goto("settle")
    /\ UNCHANGED <<route, at, upstream, client, account, kept>>

\* The next event.  Anything but a text ends the loop, and with it the iterator,
\* which closes the stream.
Relay ==
    /\ pc = "relay"
    /\ due # <<>>
    /\ due' = Tail(due)
    /\ \/ /\ Head(due).type = "delta"
          /\ relayed' = Append(relayed, Head(due).text)
          /\ Goto("handed")
          /\ UNCHANGED <<slots, opened, reason>>
       \/ /\ Head(due).type = "completed"
          /\ Close
          /\ Goto("settle")
          /\ UNCHANGED <<relayed, reason>>
       \/ /\ Head(due).type = "failed"
          /\ reason' = Head(due).reason
          /\ Close
          /\ Goto("settle")
          /\ UNCHANGED relayed
       \/ /\ Head(due).type = "raised"
          /\ Close
          /\ Goto("over")
          /\ UNCHANGED <<relayed, reason>>
    /\ UNCHANGED <<route, at, read, report, said, closed, told, bills, kept>>

\* _settle_accounting with reconcile_tokens: of a completed stream what upstream
\* reported, else what was counted; of an interrupted one what was counted.
Settle ==
    /\ pc = "settle"
    /\ bills' = Append(bills,
         [input |-> IF reason # None \/ report.input = None THEN InputTokens ELSE report.input,
          output |-> IF reason # None \/ report.output = None THEN Len(relayed)
                     ELSE report.output])
    /\ Goto("circuit")
    /\ UNCHANGED <<route, at, slots, opened, upstream, client, reason, kept>>

\* record_success or record_failure, the route decision, the last event.
Report ==
    /\ pc = "circuit"
    /\ told' = CASE reason = None -> "completed"
                 [] reason = "left" -> None
                 [] OTHER -> "failed"
    /\ Goto("over")
    /\ UNCHANGED <<route, at, slots, opened, upstream, relayed, account, kept>>

\* A call of Redis or PostgreSQL raises, between two candidates or at the end.  (The
\* call that gives a slot back does not fail here.)
CallFails ==
    /\ pc \in {"try", "blame", "settle", "circuit"}
    /\ at \in DOMAIN route
    /\ Goto("over")
    /\ \/ UNCHANGED <<slots, kept>>
       \/ /\ pc = "try"
          /\ slots' = [slots EXCEPT ![at] = @ + 1]
          /\ kept' = kept \union {at}
    /\ UNCHANGED <<route, at, opened, upstream, client, account>>

Next ==
    \/ Try \/ Exhausted \/ Open \/ Refused
    \/ ReadFrame \/ ReadEnd \/ ReadBreaks \/ Prime \/ Blame
    \/ Start \/ LeaveUnstarted \/ Proceed \/ Leave \/ CloseAgain \/ Relay
    \/ Settle \/ Report \/ CallFails

Spec == Init /\ [][Next]_vars

-----------------------------------------------------------------------------
(* Properties.                                                             *)

TypeOK ==
    /\ route \in Routes
    /\ at \in 1..(Len(route) + 1)
    /\ pc \in {"try", "open", "prime", "blame", "primed", "handed", "relay", "close",
               "settle", "circuit", "over"}
    /\ slots \in [DOMAIN route -> Nat]
    /\ opened \subseteq DOMAIN route
    /\ Len(read) <= MaxFrames
    /\ report \in [input : Nat \union {None}, output : Nat \union {None}]
    /\ relayed \in Seq(Texts)
    /\ reason \in {None, "transient", "other", "invalid", "left"}
    /\ told \in {None, "completed", "failed"}
    /\ bills \in Seq([input : Nat, output : Nat])
    /\ said \in Nat
    /\ closed \in BOOLEAN
    /\ kept \subseteq DOMAIN route

\* adapters.py and app.py: the client is handed the texts of one candidate, each
\* once, in order and none before it was sent.  It is told that the response is
\* complete only when it has all of them and the candidate declared the end or,
\* of gemini, ended a response with something in it.
RelayIsFaithful ==
    /\ \A n \in DOMAIN relayed : relayed[n] = Text(n)
    /\ Len(relayed) <= said
    /\ told = "completed" =>
         /\ Len(relayed) = said
         /\ \A n \in DOMAIN read : read[n].fault = None
         /\ read # <<>>
         /\ read[Len(read)].last \/ (route[at] = "gemini" /\ closed)

\* What a whole response costs: the count of the last report among its frames, or
\* what was counted if there is none.  A report that leaves the count out makes it
\* 0, and is not taken for usage that "the provider omits".
Latest(count(_), counted) ==
    LET given == {n \in DOMAIN read : count(read[n]) # None}
        last == count(read[Max(given)])
    IN IF given = {} THEN counted ELSE IF last = Omitted THEN 0 ELSE last
InputOf(frame) == frame.input
OutputOf(frame) == frame.output

\* app.py: a request whose client is told how it ended is billed, none is billed
\* twice, and a bill is what the selected candidate itself reported last if its
\* response was whole and it reported usage, else what was counted of the texts the
\* client was handed.  The exception is in Latest: a count left out of a report is
\* billed as 0, where the streaming plan has a local estimate.
BilledAsRelayed ==
    /\ told # None => bills # <<>>
    /\ bills # <<>> =>
         bills = <<IF reason = None
                   THEN [input |-> Latest(InputOf, InputTokens),
                         output |-> Latest(OutputOf, Len(relayed))]
                   ELSE [input |-> InputTokens, output |-> Len(relayed)]>>

\* adapters.py and app.py: no response but that of the candidate at hand is open;
\* before a request is paid for, the next candidate tried or an error raised, it
\* is closed and its slot given back, once, unless the loop skipped the candidate
\* with its slot or the generator was never started.
ClosedBeforePaid ==
    /\ opened \subseteq {at}
    /\ \A i \in DOMAIN route :
         /\ slots[i] \in {0, 1}
         /\ slots[i] = 1 => i \in kept \union {at}
    /\ pc \in {"try", "blame", "settle", "circuit", "over"} =>
         /\ opened = {}
         /\ \A i \in DOMAIN route \ kept : slots[i] = 0
=============================================================================
