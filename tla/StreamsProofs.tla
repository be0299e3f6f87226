--------------------------- MODULE StreamsProofs ---------------------------
(* Theorems about Streams, for any route, any counts and any number of     *)
(* frames: the relay is faithful, the bill is of what was relayed, and     *)
(* upstream is closed before it is paid for.                               *)
EXTENDS Streams, TLAPS

Protocols == {"openai", "anthropic", "gemini", "ollama"}
Faults == {None, "invalid", "odd"}
FrameType == [texts : Nat, input : Nat \union {None, Omitted},
              output : Nat \union {None, Omitted}, last : BOOLEAN, fault : Faults]
Event == [type : {"delta"}, text : Texts] \union [type : {"completed", "raised"}]
         \union [type : {"failed"}, reason : {"invalid", "transient"}]
Steps == {"try", "open", "prime", "blame", "primed", "handed", "relay", "close", "settle",
          "circuit", "over"}

Control ==
    /\ route \in Routes /\ route \in Seq(Protocols)
    /\ at \in 1..(Len(route) + 1)
    /\ pc \in Steps
    /\ slots \in [DOMAIN route -> {0, 1}]
    /\ opened \subseteq DOMAIN route
    /\ kept \subseteq DOMAIN route

Data ==
    /\ read \in Seq(FrameType) /\ Len(read) <= MaxFrames
    /\ report \in [input : Nat \union {None}, output : Nat \union {None}]
    /\ due \in Seq(Event)
    /\ relayed \in Seq(Texts)
    /\ reason \in {None, "transient", "other", "invalid", "left"}
    /\ told \in {None, "completed", "failed"}
    /\ bills \in Seq([input : Nat, output : Nat])
    /\ said \in Nat
    /\ closed \in BOOLEAN

Types == Control /\ Data

LEMMA TypesSuffice == Types => TypeOK
<1> SUFFICES ASSUME Types PROVE TypeOK
  OBVIOUS
<1>1. slots \in [DOMAIN route -> Nat]
  BY DEF Types, Control
<1> QED
  BY <1>1 DEF Types, Control, Data, Steps, TypeOK

LEMMA FramesType ==
    ASSUME NEW p \in Protocols, NEW frame \in Frames(p)
    PROVE  frame \in FrameType
<1> DEFINE Numbers == Nat \union {None, Omitted}
<1>1. Nothing \in FrameType
  BY DEF Nothing, FrameType, Faults
<1>2. Invalid \in FrameType /\ Odd \in FrameType /\ Final \in FrameType
  BY <1>1 DEF Invalid, Odd, Final, FrameType, Faults
<1>3. ASSUME NEW n \in Nat, NEW c \in Numbers PROVE Filled(n, c) \in FrameType
  BY <1>1 DEF Filled, FrameType
<1>4. Tokens \subseteq Numbers /\ Counts \union {Omitted} \subseteq Numbers /\ None \in Numbers
  <2>1. Counts \subseteq Nat
    BY StreamsAssumption
  <2>2. Tokens \subseteq Numbers
    BY <2>1 DEF Tokens
  <2>3. Counts \union {Omitted} \subseteq Numbers
    BY <2>1
  <2> QED
    BY <2>2, <2>3
<1>5. 0..1 \subseteq Nat /\ 0..2 \subseteq Nat
  OBVIOUS
<1>6. CASE p = "openai"
  BY <1>2, <1>3, <1>4, <1>5, <1>6 DEF Frames, OpenAIFrames
<1>7. CASE p = "anthropic"
  <2>1. [Nothing EXCEPT !.texts = 1] \in FrameType
    BY <1>1 DEF FrameType
  <2>2. \A c \in Numbers : /\ [Nothing EXCEPT !.input = c] \in FrameType
                          /\ [Nothing EXCEPT !.output = c] \in FrameType
    BY <1>1 DEF FrameType
  <2> QED
    BY <1>2, <1>4, <1>7, <2>1, <2>2 DEF Frames, AnthropicFrames
<1>8. CASE p = "gemini"
  <2>1. \A n \in 0..2, c \in Tokens : Filled(n, c) \in FrameType
    BY <1>3, <1>4, <1>5
  <2>2. Frames(p) = GeminiFrames
    BY <1>8 DEF Frames
  <2> QED
    BY <1>2, <2>1, <2>2 DEF GeminiFrames
<1>9. CASE p = "ollama"
  <2>1. \A f \in FrameType : /\ [f EXCEPT !.last = TRUE] \in FrameType
                            /\ [f EXCEPT !.fault = "invalid"] \in FrameType
    BY DEF FrameType, Faults
  <2>2. Frames(p) = OllamaFrames
    BY <1>9 DEF Frames
  <2>3. \A n \in 0..1, c \in Counts \union {Omitted} : [Filled(n, c) EXCEPT !.last = TRUE] \in FrameType
    BY <1>3, <1>4, <1>5, <2>1
  <2>4. \A n \in 0..1 :
          [[Filled(n, None) EXCEPT !.fault = "invalid"] EXCEPT !.last = TRUE] \in FrameType
    BY <1>3, <1>4, <1>5, <2>1
  <2>5. \A n \in 0..1 : Filled(n, None) \in FrameType
    BY <1>3, <1>4, <1>5
  <2> QED
    BY <1>2, <2>2, <2>3, <2>4, <2>5 DEF OllamaFrames
<1> QED
  BY <1>6, <1>7, <1>8, <1>9 DEF Protocols

LEMMA EventsOf ==
    ASSUME at \in Nat, said \in Nat, NEW frame \in FrameType
    PROVE  /\ Events(frame) \in Seq(Event)
           /\ \A n \in 1..frame.texts : Events(frame)[n] = Delta(Text(said + n))
           /\ \/ /\ frame.fault = None /\ ~frame.last
                 /\ Len(Events(frame)) = frame.texts
              \/ /\ frame.fault = None /\ frame.last
                 /\ Len(Events(frame)) = frame.texts + 1
                 /\ Events(frame)[frame.texts + 1] = Completed
              \/ /\ Len(Events(frame)) = frame.texts + 1
                 /\ Events(frame)[frame.texts + 1].type \in {"failed", "raised"}
<1> DEFINE deltas == [n \in 1..frame.texts |-> Delta(Text(said + n))]
<1>1. frame.texts \in Nat /\ frame.fault \in Faults
  BY DEF FrameType
<1>2. \A n \in 1..frame.texts : Delta(Text(said + n)) \in Event
  BY <1>1 DEF Delta, Text, Texts, Event
<1>3. deltas \in Seq(Event) /\ Len(deltas) = frame.texts
  BY <1>1, <1>2
<1>4. /\ Failed("invalid") \in Event /\ Failed("invalid").type = "failed"
      /\ Raised \in Event /\ Raised.type = "raised"
      /\ Completed \in Event
  BY DEF Failed, Raised, Completed, Event
<1>5. CASE frame.fault = "invalid"
  <2>1. Events(frame) = deltas \o <<Failed("invalid")>>
    BY <1>5, StreamsAssumption DEF Events
  <2> QED
    BY <1>1, <1>3, <1>4, <2>1
<1>6. CASE frame.fault = "odd"
  <2>1. Events(frame) = deltas \o <<Raised>>
    BY <1>6, StreamsAssumption DEF Events
  <2> QED
    BY <1>1, <1>3, <1>4, <2>1
<1>7. CASE frame.fault = None
  <2>1. Events(frame) = deltas \o (IF frame.last THEN <<Completed>> ELSE <<>>)
    BY <1>7, StreamsAssumption DEF Events
  <2>2. CASE frame.last
    BY <1>1, <1>3, <1>4, <1>7, <2>1, <2>2
  <2>3. CASE ~frame.last
    BY <1>1, <1>3, <1>4, <1>7, <2>1, <2>3
  <2> QED
    BY <2>2, <2>3
<1> QED
  BY <1>1, <1>5, <1>6, <1>7 DEF Faults

-----------------------------------------------------------------------------
(* Slots: whose slot is taken and whose response open, by the next step.   *)

Relaying == {"prime", "primed", "handed", "relay"}
Held == slots[at] = 1 /\ opened = {at}
Free == opened = {} /\ \A i \in DOMAIN route \ kept : slots[i] = 0

Places ==
    /\ pc \notin {"try", "over"} => at \in DOMAIN route
    /\ pc # "over" => kept \subseteq 1..(at - 1)
    /\ \A i \in DOMAIN route : slots[i] = 1 => i \in kept \union {at}
    /\ pc \in {"try", "blame", "settle", "circuit", "over"} => Free
    /\ pc = "open" => slots[at] = 1 /\ opened = {}
    /\ pc \in Relaying => Held
    /\ pc = "close" => Held \/ Free

LEMMA InitControl == Init => Control /\ Places
<1> SUFFICES ASSUME Init PROVE Control /\ Places
  OBVIOUS
<1>1. route \in Routes /\ route \in Seq(Protocols)
  BY StreamsAssumption DEF Init, Protocols
<1>2. 1 \in 1..(Len(route) + 1)
  BY <1>1
<1>3. slots = [i \in DOMAIN route |-> 0] /\ opened = {} /\ kept = {} /\ at = 1 /\ pc = "try"
  BY DEF Init
<1> QED
  BY <1>1, <1>2, <1>3 DEF Control, Steps, Places, Free, Relaying

LEMMA ControlPreserved == Control /\ Places /\ [Next]_vars => Control' /\ Places'
<1> SUFFICES ASSUME Control, Places, [Next]_vars PROVE Control' /\ Places'
  OBVIOUS
<1> USE DEF Control, Places, Held, Free, Relaying, Steps, Goto
<1>0. Len(route) \in Nat /\ DOMAIN route = 1..Len(route)
  OBVIOUS
<1>1. CASE Try
  BY <1>0, <1>1 DEF Try
<1>2. CASE Exhausted
  BY <1>0, <1>2 DEF Exhausted
<1>3. CASE Open
  BY <1>0, <1>3 DEF Open
<1>4. CASE Refused
  BY <1>0, <1>4 DEF Refused, GiveSlotBack
<1>5. CASE ReadFrame
  BY <1>0, <1>5 DEF ReadFrame
<1>6. CASE ReadEnd
  BY <1>0, <1>6 DEF ReadEnd
<1>7. CASE ReadBreaks
  BY <1>0, <1>7 DEF ReadBreaks
<1>8. CASE Prime
  BY <1>0, <1>8 DEF Prime, Close
<1>9. CASE Blame
  BY <1>0, <1>9 DEF Blame
<1>10. CASE Start
  BY <1>0, <1>10 DEF Start
<1>11. CASE LeaveUnstarted
  BY <1>0, <1>11 DEF LeaveUnstarted
<1>12. CASE Proceed
  BY <1>0, <1>12 DEF Proceed
<1>13. CASE Leave
  BY <1>0, <1>13 DEF Leave, Close
<1>14. CASE CloseAgain
  BY <1>0, <1>14 DEF CloseAgain, Close
<1>15. CASE Relay
  <2>1. pc = "relay" /\ UNCHANGED <<route, at, kept>>
    BY <1>15 DEF Relay
  <2>2. \/ pc' = "handed" /\ UNCHANGED <<slots, opened>>
        \/ pc' \in {"settle", "over"} /\ Close
    BY <1>15 DEF Relay
  <2>3. CASE pc' = "handed" /\ UNCHANGED <<slots, opened>>
    BY <1>0, <2>1, <2>3
  <2>4. CASE pc' \in {"settle", "over"} /\ Close
    BY <1>0, <2>1, <2>4 DEF Close
  <2> QED
    BY <2>2, <2>3, <2>4
<1>16. CASE Settle
  BY <1>0, <1>16 DEF Settle
<1>17. CASE Report
  BY <1>0, <1>17 DEF Report
<1>18. CASE CallFails
  BY <1>0, <1>18 DEF CallFails
<1>19. CASE UNCHANGED vars
  BY <1>19 DEF vars
<1> QED
  BY <1>1, <1>2, <1>3, <1>4, <1>5, <1>6, <1>7, <1>8, <1>9, <1>10, <1>11, <1>12, <1>13, <1>14,
     <1>15, <1>16, <1>17, <1>18, <1>19 DEF Next

LEMMA ControlHolds == Spec => [](Control /\ Places)
  BY InitControl, ControlPreserved, PTL DEF Spec

LEMMA InitData == Init => Data
<1> SUFFICES ASSUME Init PROVE Data
  OBVIOUS
<1>1. MaxFrames \in Nat
  BY StreamsAssumption
<1>2. <<>> \in Seq(FrameType) /\ <<>> \in Seq(Event) /\ <<>> \in Seq(Texts)
      /\ <<>> \in Seq([input : Nat, output : Nat]) /\ Len(<<>>) = 0
  OBVIOUS
<1>3. read = <<>> /\ due = <<>> /\ relayed = <<>> /\ bills = <<>>
  BY DEF Init
<1>4. /\ report = [input |-> None, output |-> None]
      /\ reason = None /\ told = None /\ said = 0 /\ closed = FALSE
  BY DEF Init
<1>5. read \in Seq(FrameType) /\ Len(read) <= MaxFrames
  BY <1>1, <1>2, <1>3
<1>6. due \in Seq(Event) /\ relayed \in Seq(Texts) /\ bills \in Seq([input : Nat, output : Nat])
  BY <1>2, <1>3
<1>7. report \in [input : Nat \union {None}, output : Nat \union {None}]
  BY <1>4
<1> QED
  BY <1>4, <1>5, <1>6, <1>7 DEF Data

LEMMA DataPreserved == Control /\ Places /\ Data /\ [Next]_vars => Data'
<1> SUFFICES ASSUME Control, Places, Data, [Next]_vars PROVE Data'
  OBVIOUS
<1> USE DEF Data, upstream, client, account
<1>0. MaxFrames \in Nat /\ InputTokens \in Nat
  BY StreamsAssumption
<1>1. CASE Try
  BY <1>0, <1>1 DEF Try
<1>2. CASE Exhausted
  BY <1>0, <1>2 DEF Exhausted
<1>3. CASE Open
  <2>1. <<>> \in Seq(FrameType) /\ <<>> \in Seq(Event) /\ Len(<<>>) = 0
    OBVIOUS
  <2>2. read' = <<>> /\ due' = <<>> /\ said' = 0 /\ closed' = FALSE
    BY <1>3 DEF Open
  <2>3. report' = [input |-> None, output |-> None] /\ UNCHANGED <<relayed, told, reason, bills>>
    BY <1>3 DEF Open, NewReport
  <2>4. read' \in Seq(FrameType) /\ Len(read') <= MaxFrames
    BY <1>0, <2>1, <2>2
  <2>5. due' \in Seq(Event)
    BY <2>1, <2>2
  <2>6. report' \in [input : Nat \union {None}, output : Nat \union {None}]
    BY <2>3
  <2> QED
    BY <2>2, <2>3, <2>4, <2>5, <2>6
<1>4. CASE Refused
  BY <1>0, <1>4 DEF Refused
<1>5. CASE ReadFrame
  <2>1. PICK frame \in Frames(route[at]) :
          /\ read' = Append(read, frame) /\ report' = Reported(frame)
          /\ due' = Events(frame) /\ said' = said + frame.texts
    BY <1>5 DEF ReadFrame
  <2>2. pc \in {"prime", "relay"} /\ Len(read) < MaxFrames
        /\ UNCHANGED <<relayed, told, reason, bills, closed>>
    BY <1>5 DEF ReadFrame, Reading
  <2>3. at \in DOMAIN route /\ at \in Nat /\ route[at] \in Protocols
    BY <2>2 DEF Control, Places
  <2>4. frame \in FrameType
    BY <2>3, FramesType
  <2>5. Events(frame) \in Seq(Event)
    BY <2>3, <2>4, EventsOf
  <2>6. read' \in Seq(FrameType) /\ Len(read') <= MaxFrames
    BY <1>0, <2>1, <2>2, <2>4
  <2>7. report' \in [input : Nat \union {None}, output : Nat \union {None}]
    BY <2>1, <2>4 DEF Reported, Number, FrameType
  <2>8. said' \in Nat
    BY <2>1, <2>4 DEF FrameType
  <2> QED
    BY <2>1, <2>2, <2>5, <2>6, <2>7, <2>8
<1>6. CASE ReadEnd
  <2>1. due' = AtEnd(route[at], read # <<>>) /\ closed' = TRUE
        /\ UNCHANGED <<read, report, said, relayed, told, reason, bills>>
    BY <1>6 DEF ReadEnd
  <2>2. <<Completed>> \in Seq(Event) /\ <<Failed("invalid")>> \in Seq(Event)
    BY DEF Completed, Failed, Event
  <2>3. due' \in Seq(Event)
    BY <2>1, <2>2 DEF AtEnd
  <2> QED
    BY <2>1, <2>3
<1>7. CASE ReadBreaks
  <2>1. due' = <<Failed("transient")>>
        /\ UNCHANGED <<read, report, said, closed, relayed, told, reason, bills>>
    BY <1>7 DEF ReadBreaks
  <2>2. <<Failed("transient")>> \in Seq(Event)
    BY DEF Failed, Event
  <2> QED
    BY <2>1, <2>2
<1>8. CASE Prime
  <2>1. due # <<>> /\ UNCHANGED <<upstream, client, bills>>
    BY <1>8 DEF Prime
  <2>2. Head(due) \in Event
    BY <2>1
  <2>3. reason' = reason \/ (Head(due).type = "failed" /\ reason' = Head(due).reason)
    BY <1>8 DEF Prime
  <2>4. Head(due).type = "failed" => Head(due).reason \in {"invalid", "transient"}
    BY <2>2 DEF Event
  <2> QED
    BY <2>1, <2>3, <2>4
<1>9. CASE Blame
  BY <1>0, <1>9 DEF Blame
<1>10. CASE Start
  BY <1>0, <1>10 DEF Start
<1>11. CASE LeaveUnstarted
  BY <1>0, <1>11 DEF LeaveUnstarted
<1>12. CASE Proceed
  BY <1>0, <1>12 DEF Proceed
<1>13. CASE Leave
  BY <1>0, <1>13 DEF Leave
<1>14. CASE CloseAgain
  BY <1>0, <1>14 DEF CloseAgain
<1>15. CASE Relay
  <2>1. due # <<>> /\ due' = Tail(due) /\ UNCHANGED <<read, report, said, closed, told, bills>>
    BY <1>15 DEF Relay
  <2>2. Head(due) \in Event /\ due' \in Seq(Event)
    BY <2>1
  <2>3. reason' = reason \/ (Head(due).type = "failed" /\ reason' = Head(due).reason)
    BY <1>15 DEF Relay
  <2>4. Head(due).type = "failed" => Head(due).reason \in {"invalid", "transient"}
    BY <2>2 DEF Event
  <2>5. \/ relayed' = relayed
        \/ Head(due).type = "delta" /\ relayed' = Append(relayed, Head(due).text)
    BY <1>15 DEF Relay
  <2>6. Head(due).type = "delta" => Head(due).text \in Texts
    BY <2>2 DEF Event
  <2>7. relayed' \in Seq(Texts)
    <3>1. relayed' = relayed \/ \E text \in Texts : relayed' = Append(relayed, text)
      BY <2>5, <2>6
    <3>2. CASE relayed' = relayed
      BY <3>2
    <3>3. ASSUME NEW text \in Texts, relayed' = Append(relayed, text) PROVE relayed' \in Seq(Texts)
      <4> HIDE DEF Data
      <4>1. relayed \in Seq(Texts)
        BY DEF Data
      <4>2. Append(relayed, text) \in Seq(Texts)
        BY <4>1
      <4> QED
        BY <3>3, <4>2
    <3> QED
      BY <3>1, <3>2, <3>3
  <2>8. reason' \in {None, "transient", "other", "invalid", "left"}
    BY <2>3, <2>4
  <2> QED
    BY <2>1, <2>2, <2>7, <2>8
<1>16. CASE Settle
  BY <1>0, <1>16 DEF Settle
<1>17. CASE Report
  BY <1>0, <1>17 DEF Report
<1>18. CASE CallFails
  BY <1>0, <1>18 DEF CallFails
<1>19. CASE UNCHANGED vars
  BY <1>19 DEF vars
<1> QED
  BY <1>1, <1>2, <1>3, <1>4, <1>5, <1>6, <1>7, <1>8, <1>9, <1>10, <1>11, <1>12, <1>13, <1>14,
     <1>15, <1>16, <1>17, <1>18, <1>19 DEF Next

LEMMA TypesHold == Spec => []Types
  BY InitControl, ControlPreserved, InitData, DataPreserved, PTL DEF Spec, Types

\* Every variable keeps its type, for any frames upstream may send.
THEOREM TypeCorrect == Spec => []TypeOK
  BY TypesHold, TypesSuffice, PTL

\* ProviderStream and the two loops of app.py: before a request is paid for, its
\* next candidate is tried or it ends, upstream is closed and its slot given back
\* once, whoever closed it and however often.
THEOREM ClosedFirst == Spec => []ClosedBeforePaid
<1>1. Types /\ Places => ClosedBeforePaid
  <2> SUFFICES ASSUME Types, Places PROVE ClosedBeforePaid
    OBVIOUS
  <2>1. pc \in {"try", "open", "blame", "settle", "circuit", "over", "close"} \union Relaying
    BY DEF Types, Control, Steps, Relaying
  <2>2. opened \subseteq {at}
    BY <2>1 DEF Places, Free, Held
  <2>3. \A i \in DOMAIN route : slots[i] \in {0, 1} /\ (slots[i] = 1 => i \in kept \union {at})
    BY DEF Types, Control, Places
  <2> QED
    BY <2>2, <2>3 DEF ClosedBeforePaid, Places, Free
<1> QED
  BY <1>1, TypesHold, ControlHolds, PTL

-----------------------------------------------------------------------------
(* Relay: what is due continues what was relayed.                          *)

Faultless == \A n \in DOMAIN read : read[n].fault = None
Whole ==
    /\ read # <<>> /\ Faultless
    /\ read[Len(read)].last \/ (route[at] = "gemini" /\ closed)

Pending == said - Len(relayed)
Queue ==
    /\ Len(relayed) <= said /\ Pending <= Len(due)
    /\ \A n \in 1..Pending : due[n] = Delta(Text(Len(relayed) + n))
    /\ \/ Len(due) = Pending /\ Faultless
       \/ Len(due) = Pending + 1 /\ due[Pending + 1] = Completed /\ Whole
       \/ Len(due) = Pending + 1 /\ due[Pending + 1].type \in {"failed", "raised"}

Delivered == Len(relayed) = said /\ Whole

Relays ==
    /\ \A n \in DOMAIN relayed : relayed[n] = Text(n)
    /\ Len(relayed) <= said
    /\ pc \in {"try", "open", "prime", "blame", "primed"} => relayed = <<>>
    /\ pc \in Relaying => Queue
    /\ pc \in {"try", "open"} \union Relaying => reason = None
    /\ pc \in {"blame", "close"} => reason # None
    /\ pc \in {"settle", "circuit"} /\ reason = None => Delivered
    /\ told # None => pc = "over"
    /\ told = "completed" => Delivered

LEMMA InitRelays == Init => Relays
<1> SUFFICES ASSUME Init PROVE Relays
  OBVIOUS
<1>1. relayed = <<>> /\ told = None /\ reason = None /\ said = 0 /\ pc = "try" /\ Len(relayed) = 0
  BY DEF Init
<1> QED
  BY <1>1, StreamsAssumption DEF Relays, Relaying

\* Nothing is due: all that was sent is relayed, and nothing was wrong with it.
LEMMA QueueEmpty ==
    ASSUME Data, Queue, due = <<>>
    PROVE  Len(relayed) = said /\ Pending = 0 /\ Faultless
<1>1. Len(due) = 0 /\ Len(relayed) \in Nat /\ said \in Nat
  BY DEF Data
<1> QED
  BY <1>1 DEF Queue, Pending

LEMMA ReadFrameQueue ==
    ASSUME Control, Places, Data, Queue, ReadFrame
    PROVE  Queue'
<1>1. PICK frame \in Frames(route[at]) :
        /\ read' = Append(read, frame) /\ due' = Events(frame) /\ said' = said + frame.texts
  BY DEF ReadFrame
<1>2. due = <<>> /\ pc \in {"prime", "relay"} /\ UNCHANGED <<relayed, route, at, closed>>
  BY DEF ReadFrame, Reading, client
<1>3. at \in DOMAIN route /\ at \in Nat /\ route[at] \in Protocols
  BY <1>2 DEF Control, Places
<1>4. frame \in FrameType /\ frame.texts \in Nat
  BY <1>3, FramesType DEF FrameType
<1>5. Len(relayed) = said /\ Faultless
  BY <1>2, QueueEmpty
<1>6. said \in Nat /\ read \in Seq(FrameType)
  BY DEF Data
<1>7. Pending' = frame.texts /\ Len(relayed') <= said'
  BY <1>1, <1>2, <1>4, <1>5, <1>6 DEF Pending
<1>8. \A n \in 1..frame.texts : due'[n] = (Delta(Text(Len(relayed) + n)))'
  <2>1. \A n \in 1..frame.texts : due'[n] = Delta(Text(said + n))
    BY <1>1, <1>3, <1>4, <1>6, EventsOf
  <2> QED
    BY <1>2, <1>5, <2>1 DEF Delta, Text
<1>9. /\ read' # <<>> /\ Len(read') = Len(read) + 1 /\ read'[Len(read')] = frame
      /\ DOMAIN read' = DOMAIN read \union {Len(read')}
      /\ \A n \in DOMAIN read : read'[n] = read[n]
  BY <1>1, <1>4, <1>6
<1>10. frame.fault = None => Faultless'
  BY <1>5, <1>9 DEF Faultless
<1>11. \/ Len(due') = frame.texts /\ Faultless'
       \/ /\ Len(due') = frame.texts + 1 /\ due'[frame.texts + 1] = Completed
          /\ Whole'
       \/ Len(due') = frame.texts + 1 /\ due'[frame.texts + 1].type \in {"failed", "raised"}
  <2>1. CASE frame.fault = None /\ ~frame.last /\ Len(Events(frame)) = frame.texts
    BY <1>1, <1>10, <2>1
  <2>2. CASE /\ frame.fault = None /\ frame.last
             /\ Len(Events(frame)) = frame.texts + 1
             /\ Events(frame)[frame.texts + 1] = Completed
    BY <1>1, <1>9, <1>10, <2>2 DEF Whole
  <2>3. CASE /\ Len(Events(frame)) = frame.texts + 1
             /\ Events(frame)[frame.texts + 1].type \in {"failed", "raised"}
    BY <1>1, <2>3
  <2> QED
    BY <1>3, <1>4, <1>6, <2>1, <2>2, <2>3, EventsOf
<1>12. frame.texts <= Len(due')
  BY <1>4, <1>11
<1> QED
  BY <1>7, <1>8, <1>11, <1>12 DEF Queue, Completed

LEMMA ReadEndQueue ==
    ASSUME Data, Queue, ReadEnd \/ ReadBreaks
    PROVE  Queue'
<1>1. due = <<>> /\ UNCHANGED <<relayed, said, read, route, at>>
  BY DEF ReadEnd, ReadBreaks, Reading, client
<1>2. Pending' = 0 /\ Len(relayed') <= said' /\ Faultless'
  <2>1. Len(relayed) = said /\ Pending = 0 /\ Faultless /\ said \in Nat
    BY <1>1, QueueEmpty DEF Data
  <2> QED
    BY <1>1, <2>1 DEF Pending, Faultless
<1>3. \/ due' = <<Completed>> /\ Whole'
      \/ \E why \in {"invalid", "transient"} : due' = <<Failed(why)>>
  <2>1. CASE ReadEnd
    BY <1>1, <1>2, <2>1 DEF ReadEnd, AtEnd, Whole
  <2>2. CASE ReadBreaks
    BY <2>2 DEF ReadBreaks
  <2> QED
    BY <2>1, <2>2
<1>4. CASE due' = <<Completed>> /\ Whole'
  <2>1. Len(due') = 1 /\ due'[1] = Completed
    BY <1>4
  <2> QED
    BY <1>2, <1>4, <2>1 DEF Queue, Completed
<1>5. ASSUME NEW why \in {"invalid", "transient"}, due' = <<Failed(why)>> PROVE Queue'
  <2>1. Len(due') = 1 /\ due'[1].type = "failed"
    BY <1>5 DEF Failed
  <2> QED
    BY <1>2, <2>1 DEF Queue
<1> QED
  BY <1>3, <1>4, <1>5

LEMMA RelayDelta ==
    ASSUME Data, Queue, Relay, Head(due).type = "delta"
    PROVE  /\ relayed' = Append(relayed, Text(Len(relayed) + 1))
           /\ Queue'
<1>1. due # <<>> /\ due' = Tail(due) /\ UNCHANGED <<read, said, closed, route, at>>
  BY DEF Relay
<1>2. relayed' = Append(relayed, Head(due).text)
  BY DEF Relay
<1>3. said \in Nat /\ due \in Seq(Event) /\ relayed \in Seq(Texts) /\ Head(due) = due[1]
      /\ Len(due) >= 1 /\ Len(relayed) \in Nat
  BY <1>1 DEF Data
<1>4. Pending > 0
  <2>1. CASE Pending = 0
    BY <1>3, <2>1 DEF Queue, Completed
  <2> QED
    BY <1>3, <2>1 DEF Queue, Pending
<1>5. due[1] = Delta(Text(Len(relayed) + 1))
  BY <1>3, <1>4 DEF Queue, Pending
<1>6. relayed' = Append(relayed, Text(Len(relayed) + 1)) /\ Len(relayed') = Len(relayed) + 1
  BY <1>2, <1>3, <1>5 DEF Delta
<1>7. /\ Pending' = Pending - 1 /\ Len(due') = Len(due) - 1
      /\ \A n \in 1..Len(due') : due'[n] = due[n + 1]
  BY <1>1, <1>3, <1>6 DEF Pending
<1>8. Pending \in Nat /\ Len(due) \in Nat
  BY <1>3, <1>4 DEF Pending
<1>9. \A n \in 1..Pending' : due'[n] = (Delta(Text(Len(relayed) + n)))'
  <2> SUFFICES ASSUME NEW n \in 1..(Pending - 1) PROVE due'[n] = (Delta(Text(Len(relayed) + n)))'
    BY <1>7
  <2>1. n + 1 \in 1..Pending /\ n \in 1..Len(due')
    BY <1>7, <1>8 DEF Queue
  <2>2. due'[n] = Delta(Text(Len(relayed) + (n + 1)))
    BY <1>7, <2>1 DEF Queue
  <2>3. Len(relayed') + n = Len(relayed) + (n + 1)
    BY <1>3, <1>6
  <2> QED
    BY <1>1, <2>2, <2>3 DEF Delta, Text
<1>10. \/ Len(due') = Pending' /\ Faultless'
       \/ Len(due') = Pending' + 1 /\ due'[Pending' + 1] = Completed /\ Whole'
       \/ Len(due') = Pending' + 1 /\ due'[Pending' + 1].type \in {"failed", "raised"}
  <2>1. (Faultless => Faultless') /\ (Whole => Whole')
    BY <1>1 DEF Faultless, Whole
  <2>2. Len(due) = Pending + 1 => due'[Pending' + 1] = due[Pending + 1]
    BY <1>4, <1>7, <1>8
  <2> QED
    BY <1>7, <1>8, <2>1, <2>2 DEF Queue
<1>11. Len(relayed') <= said'
  BY <1>1, <1>3, <1>4, <1>6 DEF Pending
<1>12. Pending' <= Len(due')
  BY <1>7, <1>8 DEF Queue
<1> QED
  BY <1>6, <1>9, <1>10, <1>11, <1>12 DEF Queue, Completed

LEMMA RelayCompleted ==
    ASSUME Data, Queue, Relay, Head(due).type = "completed"
    PROVE  Delivered'
<1>1. due # <<>> /\ UNCHANGED <<read, said, closed, route, at, relayed>>
  BY DEF Relay
<1>2. said \in Nat /\ due \in Seq(Event) /\ Head(due) = due[1] /\ Len(due) >= 1
      /\ Len(relayed) \in Nat
  BY <1>1 DEF Data
<1>3. Pending = 0
  <2>1. CASE Pending > 0
    <3>1. 1 \in 1..Pending
      BY <1>2, <2>1 DEF Pending
    <3>2. due[1] = Delta(Text(Len(relayed) + 1))
      BY <3>1 DEF Queue
    <3> QED
      BY <1>2, <3>2 DEF Delta
  <2> QED
    BY <1>2, <2>1 DEF Queue, Pending
<1>4. Whole
  BY <1>2, <1>3 DEF Queue
<1> QED
  BY <1>1, <1>2, <1>3, <1>4 DEF Delivered, Pending, Whole, Faultless

LEMMA RelaysPreserved == Control /\ Places /\ Data /\ Relays /\ [Next]_vars => Relays'
<1> SUFFICES ASSUME Control, Places, Data, Relays, [Next]_vars PROVE Relays'
  OBVIOUS
<1>0. /\ pc \in {"try", "open"} \union Relaying => reason = None
      /\ pc \in {"blame", "close"} => reason # None
      /\ pc \in {"settle", "circuit"} /\ reason = None => Delivered
      /\ pc # "over" => told = None
      /\ pc \in {"try", "open", "prime", "blame", "primed"} => relayed = <<>>
      /\ pc \in Relaying => Queue
      /\ \A n \in DOMAIN relayed : relayed[n] = Text(n)
      /\ Len(relayed) <= said /\ Len(relayed) \in Nat /\ said \in Nat
  BY DEF Relays, Data
<1>00. None \notin {"transient", "other", "invalid", "left", "completed", "failed"}
  BY StreamsAssumption
<1>1. CASE Try
  <2>1. pc = "try" /\ pc' \in {"try", "open"} /\ UNCHANGED <<upstream, client, account>>
    BY <1>1 DEF Try, Goto
  <2> QED
    BY <1>0, <1>00, <2>1 DEF Relays, Relaying, upstream, client, account
<1>2. CASE Exhausted
  BY <1>0, <1>00, <1>2 DEF Exhausted, Goto, Relays, Relaying, Text, upstream, client, account
<1>3. CASE Open
  <2>1. /\ pc = "open" /\ pc' = "prime" /\ read' = <<>> /\ due' = <<>> /\ said' = 0
        /\ UNCHANGED <<relayed, told, reason>>
    BY <1>3 DEF Open, Goto, client, account
  <2>2. relayed = <<>> /\ Len(relayed) = 0 /\ Len(due') = 0
    BY <1>0, <2>1
  <2>3. Queue'
    <3>0. Len(relayed') = 0 /\ said' = 0
      BY <2>1, <2>2
    <3>1. Pending' = 0 /\ Len(relayed') <= said'
      BY <3>0 DEF Pending
    <3>2. Faultless'
      BY <2>1 DEF Faultless
    <3> QED
      BY <2>2, <3>1, <3>2 DEF Queue
  <2> QED
    BY <1>0, <1>00, <2>1, <2>2, <2>3 DEF Relays, Relaying
<1>4. CASE Refused
  <2>1. /\ pc = "open" /\ UNCHANGED <<at, upstream, client, bills>>
        /\ \/ pc' = "blame" /\ reason' \in {"transient", "other"}
           \/ pc' = "over" /\ reason' = reason
    BY <1>4 DEF Refused, Goto
  <2>2. CASE pc' = "blame" /\ reason' \in {"transient", "other"}
    BY <1>0, <1>00, <2>1, <2>2 DEF Relays, Relaying, upstream, client
  <2>3. CASE pc' = "over"
    BY <1>0, <1>00, <2>1, <2>3 DEF Relays, Relaying, upstream, client
  <2> QED
    BY <2>1, <2>2, <2>3
<1>5. CASE ReadFrame
  <2>1. /\ pc \in {"prime", "relay"} /\ due = <<>> /\ UNCHANGED <<at, pc, relayed, told, reason>>
    BY <1>5 DEF ReadFrame, Reading, client, account
  <2>2. Queue'
    BY <1>0, <1>5, <2>1, ReadFrameQueue DEF Relaying
  <2>3. Len(relayed') <= said'
    BY <2>2 DEF Queue
  <2> QED
    BY <1>0, <1>00, <2>1, <2>2, <2>3 DEF Relays, Relaying, Text
<1>6. CASE ReadEnd
  <2>1. /\ pc \in {"prime", "relay"}
        /\ UNCHANGED <<at, pc, said, relayed, told, reason>>
    BY <1>6 DEF ReadEnd, Reading, client, account
  <2>2. Queue'
    BY <1>0, <1>6, <2>1, ReadEndQueue DEF Relaying
  <2> QED
    BY <1>0, <1>00, <2>1, <2>2 DEF Relays, Relaying, Text
<1>7. CASE ReadBreaks
  <2>1. /\ pc \in {"prime", "relay"}
        /\ UNCHANGED <<at, pc, said, relayed, told, reason>>
    BY <1>7 DEF ReadBreaks, Reading, client, account
  <2>2. Queue'
    BY <1>0, <1>7, <2>1, ReadEndQueue DEF Relaying
  <2> QED
    BY <1>0, <1>00, <2>1, <2>2 DEF Relays, Relaying, Text
<1>8. CASE Prime
  <2>1. pc = "prime" /\ due # <<>> /\ UNCHANGED <<route, at, upstream, client>>
    BY <1>8 DEF Prime
  <2>2. \/ pc' = "primed" /\ reason' = reason
        \/ pc' = "blame" /\ Head(due).type = "failed" /\ reason' = Head(due).reason
        \/ pc' = "over" /\ reason' = reason
    BY <1>8 DEF Prime, Goto
  <2>3. Head(due).type = "failed" => Head(due).reason \in {"invalid", "transient"}
    BY <2>1 DEF Data, Event
  <2>4. Queue'
    BY <1>0, <2>1 DEF Queue, Pending, Faultless, Whole, Relaying, Delta, Text, Completed,
       upstream, client
  <2> QED
    BY <1>0, <1>00, <2>1, <2>2, <2>3, <2>4 DEF Relays, Relaying, upstream, client
<1>9. CASE Blame
  <2>1. /\ pc = "blame" /\ pc' = "try" /\ reason' = None
        /\ UNCHANGED <<upstream, client>>
    BY <1>9 DEF Blame, Goto
  <2> QED
    BY <1>0, <1>00, <2>1 DEF Relays, Relaying, upstream, client
<1>10. CASE Start
  <2>1. pc = "primed" /\ pc' = "handed" /\ UNCHANGED <<route, at, upstream, client, account>>
    BY <1>10 DEF Start, Goto
  <2>2. Queue'
    BY <1>0, <2>1 DEF Queue, Pending, Faultless, Whole, Relaying, Delta, Text, Completed,
       upstream, client
  <2> QED
    BY <1>0, <1>00, <2>1, <2>2 DEF Relays, Relaying, upstream, client, account
<1>11. CASE LeaveUnstarted
  BY <1>0, <1>00, <1>11 DEF LeaveUnstarted, Goto, Relays, Relaying, Text, upstream, client,
     account
<1>12. CASE Proceed
  <2>1. pc = "handed" /\ pc' = "relay" /\ UNCHANGED <<route, at, upstream, client, account>>
    BY <1>12 DEF Proceed, Goto
  <2>2. Queue'
    BY <1>0, <2>1 DEF Queue, Pending, Faultless, Whole, Relaying, Delta, Text, Completed,
       upstream, client
  <2> QED
    BY <1>0, <1>00, <2>1, <2>2 DEF Relays, Relaying, Text, upstream, client, account
<1>13. CASE Leave
  <2>1. pc = "handed" /\ pc' = "close" /\ reason' = "left" /\ UNCHANGED <<at, upstream, client>>
    BY <1>13 DEF Leave, Goto
  <2> QED
    BY <1>0, <1>00, <2>1 DEF Relays, Relaying, Text, upstream, client
<1>14. CASE CloseAgain
  <2>1. pc = "close" /\ pc' = "settle" /\ UNCHANGED <<at, upstream, client, account>>
    BY <1>14 DEF CloseAgain, Goto
  <2> QED
    BY <1>0, <1>00, <2>1 DEF Relays, Relaying, Text, upstream, client, account
<1>15. CASE Relay
  <2>1. pc = "relay" /\ due # <<>> /\ UNCHANGED <<at, said, told>> /\ Queue
    BY <1>0, <1>15 DEF Relay, Relaying
  <2>2. CASE Head(due).type = "delta"
    <3>1. relayed' = Append(relayed, Text(Len(relayed) + 1)) /\ Queue'
      BY <1>15, <2>1, <2>2, RelayDelta
    <3>2. pc' = "handed" /\ reason' = reason
      BY <1>15, <2>2 DEF Relay, Goto
    <3>3. \A n \in DOMAIN relayed' : relayed'[n] = Text(n)'
      <4>1. relayed \in Seq(Texts)
        BY DEF Data
      <4>2. \A n \in DOMAIN relayed' : relayed'[n] = Text(n)
        BY <1>0, <3>1, <4>1
      <4> QED
        BY <2>1, <4>2 DEF Text
    <3> QED
      BY <1>0, <1>00, <2>1, <3>1, <3>2, <3>3 DEF Relays, Relaying, Queue
  <2>3. CASE Head(due).type = "completed"
    <3>1. pc' = "settle" /\ UNCHANGED <<relayed, reason>>
      BY <1>15, <2>3 DEF Relay, Goto
    <3>2. Delivered'
      BY <1>15, <2>1, <2>3, RelayCompleted
    <3> QED
      BY <1>0, <1>00, <2>1, <3>1, <3>2 DEF Relays, Relaying, Text
  <2>4. CASE Head(due).type = "failed"
    <3>1. pc' = "settle" /\ reason' = Head(due).reason /\ relayed' = relayed
      BY <1>15, <2>4 DEF Relay, Goto
    <3>2. Head(due).reason \in {"invalid", "transient"}
      BY <2>1, <2>4 DEF Data, Event
    <3> QED
      BY <1>0, <1>00, <2>1, <3>1, <3>2 DEF Relays, Relaying, Text
  <2>5. CASE Head(due).type = "raised"
    <3>1. pc' = "over" /\ UNCHANGED <<relayed, reason>>
      BY <1>15, <2>5 DEF Relay, Goto
    <3> QED
      BY <1>0, <1>00, <2>1, <3>1 DEF Relays, Relaying, Text
  <2> QED
    BY <1>15, <2>2, <2>3, <2>4, <2>5 DEF Relay
<1>16. CASE Settle
  <2>1. pc = "settle" /\ pc' = "circuit" /\ UNCHANGED <<route, at, upstream, client, reason>>
    BY <1>16 DEF Settle, Goto
  <2>2. Delivered => Delivered'
    BY <2>1 DEF Delivered, Whole, Faultless, upstream, client
  <2> QED
    BY <1>0, <1>00, <2>1, <2>2 DEF Relays, Relaying, Text, upstream, client
<1>17. CASE Report
  <2>1. pc = "circuit" /\ pc' = "over" /\ UNCHANGED <<route, at, upstream, relayed, account>>
    BY <1>17 DEF Report, Goto
  <2>2. Delivered => Delivered'
    BY <2>1 DEF Delivered, Whole, Faultless, upstream
  <2>3. told' = "completed" => reason = None
    BY <1>00, <1>17 DEF Report
  <2> QED
    BY <1>0, <1>00, <2>1, <2>2, <2>3 DEF Relays, Relaying, Text, upstream, account
<1>18. CASE CallFails
  <2>1. pc # "over" /\ pc' = "over" /\ UNCHANGED <<at, upstream, client, account>>
    BY <1>18 DEF CallFails, Goto
  <2> QED
    BY <1>0, <1>00, <2>1 DEF Relays, Relaying, Text, upstream, client, account
<1>19. CASE UNCHANGED vars
  BY <1>19 DEF vars, Relays, Relaying, Queue, Pending, Delivered, Faultless, Whole, Text,
     upstream, client, account
<1> QED
  BY <1>1, <1>2, <1>3, <1>4, <1>5, <1>6, <1>7, <1>8, <1>9, <1>10, <1>11, <1>12, <1>13, <1>14,
     <1>15,
     <1>16, <1>17, <1>18, <1>19 DEF Next

LEMMA RelaysHold == Spec => []Relays
<1>1. Types /\ Places /\ Relays /\ [Next]_vars => Relays'
  BY RelaysPreserved DEF Types
<1> QED
  BY <1>1, InitRelays, TypesHold, ControlHolds, PTL DEF Spec

\* The readers and the relay: the client has the texts of one candidate in order,
\* and is told of completion only when it has all of a whole response.
THEOREM RelaySafe == Spec => []RelayIsFaithful
<1>1. Relays => RelayIsFaithful
  BY DEF Relays, RelayIsFaithful, Delivered, Whole, Faultless
<1> QED
  BY <1>1, RelaysHold, PTL

-----------------------------------------------------------------------------
(* Bills: the counts kept are the latest among the frames of the response. *)

Newest(value, count(_)) ==
    \/ value = None /\ \A n \in DOMAIN read : count(read[n]) = None
    \/ \E m \in DOMAIN read :
         /\ value = Number(count(read[m])) /\ count(read[m]) # None
         /\ \A n \in DOMAIN read : n > m => count(read[n]) = None
Bill ==
    [input |-> IF reason # None \/ report.input = None THEN InputTokens ELSE report.input,
     output |-> IF reason # None \/ report.output = None THEN Len(relayed) ELSE report.output]

Bills ==
    /\ Newest(report.input, InputOf) /\ Newest(report.output, OutputOf)
    /\ pc \notin {"circuit", "over"} => bills = <<>>
    /\ pc = "circuit" => bills # <<>>
    /\ bills # <<>> => bills = <<Bill>>
    /\ told # None => bills # <<>>

LEMMA InitBills == Init => Bills
<1> SUFFICES ASSUME Init PROVE Bills
  OBVIOUS
<1>1. read = <<>> /\ report = [input |-> None, output |-> None] /\ bills = <<>> /\ told = None
      /\ pc = "try"
  BY DEF Init
<1> QED
  BY <1>1 DEF Bills, Newest

LEMMA NewestStays ==
    ASSUME UNCHANGED read, UNCHANGED report,
           Newest(report.input, InputOf), Newest(report.output, OutputOf)
    PROVE  Newest(report.input, InputOf)' /\ Newest(report.output, OutputOf)'
  BY DEF Newest, InputOf, OutputOf

LEMMA ReadFrameNewest ==
    ASSUME Control, Places, Data, ReadFrame,
           Newest(report.input, InputOf), Newest(report.output, OutputOf)
    PROVE  Newest(report.input, InputOf)' /\ Newest(report.output, OutputOf)'
<1>1. PICK frame \in Frames(route[at]) : read' = Append(read, frame) /\ report' = Reported(frame)
  BY DEF ReadFrame
<1>2. pc \in {"prime", "relay"}
  BY DEF ReadFrame, Reading
<1>3. frame \in FrameType
  BY <1>2, FramesType DEF Control, Places
<1>4. /\ Len(read) \in Nat /\ DOMAIN read = 1..Len(read)
      /\ DOMAIN read' = 1..(Len(read) + 1) /\ read'[Len(read) + 1] = frame
      /\ \A n \in DOMAIN read : read'[n] = read[n]
  BY <1>1, <1>3 DEF Data
<1>5. /\ report'.input = IF frame.input = None THEN report.input ELSE Number(frame.input)
      /\ report'.output = IF frame.output = None THEN report.output ELSE Number(frame.output)
  BY <1>1 DEF Reported
<1>6. Newest(report.input, InputOf)'
  <2>1. CASE frame.input # None
    BY <1>4, <1>5, <2>1 DEF Newest, InputOf
  <2>2. CASE /\ frame.input = None /\ report.input = None
             /\ \A n \in DOMAIN read : read[n].input = None
    BY <1>4, <1>5, <2>2 DEF Newest, InputOf
  <2>3. ASSUME frame.input = None, NEW m \in DOMAIN read,
               report.input = Number(read[m].input), read[m].input # None, \A n \in DOMAIN read : n > m => read[n].input = None
        PROVE  Newest(report.input, InputOf)'
    <3>1. /\ m \in DOMAIN read' /\ report'.input = Number(read'[m].input) /\ read'[m].input # None
          /\ \A n \in DOMAIN read' : n > m => read'[n].input = None
      BY <1>4, <1>5, <2>3
    <3> QED
      BY <3>1 DEF Newest, InputOf
  <2> QED
    BY <2>1, <2>2, <2>3 DEF Newest, InputOf
<1>7. Newest(report.output, OutputOf)'
  <2>1. CASE frame.output # None
    BY <1>4, <1>5, <2>1 DEF Newest, OutputOf
  <2>2. CASE /\ frame.output = None /\ report.output = None
             /\ \A n \in DOMAIN read : read[n].output = None
    BY <1>4, <1>5, <2>2 DEF Newest, OutputOf
  <2>3. ASSUME frame.output = None, NEW m \in DOMAIN read,
               report.output = Number(read[m].output), read[m].output # None, \A n \in DOMAIN read : n > m => read[n].output = None
        PROVE  Newest(report.output, OutputOf)'
    <3>1. /\ m \in DOMAIN read' /\ report'.output = Number(read'[m].output) /\ read'[m].output # None
          /\ \A n \in DOMAIN read' : n > m => read'[n].output = None
      BY <1>4, <1>5, <2>3
    <3> QED
      BY <3>1 DEF Newest, OutputOf
  <2> QED
    BY <2>1, <2>2, <2>3 DEF Newest, OutputOf
<1> QED
  BY <1>6, <1>7

LEMMA BillsPreserved == Control /\ Places /\ Data /\ Relays /\ Bills /\ [Next]_vars => Bills'
<1> SUFFICES ASSUME Control, Places, Data, Relays, Bills, [Next]_vars PROVE Bills'
  OBVIOUS
<1>0. /\ Newest(report.input, InputOf) /\ Newest(report.output, OutputOf)
      /\ pc \notin {"circuit", "over"} => bills = <<>> /\ told = None
      /\ pc = "circuit" => bills # <<>>
      /\ bills # <<>> => bills = <<Bill>>
      /\ told # None => bills # <<>>
  BY DEF Bills, Relays
<1>1. ASSUME Try \/ Exhausted \/ Refused \/ Prime \/ Blame \/ Start \/ LeaveUnstarted \/ Proceed
             \/ Leave \/ CloseAgain \/ Relay \/ ReadEnd \/ ReadBreaks
      PROVE  Bills'
  <2>1. pc \notin {"circuit", "over"} /\ pc' # "circuit" /\ UNCHANGED <<read, report, told, bills>>
    BY <1>1 DEF Try, Exhausted, Refused, Prime, Blame, Start, LeaveUnstarted, Proceed, Leave,
                CloseAgain, Relay, ReadEnd, ReadBreaks, Reading, Goto, upstream, client, account
  <2>2. Newest(report.input, InputOf)' /\ Newest(report.output, OutputOf)'
    BY <1>0, <2>1, NewestStays
  <2> QED
    BY <1>0, <2>1, <2>2 DEF Bills
<1>2. CASE Open
  <2>1. /\ pc = "open" /\ pc' = "prime" /\ UNCHANGED <<told, bills>>
        /\ read' = <<>> /\ report' = [input |-> None, output |-> None]
    BY <1>2 DEF Open, NewReport, Goto, client, account
  <2>2. Newest(report.input, InputOf)' /\ Newest(report.output, OutputOf)'
    BY <2>1 DEF Newest, InputOf, OutputOf
  <2> QED
    BY <1>0, <2>1, <2>2 DEF Bills
<1>3. CASE ReadFrame
  <2>1. pc \in {"prime", "relay"} /\ UNCHANGED <<pc, told, bills>>
    BY <1>3 DEF ReadFrame, Reading, client, account
  <2>2. Newest(report.input, InputOf)' /\ Newest(report.output, OutputOf)'
    BY <1>0, <1>3, ReadFrameNewest
  <2> QED
    BY <1>0, <2>1, <2>2 DEF Bills
<1>4. CASE Settle
  <2>1. /\ pc = "settle" /\ pc' = "circuit" /\ bills' = Append(bills, Bill)
        /\ UNCHANGED <<read, report, relayed, told, reason>>
    BY <1>4 DEF Settle, Goto, Bill, upstream, client
  <2>2. bills' = <<Bill'>>
    BY <1>0, <2>1 DEF Bill
  <2>3. Newest(report.input, InputOf)' /\ Newest(report.output, OutputOf)'
    BY <1>0, <2>1, NewestStays
  <2> QED
    BY <1>0, <2>1, <2>2, <2>3 DEF Bills
<1>5. ASSUME Report \/ CallFails PROVE Bills'
  <2>1. /\ pc # "over" /\ pc' = "over" /\ UNCHANGED <<read, report, relayed, reason, bills>>
        /\ told' = told \/ pc = "circuit"
    BY <1>5 DEF Report, CallFails, Goto, upstream, client, account
  <2>2. Newest(report.input, InputOf)' /\ Newest(report.output, OutputOf)'
    BY <1>0, <2>1, NewestStays
  <2>3. Bill' = Bill
    BY <2>1 DEF Bill
  <2> QED
    BY <1>0, <2>1, <2>2, <2>3 DEF Bills
<1>6. CASE UNCHANGED vars
  <2>1. UNCHANGED <<pc, read, report, relayed, reason, told, bills>>
    BY <1>6 DEF vars, upstream, client, account
  <2>2. Newest(report.input, InputOf)' /\ Newest(report.output, OutputOf)'
    BY <1>0, <2>1, NewestStays
  <2>3. Bill' = Bill
    BY <2>1 DEF Bill
  <2> QED
    BY <1>0, <2>1, <2>2, <2>3 DEF Bills
<1> QED
  BY <1>1, <1>2, <1>3, <1>4, <1>5, <1>6 DEF Next

\* The counts kept are those the property looks for.
LEMMA NewestIsLatest ==
    ASSUME Data, Newest(report.input, InputOf), Newest(report.output, OutputOf)
    PROVE  /\ Latest(InputOf, InputTokens)
                = IF report.input = None THEN InputTokens ELSE report.input
           /\ Latest(OutputOf, Len(relayed))
                = IF report.output = None THEN Len(relayed) ELSE report.output
<1>0. DOMAIN read \subseteq Nat
  BY DEF Data
<1>1. ASSUME NEW S \in SUBSET Nat, NEW m \in S, \A n \in S : n <= m PROVE Max(S) = m
  <2>1. \A n \in S : m >= n
    BY <1>1
  <2>2. Max(S) \in S /\ \A n \in S : Max(S) >= n
    BY <2>1, Zenon DEF Max
  <2>3. Max(S) \in Nat /\ m \in Nat
    BY <2>2
  <2>4. Max(S) >= m /\ m >= Max(S)
    BY <2>1, <2>2
  <2> QED
    BY <2>3, <2>4
<1>2. Latest(InputOf, InputTokens) = IF report.input = None THEN InputTokens ELSE report.input
  <2> DEFINE given == {n \in DOMAIN read : InputOf(read[n]) # None}
  <2>1. CASE report.input = None /\ \A n \in DOMAIN read : InputOf(read[n]) = None
    BY <2>1 DEF Latest
  <2>2. ASSUME NEW m \in DOMAIN read, report.input = Number(InputOf(read[m])),
               InputOf(read[m]) # None,
               \A n \in DOMAIN read : n > m => InputOf(read[n]) = None
        PROVE  /\ Latest(InputOf, InputTokens) = report.input
               /\ report.input # None
    <3>1. m \in given /\ given \in SUBSET Nat /\ \A n \in given : n <= m
      BY <1>0, <2>2
    <3>2. Max(given) = m
      BY <1>1, <3>1
    <3>3. report.input # None
      BY <2>2, StreamsAssumption DEF Number, Data
    <3> QED
      BY <2>2, <3>1, <3>2, <3>3 DEF Latest, Number
  <2> QED
    BY <2>1, <2>2 DEF Newest
<1>3. Latest(OutputOf, Len(relayed)) = IF report.output = None THEN Len(relayed) ELSE report.output
  <2> DEFINE given == {n \in DOMAIN read : OutputOf(read[n]) # None}
  <2>1. CASE report.output = None /\ \A n \in DOMAIN read : OutputOf(read[n]) = None
    BY <2>1 DEF Latest
  <2>2. ASSUME NEW m \in DOMAIN read, report.output = Number(OutputOf(read[m])),
               OutputOf(read[m]) # None,
               \A n \in DOMAIN read : n > m => OutputOf(read[n]) = None
        PROVE  /\ Latest(OutputOf, Len(relayed)) = report.output
               /\ report.output # None
    <3>1. m \in given /\ given \in SUBSET Nat /\ \A n \in given : n <= m
      BY <1>0, <2>2
    <3>2. Max(given) = m
      BY <1>1, <3>1
    <3>3. report.output # None
      BY <2>2, StreamsAssumption DEF Number, Data
    <3> QED
      BY <2>2, <3>1, <3>2, <3>3 DEF Latest, Number
  <2> QED
    BY <2>1, <2>2 DEF Newest
<1> QED
  BY <1>2, <1>3

\* The settlement of a stream: the bill is what the selected candidate reported
\* last, 0 for a count left out of that report, if its response was whole, else
\* what was counted of the texts relayed.
THEOREM BillSafe == Spec => []BilledAsRelayed
<1>1. Data /\ Bills => BilledAsRelayed
  <2> SUFFICES ASSUME Data, Bills PROVE BilledAsRelayed
    OBVIOUS
  <2>1. /\ Latest(InputOf, InputTokens) = IF report.input = None THEN InputTokens ELSE report.input
        /\ Latest(OutputOf, Len(relayed))
             = IF report.output = None THEN Len(relayed) ELSE report.output
    BY NewestIsLatest DEF Bills
  <2> QED
    BY <2>1 DEF Bills, Bill, BilledAsRelayed
<1>2. Types /\ Places /\ Relays /\ Bills /\ [Next]_vars => Bills'
  BY BillsPreserved DEF Types
<1>3. Types => Data
  BY DEF Types
<1> QED
  BY <1>1, <1>2, <1>3, InitBills, TypesHold, ControlHolds, RelaysHold, PTL DEF Spec
=============================================================================
