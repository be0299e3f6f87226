---------------------------- MODULE GatewayProofs ----------------------------
(***************************************************************************)
(* Theorems about Gateway, for every set of requests and connections, every*)
(* limit and quota, and any number of faults.                              *)
(***************************************************************************)
EXTENDS Gateway, SumsProofs

-----------------------------------------------------------------------------
(* What the helpers of the actions do to the types.                        *)

LEMMA NonEmpty ==
    ASSUME NEW S, NEW s \in Seq(S), s # <<>>
    PROVE  /\ Head(s) \in S
           /\ Tail(s) \in Seq(S)
           /\ Len(s) \in Nat \ {0}
           /\ Len(Tail(s)) = Len(s) - 1
  OBVIOUS

UndoLists == {<<"budget">>, <<"tokens", "budget">>, <<"budget", "tokens">>,
              <<"budget", "tokens", "intent">>}

LEMMA UndoListType ==
    ASSUME NEW list \in UndoLists
    PROVE  list \in Seq({"budget", "tokens", "intent"}) /\ list # <<>>
<1>1. CASE list = <<"budget">>
  BY <1>1
<1>2. CASE list = <<"tokens", "budget">>
  BY <1>2
<1>3. CASE list = <<"budget", "tokens">>
  BY <1>3
<1>4. CASE list = <<"budget", "tokens", "intent">>
  BY <1>4
<1> QED
  BY <1>1, <1>2, <1>3, <1>4 DEF UndoLists

LEMMA GotoType ==
    ASSUME ProgressTypeOK, NEW r \in Requests, NEW s \in Steps, Goto(r, s),
           s \in Holding => rest[r] # <<>>, s # "undo", rest' = rest, undo' = undo
    PROVE  /\ pc' \in [Requests -> Steps]
           /\ \A q \in Requests : pc'[q] \in Holding => rest'[q] # <<>>
           /\ \A q \in Requests : pc'[q] = "undo" => undo'[q] # <<>>
  BY DEF ProgressTypeOK, Goto, Steps, Holding

LEMMA SkipType ==
    ASSUME ProgressTypeOK, NEW r \in Requests, Skip(r), rest[r] # <<>>, undo' = undo
    PROVE  /\ pc' \in [Requests -> Steps]
           /\ rest' \in [Requests -> Seq(Connections)]
           /\ trial' \in [Requests -> {0, 1}]
           /\ \A q \in Requests : pc'[q] \in Holding => rest'[q] # <<>>
           /\ \A q \in Requests : pc'[q] = "undo" => undo'[q] # <<>>
<1>1. Tail(rest[r]) \in Seq(Connections)
  BY NonEmpty DEF ProgressTypeOK
<1> QED
  BY <1>1 DEF ProgressTypeOK, Skip, Goto, Steps, Holding

LEMMA UndoType ==
    ASSUME ProgressTypeOK, NEW r \in Requests, NEW list \in UndoLists, Undo(r, list),
           rest' = rest
    PROVE  /\ pc' \in [Requests -> Steps]
           /\ undo' \in [Requests -> Seq({"budget", "tokens", "intent"})]
           /\ \A q \in Requests : pc'[q] \in Holding => rest'[q] # <<>>
           /\ \A q \in Requests : pc'[q] = "undo" => undo'[q] # <<>>
<1>1. list \in Seq({"budget", "tokens", "intent"}) /\ list # <<>>
  BY UndoListType
<1> QED
  BY <1>1 DEF ProgressTypeOK, Undo, Goto, Steps, Holding

LEMMA CandidateType ==
    ASSUME ProgressTypeOK, NEW r \in Requests, rest[r] # <<>>
    PROVE  Candidate(r) \in Connections
  BY NonEmpty DEF ProgressTypeOK, Candidate

LEMMA CountType ==
    ASSUME NEW f \in [Connections -> Nat], NEW c \in Connections
    PROVE  /\ [f EXCEPT ![c] = @ + 1] \in [Connections -> Nat]
           /\ f[c] > 0 => [f EXCEPT ![c] = @ - 1] \in [Connections -> Nat]
<1>1. f[c] \in Nat
  OBVIOUS
<1>2. f[c] + 1 \in Nat /\ (f[c] > 0 => f[c] - 1 \in Nat)
  BY <1>1
<1> QED
  BY <1>2

LEMMA CircuitType ==
    ASSUME ConnectionTypeOK, NEW c, ResetCircuit(c) \/ \E reason : RecordFailure(c, reason)
    PROVE  /\ failures' \in [Connections -> 0..Threshold]
           /\ opened' \in [Connections -> {"no", "recent", "elapsed"}]
<1> USE DEF ConnectionTypeOK
<1>0. Threshold \in Nat \ {0} /\ 0 \in 0..Threshold
  BY GatewayAssumption
<1>1. CASE ResetCircuit(c)
  <2>1. failures' \in [Connections -> 0..Threshold]
    BY <1>0, <1>1 DEF ResetCircuit
  <2> QED
    BY <1>1, <2>1 DEF ResetCircuit
<1>2. CASE CountFailure(c)
  <2>1. CASE c \in Connections
    <3>1. (IF failures[c] < Threshold THEN failures[c] + 1 ELSE failures[c]) \in 0..Threshold
      BY <1>0, <2>1
    <3> QED
      BY <1>2, <3>1 DEF CountFailure
  <2>2. CASE c \notin Connections
    BY <1>2, <2>2 DEF CountFailure
  <2> QED
    BY <2>1, <2>2
<1>3. CASE UNCHANGED <<failures, opened>>
  BY <1>3
<1> QED
  BY <1>1, <1>2, <1>3 DEF RecordFailure

LEMMA FreeTokensType ==
    ASSUME AccountTypeOK, NEW r \in Requests, FreeTokens(r)
    PROVE  tokens' \in [Requests -> Nat \union {Absent}] /\ reserved' \in Int
<1> USE DEF AccountTypeOK, FreeTokens
<1>1. tokens[r] # Absent => reserved - tokens[r] \in Int
  OBVIOUS
<1> QED
  BY <1>1

-----------------------------------------------------------------------------
(* A step of request handling keeps every type.                            *)
LEMMA AdvanceType ==
    ASSUME TypeOK, NEW r \in Requests, Advance(r)
    PROVE  TypeOK'
<1> USE DEF TypeOK
<1> USE DEF connVars, tokenVars, pgVars, planVars, endVars, faultVars, accountVars
<1>0. ConnectionTypeOK /\ AccountTypeOK /\ ProgressTypeOK
  OBVIOUS
<1>1. CASE ReserveBudget(r)
  <2>1. ConnectionTypeOK'
    BY <1>1 DEF ReserveBudget, ConnectionTypeOK
  <2>2. AccountTypeOK'
    BY <1>1 DEF ReserveBudget, AccountTypeOK
  <2>3. ProgressTypeOK'
    <3>1. pc' \in [Requests -> Steps] /\ pc'[r] \in {"tokens", "ended"}
      BY <1>1 DEF ReserveBudget, ProgressTypeOK, Goto, Steps
    <3>2. \A q \in Requests : q # r => pc'[q] = pc[q]
      BY <1>1 DEF ReserveBudget, ProgressTypeOK, Goto
    <3> QED
      BY <1>1, <3>1, <3>2 DEF ReserveBudget, ProgressTypeOK, Holding
  <2> QED
    BY <1>1, <2>1, <2>2, <2>3 DEF ReserveBudget
<1>2. CASE ReserveTokens(r)
  <2>1. ConnectionTypeOK'
    BY <1>2 DEF ReserveTokens, ConnectionTypeOK
  <2>2. AccountTypeOK'
    <3>1. rest[r] \in Seq(Connections)
      BY DEF ProgressTypeOK
    <3>2. Estimate(r) \in Nat
      BY <3>1 DEF Estimate
    <3> QED
      BY <1>2, <3>2 DEF ReserveTokens, AccountTypeOK
  <2>3. ProgressTypeOK'
    <3>1. CASE Undo(r, <<"budget">>)
      BY <1>2, <3>1, UndoType DEF ReserveTokens, ProgressTypeOK, UndoLists
    <3>2. CASE Goto(r, "admit") /\ UNCHANGED undo
      BY <1>2, <3>2, GotoType DEF ReserveTokens, ProgressTypeOK, Steps, Holding
    <3> QED
      BY <1>2, <3>1, <3>2 DEF ReserveTokens
  <2> QED
    BY <1>2, <2>1, <2>2, <2>3 DEF ReserveTokens
<1>3. CASE ReserveRequest(r)
  <2>1. ConnectionTypeOK'
    BY <1>3 DEF ReserveRequest, ConnectionTypeOK
  <2>2. AccountTypeOK'
    BY <1>3 DEF ReserveRequest, AccountTypeOK
  <2>3. ProgressTypeOK'
    <3>1. CASE Undo(r, <<"tokens", "budget">>)
      BY <1>3, <3>1, UndoType DEF ReserveRequest, ProgressTypeOK, UndoLists
    <3>2. CASE Goto(r, "intent") /\ UNCHANGED undo
      BY <1>3, <3>2, GotoType DEF ReserveRequest, ProgressTypeOK, Steps, Holding
    <3> QED
      BY <1>3, <3>1, <3>2 DEF ReserveRequest
  <2> QED
    BY <1>3, <2>1, <2>2, <2>3 DEF ReserveRequest
<1>4. CASE BeginIntent(r)
  <2>1. ConnectionTypeOK'
    BY <1>4 DEF BeginIntent, ConnectionTypeOK
  <2>2. AccountTypeOK'
    BY <1>4 DEF BeginIntent, AccountTypeOK
  <2>3. ProgressTypeOK'
    BY <1>4 DEF BeginIntent, ProgressTypeOK, Goto, Steps, Holding
  <2> QED
    BY <1>4, <2>1, <2>2, <2>3 DEF BeginIntent
<1>5. CASE ReserveSlot(r)
  <2>0. rest[r] # <<>> /\ Candidate(r) \in Connections
    BY <1>5, CandidateType DEF ReserveSlot
  <2>1. ConnectionTypeOK'
    BY <1>5, <2>0, CountType DEF ReserveSlot, ConnectionTypeOK
  <2>2. AccountTypeOK'
    BY <1>5 DEF ReserveSlot, AccountTypeOK
  <2>3. ProgressTypeOK'
    <3>1. CASE Skip(r)
      BY <1>5, <2>0, <3>1, SkipType DEF ReserveSlot, ProgressTypeOK
    <3>2. CASE Goto(r, "quota") /\ UNCHANGED <<rest, trial>>
      BY <1>5, <2>0, <3>2, GotoType DEF ReserveSlot, ProgressTypeOK, Steps
    <3> QED
      BY <1>5, <3>1, <3>2 DEF ReserveSlot
  <2> QED
    BY <1>5, <2>1, <2>2, <2>3 DEF ReserveSlot
<1>6. CASE ReserveCall(r)
  <2>0. rest[r] # <<>> /\ Candidate(r) \in Connections
    BY <1>6, CandidateType DEF ReserveCall, ProgressTypeOK, Holding
  <2>1. ConnectionTypeOK'
    <3>1. called \in [Connections -> Nat] /\ called' \in [Connections -> Nat]
      BY <1>6, <2>0, CountType DEF ReserveCall, ConnectionTypeOK
    <3> QED
      BY <1>6, <3>1 DEF ReserveCall, ConnectionTypeOK
  <2>2. AccountTypeOK'
    BY <1>6 DEF ReserveCall, AccountTypeOK
  <2>3. ProgressTypeOK'
    <3>1. CASE Skip(r)
      BY <1>6, <2>0, <3>1, SkipType DEF ReserveCall, ProgressTypeOK
    <3>2. CASE Goto(r, "call") /\ UNCHANGED <<rest, trial>>
      BY <1>6, <2>0, <3>2, GotoType DEF ReserveCall, ProgressTypeOK, Steps
    <3> QED
      BY <1>6, <3>1, <3>2 DEF ReserveCall
  <2> QED
    BY <1>6, <2>1, <2>2, <2>3 DEF ReserveCall
<1>7. CASE Answered(r)
  <2>1. ConnectionTypeOK'
    BY <1>7, CircuitType DEF Answered, RecordSuccess, ConnectionTypeOK
  <2>2. AccountTypeOK'
    BY <1>7 DEF Answered, AccountTypeOK
  <2>3. ProgressTypeOK'
    <3>1. answers' \in [Requests -> Nat]
      BY <1>7 DEF Answered, ProgressTypeOK
    <3>2. /\ kind' = kind /\ rest' = rest /\ verdict' = verdict /\ undo' = undo
          /\ rest[r] # <<>>
      BY <1>7 DEF Answered, ProgressTypeOK, Holding
    <3>3. \/ Goto(r, "settle") /\ UNCHANGED <<trial, resume>>
          \/ pc' = pc /\ trial' = [trial EXCEPT ![r] = 1] /\ UNCHANGED resume
          \/ ReleaseThen(r, "slot") /\ UNCHANGED trial
          \/ ReleaseThen(r, "settle") /\ UNCHANGED trial
          \/ Goto(r, "opened") /\ UNCHANGED <<trial, resume>>
      BY <1>7 DEF Answered
    <3>4. /\ trial' \in [Requests -> {0, 1}]
          /\ resume' \in [Requests -> {"slot", "settle", "aborted"}]
      BY <3>3 DEF ProgressTypeOK, ReleaseThen
    <3>5. pc' = pc \/ \E s \in {"settle", "release", "opened"} : Goto(r, s)
      BY <3>3 DEF ReleaseThen
    <3>6. CASE pc' = pc
      BY <3>1, <3>2, <3>4, <3>6 DEF ProgressTypeOK
    <3>7. ASSUME NEW s \in {"settle", "release", "opened"}, Goto(r, s) PROVE ProgressTypeOK'
      <4>1. s \in Steps /\ s # "undo"
        BY DEF Steps
      <4> QED
        BY <3>1, <3>2, <3>4, <3>7, <4>1, GotoType DEF ProgressTypeOK
    <3> QED
      BY <3>5, <3>6, <3>7
  <2> QED
    BY <1>7, <2>1, <2>2, <2>3 DEF Answered
<1>8. CASE Failed(r)
  <2>1. ConnectionTypeOK'
    BY <1>8, CircuitType DEF Failed, ConnectionTypeOK
  <2>2. AccountTypeOK'
    BY <1>8 DEF Failed, AccountTypeOK
  <2>3. ProgressTypeOK'
    BY <1>8 DEF Failed, ReleaseThen, ProgressTypeOK, Goto, Steps, Holding
  <2> QED
    BY <1>8, <2>1, <2>2, <2>3 DEF Failed
<1>9. CASE ReleaseSlot(r)
  <2>0. rest[r] # <<>> /\ Candidate(r) \in Connections
    BY <1>9, CandidateType DEF ReleaseSlot, ProgressTypeOK, Holding
  <2>1. ConnectionTypeOK'
    BY <1>9, <2>0, CountType DEF ReleaseSlot, ConnectionTypeOK
  <2>2. AccountTypeOK'
    BY <1>9 DEF ReleaseSlot, AccountTypeOK
  <2>3. ProgressTypeOK'
    <3>1. CASE resume[r] = "slot"
      BY <1>9, <2>0, <3>1, SkipType DEF ReleaseSlot, ProgressTypeOK, endVars
    <3>2. CASE resume[r] # "slot"
      <4>1. resume[r] \in Steps /\ resume[r] \notin Holding /\ resume[r] # "undo"
        BY <3>2 DEF ProgressTypeOK, Steps, Holding
      <4> QED
        BY <1>9, <3>2, <4>1, GotoType DEF ReleaseSlot, ProgressTypeOK
    <3> QED
      BY <3>1, <3>2
  <2> QED
    BY <1>9, <2>1, <2>2, <2>3 DEF ReleaseSlot
<1>10. CASE Exhausted(r)
  <2>1. ConnectionTypeOK'
    BY <1>10 DEF Exhausted, ConnectionTypeOK
  <2>2. AccountTypeOK'
    BY <1>10 DEF Exhausted, AccountTypeOK
  <2>3. ProgressTypeOK'
    <3>1. CASE Undo(r, <<"budget", "tokens", "intent">>)
      BY <1>10, <3>1, UndoType DEF Exhausted, ProgressTypeOK, UndoLists
    <3>2. CASE Goto(r, "settle") /\ UNCHANGED undo
      BY <1>10, <3>2, GotoType DEF Exhausted, ProgressTypeOK, Steps, Holding
    <3> QED
      BY <1>10, <3>1, <3>2 DEF Exhausted
  <2> QED
    BY <1>10, <2>1, <2>2, <2>3 DEF Exhausted
<1>11. CASE StartStream(r)
  <2>1. ConnectionTypeOK' /\ AccountTypeOK'
    BY <1>11 DEF StartStream, ConnectionTypeOK, AccountTypeOK
  <2>2. ProgressTypeOK'
    BY <1>11 DEF StartStream, ProgressTypeOK, Goto, Steps, Holding
  <2> QED
    BY <1>11, <2>1, <2>2 DEF StartStream
<1>12. CASE LeaveUnstarted(r)
  <2>1. ConnectionTypeOK' /\ AccountTypeOK'
    BY <1>12 DEF LeaveUnstarted, ConnectionTypeOK, AccountTypeOK
  <2>2. ProgressTypeOK'
    BY <1>12 DEF LeaveUnstarted, ProgressTypeOK, Goto, Steps, Holding
  <2> QED
    BY <1>12, <2>1, <2>2 DEF LeaveUnstarted
<1>13. CASE EndStream(r)
  <2>1. ConnectionTypeOK' /\ AccountTypeOK'
    BY <1>13 DEF EndStream, ConnectionTypeOK, AccountTypeOK
  <2>2. ProgressTypeOK'
    BY <1>13 DEF EndStream, ReleaseThen, ProgressTypeOK, Goto, Steps, Holding
  <2> QED
    BY <1>13, <2>1, <2>2 DEF EndStream
<1>14. CASE Settle(r)
  <2>1. ConnectionTypeOK'
    BY <1>14 DEF Settle, ConnectionTypeOK
  <2>2. AccountTypeOK'
    <3>1. answers[r] \in Nat /\ Reports \subseteq Nat
      BY GatewayAssumption DEF ProgressTypeOK
    <3>2. used' \in [Requests -> Nat]
      BY <1>14, <3>1 DEF Settle, AccountTypeOK
    <3> QED
      BY <1>14, <3>1, <3>2 DEF Settle, AccountTypeOK
  <2>3. ProgressTypeOK'
    BY <1>14 DEF Settle, ProgressTypeOK, Goto, Steps, Holding
  <2> QED
    BY <1>14, <2>1, <2>2, <2>3 DEF Settle
<1>15. CASE ReconcileTokens(r)
  <2>1. ConnectionTypeOK'
    BY <1>15 DEF ReconcileTokens, ConnectionTypeOK
  <2>2. AccountTypeOK'
    <3>1. used[r] \in Nat /\ tokens[r] \in Nat \union {Absent} /\ Absent \notin Nat
      BY GatewayAssumption DEF AccountTypeOK
    <3>2. actual' \in Nat /\ excess' \in Nat
      BY <1>15, <3>1 DEF ReconcileTokens, AccountTypeOK
    <3> QED
      BY <1>15, <3>2, FreeTokensType DEF ReconcileTokens, AccountTypeOK
  <2>3. ProgressTypeOK'
    BY <1>15 DEF ReconcileTokens, ProgressTypeOK, Goto, Steps, Holding
  <2> QED
    BY <1>15, <2>1, <2>2, <2>3 DEF ReconcileTokens
<1>16. CASE ReportStream(r)
  <2>1. ConnectionTypeOK'
    BY <1>16, CircuitType DEF ReportStream, RecordSuccess, ConnectionTypeOK
  <2>2. AccountTypeOK'
    BY <1>16 DEF ReportStream, AccountTypeOK
  <2>3. ProgressTypeOK'
    BY <1>16 DEF ReportStream, ProgressTypeOK, Goto, Steps, Holding
  <2> QED
    BY <1>16, <2>1, <2>2, <2>3 DEF ReportStream
<1>17. CASE GiveBack(r)
  <2>1. ConnectionTypeOK'
    BY <1>17 DEF GiveBack, ConnectionTypeOK
  <2>2. AccountTypeOK'
    <3>1. tokens' \in [Requests -> Nat \union {Absent}] /\ reserved' \in Int
      BY <1>17, FreeTokensType DEF GiveBack, AccountTypeOK
    <3> QED
      BY <1>17, <3>1 DEF GiveBack, AccountTypeOK
  <2>3. ProgressTypeOK'
    <3>1. Tail(undo[r]) \in Seq({"budget", "tokens", "intent"})
      BY <1>17, NonEmpty DEF GiveBack, ProgressTypeOK
    <3> QED
      BY <1>17, <3>1 DEF GiveBack, ProgressTypeOK, Goto, Steps, Holding
  <2> QED
    BY <1>17, <2>1, <2>2, <2>3 DEF GiveBack
<1> QED
  BY <1>1, <1>2, <1>3, <1>4, <1>5, <1>6, <1>7, <1>8, <1>9, <1>10, <1>11, <1>12, <1>13,
     <1>14, <1>15, <1>16, <1>17 DEF Advance

LEMMA PlanType ==
    ASSUME TypeOK, NEW r \in Requests, Plan(r)
    PROVE  TypeOK'
<1> USE DEF TypeOK
<1> USE DEF connVars, tokenVars, pgVars, planVars, endVars, faultVars, accountVars
<1>0. ConnectionTypeOK /\ AccountTypeOK /\ ProgressTypeOK
  OBVIOUS
<1>1. PICK k \in Kinds, offer \in Offers, rank \in Rankings :
         LET eligible == {c \in offer : opened[c] # "recent"}
             forgotten == {c \in offer : opened[c] = "elapsed"}
         IN  /\ kind' = [kind EXCEPT ![r] = k]
             /\ rest' = [rest EXCEPT ![r] = rank[eligible]]
             /\ Goto(r, IF eligible = {} THEN "ended" ELSE "budget")
             /\ failures' = [c \in Connections |-> IF c \in forgotten THEN 0 ELSE failures[c]]
             /\ opened' = [c \in Connections |-> IF c \in forgotten THEN "no" ELSE opened[c]]
  BY DEF Plan
<1> DEFINE eligible == {c \in offer : opened[c] # "recent"}
<1>2. ConnectionTypeOK'
  <2>1. slots' = slots /\ called' = called
    BY DEF Plan
  <2>2. 0 \in 0..Threshold
    BY GatewayAssumption
  <2>3. failures' \in [Connections -> 0..Threshold]
    BY <1>1, <2>2 DEF ConnectionTypeOK
  <2> QED
    BY <1>1, <2>1, <2>3 DEF ConnectionTypeOK
<1>3. AccountTypeOK'
  BY DEF Plan, AccountTypeOK
<1>4. ProgressTypeOK'
  <2>1. k \in {"response", "structured", "embedding", "stream"}
    BY GatewayAssumption
  <2>2. eligible \in SUBSET Connections
    BY GatewayAssumption
  <2>3. rank[eligible] \in Seq(Connections)
    BY <2>2, GatewayAssumption
  <2>4. /\ rest' \in [Requests -> Seq(Connections)]
        /\ \A q \in Requests : q # r => rest'[q] = rest[q]
    BY <1>1, <2>3 DEF ProgressTypeOK
  <2>5. pc' = [pc EXCEPT ![r] = "ended"] \/ pc' = [pc EXCEPT ![r] = "budget"]
    BY <1>1 DEF Goto
  <2>6. kind' \in [Requests -> {"response", "structured", "embedding", "stream"}]
    BY <1>1, <2>1 DEF ProgressTypeOK
  <2>7. /\ trial' = trial /\ answers' = answers
        /\ resume' = resume /\ verdict' = verdict /\ undo' = undo
    BY DEF Plan
  <2>8. pc' \in [Requests -> Steps]
    BY <2>5 DEF ProgressTypeOK, Steps
  <2>9. /\ pc'[r] \notin Holding \union {"undo"}
        /\ \A q \in Requests : q # r => pc'[q] = pc[q]
    BY <2>5 DEF ProgressTypeOK, Holding
  <2>10. \A q \in Requests : pc'[q] \in Holding => rest'[q] # <<>>
    BY <2>4, <2>9 DEF ProgressTypeOK
  <2>11. \A q \in Requests : pc'[q] = "undo" => undo'[q] # <<>>
    BY <2>7, <2>9 DEF ProgressTypeOK
  <2> QED
    BY <2>4, <2>6, <2>7, <2>8, <2>10, <2>11 DEF ProgressTypeOK
<1> QED
  BY <1>2, <1>3, <1>4 DEF Plan

LEMMA DisturbType ==
    ASSUME TypeOK, NEW r \in Requests, Disturb(r)
    PROVE  TypeOK'
<1> USE DEF TypeOK, Fault
<1> USE DEF connVars, tokenVars, pgVars, planVars, endVars, faultVars, accountVars
<1>0. ConnectionTypeOK /\ AccountTypeOK /\ ProgressTypeOK
  OBVIOUS
<1>1. ConnectionTypeOK' /\ faults' \in Nat /\ losses' \in Nat
  BY DEF Disturb, IntentFails, Breaks, Dies, ExpireIntent, ConnectionTypeOK
<1>2. AccountTypeOK'
  BY DEF Disturb, IntentFails, Breaks, Dies, ExpireIntent, AccountTypeOK
<1>3. ProgressTypeOK'
  <2>1. CASE IntentFails(r)
    BY <2>1, UndoType DEF IntentFails, ProgressTypeOK, UndoLists
  <2>2. CASE Breaks(r)
    BY <2>2 DEF Breaks, ReleaseThen, ProgressTypeOK, Goto, Steps, Holding
  <2>3. CASE Dies(r)
    BY <2>3 DEF Dies, ProgressTypeOK, Goto, Steps, Holding
  <2>4. CASE ExpireIntent(r)
    BY <2>4 DEF ExpireIntent, ProgressTypeOK
  <2> QED
    BY <2>1, <2>2, <2>3, <2>4 DEF Disturb
<1> QED
  BY <1>1, <1>2, <1>3

Environment ==
    \/ \E c \in Connections : CircuitElapses(c) \/ CircuitExpires(c) \/ SlotsExpire(c)
    \/ RedisLoss

LEMMA EnvironmentType ==
    ASSUME TypeOK, Environment
    PROVE  TypeOK'
<1> USE DEF TypeOK, Loss
<1> USE DEF connVars, tokenVars, pgVars, planVars, endVars, faultVars, accountVars
<1>0. ConnectionTypeOK /\ AccountTypeOK /\ ProgressTypeOK /\ Threshold \in Nat \ {0}
  BY GatewayAssumption
<1>1. ASSUME NEW c \in Connections, CircuitElapses(c) \/ CircuitExpires(c) \/ SlotsExpire(c)
      PROVE  TypeOK'
  <2>1. CASE CircuitElapses(c)
    BY <2>1 DEF CircuitElapses, ConnectionTypeOK, AccountTypeOK, ProgressTypeOK
  <2>2. CASE CircuitExpires(c)
    <3>1. ConnectionTypeOK'
      BY <2>2, CircuitType DEF CircuitExpires, ConnectionTypeOK
    <3> QED
      BY <2>2, <3>1 DEF CircuitExpires, AccountTypeOK, ProgressTypeOK
  <2>3. CASE SlotsExpire(c)
    BY <2>3 DEF SlotsExpire, ConnectionTypeOK, AccountTypeOK, ProgressTypeOK
  <2> QED
    BY <1>1, <2>1, <2>2, <2>3
<1>2. CASE RedisLoss
  BY <1>0, <1>2 DEF RedisLoss, ConnectionTypeOK, AccountTypeOK, ProgressTypeOK
<1> QED
  BY <1>1, <1>2 DEF Environment

LEMMA StutterType == ASSUME TypeOK, UNCHANGED vars PROVE TypeOK'
  BY DEF vars, TypeOK, ConnectionTypeOK, AccountTypeOK, ProgressTypeOK, connVars, tokenVars,
     pgVars, planVars, endVars, faultVars, accountVars

LEMMA InitType == Init => TypeOK
<1>1. Threshold \in Nat \ {0} /\ RequestLimit \in Nat
  BY GatewayAssumption
<1> QED
  BY <1>1 DEF Init, TypeOK, ConnectionTypeOK, AccountTypeOK, ProgressTypeOK, Steps, Holding

LEMMA TypeStep ==
    ASSUME TypeOK, [Next]_vars
    PROVE  TypeOK'
  BY PlanType, AdvanceType, DisturbType, EnvironmentType, StutterType DEF Next, Environment

(* Every variable keeps its type; in particular the slot counters never go  *)
(* below zero and a request that holds a slot still knows its candidate.    *)
THEOREM TypeCorrect == Spec => []TypeOK
<1> QED
  BY InitType, TypeStep, PTL DEF Spec

-----------------------------------------------------------------------------
(***************************************************************************)
(* The accounting invariant.  Where a request is tells what it holds; while*)
(* it tries candidates, its token reservation covers, besides the answers  *)
(* it has, the worst case of what is still to come.                        *)
(***************************************************************************)
Early == {"idle", "budget", "tokens", "admit", "intent"}
Admitted == {"slot", "quota", "call", "opened", "streaming", "release", "settle"}
Reserving == {"admit", "intent", "reconcile"} \union Admitted
Trying(r) == pc[r] \in {"slot", "quota", "call"} \/ (pc[r] = "release" /\ resume[r] = "slot")

AccountInv(r) ==
    /\ pc[r] \in {"idle", "budget"} => budget[r] = "none"
    /\ pc[r] \in {"tokens", "admit", "intent"} \union Admitted => budget[r] = "held"
    /\ pc[r] \in {"idle", "budget", "tokens", "verdict", "ended"} => ~Holds(r)
    /\ pc[r] \in Early => intent[r] = "none"
    /\ pc[r] \in Admitted => intent[r] \in {"pending", "failed"}
    /\ pc[r] \in Early \union {"undo"} => answers[r] = 0
    /\ pc[r] \in Early \union Admitted \union {"undo"} => events[r] = 0
    /\ pc[r] \in Early \union {"slot", "quota"} => trial[r] = 0
    /\ kind[r] # "structured" /\ Trying(r) => answers[r] = 0
    /\ pc[r] \in {"opened", "streaming", "settle"} => answers[r] > 0
    /\ pc[r] = "release" /\ resume[r] = "settle" => answers[r] > 0
    /\ pc[r] \in {"reconcile", "verdict"} => Paid(r)
    /\ pc[r] = "ended" => Paid(r) \/ Waived(r)
    /\ pc[r] = "aborted" /\ answers[r] > events[r] => budget[r] = "held"

Listed(r, what) == \E i \in DOMAIN undo[r] : undo[r][i] = what

UndoInv(r) ==
    pc[r] = "undo" =>
        /\ budget[r] = "released" \/ (budget[r] = "held" /\ Listed(r, "budget"))
        /\ Holds(r) => Listed(r, "tokens")
        /\ intent[r] \in {"none", "failed"} \/ (intent[r] = "pending" /\ Listed(r, "intent"))

Worst(r) ==
    IF kind[r] # "structured" THEN 1
    ELSE IF pc[r] = "release" THEN 2 * Len(rest[r]) - 2
    ELSE 2 * Len(rest[r]) - trial[r]

CoverInv(r) ==
    /\ pc[r] \in Reserving => Holds(r) /\ answers[r] <= tokens[r]
    /\ pc[r] \in {"admit", "intent"} \/ Trying(r) => answers[r] + Worst(r) <= tokens[r]
    /\ pc[r] = "aborted" /\ answers[r] > events[r] => Holds(r) /\ answers[r] <= tokens[r]

RequestInv(r) == AccountInv(r) /\ UndoInv(r) /\ (losses = 0 => CoverInv(r))

(* What a request is like does not depend on the others.                   *)
Same(r) ==
    /\ kind'[r] = kind[r] /\ pc'[r] = pc[r] /\ rest'[r] = rest[r] /\ trial'[r] = trial[r]
    /\ answers'[r] = answers[r] /\ resume'[r] = resume[r] /\ undo'[r] = undo[r]
    /\ tokens'[r] = tokens[r] /\ intent'[r] = intent[r] /\ events'[r] = events[r]
    /\ used'[r] = used[r] /\ budget'[r] = budget[r]

LEMMA SameInv ==
    ASSUME NEW r \in Requests, Same(r), RequestInv(r), losses' = 0 => losses = 0
    PROVE  RequestInv(r)'
  BY DEF Same, RequestInv, AccountInv, UndoInv, CoverInv, Holds, Trying, Listed, Worst, Paid,
     Waived, Early, Admitted, Reserving

LEMMA StepIsLocal ==
    ASSUME TypeOK, NEW r \in Requests, Plan(r) \/ Advance(r) \/ Disturb(r),
           NEW q \in Requests, q # r
    PROVE  Same(q)
<1> USE DEF TypeOK, AccountTypeOK, ProgressTypeOK, Same
<1> USE DEF connVars, tokenVars, pgVars, planVars, endVars, faultVars, accountVars
<1> USE DEF Goto, Undo, Skip, ReleaseThen, FreeTokens
<1>1. CASE Plan(r)
  BY <1>1 DEF Plan
<1>2. CASE Disturb(r)
  BY <1>2 DEF Disturb, IntentFails, Breaks, Dies, ExpireIntent
<1>3. CASE Advance(r)
  <2>1. CASE ReserveBudget(r)
    BY <2>1 DEF ReserveBudget
  <2>2. CASE ReserveTokens(r)
    BY <2>2 DEF ReserveTokens
  <2>3. CASE ReserveRequest(r)
    BY <2>3 DEF ReserveRequest
  <2>4. CASE BeginIntent(r)
    BY <2>4 DEF BeginIntent
  <2>5. CASE ReserveSlot(r)
    BY <2>5 DEF ReserveSlot
  <2>6. CASE ReserveCall(r)
    BY <2>6 DEF ReserveCall
  <2>7. CASE ReleaseSlot(r)
    BY <2>7 DEF ReleaseSlot
  <2>8. CASE Exhausted(r)
    BY <2>8 DEF Exhausted
  <2>9. CASE Answered(r)
    BY <2>9 DEF Answered
  <2>10. CASE Failed(r)
    BY <2>10 DEF Failed
  <2>11. CASE StartStream(r)
    BY <2>11 DEF StartStream
  <2>12. CASE LeaveUnstarted(r)
    BY <2>12 DEF LeaveUnstarted
  <2>13. CASE EndStream(r)
    BY <2>13 DEF EndStream
  <2>14. CASE Settle(r)
    BY <2>14 DEF Settle
  <2>15. CASE ReconcileTokens(r)
    BY <2>15 DEF ReconcileTokens
  <2>16. CASE ReportStream(r)
    BY <2>16 DEF ReportStream
  <2>17. CASE GiveBack(r)
    BY <2>17 DEF GiveBack
  <2> QED
    BY <1>3, <2>1, <2>2, <2>3, <2>4, <2>5, <2>6, <2>7, <2>8, <2>9, <2>10,
       <2>11, <2>12, <2>13, <2>14, <2>15, <2>16, <2>17 DEF Advance
<1> QED
  BY <1>1, <1>2, <1>3

LEMMA ListedTail ==
    ASSUME NEW r \in Requests, undo[r] \in Seq({"budget", "tokens", "intent"}), undo[r] # <<>>,
           NEW what, Listed(r, what), what # Head(undo[r]), undo'[r] = Tail(undo[r])
    PROVE  Listed(r, what)' /\ Tail(undo[r]) # <<>>
<1>1. PICK i \in 1..Len(undo[r]) : undo[r][i] = what
  BY DEF Listed
<1>2. i # 1
  BY <1>1
<1>3. i - 1 \in 1..Len(Tail(undo[r])) /\ Tail(undo[r])[i - 1] = what
  BY <1>1, <1>2
<1>4. Tail(undo[r]) \in Seq({"budget", "tokens", "intent"})
  BY NonEmpty
<1>5. DOMAIN Tail(undo[r]) = 1..Len(Tail(undo[r]))
  BY <1>4
<1>6. Len(Tail(undo[r])) # 0
  BY <1>3, <1>4
<1>7. Tail(undo[r]) # <<>>
  <2>1. Len(<<>>) = 0
    OBVIOUS
  <2> QED
    BY <1>6, <2>1
<1> QED
  BY <1>3, <1>5, <1>7 DEF Listed

LEMMA UndoListed ==
    ASSUME NEW r \in Requests, NEW list \in UndoLists, undo'[r] = list
    PROVE  /\ Listed(r, "budget")'
           /\ list # <<"budget">> => Listed(r, "tokens")'
           /\ list = <<"budget", "tokens", "intent">> => Listed(r, "intent")'
<1> USE DEF Listed, UndoLists
<1>1. CASE list = <<"budget">>
  <2>1. undo'[r][1] = "budget" /\ 1 \in DOMAIN undo'[r]
    BY <1>1
  <2> QED
    BY <1>1, <2>1
<1>2. CASE list = <<"tokens", "budget">>
  <2>1. undo'[r][2] = "budget" /\ undo'[r][1] = "tokens" /\ {1, 2} \subseteq DOMAIN undo'[r]
    BY <1>2
  <2> QED
    BY <1>2, <2>1
<1>3. CASE list = <<"budget", "tokens">>
  <2>1. undo'[r][1] = "budget" /\ undo'[r][2] = "tokens" /\ {1, 2} \subseteq DOMAIN undo'[r]
    BY <1>3
  <2> QED
    BY <1>3, <2>1
<1>4. CASE list = <<"budget", "tokens", "intent">>
  <2>1. /\ undo'[r][1] = "budget" /\ undo'[r][2] = "tokens" /\ undo'[r][3] = "intent"
        /\ {1, 2, 3} \subseteq DOMAIN undo'[r]
    BY <1>4
  <2> QED
    BY <1>4, <2>1
<1> QED
  BY <1>1, <1>2, <1>3, <1>4

LEMMA ActorInv ==
    ASSUME TypeOK, NEW r \in Requests, Plan(r) \/ Advance(r) \/ Disturb(r), RequestInv(r)
    PROVE  RequestInv(r)'
<1> USE DEF connVars, tokenVars, pgVars, planVars, endVars, faultVars, accountVars
<1>0. /\ answers[r] \in Nat /\ events[r] \in Nat /\ trial[r] \in {0, 1}
      /\ tokens[r] \in Nat \union {Absent} /\ Absent \notin Nat
      /\ rest[r] \in Seq(Connections) /\ Len(rest[r]) \in Nat
      /\ pc[r] \in Steps /\ resume[r] \in {"slot", "settle", "aborted"}
  BY GatewayAssumption DEF TypeOK, AccountTypeOK, ProgressTypeOK
<1>d. /\ DOMAIN pc = Requests /\ DOMAIN answers = Requests /\ DOMAIN rest = Requests
      /\ DOMAIN trial = Requests /\ DOMAIN tokens = Requests /\ DOMAIN undo = Requests
      /\ DOMAIN resume = Requests /\ DOMAIN budget = Requests
      /\ DOMAIN intent = Requests /\ DOMAIN events = Requests
  BY DEF TypeOK, AccountTypeOK, ProgressTypeOK
<1> USE DEF RequestInv, AccountInv, Holds, Paid, Waived, Early, Admitted, Reserving, Trying
<1>1. CASE Plan(r)
  BY <1>1
  DEF Plan, Goto, UndoInv, CoverInv, Worst, TypeOK, AccountTypeOK, ProgressTypeOK,
      Steps
<1>2. CASE ReserveBudget(r)
  BY <1>2
  DEF ReserveBudget, Goto, UndoInv, CoverInv, Worst, TypeOK, AccountTypeOK, ProgressTypeOK,
      Steps
<1>3. CASE ReserveTokens(r)
  <2>1. /\ pc[r] = "tokens" /\ answers'[r] = answers[r] /\ events'[r] = events[r]
        /\ kind'[r] = kind[r] /\ rest'[r] = rest[r] /\ trial'[r] = trial[r]
        /\ budget'[r] = budget[r] /\ intent'[r] = intent[r] /\ losses' = losses
    BY <1>3 DEF ReserveTokens
  <2>2. CASE Undo(r, <<"budget">>) /\ tokens' = tokens
    <3>1. pc'[r] = "undo" /\ undo'[r] = <<"budget">>
      BY <1>d, <2>2 DEF Undo, Goto
    <3>2. Listed(r, "budget")'
      BY <3>1, UndoListed DEF UndoLists
    <3> QED
      BY <2>1, <2>2, <3>1, <3>2 DEF UndoInv, CoverInv
  <2>3. CASE Goto(r, "admit") /\ tokens' = [tokens EXCEPT ![r] = Estimate(r)]
    <3>1. pc'[r] = "admit" /\ tokens'[r] = Estimate(r)
      BY <1>d, <2>3 DEF Goto
    <3>2. Estimate(r) \in Nat /\ answers[r] = 0 /\ trial[r] = 0 /\ Worst(r)' = Estimate(r)
      BY <1>0, <2>1, <3>1 DEF Estimate, Worst
    <3> QED
      BY <1>0, <2>1, <3>1, <3>2 DEF UndoInv, CoverInv
  <2> QED
    BY <1>3, <2>2, <2>3 DEF ReserveTokens
<1>4. CASE ReserveRequest(r)
  <2>1. /\ pc[r] = "admit" /\ answers'[r] = answers[r] /\ events'[r] = events[r]
        /\ kind'[r] = kind[r] /\ rest'[r] = rest[r] /\ trial'[r] = trial[r]
        /\ budget'[r] = budget[r] /\ intent'[r] = intent[r] /\ losses' = losses
        /\ tokens'[r] = tokens[r]
    BY <1>4 DEF ReserveRequest
  <2>2. CASE Undo(r, <<"tokens", "budget">>)
    <3>1. pc'[r] = "undo" /\ undo'[r] = <<"tokens", "budget">>
      BY <1>d, <2>2 DEF Undo, Goto
    <3>2. Listed(r, "budget")' /\ Listed(r, "tokens")'
      BY <3>1, UndoListed DEF UndoLists
    <3> QED
      BY <2>1, <3>1, <3>2 DEF UndoInv, CoverInv
  <2>3. CASE Goto(r, "intent")
    <3>1. pc'[r] = "intent"
      BY <1>d, <2>3 DEF Goto
    <3> QED
      BY <2>1, <3>1 DEF UndoInv, CoverInv, Worst
  <2> QED
    BY <1>4, <2>2, <2>3 DEF ReserveRequest
<1>5. CASE BeginIntent(r)
  BY <1>5
  DEF BeginIntent, Goto, UndoInv, CoverInv, Worst, TypeOK, AccountTypeOK, ProgressTypeOK,
      Steps
<1>6. CASE ReserveSlot(r)
  BY <1>6
  DEF ReserveSlot, Goto, Skip, UndoInv, CoverInv, Worst, TypeOK, AccountTypeOK, ProgressTypeOK,
      Steps
<1>7. CASE ReserveCall(r)
  <2>1. /\ pc[r] = "quota" /\ answers'[r] = answers[r] /\ events'[r] = events[r]
        /\ kind'[r] = kind[r] /\ budget'[r] = budget[r] /\ intent'[r] = intent[r]
        /\ losses' = losses /\ tokens'[r] = tokens[r]
    BY <1>7 DEF ReserveCall
  <2>2. CASE Skip(r)
    <3>1. pc'[r] = "slot" /\ rest'[r] = Tail(rest[r]) /\ trial'[r] = 0
      BY <1>d, <2>2 DEF Skip, Goto
    <3>2. Len(rest'[r]) = Len(rest[r]) - 1
      BY <1>0, <2>1, <3>1, NonEmpty DEF TypeOK, ProgressTypeOK, Holding
    <3> QED
      BY <1>0, <2>1, <3>1, <3>2 DEF UndoInv, CoverInv, Worst
  <2>3. CASE Goto(r, "call") /\ UNCHANGED <<rest, trial>>
    <3>1. pc'[r] = "call" /\ rest'[r] = rest[r] /\ trial'[r] = trial[r]
      BY <1>d, <2>3 DEF Goto
    <3> QED
      BY <1>0, <2>1, <3>1 DEF UndoInv, CoverInv, Worst
  <2> QED
    BY <1>7, <2>2, <2>3 DEF ReserveCall
<1>8. CASE Answered(r)
  <2>1. /\ pc[r] = "call" /\ answers'[r] = answers[r] + 1 /\ events'[r] = events[r]
        /\ kind'[r] = kind[r] /\ budget'[r] = budget[r] /\ intent'[r] = intent[r]
        /\ losses' = losses /\ tokens'[r] = tokens[r] /\ rest'[r] = rest[r]
    BY <1>d, <1>8 DEF Answered
  <2>2. Len(rest[r]) > 0
    BY <1>0, <2>1, NonEmpty DEF TypeOK, ProgressTypeOK, Holding
  <2>3. losses = 0 => Holds(r) /\ answers[r] + Worst(r) <= tokens[r]
    BY <2>1 DEF CoverInv
  <2>4. /\ Worst(r) \in Int /\ Worst(r) >= 1
        /\ kind[r] = "structured" => Worst(r) = 2 * Len(rest[r]) - trial[r]
    BY <1>0, <2>1, <2>2 DEF Worst
  <2>5. tokens'[r] = tokens[r] /\ (losses' = 0 => Holds(r)' /\ answers'[r] <= tokens'[r])
    BY <1>0, <2>1, <2>3, <2>4
  <2>6. CASE Goto(r, "settle") \/ Goto(r, "opened") \/ ReleaseThen(r, "settle")
    <3>1. \/ pc'[r] \in {"settle", "opened"}
          \/ pc'[r] = "release" /\ resume'[r] = "settle"
      BY <1>d, <2>6 DEF Goto, ReleaseThen
    <3>2. answers'[r] > 0
      BY <1>0, <2>1
    <3>3. AccountInv(r)'
      BY <2>1, <3>1, <3>2
    <3> QED
      BY <2>5, <3>1, <3>3 DEF UndoInv, CoverInv
  <2>7. ASSUME kind[r] = "structured",
               \/ trial[r] = 0 /\ trial'[r] = 1 /\ pc'[r] = "call"
               \/ pc'[r] = "release" /\ resume'[r] = "slot"
        PROVE  RequestInv(r)'
    <3>1. Worst(r)' + 1 <= Worst(r) /\ Worst(r)' \in Int
      BY <1>0, <2>1, <2>4, <2>7 DEF Worst
    <3>2. losses' = 0 => answers'[r] + Worst(r)' <= tokens'[r]
      BY <1>0, <2>1, <2>3, <2>4, <3>1
    <3>3. AccountInv(r)'
      BY <2>1, <2>7
    <3> QED
      BY <2>5, <2>7, <3>2, <3>3 DEF UndoInv, CoverInv
  <2>8. CASE /\ kind[r] = "structured" /\ trial[r] = 0
             /\ trial' = [trial EXCEPT ![r] = 1] /\ pc' = pc
    BY <1>d, <2>1, <2>7, <2>8
  <2>9. CASE kind[r] = "structured" /\ ReleaseThen(r, "slot")
    BY <1>d, <2>7, <2>9 DEF Goto, ReleaseThen
  <2> QED
    BY <1>0, <1>8, <2>6, <2>8, <2>9 DEF Answered
<1>9. CASE Failed(r)
  <2>1. /\ pc[r] = "call" /\ answers'[r] = answers[r] /\ events'[r] = events[r]
        /\ kind'[r] = kind[r] /\ budget'[r] = budget[r] /\ intent'[r] = intent[r]
        /\ losses' = losses /\ tokens'[r] = tokens[r] /\ rest'[r] = rest[r]
        /\ pc'[r] = "release" /\ resume'[r] = "slot" /\ trial'[r] = trial[r]
    BY <1>d, <1>9 DEF Failed, ReleaseThen, Goto
  <2> QED
    BY <1>0, <2>1 DEF UndoInv, CoverInv, Worst
<1>10. CASE ReleaseSlot(r)
  <2>1. /\ pc[r] = "release" /\ answers'[r] = answers[r] /\ events'[r] = events[r]
        /\ kind'[r] = kind[r] /\ budget'[r] = budget[r] /\ intent'[r] = intent[r]
        /\ losses' = losses /\ tokens'[r] = tokens[r]
    BY <1>10 DEF ReleaseSlot
  <2>2. CASE resume[r] = "slot"
    <3>1. pc'[r] = "slot" /\ rest'[r] = Tail(rest[r]) /\ trial'[r] = 0
      BY <1>d, <1>10, <2>2 DEF ReleaseSlot, Skip, Goto
    <3>2. Len(rest'[r]) = Len(rest[r]) - 1
      BY <1>0, <2>1, <3>1, NonEmpty DEF TypeOK, ProgressTypeOK, Holding
    <3> QED
      BY <1>0, <2>1, <2>2, <3>1, <3>2 DEF UndoInv, CoverInv, Worst
  <2>3. CASE resume[r] \in {"settle", "aborted"}
    <3>1. pc'[r] = resume[r]
      BY <1>d, <1>10, <2>3 DEF ReleaseSlot, Goto
    <3> QED
      BY <1>0, <2>1, <2>3, <3>1 DEF UndoInv, CoverInv
  <2> QED
    BY <1>0, <2>2, <2>3
<1>11. CASE Exhausted(r)
  <2>1. /\ pc[r] = "slot" /\ answers'[r] = answers[r] /\ events'[r] = events[r]
        /\ kind'[r] = kind[r] /\ budget'[r] = budget[r] /\ intent'[r] = intent[r]
        /\ losses' = losses /\ tokens'[r] = tokens[r]
    BY <1>11 DEF Exhausted
  <2>2. CASE answers[r] > 0
    <3>1. pc'[r] = "settle"
      BY <1>d, <1>11, <2>2 DEF Exhausted, Goto
    <3> QED
      BY <1>0, <2>1, <2>2, <3>1 DEF UndoInv, CoverInv
  <2>3. CASE ~(answers[r] > 0)
    <3>0. answers[r] = 0
      BY <1>0, <2>3
    <3>1. pc'[r] = "undo" /\ undo'[r] = <<"budget", "tokens", "intent">>
      BY <1>d, <1>11, <2>3 DEF Exhausted, Undo, Goto
    <3>2. Listed(r, "budget")' /\ Listed(r, "tokens")' /\ Listed(r, "intent")'
      BY <3>1, UndoListed DEF UndoLists
    <3> QED
      BY <2>1, <3>0, <3>1, <3>2 DEF UndoInv, CoverInv
  <2> QED
    BY <2>2, <2>3
<1>12. CASE StartStream(r)
  BY <1>12
  DEF StartStream, Goto, UndoInv, CoverInv, Worst, TypeOK, AccountTypeOK, ProgressTypeOK,
      Steps
<1>13. CASE LeaveUnstarted(r)
  BY <1>13
  DEF LeaveUnstarted, Goto, UndoInv, CoverInv, Worst, TypeOK, AccountTypeOK, ProgressTypeOK,
      Steps
<1>14. CASE EndStream(r)
  BY <1>14
  DEF EndStream, Goto, ReleaseThen, UndoInv, CoverInv, Worst, TypeOK, AccountTypeOK,
      ProgressTypeOK,
      Steps
<1>15. CASE Settle(r)
  BY <1>15
  DEF Settle, Goto, UndoInv, CoverInv, Worst, TypeOK, AccountTypeOK, ProgressTypeOK,
      Steps
<1>16. CASE ReconcileTokens(r)
  BY <1>16
  DEF ReconcileTokens, Goto, FreeTokens, UndoInv, CoverInv, Worst, TypeOK, AccountTypeOK,
      ProgressTypeOK,
      Steps
<1>17. CASE ReportStream(r)
  BY <1>17
  DEF ReportStream, Goto, UndoInv, CoverInv, Worst, TypeOK, AccountTypeOK, ProgressTypeOK,
      Steps
<1>18. CASE GiveBack(r)
  <2>1. /\ pc[r] = "undo" /\ answers'[r] = answers[r] /\ events'[r] = events[r]
        /\ kind'[r] = kind[r] /\ losses' = losses /\ undo'[r] = Tail(undo[r])
        /\ pc'[r] = IF Tail(undo[r]) = <<>> THEN "ended" ELSE "undo"
    BY <1>d, <1>18 DEF GiveBack, Goto
  <2>2. undo[r] \in Seq({"budget", "tokens", "intent"}) /\ undo[r] # <<>>
    BY <2>1 DEF TypeOK, ProgressTypeOK
  <2>3. /\ budget'[r] = IF Head(undo[r]) = "budget" THEN "released" ELSE budget[r]
        /\ tokens'[r] = IF Head(undo[r]) = "tokens" THEN Absent ELSE tokens[r]
        /\ intent'[r] = IF Head(undo[r]) = "intent" /\ intent[r] = "pending"
                        THEN "failed" ELSE intent[r]
    BY <1>d, <1>18 DEF GiveBack, FreeTokens
  <2>4. \A what : Listed(r, what) /\ what # Head(undo[r])
                    => Listed(r, what)' /\ Tail(undo[r]) # <<>>
    BY <2>1, <2>2, ListedTail
  <2>5. UndoInv(r)'
    BY <2>1, <2>3, <2>4 DEF UndoInv
  <2>6. pc'[r] = "ended"
          => budget'[r] = "released" /\ ~Holds(r)' /\ intent'[r] \in {"none", "failed"}
    BY <2>1, <2>3, <2>4 DEF UndoInv
  <2> QED
    BY <1>0, <2>1, <2>5, <2>6 DEF CoverInv
<1>19. CASE IntentFails(r)
  <2>1. /\ pc[r] = "intent" /\ answers'[r] = answers[r] /\ events'[r] = events[r]
        /\ kind'[r] = kind[r] /\ budget'[r] = budget[r] /\ intent'[r] = intent[r]
        /\ losses' = losses /\ tokens'[r] = tokens[r]
        /\ pc'[r] = "undo" /\ undo'[r] = <<"budget", "tokens">>
    BY <1>d, <1>19 DEF IntentFails, Fault, Undo, Goto
  <2>2. Listed(r, "budget")' /\ Listed(r, "tokens")'
    BY <2>1, UndoListed DEF UndoLists
  <2> QED
    BY <2>1, <2>2 DEF UndoInv, CoverInv
<1>20. CASE Breaks(r)
  BY <1>20
  DEF Breaks, Goto, ReleaseThen, Fault, UndoInv, CoverInv, Worst, TypeOK, AccountTypeOK,
      ProgressTypeOK,
      Steps
<1>21. CASE Dies(r)
  BY <1>21
  DEF Dies, Goto, Fault, Final, UndoInv, CoverInv, Worst, TypeOK, AccountTypeOK, ProgressTypeOK,
      Steps
<1>22. CASE ExpireIntent(r)
  <2>1. /\ pc'[r] = pc[r] /\ answers'[r] = answers[r] /\ events'[r] = events[r]
        /\ kind'[r] = kind[r] /\ budget'[r] = budget[r] /\ intent'[r] = "failed"
        /\ losses' = losses /\ tokens'[r] = tokens[r] /\ intent[r] = "pending"
        /\ rest'[r] = rest[r] /\ trial'[r] = trial[r] /\ resume'[r] = resume[r]
        /\ undo'[r] = undo[r]
    BY <1>d, <1>22 DEF ExpireIntent, Fault
  <2>2. AccountInv(r)'
    BY <2>1
  <2>3. UndoInv(r)' /\ (losses = 0 => CoverInv(r))'
    BY <2>1 DEF UndoInv, CoverInv, Worst, Listed
  <2> QED
    BY <2>2, <2>3
<1> QED
  BY <1>1, <1>2, <1>3, <1>4, <1>5, <1>6, <1>7, <1>8, <1>9, <1>10, <1>11,
     <1>12, <1>13, <1>14, <1>15, <1>16, <1>17, <1>18, <1>19, <1>20, <1>21,
     <1>22 DEF Advance, Disturb

-----------------------------------------------------------------------------
IInv ==
    /\ TypeOK
    /\ \A r \in Requests : RequestInv(r)
    /\ TokensWithinLimit

LEMMA EnvironmentInv ==
    ASSUME IInv, Environment
    PROVE  (\A r \in Requests : RequestInv(r)') /\ TokensWithinLimit'
<1> USE DEF Environment, Loss, IInv
<1> USE DEF connVars, tokenVars, pgVars, planVars, endVars, faultVars, accountVars
<1>1. CASE \E c \in Connections : CircuitElapses(c) \/ CircuitExpires(c) \/ SlotsExpire(c)
  <2>1. (\A r \in Requests : Same(r)) /\ UNCHANGED <<actual, reserved, excess>>
    BY <1>1 DEF CircuitElapses, CircuitExpires, SlotsExpire, Same
  <2>2. losses' = 0 => losses = 0
    BY <1>1 DEF CircuitElapses, CircuitExpires, SlotsExpire, TypeOK
  <2> QED
    BY <2>1, <2>2, SameInv DEF TokensWithinLimit
<1>2. CASE RedisLoss
  <2>1. losses' # 0 /\ \A r \in Requests : tokens'[r] = Absent
    BY <1>2 DEF RedisLoss, TypeOK
  <2> QED
    BY <1>2, <2>1
    DEF RedisLoss, RequestInv, AccountInv, UndoInv, Holds, Trying, Listed, Paid, Waived, Early,
        Admitted, TokensWithinLimit
<1> QED
  BY <1>1, <1>2

LEMMA LossesStay ==
    ASSUME NEW r \in Requests, Plan(r) \/ Advance(r) \/ Disturb(r)
    PROVE  losses' = losses
<1> USE DEF faultVars
<1>1. Plan(r) \/ Disturb(r) => losses' = losses
  BY DEF Plan, Disturb, IntentFails, Breaks, Dies, ExpireIntent, Fault
<1>2. ReserveBudget(r) \/ ReserveTokens(r) \/ ReserveRequest(r) \/ BeginIntent(r)
         => losses' = losses
  BY DEF ReserveBudget, ReserveTokens, ReserveRequest, BeginIntent
<1>3. ReserveSlot(r) \/ ReserveCall(r) \/ Answered(r) \/ Failed(r) => losses' = losses
  BY DEF ReserveSlot, ReserveCall, Answered, Failed
<1>4. ReleaseSlot(r) \/ Exhausted(r) \/ StartStream(r) \/ LeaveUnstarted(r) => losses' = losses
  BY DEF ReleaseSlot, Exhausted, StartStream, LeaveUnstarted
<1>5. EndStream(r) \/ Settle(r) \/ ReconcileTokens(r) \/ ReportStream(r) \/ GiveBack(r)
         => losses' = losses
  BY DEF EndStream, Settle, ReconcileTokens, ReportStream, GiveBack
<1> QED
  BY <1>1, <1>2, <1>3, <1>4, <1>5 DEF Advance

(* A reservation is checked, and reconciliation adds what is over it to the *)
(* excess.                                                                 *)
LEMMA TokensStep ==
    ASSUME IInv, NEW r \in Requests, Plan(r) \/ Advance(r) \/ Disturb(r)
    PROVE  TokensWithinLimit'
<1> USE DEF connVars, tokenVars, pgVars, planVars, endVars, faultVars, accountVars
<1>0. /\ actual \in Nat /\ reserved \in Int /\ excess \in Nat /\ TokenLimit \in Nat
      /\ used[r] \in Nat /\ tokens[r] \in Nat \union {Absent}
      /\ losses = 0 => actual + reserved <= TokenLimit + excess
      /\ losses' = losses
  BY LossesStay, GatewayAssumption
  DEF IInv, TypeOK, AccountTypeOK, ProgressTypeOK, TokensWithinLimit
<1> USE DEF TokensWithinLimit
<1>1. CASE ReserveTokens(r)
  <2>1. Estimate(r) \in Nat
    <3>1. rest[r] \in Seq(Connections)
      BY DEF IInv, TypeOK, ProgressTypeOK
    <3> QED
      BY <3>1 DEF Estimate
  <2> QED
    BY <1>0, <1>1, <2>1 DEF ReserveTokens
<1>2. CASE ReconcileTokens(r)
  <2>1. CASE ~Holds(r)
    BY <1>0, <1>2, <2>1 DEF ReconcileTokens, FreeTokens, Holds
  <2>2. CASE Holds(r)
    <3>1. /\ actual' = actual + used[r] /\ reserved' = reserved - tokens[r]
          /\ tokens[r] \in Nat
          /\ excess' = IF used[r] > tokens[r] THEN excess + (used[r] - tokens[r]) ELSE excess
      BY <1>0, <1>2, <2>2 DEF ReconcileTokens, FreeTokens, Holds
    <3>2. CASE used[r] > tokens[r]
      <4>1. actual' + reserved' = (actual + reserved) + (used[r] - tokens[r])
        BY <1>0, <3>1
      <4>2. excess' = excess + (used[r] - tokens[r])
        BY <3>1, <3>2
      <4>3. losses = 0 => actual' + reserved' <= TokenLimit + excess'
        BY <1>0, <3>1, <4>1, <4>2
      <4> QED
        BY <1>0, <4>3
    <3>3. CASE ~(used[r] > tokens[r])
      <4>1. losses = 0 => actual' + reserved' <= TokenLimit + excess'
        BY <1>0, <3>1, <3>3
      <4> QED
        BY <1>0, <4>1
    <3> QED
      BY <3>2, <3>3
  <2> QED
    BY <2>1, <2>2
<1>3. CASE GiveBack(r)
  <2>1. actual' = actual /\ excess' = excess
    BY <1>3 DEF GiveBack
  <2>2. reserved' = reserved \/ (tokens[r] \in Nat /\ reserved' = reserved - tokens[r])
    BY <1>0, <1>3 DEF GiveBack, FreeTokens
  <2> QED
    BY <1>0, <2>1, <2>2
<1>4. CASE UNCHANGED <<actual, reserved, excess>>
  BY <1>0, <1>4
<1>5. Plan(r) \/ Disturb(r) => UNCHANGED <<actual, reserved, excess>>
  BY DEF Plan, Disturb, IntentFails, Breaks, Dies, ExpireIntent
<1>6. ReserveBudget(r) \/ ReserveRequest(r) \/ BeginIntent(r)
         \/ ReserveSlot(r) \/ ReserveCall(r)
         => UNCHANGED <<actual, reserved, excess>>
  BY DEF ReserveBudget, ReserveRequest, BeginIntent, ReserveSlot, ReserveCall
<1>7. Answered(r) \/ Failed(r) \/ ReleaseSlot(r) \/ Exhausted(r) \/ StartStream(r)
         => UNCHANGED <<actual, reserved, excess>>
  BY DEF Answered, Failed, ReleaseSlot, Exhausted, StartStream
<1>8. LeaveUnstarted(r) \/ EndStream(r) \/ Settle(r) \/ ReportStream(r)
         => UNCHANGED <<actual, reserved, excess>>
  BY DEF LeaveUnstarted, EndStream, Settle, ReportStream
<1> QED
  BY <1>1, <1>2, <1>3, <1>4, <1>5, <1>6, <1>7, <1>8 DEF Advance

LEMMA InvStep ==
    ASSUME IInv, [Next]_vars
    PROVE  IInv'
<1>1. TypeOK /\ TypeOK'
  BY TypeStep DEF IInv
<1>2. ASSUME NEW r \in Requests, Plan(r) \/ Advance(r) \/ Disturb(r) PROVE IInv'
  <2>1. TokensWithinLimit' /\ losses' = losses
    BY <1>2, TokensStep, LossesStay
  <2>2. ASSUME NEW q \in Requests PROVE RequestInv(q)'
    <3>1. RequestInv(q)
      BY DEF IInv
    <3>2. CASE q = r
      BY <1>1, <1>2, <3>1, <3>2, ActorInv
    <3>3. CASE q # r
      <4>1. Same(q)
        BY <1>1, <1>2, <3>3, StepIsLocal
      <4> QED
        BY <2>1, <3>1, <4>1, SameInv
    <3> QED
      BY <3>2, <3>3
  <2> QED
    BY <1>1, <2>1, <2>2 DEF IInv
<1>3. CASE Environment
  BY <1>1, <1>3, EnvironmentInv DEF IInv
<1>4. CASE UNCHANGED vars
  <2>1. /\ \A r \in Requests : Same(r)
        /\ losses' = losses /\ UNCHANGED <<actual, reserved, excess>>
    BY <1>4 DEF vars, Same, tokenVars, pgVars, planVars, endVars, faultVars, accountVars
  <2>2. \A r \in Requests : RequestInv(r)'
    BY <2>1, SameInv DEF IInv
  <2> QED
    BY <1>1, <2>1, <2>2 DEF IInv, TokensWithinLimit
<1> QED
  BY <1>2, <1>3, <1>4 DEF Next, Environment

LEMMA InitInv == Init => IInv
<1> SUFFICES ASSUME Init PROVE IInv
  OBVIOUS
<1>1. TypeOK /\ TokenLimit \in Nat
  BY InitType, GatewayAssumption
<1>2. TokensWithinLimit
  BY <1>1 DEF Init, TokensWithinLimit
<1>3. \A r \in Requests : RequestInv(r)
  BY DEF Init, RequestInv, AccountInv, UndoInv, CoverInv, Holds, Trying, Early, Admitted,
     Reserving
<1> QED
  BY <1>1, <1>2, <1>3 DEF IInv

LEMMA Invariance == Spec => []IInv
<1> QED
  BY InitInv, InvStep, PTL DEF Spec

(* The tokens a key has used or reserved pass its quota by no more than what*)
(* providers reported above the reservations, however many requests run at *)
(* once, fall back and retry.                                              *)
THEOREM TokensSafe == Spec => []TokensWithinLimit
<1>1. IInv => TokensWithinLimit
  BY DEF IInv
<1> QED
  BY <1>1, Invariance, PTL

(* No answer is ever without a reservation that will pay for it.           *)
THEOREM AnswersSafe == Spec => []AnswersAreCovered
<1>1. IInv => AnswersAreCovered
  <2> SUFFICES ASSUME IInv, NEW r \in Requests, answers[r] > events[r]
               PROVE  /\ budget[r] = "held"
                      /\ losses = 0 => Holds(r) /\ answers[r] <= tokens[r]
    BY DEF AnswersAreCovered
  <2>1. RequestInv(r) /\ answers[r] \in Nat /\ events[r] \in Nat /\ pc[r] \in Steps
    BY DEF IInv, TypeOK, AccountTypeOK, ProgressTypeOK
  <2>2. ~Paid(r) /\ ~Waived(r) /\ answers[r] # 0
    BY <2>1 DEF Paid, Waived
  <2>3. pc[r] \in Admitted \union {"aborted"}
    BY <2>1, <2>2 DEF RequestInv, AccountInv, Steps, Early, Admitted
  <2> QED
    BY <2>1, <2>3 DEF RequestInv, AccountInv, CoverInv, Admitted, Reserving
<1> QED
  BY <1>1, Invariance, PTL

(* A request that ran to its end has paid for its answers or given back all *)
(* it had reserved.                                                        *)
THEOREM BalanceSafe == Spec => []EndedIsBalanced
<1>1. IInv => EndedIsBalanced
  BY DEF IInv, RequestInv, AccountInv, EndedIsBalanced
<1> QED
  BY <1>1, Invariance, PTL

-----------------------------------------------------------------------------
(***************************************************************************)
(* The slots.  A connection's counter is at least the number of requests   *)
(* that will still release it: slots may leak, but none is released twice. *)
(***************************************************************************)
SlotInv(c) ==
    SlotLimit[c] > 0 => Cardinality(Holders(c)) <= slots[c] /\ slots[c] <= SlotLimit[c]

SlotsInv == TypeOK /\ (losses = 0 => \A c \in Connections : SlotInv(c))

LEMMA HoldersFinite ==
    ASSUME NEW c
    PROVE  IsFiniteSet(Holders(c)) /\ Cardinality(Holders(c)) \in Nat
<1>1. Holders(c) \subseteq Requests /\ IsFiniteSet(Requests)
  BY GatewayAssumption DEF Holders
<1> QED
  BY <1>1, FS_Subset, FS_CardinalityType

(* Only ReserveSlot makes a request a holder of a slot, and it keeps its    *)
(* candidate for as long as it is one.                                     *)
LEMMA StaysHolder ==
    ASSUME TypeOK, NEW r \in Requests, Plan(r) \/ Advance(r) \/ Disturb(r), ~ReserveSlot(r),
           pc'[r] \in Holding
    PROVE  pc[r] \in Holding /\ rest'[r] = rest[r]
<1> USE DEF TypeOK, ProgressTypeOK, Holding, Steps
<1> USE DEF planVars, Goto, Undo, Skip, ReleaseThen
<1>1. ~Plan(r)
  BY DEF Plan
<1>2. Disturb(r) => pc[r] \in Holding /\ rest'[r] = rest[r]
  BY DEF Disturb, IntentFails, Breaks, Dies, ExpireIntent
<1>3. ~ReserveBudget(r) /\ ~ReserveTokens(r) /\ ~ReserveRequest(r) /\ ~BeginIntent(r)
  BY DEF ReserveBudget, ReserveTokens, ReserveRequest, BeginIntent
<1>4. ~ReleaseSlot(r) /\ ~Exhausted(r) /\ ~LeaveUnstarted(r)
  BY DEF ReleaseSlot, Exhausted, LeaveUnstarted
<1>5. ~Settle(r) /\ ~ReconcileTokens(r) /\ ~ReportStream(r) /\ ~GiveBack(r)
  BY DEF Settle, ReconcileTokens, ReportStream, GiveBack
<1>6. ReserveCall(r) \/ Answered(r) \/ Failed(r) \/ StartStream(r) \/ EndStream(r)
         => pc[r] \in Holding /\ rest'[r] = rest[r]
  BY DEF ReserveCall, Answered, Failed, StartStream, EndStream
<1> QED
  BY <1>1, <1>2, <1>3, <1>4, <1>5, <1>6 DEF Advance

LEMMA HoldersShrink ==
    ASSUME TypeOK, NEW r \in Requests, Plan(r) \/ Advance(r) \/ Disturb(r), ~ReserveSlot(r),
           NEW c
    PROVE  Holders(c)' \subseteq Holders(c)
<1>1. \A q \in Requests : q # r => Same(q)
  BY StepIsLocal
<1>2. pc'[r] \in Holding => pc[r] \in Holding /\ rest'[r] = rest[r]
  BY StaysHolder
<1> QED
  BY <1>1, <1>2 DEF Holders, Same, Candidate

LEMMA FewerHolders ==
    ASSUME NEW c, Holders(c)' \subseteq Holders(c)
    PROVE  /\ Cardinality(Holders(c)') <= Cardinality(Holders(c))
           /\ Cardinality(Holders(c)') \in Nat
  BY HoldersFinite, FS_Subset, FS_CardinalityType

LEMMA SlotStep ==
    ASSUME SlotsInv, NEW r \in Requests, Plan(r) \/ Advance(r) \/ Disturb(r), losses = 0,
           NEW c \in Connections, SlotLimit[c] > 0
    PROVE  SlotInv(c)'
<1> USE DEF connVars
<1>0. /\ TypeOK /\ slots[c] \in Nat /\ SlotLimit[c] \in Nat /\ SlotInv(c)
      /\ slots \in [Connections -> Nat] /\ SlotLimit \in [Connections -> Nat]
      /\ Cardinality(Holders(c)) \in Nat
  BY GatewayAssumption, HoldersFinite DEF SlotsInv, TypeOK, ConnectionTypeOK
<1>1. CASE ReserveSlot(r)
  <2>1. \A q \in Requests : q # r => Same(q)
    BY <1>0, StepIsLocal
  <2>2. /\ pc[r] = "slot" /\ rest[r] # <<>> /\ pc'[r] \in {"slot", "quota"}
        /\ pc'[r] = "quota" => rest'[r] = rest[r]
    BY <1>0, <1>1 DEF ReserveSlot, Skip, Goto, TypeOK, ProgressTypeOK
  <2>3. CASE pc'[r] = "slot" \/ Candidate(r) # c
    <3>1. slots'[c] = slots[c]
      BY <1>0, <1>1, <2>3 DEF ReserveSlot, Goto, TypeOK, ProgressTypeOK
    <3>2. Holders(c)' \subseteq Holders(c)
      BY <2>1, <2>2, <2>3 DEF Holders, Holding, Same, Candidate
    <3>3. /\ Cardinality(Holders(c)') <= Cardinality(Holders(c))
          /\ Cardinality(Holders(c)') \in Nat
      BY <3>2, FewerHolders
    <3> QED
      BY <1>0, <3>1, <3>3 DEF SlotInv
  <2>4. CASE pc'[r] = "quota" /\ Candidate(r) = c
    <3>1. slots[c] < SlotLimit[c] /\ slots'[c] = slots[c] + 1
      BY <1>0, <1>1, <2>4 DEF ReserveSlot, Goto, Skip, TypeOK, ProgressTypeOK
    <3>2. Holders(c)' \subseteq Holders(c) \union {r}
      BY <2>1 DEF Holders, Same, Candidate
    <3>3. r \notin Holders(c)
      BY <2>2 DEF Holders, Holding
    <3>4. /\ IsFiniteSet(Holders(c) \union {r})
          /\ Cardinality(Holders(c) \union {r}) = Cardinality(Holders(c)) + 1
      BY <3>3, HoldersFinite, FS_AddElement
    <3>5. /\ Cardinality(Holders(c)') <= Cardinality(Holders(c)) + 1
          /\ Cardinality(Holders(c)') \in Nat
      BY <3>2, <3>4, FS_Subset, FS_CardinalityType
    <3> QED
      BY <1>0, <3>1, <3>5 DEF SlotInv
  <2> QED
    BY <2>2, <2>3, <2>4
<1>2. CASE ReleaseSlot(r) /\ Candidate(r) = c
  <2>1. /\ pc[r] = "release" /\ pc'[r] \notin Holding
        /\ slots'[c] = IF slots[c] > 0 THEN slots[c] - 1 ELSE slots[c]
    BY <1>0, <1>2 DEF ReleaseSlot, Skip, Goto, TypeOK, ProgressTypeOK, Holding
  <2>2. r \in Holders(c) /\ r \notin Holders(c)'
    BY <1>2, <2>1 DEF Holders, Holding
  <2>3. Holders(c)' \subseteq Holders(c) \ {r}
    <3>1. ~ReserveSlot(r)
      BY <2>1 DEF ReserveSlot
    <3> QED
      BY <1>0, <2>2, <3>1, HoldersShrink
  <2>4. /\ IsFiniteSet(Holders(c) \ {r})
        /\ Cardinality(Holders(c) \ {r}) = Cardinality(Holders(c)) - 1
    BY <2>2, HoldersFinite, FS_RemoveElement
  <2>5. /\ Cardinality(Holders(c)') <= Cardinality(Holders(c)) - 1
        /\ Cardinality(Holders(c)') \in Nat
    BY <2>3, <2>4, FS_Subset, FS_CardinalityType
  <2> QED
    BY <1>0, <2>1, <2>5 DEF SlotInv
<1>3. CASE ~ReserveSlot(r) /\ ~(ReleaseSlot(r) /\ Candidate(r) = c)
  <2>1. slots'[c] = slots[c]
    <3>1. CASE ReleaseSlot(r)
      BY <1>0, <1>3, <3>1 DEF ReleaseSlot
    <3>2. CASE ~ReleaseSlot(r)
      <4>1. Plan(r) \/ Disturb(r) => slots' = slots
        BY DEF Plan, Disturb, IntentFails, Breaks, Dies, ExpireIntent
      <4>2. ReserveBudget(r) \/ ReserveTokens(r) \/ ReserveRequest(r) \/ BeginIntent(r)
              => slots' = slots
        BY DEF ReserveBudget, ReserveTokens, ReserveRequest, BeginIntent
      <4>3. ReserveCall(r) \/ Answered(r) \/ Failed(r) \/ Exhausted(r) => slots' = slots
        BY DEF ReserveCall, Answered, Failed, Exhausted
      <4>4. StartStream(r) \/ LeaveUnstarted(r) \/ EndStream(r) => slots' = slots
        BY DEF StartStream, LeaveUnstarted, EndStream
      <4>5. Settle(r) \/ ReconcileTokens(r) \/ ReportStream(r) \/ GiveBack(r) => slots' = slots
        BY DEF Settle, ReconcileTokens, ReportStream, GiveBack
      <4> QED
        BY <1>3, <3>2, <4>1, <4>2, <4>3, <4>4, <4>5 DEF Advance
    <3> QED
      BY <3>1, <3>2
  <2>2. Holders(c)' \subseteq Holders(c)
    BY <1>0, <1>3, HoldersShrink
  <2>3. Cardinality(Holders(c)') <= Cardinality(Holders(c)) /\ Cardinality(Holders(c)') \in Nat
    BY <2>2, FewerHolders
  <2> QED
    BY <1>0, <2>1, <2>3 DEF SlotInv
<1> QED
  BY <1>1, <1>2, <1>3

LEMMA SlotEnvironment ==
    ASSUME SlotsInv, Environment, losses' = 0, NEW c \in Connections, SlotLimit[c] > 0
    PROVE  SlotInv(c)'
<1> USE DEF connVars, planVars, faultVars, Loss
<1>0. /\ losses \in Nat /\ slots[c] \in Nat /\ SlotLimit[c] \in Nat
      /\ slots \in [Connections -> Nat]
  BY GatewayAssumption DEF SlotsInv, TypeOK, ConnectionTypeOK
<1>1. ~RedisLoss
  BY <1>0 DEF RedisLoss
<1>2. PICK d \in Connections : CircuitElapses(d) \/ CircuitExpires(d) \/ SlotsExpire(d)
  BY <1>1 DEF Environment
<1>3. losses = 0 /\ pc' = pc /\ rest' = rest
  BY <1>0, <1>2 DEF CircuitElapses, CircuitExpires, SlotsExpire
<1>4. SlotInv(c) /\ Holders(c)' = Holders(c)
  BY <1>3 DEF SlotsInv, Holders, Candidate
<1>5. CASE slots'[c] = slots[c]
  BY <1>4, <1>5 DEF SlotInv
<1>6. CASE slots'[c] # slots[c]
  <2>1. d = c /\ SlotsExpire(c)
    BY <1>0, <1>2, <1>6 DEF CircuitElapses, CircuitExpires, SlotsExpire
  <2>2. Holders(c) = {} /\ slots'[c] = 0
    BY <1>0, <1>3, <2>1 DEF SlotsExpire
  <2> QED
    BY <1>0, <1>4, <2>2, FS_EmptySet DEF SlotInv
<1> QED
  BY <1>5, <1>6

LEMMA SlotsStep ==
    ASSUME SlotsInv, [Next]_vars
    PROVE  SlotsInv'
<1>1. TypeOK'
  BY TypeStep DEF SlotsInv
<1> SUFFICES ASSUME losses' = 0, NEW c \in Connections, SlotLimit[c] > 0 PROVE SlotInv(c)'
  BY <1>1 DEF SlotsInv, SlotInv
<1>2. ASSUME NEW r \in Requests, Plan(r) \/ Advance(r) \/ Disturb(r) PROVE SlotInv(c)'
  <2>1. losses' = losses
    BY <1>2, LossesStay
  <2> QED
    BY <1>2, <2>1, SlotStep
<1>3. CASE Environment
  BY <1>3, SlotEnvironment
<1>4. CASE UNCHANGED vars
  BY <1>4 DEF vars, SlotsInv, SlotInv, Holders, Candidate, connVars, planVars, faultVars
<1> QED
  BY <1>2, <1>3, <1>4 DEF Next, Environment

(* However many instances dispatch to a connection and whatever fails, no   *)
(* more requests are upstream on it than its concurrency_limit.            *)
THEOREM ActiveSafe == Spec => []ActiveWithinLimit
<1>1. Init => SlotsInv
  <2> SUFFICES ASSUME Init PROVE SlotsInv
    OBVIOUS
  <2>1. \A c \in Connections : Holders(c) = {} /\ slots[c] = 0
    BY DEF Init, Holders, Holding
  <2>2. \A c \in Connections : SlotLimit[c] \in Nat
    BY GatewayAssumption
  <2> QED
    BY <2>1, <2>2, InitType, FS_EmptySet DEF SlotsInv, SlotInv
<1>2. SlotsInv => ActiveWithinLimit
  <2> SUFFICES ASSUME SlotsInv, losses = 0, NEW c \in Connections, SlotLimit[c] > 0
               PROVE  Cardinality(Active(c)) <= SlotLimit[c]
    BY DEF ActiveWithinLimit
  <2>1. /\ SlotInv(c) /\ slots[c] \in Nat /\ SlotLimit[c] \in Nat
        /\ Cardinality(Holders(c)) \in Nat /\ IsFiniteSet(Holders(c))
    BY GatewayAssumption, HoldersFinite DEF SlotsInv, TypeOK, ConnectionTypeOK
  <2>2. Active(c) \subseteq Holders(c)
    BY DEF Active, Holders, Upstream, Holding
  <2>3. Cardinality(Active(c)) <= Cardinality(Holders(c)) /\ Cardinality(Active(c)) \in Nat
    BY <2>1, <2>2, FS_Subset, FS_CardinalityType
  <2> QED
    BY <2>1, <2>3 DEF SlotInv
<1> QED
  BY <1>1, <1>2, SlotsStep, PTL DEF Spec

-----------------------------------------------------------------------------
(***************************************************************************)
(* The token counters are sums.  A step changes one of them by the amount  *)
(* by which it changes the set of requests that the counter stands for.    *)
(***************************************************************************)
\* What a step does to the token reservations.
TokensStay == UNCHANGED <<reserved, tokens>>
Takes(r, n) ==
    /\ ~Holds(r)
    /\ reserved' = reserved + n
    /\ tokens' = [tokens EXCEPT ![r] = n]
Frees(r) ==
    /\ Holds(r)
    /\ reserved' = reserved - tokens[r]
    /\ tokens' = [tokens EXCEPT ![r] = Absent]

LEMMA TokensEffect ==
    ASSUME IInv, [Next]_vars
    PROVE  \/ TokensStay
           \/ \E r \in Requests : \E n \in Nat : Takes(r, n)
           \/ \E r \in Requests : Frees(r)
           \/ RedisLoss
<1> USE DEF TokensStay, accountVars, tokenVars
<1>1. ASSUME NEW r \in Requests, FreeTokens(r) PROVE TokensStay \/ Frees(r)
  BY <1>1 DEF FreeTokens, Frees, Holds, IInv, TypeOK, AccountTypeOK
<1>2. ASSUME NEW r \in Requests, Plan(r) \/ Disturb(r) PROVE TokensStay
  BY <1>2 DEF Plan, Disturb, IntentFails, Breaks, Dies, ExpireIntent
<1>3. ASSUME NEW r \in Requests, Advance(r)
      PROVE  TokensStay \/ (\E n \in Nat : Takes(r, n)) \/ Frees(r)
  <2>1. CASE ReserveTokens(r)
    <3>1. ~Holds(r) /\ rest[r] \in Seq(Connections)
      BY <2>1 DEF ReserveTokens, IInv, RequestInv, AccountInv, TypeOK, ProgressTypeOK
    <3>2. Estimate(r) \in Nat
      BY <3>1 DEF Estimate
    <3>3. TokensStay \/ Takes(r, Estimate(r))
      BY <2>1, <3>1 DEF ReserveTokens, Takes
    <3> QED
      BY <3>2, <3>3
  <2>2. CASE ReconcileTokens(r)
    BY <1>1, <2>2 DEF ReconcileTokens
  <2>3. CASE GiveBack(r)
    BY <1>1, <2>3 DEF GiveBack
  <2>4. ReserveBudget(r) \/ ReserveRequest(r) \/ BeginIntent(r) \/ ReserveSlot(r)
           \/ ReserveCall(r) \/ Answered(r)
           => TokensStay
    BY DEF ReserveBudget, ReserveRequest, BeginIntent, ReserveSlot, ReserveCall, Answered
  <2>5. Failed(r) \/ ReleaseSlot(r) \/ Exhausted(r) \/ StartStream(r) \/ LeaveUnstarted(r)
           \/ EndStream(r) \/ Settle(r) \/ ReportStream(r)
           => TokensStay
    BY DEF Failed, ReleaseSlot, Exhausted, StartStream, LeaveUnstarted, EndStream, Settle,
           ReportStream
  <2> QED
    BY <1>3, <2>1, <2>2, <2>3, <2>4, <2>5 DEF Advance
<1>4. (\E c \in Connections : CircuitElapses(c) \/ CircuitExpires(c) \/ SlotsExpire(c))
         \/ UNCHANGED vars
         => TokensStay
  BY DEF CircuitElapses, CircuitExpires, SlotsExpire, vars
<1> QED
  BY <1>2, <1>3, <1>4 DEF Next

HoldersOfTokens == {r \in Requests : Holds(r)}
ReservedAddsUp == reserved = SumOf(tokens, HoldersOfTokens)

LEMMA ReservedStep ==
    ASSUME IInv, ReservedAddsUp, [Next]_vars
    PROVE  ReservedAddsUp'
<1> DEFINE H == {r \in Requests : Holds(r)}
<1>1. /\ reserved \in Int /\ tokens \in [Requests -> Nat \union {Absent}]
      /\ reserved = SumOf(tokens, H) /\ Absent \notin Nat
  BY GatewayAssumption DEF IInv, TypeOK, AccountTypeOK, ReservedAddsUp, HoldersOfTokens
<1>2. H \subseteq Requests /\ IsFiniteSet(H) /\ \A q \in H : tokens[q] \in Int
  BY <1>1, FS_Subset, GatewayAssumption DEF Holds
<1> SUFFICES reserved' = SumOf(tokens', H')
  BY DEF ReservedAddsUp, HoldersOfTokens
<1>3. CASE TokensStay
  <2>1. H' = H
    BY <1>3 DEF TokensStay, Holds
  <2> QED
    BY <1>1, <1>3, <2>1 DEF TokensStay
<1>4. ASSUME NEW r \in Requests, NEW n \in Nat, Takes(r, n)
      PROVE  reserved' = SumOf(tokens', H')
  <2>1. H' = H \union {r} /\ r \notin H
    BY <1>1, <1>4 DEF Takes, Holds
  <2>2. tokens'[r] = n /\ \A q \in H : tokens'[q] = tokens[q]
    BY <1>1, <1>4 DEF Takes, Holds
  <2> HIDE DEF H
  <2>3. SumOf(tokens', H) = SumOf(tokens, H)
    BY <1>2, <2>2, SumAgrees
  <2>4. \A q \in H \union {r} : tokens'[q] \in Int
    BY <1>2, <2>2
  <2>5. SumOf(tokens', H \union {r}) = n + SumOf(tokens', H)
    BY <1>2, <2>1, <2>2, <2>4, SumAdd
  <2> QED
    BY <1>1, <1>4, <2>1, <2>3, <2>5 DEF Takes
<1>5. ASSUME NEW r \in Requests, Frees(r)
      PROVE  reserved' = SumOf(tokens', H')
  <2>1. H' = H \ {r} /\ r \in H
    BY <1>1, <1>5 DEF Frees, Holds
  <2>2. \A q \in H \ {r} : tokens'[q] = tokens[q]
    BY <1>1, <1>5 DEF Frees, Holds
  <2> HIDE DEF H
  <2>3. IsFiniteSet(H \ {r})
    BY <1>2, FS_RemoveElement
  <2>4. SumOf(tokens', H \ {r}) = SumOf(tokens, H \ {r})
    BY <2>2, <2>3, SumAgrees
  <2>5. SumOf(tokens, H) = tokens[r] + SumOf(tokens, H \ {r})
    BY <1>2, <2>1, SumRemove
  <2>6. SumOf(tokens, H \ {r}) \in Int /\ tokens[r] \in Int
    BY <1>2, <2>1, <2>3, SumInt
  <2> QED
    BY <1>1, <1>5, <2>1, <2>4, <2>5, <2>6 DEF Frees
<1>6. CASE RedisLoss
  <2>1. H' = {}
    BY <1>6 DEF RedisLoss, Holds
  <2> QED
    BY <1>6, <2>1, SumEmpty DEF RedisLoss
<1> QED
  BY <1>3, <1>4, <1>5, <1>6, TokensEffect

\* The requests whose reported tokens the actual counter stands for.
Counts(r) == pc[r] \in {"verdict", "ended", "aborted"} /\ events[r] > 0 /\ ~Holds(r)
Counted == {r \in Requests : Counts(r)}
ActualAddsUp == losses = 0 => actual = SumOf(used, Counted)

(* Only reconciliation counts a request, and nothing else changes what is   *)
(* counted: a request that dies before it keeps its reservation.           *)
LEMMA CountedStays ==
    ASSUME IInv, losses = 0, NEW r \in Requests, Plan(r) \/ Advance(r) \/ Disturb(r),
           ~ReconcileTokens(r)
    PROVE  /\ actual' = actual
           /\ Counts(r)' <=> Counts(r)
           /\ Counts(r) => used'[r] = used[r]
<1> USE DEF connVars, tokenVars, pgVars, planVars, endVars, faultVars, accountVars
<1>0. /\ pc \in [Requests -> Steps] /\ resume \in [Requests -> {"slot", "settle", "aborted"}]
      /\ events \in [Requests -> Nat] /\ used \in [Requests -> Nat]
      /\ pc[r] \in Early \union Admitted \union {"undo"} => events[r] = 0
      /\ pc[r] = "reconcile" => Holds(r)
  BY DEF IInv, TypeOK, AccountTypeOK, ProgressTypeOK, RequestInv, AccountInv, CoverInv,
         Reserving
<1> USE DEF Counts, Holds, Goto, Undo, Skip, ReleaseThen, Early, Admitted, Steps
<1>1. CASE Plan(r)
  BY <1>0, <1>1 DEF Plan
<1>2. CASE ReserveBudget(r) \/ ReserveRequest(r) \/ BeginIntent(r)
  BY <1>0, <1>2 DEF ReserveBudget, ReserveRequest, BeginIntent
<1>3. CASE ReserveTokens(r)
  BY <1>0, <1>3 DEF ReserveTokens
<1>4. CASE ReserveSlot(r) \/ ReserveCall(r) \/ Failed(r)
  BY <1>0, <1>4 DEF ReserveSlot, ReserveCall, Failed
<1>5. CASE Answered(r)
  BY <1>0, <1>5 DEF Answered
<1>6. CASE ReleaseSlot(r) \/ Exhausted(r)
  BY <1>0, <1>6 DEF ReleaseSlot, Exhausted
<1>7. CASE StartStream(r) \/ LeaveUnstarted(r) \/ EndStream(r)
  BY <1>0, <1>7 DEF StartStream, LeaveUnstarted, EndStream
<1>8. CASE Settle(r) \/ ReportStream(r)
  BY <1>0, <1>8 DEF Settle, ReportStream
<1>9. CASE GiveBack(r)
  BY <1>0, <1>9 DEF GiveBack
<1>10. CASE IntentFails(r) \/ Breaks(r) \/ Dies(r) \/ ExpireIntent(r)
  BY <1>0, <1>10 DEF IntentFails, Breaks, Dies, ExpireIntent, Final
<1> QED
  BY <1>1, <1>2, <1>3, <1>4, <1>5, <1>6, <1>7, <1>8, <1>9, <1>10 DEF Advance, Disturb

LEMMA ActualStep ==
    ASSUME IInv, ActualAddsUp, [Next]_vars
    PROVE  ActualAddsUp'
<1> SUFFICES ASSUME losses' = 0 PROVE actual' = SumOf(used', Counted')
  BY DEF ActualAddsUp
<1>1. /\ actual \in Nat /\ used \in [Requests -> Nat] /\ losses \in Nat
      /\ Counted \subseteq Requests /\ IsFiniteSet(Counted)
  BY FS_Subset, GatewayAssumption DEF IInv, TypeOK, AccountTypeOK, ProgressTypeOK, Counted
<1>2. ASSUME NEW r \in Requests, Plan(r) \/ Advance(r) \/ Disturb(r)
      PROVE  actual' = SumOf(used', Counted')
  <2>1. losses = 0 /\ actual = SumOf(used, Counted)
    BY <1>2, LossesStay DEF ActualAddsUp
  <2>2. \A q \in Requests : q # r => Same(q)
    BY <1>2, StepIsLocal DEF IInv
  <2>3. \A q \in Requests : q # r => (Counts(q)' <=> Counts(q)) /\ used'[q] = used[q]
    BY <2>2 DEF Same, Counts, Holds
  <2>4. CASE ReconcileTokens(r)
    <3>1. Holds(r) /\ Paid(r) /\ pc[r] = "reconcile"
      BY <2>1, <2>4 DEF ReconcileTokens, IInv, RequestInv, AccountInv, CoverInv, Reserving
    <3>2. actual' = actual + used[r] /\ used' = used /\ Counts(r)' /\ ~Counts(r)
      BY <3>1, <2>4
      DEF ReconcileTokens, FreeTokens, Goto, Counts, Holds, Paid, pgVars, IInv, TypeOK,
          AccountTypeOK, ProgressTypeOK
    <3>3. Counted' = Counted \union {r} /\ r \notin Counted
      BY <2>3, <3>2 DEF Counted
    <3>4. \A q \in Counted \union {r} : used[q] \in Int
      BY <1>1
    <3>5. SumOf(used, Counted \union {r}) = used[r] + SumOf(used, Counted)
      BY <1>1, <3>3, <3>4, SumAdd
    <3> QED
      BY <1>1, <2>1, <3>2, <3>3, <3>5
  <2>5. CASE ~ReconcileTokens(r)
    <3>1. actual' = actual /\ (Counts(r)' <=> Counts(r)) /\ (Counts(r) => used'[r] = used[r])
      BY <1>2, <2>1, <2>5, CountedStays
    <3>2. Counted' = Counted /\ \A q \in Counted : used'[q] = used[q]
      BY <2>3, <3>1 DEF Counted
    <3>3. SumOf(used', Counted) = SumOf(used, Counted)
      BY <1>1, <3>2, SumAgrees
    <3> QED
      BY <2>1, <3>1, <3>2, <3>3
  <2> QED
    BY <2>4, <2>5
<1>3. CASE Environment
  <2>1. ~RedisLoss
    BY <1>1 DEF RedisLoss, Loss
  <2>2. losses = 0 /\ UNCHANGED <<actual, used, pc, events, tokens>>
    BY <1>1, <1>3, <2>1
    DEF Environment, CircuitElapses, CircuitExpires, SlotsExpire, Loss, faultVars, accountVars,
        tokenVars, pgVars
  <2>3. Counted' = Counted
    BY <2>2 DEF Counted, Counts, Holds
  <2> QED
    BY <2>2, <2>3 DEF ActualAddsUp
<1>4. CASE UNCHANGED vars
  <2>1. losses = 0 /\ UNCHANGED <<actual, used, pc, events, tokens>>
    BY <1>4 DEF vars, faultVars, accountVars, tokenVars, pgVars
  <2>2. Counted' = Counted
    BY <2>1 DEF Counted, Counts, Holds
  <2> QED
    BY <2>1, <2>2 DEF ActualAddsUp
<1> QED
  BY <1>2, <1>3, <1>4 DEF Next, Environment

(* The reserved counter is the sum of the reservations and the actual one   *)
(* the sum of what was reported, whatever Redis forgets and however        *)
(* requests die: no request is counted twice and none is lost.             *)
THEOREM TokensAddUp == Spec => []TokensAreCounted
<1>1. Init => ReservedAddsUp /\ ActualAddsUp
  <2> SUFFICES ASSUME Init PROVE ReservedAddsUp /\ ActualAddsUp
    OBVIOUS
  <2>1. {r \in Requests : Holds(r)} = {} /\ Counted = {}
    BY DEF Init, Holds, Counted, Counts
  <2> QED
    BY <2>1, SumEmpty DEF Init, ReservedAddsUp, HoldersOfTokens, ActualAddsUp
<1>2. IInv /\ ReservedAddsUp /\ ActualAddsUp /\ [Next]_vars
         => (ReservedAddsUp /\ ActualAddsUp)'
  BY ReservedStep, ActualStep
<1>3. ReservedAddsUp /\ ActualAddsUp => TokensAreCounted
  BY DEF ReservedAddsUp, ActualAddsUp, TokensAreCounted, HoldersOfTokens, Counted, Counts
<1> QED
  BY <1>1, <1>2, <1>3, Invariance, PTL DEF Spec
=============================================================================
