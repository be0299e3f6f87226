---------------------------- MODULE SpendLedger ----------------------------
(***************************************************************************)
(* What budget accounting promises, without Redis, claims or crashes: the  *)
(* spend of a key only grows, by the cost of one request at a time, and    *)
(* each request is either charged once or waived, never both.              *)
(***************************************************************************)
EXTENDS Naturals

CONSTANTS Keys, Requests, KeyOf, Costs

VARIABLES
    bill,  \* what each key has been charged
    fate   \* what became of each request

Init ==
    /\ bill = [k \in Keys |-> 0]
    /\ fate = [r \in Requests |-> "open"]

Charge(r, cost) ==
    /\ fate[r] = "open"
    /\ fate' = [fate EXCEPT ![r] = "charged"]
    /\ bill' = [bill EXCEPT ![KeyOf[r]] = @ + cost]

Waive(r) ==
    /\ fate[r] = "open"
    /\ fate' = [fate EXCEPT ![r] = "waived"]
    /\ UNCHANGED bill

Next == \E r \in Requests : Waive(r) \/ \E cost \in Costs : Charge(r, cost)

Spec == Init /\ [][Next]_<<bill, fate>>
=============================================================================
