------------------------ MODULE RoutingConfiguration ------------------------
(***************************************************************************)
(* What publication promises, without outbox, leases, snapshots or Redis:  *)
(* administrators change the routing tables, and the gateway serves valid  *)
(* states of them under growing version numbers.  A version is never       *)
(* served without the change it was made for.                              *)
(***************************************************************************)
EXTENDS Naturals

CONSTANTS
    Versions,     \* one per change
    ValidTables   \* the sets of changes that leave the tables fit to be served

VARIABLES
    tables,   \* the changes made
    version,  \* the version served, 0 for none
    content   \* the changes it contains

Init ==
    /\ tables = {}
    /\ version = 0
    /\ content = {}

Change(v) ==
    /\ v \notin tables
    /\ tables' = tables \union {v}
    /\ UNCHANGED <<version, content>>

Serve(v, changes) ==
    /\ v > version
    /\ v \in changes
    /\ changes \subseteq tables
    /\ changes \in ValidTables
    /\ version' = v
    /\ content' = changes
    /\ UNCHANGED tables

Next ==
    \E v \in Versions : Change(v) \/ \E changes \in ValidTables : Serve(v, changes)

Spec == Init /\ [][Next]_<<tables, version, content>>
=============================================================================
