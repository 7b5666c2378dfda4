-------------------------------- MODULE DagRun --------------------------------
(***************************************************************************)
(* What a Workflow promises of its nodes: a node is created once, after    *)
(* every node it depends on succeeded; it is run at most once; it succeeds *)
(* only if it was run; and its end is final.                               *)
(***************************************************************************)
EXTENDS Naturals

CONSTANT Nodes

VARIABLES
    needs,   \* [Nodes -> SUBSET Nodes], fixed when the Workflow is declared
    node,    \* where each node stands
    runs     \* how often each node was run

vars == <<needs, node, runs>>

Init ==
    /\ needs \in [Nodes -> SUBSET Nodes]
    /\ node = [n \in Nodes |-> "waiting"]
    /\ runs = [n \in Nodes |-> 0]

Create(n) ==
    /\ node[n] = "waiting"
    /\ \A d \in needs[n] : node[d] = "succeeded"
    /\ node' = [node EXCEPT ![n] = "created"]
    /\ UNCHANGED <<needs, runs>>

Run(n) ==
    /\ node[n] = "created" /\ runs[n] = 0
    /\ runs' = [runs EXCEPT ![n] = 1]
    /\ UNCHANGED <<needs, node>>

Succeed(n) ==
    /\ node[n] = "created" /\ runs[n] = 1
    /\ node' = [node EXCEPT ![n] = "succeeded"]
    /\ UNCHANGED <<needs, runs>>

Fail(n) ==
    /\ node[n] = "created"
    /\ node' = [node EXCEPT ![n] = "failed"]
    /\ UNCHANGED <<needs, runs>>

Next == \E n \in Nodes : Create(n) \/ Run(n) \/ Succeed(n) \/ Fail(n)

Spec == Init /\ [][Next]_vars

=============================================================================
