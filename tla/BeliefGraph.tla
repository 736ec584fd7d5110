---------------------------- MODULE BeliefGraph ----------------------------
(***************************************************************************)
(* What a belief base promises to those who send it events: a set of nodes *)
(* and relations between them, where an event acts on the nodes that it    *)
(* names and on no other.  BeliefBase.tla is shown to implement this.      *)
(***************************************************************************)
EXTENDS BeliefEdges

VARIABLES
    states,     \* the nodes of the base
    edges       \* the weights between each pair of nodes

graphVars == <<states, edges>>

GraphInit ==
    /\ states = {}
    /\ edges = [p \in Pairs |-> NoWeights]

AddNodes ==
    /\ \E added \in SUBSET Bids : states' = states \union added
    /\ UNCHANGED edges

ReplaceNode ==
    \E old, new \in states :
        /\ old # new
        /\ states' = states \ {old}
        /\ edges' = ReplacedNode(edges, old, new)

RemoveNodes ==
    \E removed \in SUBSET Bids :
        /\ states' = states \ removed
        /\ edges' \in WithoutNodes(edges, removed)

\* A relation gets new weights; both its ends are nodes of the base.
Relate ==
    \E source, sink \in states :
        /\ edges' \in UpdatedRelation(edges, source, sink, edges'[<<source, sink>>])
        /\ UNCHANGED states

GraphNext == AddNodes \/ ReplaceNode \/ RemoveNodes \/ Relate

GraphSpec == GraphInit /\ [][GraphNext]_graphVars
=============================================================================
