----------------------------- MODULE BeliefBase -----------------------------
(***************************************************************************)
(* One BeliefBase under process_event and merge (beliefbase/base.rs): the  *)
(* states, the relation graph, and the index from identities to positions  *)
(* in that graph.                                                          *)
(*                                                                         *)
(* petgraph addresses a node by its position and moves nodes when one is   *)
(* removed, so an index that is not rebuilt names other nodes.  The code   *)
(* marks the index dirty and rebuilds it in index_sync, which most reads   *)
(* begin with.  The model keeps the relations by identity and reads every  *)
(* identity the code looks up through the index (At).                      *)
(*                                                                         *)
(* process_event has exclusive access.  The loop of insert_state over the  *)
(* nodes that a new node replaces is one step for each of them, and        *)
(* nothing else happens before it is done.  Content of nodes, the bref     *)
(* table (which follows states line by line) and paths are not kept.       *)
(***************************************************************************)
EXTENDS BeliefEdges, Sequences

CONSTANT
    Related     \* the pairs that events relate

ASSUME RelatedAssumption == Related \subseteq Pairs

VARIABLES
    states,     \* BeliefBase::states: the nodes there are
    edges,      \* BeliefBase::relations: the weights of each pair
    nodes,      \* BeliefBase::relations: the position of each node
    index,      \* BeliefBase::bid_to_index
    dirty,      \* BeliefBase::index_dirty
    replacing   \* insert_state: the nodes left to replace, and by what

vars == <<states, edges, nodes, index, dirty, replacing>>

InGraph(n) == {n[i] : i \in DOMAIN n}
IndexOf(n) == [b \in InGraph(n) |-> CHOOSE i \in DOMAIN n : n[i] = b]
Idle == replacing = <<>>

\* The sequences of the elements of a set, each once.
Orderings(set) == Bijection(1..Cardinality(set), set)

Init ==
    /\ states = {}
    /\ edges = [p \in Pairs |-> NoWeights]
    /\ nodes = <<>>
    /\ index = [b \in {} |-> 0]
    /\ dirty = FALSE
    /\ replacing = <<>>

----------------------------------------------------------------------------
\* Mutant: nodes without relations are not added to the graph.
SyncGraphOnly ==
    IF dirty THEN {[nodes |-> nodes, index |-> IndexOf(nodes)]}
    ELSE {[nodes |-> nodes, index |-> index]}

\* index_sync(false): unless the index is clean, take the positions from
\* the graph and add the nodes that are only in states.
SyncResults ==
    IF dirty
    THEN {[nodes |-> nodes \o added, index |-> IndexOf(nodes \o added)] :
              added \in Orderings(states \ InGraph(nodes))}
    ELSE {[nodes |-> nodes, index |-> index]}

\* The node that the code reaches when it looks up b.
At(g, b) == g.nodes[g.index[b]]

\* A reader: get, paths, relations, bid_to_index, clone.
Read ==
    /\ Idle
    /\ dirty
    /\ \E g \in SyncResults : nodes' = g.nodes /\ index' = g.index
    /\ dirty' = FALSE
    /\ UNCHANGED <<states, edges, replacing>>

\* Mutant: replaced nodes leave states before their relations are moved.
NodeUpdateRemovesFirst(b, replaced, changed) ==
    /\ Idle
    /\ b \in states \/ changed
    /\ b \notin replaced
    /\ states' = (states \union {b}) \ replaced
    /\ IF replaced = {}
       THEN dirty' = (dirty \/ changed) /\ UNCHANGED <<nodes, index, replacing>>
       ELSE /\ \E g \in SyncResults : nodes' = g.nodes /\ index' = g.index
            /\ dirty' = FALSE
            /\ replacing' = <<b, replaced>>
    /\ UNCHANGED edges

\* NodeUpdate: the node is inserted; the merge keys of the event find the
\* nodes it replaces.  Evaluating a key synchronizes the index; so does
\* replace_bid, but with the new node in states and maybe not in the index.
NodeUpdate(b, replaced, changed) ==
    /\ Idle
    /\ b \in states \/ changed
    /\ b \notin replaced
    /\ states' = states \union {b}
    /\ IF replaced = {}
       THEN dirty' = (dirty \/ changed) /\ UNCHANGED <<nodes, index, replacing>>
       ELSE /\ \E g \in SyncResults : nodes' = g.nodes /\ index' = g.index
            /\ dirty' = FALSE
            /\ replacing' = <<b, replaced>>
    /\ UNCHANGED edges

\* NodeUpdate whose keys are all unknown: they are evaluated all the same.
NodeUpdateUnknownKeys(b, changed) ==
    /\ Idle
    /\ b \in states \/ changed
    /\ states' = states \union {b}
    /\ \E g \in SyncResults : nodes' = g.nodes /\ index' = g.index
    /\ dirty' = changed
    /\ UNCHANGED <<edges, replacing>>

\* Mutant: the last node is removed instead.
RemoveLast(n, i) == SubSeq(n, 1, Len(n) - 1)

\* petgraph's remove_node: the last node takes the free position.
SwapRemove(n, i) ==
    [j \in 1..(Len(n) - 1) |-> IF j = i THEN n[Len(n)] ELSE n[j]]

\* One replacement: replace_bid and the removal from states after it.
ReplaceBid(old) ==
    /\ ~Idle
    /\ old \in replacing[2]
    /\ \E g \in SyncResults :
          LET new   == replacing[1]
              known == new \in DOMAIN g.index
              h     == IF known THEN g ELSE [g EXCEPT !.nodes = Append(@, new)]
              newAt == IF known THEN At(g, new) ELSE new
          IN  /\ edges' = ReplacedNode(edges, At(h, old), newAt)
              /\ nodes' = SwapRemove(h.nodes, h.index[old])
              /\ index' = h.index
    /\ dirty' = TRUE
    /\ states' = states \ {old}
    /\ replacing' = IF replacing[2] = {old} THEN <<>>
                    ELSE <<replacing[1], replacing[2] \ {old}>>

\* NodesRemoved.  Reindexing a sink synchronizes the index again.
NodesRemoved(removed) ==
    /\ Idle
    /\ removed # {}
    /\ states' = states \ removed
    /\ edges' \in WithoutNodes(edges, removed)
    /\ \E g \in SyncResults :
          \E kept \in Orderings(InGraph(g.nodes) \ removed) :
              /\ nodes' = kept
              /\ IF \E r \in removed, t \in Bids : edges[<<r, t>>] # NoWeights
                 THEN index' = IndexOf(kept) /\ dirty' = FALSE
                 ELSE index' = g.index /\ dirty' = TRUE
    /\ UNCHANGED replacing

\* update_relation through the index g.
UpdateAt(g, source, sink, ws) ==
    /\ nodes' = g.nodes
    /\ index' = g.index
    /\ dirty' = FALSE
    /\ IF {source, sink} \subseteq DOMAIN g.index
       THEN edges' \in UpdatedRelation(edges, At(g, source), At(g, sink), ws)
       ELSE edges' = edges
    /\ UNCHANGED <<states, replacing>>

RelationUpdate(source, sink, ws) ==
    /\ Idle
    /\ \E g \in SyncResults : UpdateAt(g, source, sink, ws)

RelationRemoved(source, sink) ==
    /\ Idle
    /\ \E g \in SyncResults : UpdateAt(g, source, sink, NoWeights)

\* RelationChange with a weight, whose key the model bounds by MaxKey.
RelationChange(source, sink, kind, weight) ==
    /\ Idle
    /\ weight.key # NoKey \/ NextKey(edges, sink, kind) <= MaxKey
    /\ \E g \in SyncResults :
          UpdateAt(g, source, sink,
                   ChangedWeights(edges, At(g, source), At(g, sink), kind, weight))

\* RelationChange without a weight removes the kind.
KindRemoved(source, sink, kind) ==
    /\ Idle
    /\ \E g \in SyncResults :
          UpdateAt(g, source, sink,
                   [edges[<<At(g, source), At(g, sink)>>] EXCEPT ![kind] = NoWeight])

\* merge_graph_mut, pass 1: nodes are put into states and the index is
\* rebuilt once.  Pass 2 is a RelationUpdate for each relation.
MergeNodes(added, changed) ==
    /\ Idle
    /\ added \subseteq states \/ changed
    /\ states' = states \union added
    /\ LET merged == IF dirty \/ changed
                     THEN {[nodes |-> nodes \o new, index |-> IndexOf(nodes \o new)] :
                              new \in Orderings(states' \ InGraph(nodes))}
                     ELSE {[nodes |-> nodes, index |-> index]}
       IN  \E g \in merged : nodes' = g.nodes /\ index' = g.index
    /\ dirty' = FALSE
    /\ UNCHANGED <<edges, replacing>>

Next ==
    \/ Read
    \/ \E b \in Bids, changed \in BOOLEAN :
          \/ \E replaced \in SUBSET states : NodeUpdate(b, replaced, changed)
          \/ NodeUpdateUnknownKeys(b, changed)
    \/ \E old \in Bids : ReplaceBid(old)
    \/ \E removed \in SUBSET Bids : NodesRemoved(removed)
    \/ \E r \in Related :
          \/ \E ws \in WeightSets : RelationUpdate(r[1], r[2], ws)
          \/ RelationRemoved(r[1], r[2])
          \/ \E kind \in Kinds :
                \/ \E weight \in [key : 0..MaxKey \union {NoKey}, owner : Owners] :
                      RelationChange(r[1], r[2], kind, weight)
                \/ KindRemoved(r[1], r[2], kind)
    \/ \E added \in SUBSET Bids, changed \in BOOLEAN : MergeNodes(added, changed)

Spec == Init /\ [][Next]_vars

----------------------------------------------------------------------------
\* The types of the variables.  A node is replaced by another one, and
\* every weight in the graph carries a sort key and an owner.
BaseTypeOK ==
    /\ states \subseteq Bids
    /\ edges \in [Pairs -> [Kinds -> [key : Nat, owner : Owners] \union {NoWeight}]]
    /\ nodes \in Seq(Bids)
    /\ DOMAIN index \subseteq Bids /\ \A b \in DOMAIN index : index[b] \in Nat
    /\ dirty \in BOOLEAN
    /\ ~Idle => /\ replacing[1] \in states
                /\ replacing[2] \subseteq states \ {replacing[1]} /\ replacing[2] # {}

\* A clean index names the position of every node of the graph and of no
\* other, and every node of the base is in the graph but one that has just
\* been inserted to replace others (index_dirty is set by hand at six
\* places; petgraph moves nodes when it removes one).
CleanIndexIsExact ==
    ~dirty => /\ index = IndexOf(nodes)
              /\ states \subseteq InGraph(nodes) \union (IF Idle THEN {} ELSE {replacing[1]})

\* Static invariant 1.0 of BeliefBase: every node of the relation graph has
\* a state, and so have both ends of a relation; no node is in it twice.
RelationsHaveStates ==
    /\ InGraph(nodes) \subseteq states
    /\ \A i, j \in DOMAIN nodes : nodes[i] = nodes[j] => i = j
    /\ \A p \in Pairs : edges[p] # NoWeights => {p[1], p[2]} \subseteq InGraph(nodes)

\* A sink that loses relations of a kind, by whatever event, has its other
\* relations of that kind numbered 0, 1, ... afterwards; replace_bid alone
\* moves relations without renumbering.
RemovalsCompact ==
    [][Idle => \A sink \in states', kind \in Kinds :
          LET before == Incoming(edges, sink, kind)
              after  == Incoming(edges', sink, kind)
          IN  ~(before \subseteq after) =>
                 {edges'[<<s, sink>>][kind].key : s \in after}
                     = 0..(Cardinality(after) - 1)]_vars

\* Events act on the nodes that they name: looked up through the index, a
\* base behaves as a set of nodes with relations between them.
Abstract == INSTANCE BeliefGraph WITH states <- states, edges <- edges
ImplementsBeliefGraph == Abstract!GraphSpec
=============================================================================
