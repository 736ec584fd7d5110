---------------------------- MODULE BeliefEdges ----------------------------
(***************************************************************************)
(* The relations of a belief base as values, and what the functions of     *)
(* beliefbase/base.rs do to them.  A relation runs from a source to a sink *)
(* and holds at most one weight for each kind.  Of a weight's payload the  *)
(* model keeps the sort key, which orders the relations of one kind into a *)
(* sink, and the side that owns the weight.                                *)
(*                                                                         *)
(* Reindexing sorts by key in a stable order that petgraph's adjacency     *)
(* lists decide, so an operator that reindexes returns the set of results  *)
(* that the order of equal keys allows.                                    *)
(***************************************************************************)
EXTENDS Integers, FiniteSets, FiniteSetsExt

CONSTANTS
    Bids,       \* the identities of nodes
    Kinds,      \* kinds of weights (WeightKind)
    Section,    \* the kind of the document structure
    Owners,     \* the sides that can own a weight (WEIGHT_OWNED_BY)
    MaxKey      \* bound on the sort keys in events; a u16 in the code

ASSUME EdgesAssumption ==
    /\ IsFiniteSet(Bids)
    /\ Section \in Kinds
    /\ MaxKey \in Nat

Pairs == Bids \X Bids
Weights == [key : 0..MaxKey, owner : Owners]

\* No weight of a kind, and the sort key of a weight that carries none.
NoWeight == [key |-> -1, owner |-> "nobody"]
NoKey == -1

WeightSets == [Kinds -> Weights \union {NoWeight}]
NoWeights == [k \in Kinds |-> NoWeight]
KindsOf(ws) == {k \in Kinds : ws[k] # NoWeight}

\* WeightSet::union: the right side wins.
WeightUnion(ws, rhs) == [k \in Kinds |-> IF rhs[k] # NoWeight THEN rhs[k] ELSE ws[k]]

\* The weights that replace_bid moves to the new node.
NonSection(ws) == [ws EXCEPT ![Section] = NoWeight]

----------------------------------------------------------------------------
\* reindex_sink_edges

Incoming(edges, sink, kind) == {s \in Bids : edges[<<s, sink>>][kind] # NoWeight}

\* The numberings 0, 1, ... of the sources of a sink that keep their order.
Renumberings(edges, sink, kind) ==
    LET sources == Incoming(edges, sink, kind)
        key(s) == edges[<<s, sink>>][kind].key
    IN  {f \in [sources -> 0..(Cardinality(sources) - 1)] :
            \A s, t \in sources :
                s # t => f[s] # f[t] /\ (key(s) < key(t) => f[s] < f[t])}

\* The results of reindexing each <<sink, kind>> of affected.
Reindexed(edges, affected) ==
    LET numberings == {n \in [affected -> UNION {Renumberings(edges, a[1], a[2]) : a \in affected}] :
                          \A a \in affected : n[a] \in Renumberings(edges, a[1], a[2])}
        renumber(n, p, k) ==
            IF <<p[2], k>> \in affected /\ edges[p][k] # NoWeight
            THEN [edges[p][k] EXCEPT !.key = n[<<p[2], k>>][p[1]]]
            ELSE edges[p][k]
    IN  {[p \in Pairs |-> [k \in Kinds |-> renumber(n, p, k)]] : n \in numberings}

----------------------------------------------------------------------------
\* Mutant: the sink is not reindexed.
UpdatedInPlace(edges, source, sink, ws) == {[edges EXCEPT ![<<source, sink>>] = ws]}

\* update_relation: the relation gets exactly the weights ws, and the kinds
\* it loses are reindexed at its sink.
UpdatedRelation(edges, source, sink, ws) ==
    Reindexed([edges EXCEPT ![<<source, sink>>] = ws],
              {sink} \X (KindsOf(edges[<<source, sink>>]) \ KindsOf(ws)))

\* The key that generate_edge_update gives a weight without one.
NextKey(edges, sink, kind) ==
    LET keys == {edges[<<s, sink>>][kind].key : s \in Incoming(edges, sink, kind)}
    IN  IF keys = {} THEN 0 ELSE Max(keys) + 1

\* Mutant: the weight is taken as it came, without a key if it has none.
PayloadReplaced(edges, source, sink, kind, weight) ==
    [edges[<<source, sink>>] EXCEPT ![kind] = weight]

\* generate_edge_update with a weight: its payload is merged into the
\* weight of that kind, so a key that is there stays unless one is given.
ChangedWeights(edges, source, sink, kind, weight) ==
    LET present == edges[<<source, sink>>][kind]
        key == CASE weight.key # NoKey   -> weight.key
                 [] present # NoWeight   -> present.key
                 [] OTHER                -> NextKey(edges, sink, kind)
    IN  [edges[<<source, sink>>] EXCEPT ![kind] = [weight EXCEPT !.key = key]]

\* remove_nodes: the relations of the removed nodes go, and the sinks of
\* the relations that left them are reindexed.
WithoutNodes(edges, removed) ==
    LET affected == {a \in (Bids \ removed) \X Kinds :
                        \E r \in removed : edges[<<r, a[1]>>][a[2]] # NoWeight}
    IN  Reindexed([p \in Pairs |-> IF p[1] \in removed \/ p[2] \in removed
                                   THEN NoWeights ELSE edges[p]],
                  affected)

\* replace_bid: relations from the old node become relations from the new
\* one, then relations to it; Section weights are dropped, weights of the
\* old node win, and no sink is reindexed.  The walk over the relations is
\* taken to visit each of them once.
ReplacedNode(edges, old, new) ==
    LET moved == [p \in Pairs |->
                    CASE p[1] = old -> NoWeights
                      [] p[1] = new -> WeightUnion(edges[p], NonSection(edges[<<old, p[2]>>]))
                      [] OTHER      -> edges[p]]
    IN  [p \in Pairs |->
            CASE p[2] = old -> NoWeights
              [] p[2] = new -> WeightUnion(moved[p], NonSection(moved[<<p[1], old>>]))
              [] OTHER      -> moved[p]]
=============================================================================
