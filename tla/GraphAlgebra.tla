---------------------------- MODULE GraphAlgebra ----------------------------
(***************************************************************************)
(* BeliefGraphs, the answers to queries, and what joins them               *)
(* (beliefbase/graph.rs).  A relation is a pair <<source, sink>>; a Section *)
(* relation leads from a child to its parent.                              *)
(***************************************************************************)
EXTENDS Naturals, FiniteSets, FiniteSetsExt

CONSTANTS
    Nodes,          \* the nodes there can be: numbers, in the order of their Bids
    Sections,       \* the Section relations there can be
    Links,          \* the other relations there can be
    Limit           \* the nodes of a page

ASSUME GraphAssumption ==
    /\ Nodes \subseteq Nat /\ Limit \in Nat
    /\ Sections \subseteq Nodes \X Nodes /\ Links \subseteq (Nodes \X Nodes) \ Sections
    /\ \A p \in Sections \union Links : p[1] # p[2]

(* BeliefGraph (beliefbase/graph.rs): a part of the database.  The          *)
(* relations of a Trace node may be missing.                                *)

Graph == [whole : SUBSET Nodes, trace : SUBSET Nodes, edges : SUBSET (Sections \union Links)]
NoResult == [whole |-> {}, trace |-> Nodes, edges |-> {}]
Empty == [whole |-> {}, trace |-> {}, edges |-> {}]

States(g) == g.whole \union g.trace
Ends(E) == {p[1] : p \in E} \union {p[2] : p \in E}
Reversed(E) == {<<p[2], p[1]>> : p \in E}
Beyond(S, E) == S \union {p[2] : p \in {e \in E : e[1] \in S}}
Reach(S, E) ==
    LET sinks  == {p[2] : p \in E} \ S
        closed == {X \in SUBSET sinks : \A p \in E : p[1] \in S \union X => p[2] \in S \union X}
    IN  S \union {n \in sinks : \A X \in closed : n \in X}

\* build_downstream_expr and build_upstream_expr: the nodes that relations
\* lead to and none leads on from, and the other way round.
ExternalSinks(E)   == {p[2] : p \in E} \ {p[1] : p \in E}
ExternalSources(E) == ExternalSinks(Reversed(E))

\* add_relations: the nodes of r that its relations lead to or come from, as
\* seen from l, and every relation whose ends l then has.  (The pass over the
\* relations fills in what is one step from there.)
AddRelations(l, r) ==
    LET near(nodes, E) == nodes \union Beyond(nodes, E) \union Beyond(nodes, Reversed(E))
        reached(a, b)  == LET start == States(a) \intersect Ends(b.edges)
                          IN  Reach(start, b.edges) \union Reach(start, Reversed(b.edges))
        joined(a, b, nodes) ==
            [whole |-> a.whole \union ((nodes \intersect b.whole) \ a.trace),
             trace |-> a.trace \union ((nodes \intersect b.trace) \ a.whole),
             edges |-> a.edges \union
                {p \in b.edges : {p[1], p[2]} \subseteq nodes \intersect (States(a) \union States(b))}]
        union[g \in Graph \X Graph] ==
            LET within[nodes \in SUBSET Nodes] == joined(g[1], g[2], nodes)
            IN  within[near(States(g[1]) \union reached(g[1], g[2]), g[2].edges)]
    IN  union[<<l, r>>]

\* union_mut: the whole nodes of r replace those of l.
Union(l, r) ==
    AddRelations([l EXCEPT !.whole = @ \union r.whole, !.trace = @ \ r.whole], r)

\* Mutant: the Trace nodes of r replace the whole ones of l.
UnionDowngrades(l, r) ==
    AddRelations([l EXCEPT !.whole = (@ \union r.whole) \ r.trace,
                           !.trace = (@ \ r.whole) \union r.trace], r)

\* union_mut_with_trace: so do its Trace nodes, but not the whole ones of l.
UnionWithTrace(l, r) ==
    AddRelations([l EXCEPT !.whole = @ \union r.whole,
                           !.trace = (@ \union r.trace) \ (l.whole \union r.whole)], r)

\* paginate: the nodes from the offset on, and the relations between them.
Page(g, offset) ==
    LET before(n) == Cardinality({m \in States(g) : m < n})
        nodes     == {n \in States(g) : before(n) >= offset /\ before(n) < offset + Limit}
    IN  [whole |-> g.whole \intersect nodes, trace |-> g.trace \intersect nodes,
         edges |-> {p \in g.edges : {p[1], p[2]} \subseteq nodes}]
=============================================================================
