---------------------------- MODULE QueriesProofs ----------------------------
(***************************************************************************)
(* Proofs about queries, for every database, every query of any radius and *)
(* any number of clients: a node of a result that is not a Trace has all   *)
(* its relations, whatever is committed between the statements, a query    *)
(* for one node brings the chain above it, and both evaluations of the     *)
(* query language give the same answers.                                   *)
(***************************************************************************)
EXTENDS Queries, OrderLemmas

Relations == Sections \union Links

\* A graph in which no node is both and every relation has its ends.
GraphOK(g) ==
    /\ g \in Graph
    /\ g.whole \intersect g.trace = {}
    /\ Ends(g.edges) \subseteq States(g)

\* The graph has those relations of E that touch its whole nodes.
Complete(g, E) == \A p \in E : {p[1], p[2]} \intersect g.whole # {} => p \in g.edges

----------------------------------------------------------------------------
(* The algebra.                                                             *)

\* A relation is a pair of nodes.
LEMMA PairsAre ==
    ASSUME NEW E \in SUBSET Relations, NEW p \in E
    PROVE  p = <<p[1], p[2]>> /\ p[1] \in Nodes /\ p[2] \in Nodes
    BY GraphAssumption DEF Relations

\* What can be reached has the nodes one starts from, and only nodes.
LEMMA ReachIs ==
    ASSUME NEW S \in SUBSET Nodes, NEW E, \A p \in E : p[2] \in Nodes
    PROVE  S \subseteq Reach(S, E) /\ Reach(S, E) \subseteq Nodes
    BY DEF Reach

\* What AddRelations keeps of its first graph and brings of its second.
LEMMA AddRelationsIs ==
    ASSUME NEW a \in Graph, NEW b \in Graph
    PROVE  LET g == AddRelations(a, b) IN
           /\ g \in Graph
           /\ a.whole \subseteq g.whole /\ \A x \in g.whole : x \in a.whole \/ (x \in b.whole /\ x \notin a.trace)
           /\ a.trace \subseteq g.trace /\ \A x \in g.trace : x \in a.trace \/ (x \in b.trace /\ x \notin a.whole)
           /\ a.edges \subseteq g.edges /\ g.edges \subseteq a.edges \union b.edges
           /\ \A p \in g.edges : p \in a.edges \/ {p[1], p[2]} \subseteq States(g)
           /\ \A p \in b.edges :
                 {p[1], p[2]} \intersect States(a) # {} /\ {p[1], p[2]} \subseteq States(a) \union States(b)
                 => p \in g.edges /\ {p[1], p[2]} \subseteq States(g)
    <1> DEFINE start == States(a) \intersect Ends(b.edges)
               reached == Reach(start, b.edges) \union Reach(start, Reversed(b.edges))
               S == States(a) \union reached
               nodes == S \union Beyond(S, b.edges) \union Beyond(S, Reversed(b.edges))
               g == [whole |-> a.whole \union ((nodes \intersect b.whole) \ a.trace),
                     trace |-> a.trace \union ((nodes \intersect b.trace) \ a.whole),
                     edges |-> a.edges \union
                        {p \in b.edges : {p[1], p[2]} \subseteq nodes \intersect (States(a) \union States(b))}]
    <1>1. /\ a.whole \subseteq Nodes /\ a.trace \subseteq Nodes /\ b.whole \subseteq Nodes /\ b.trace \subseteq Nodes
          /\ a.edges \subseteq Relations /\ b.edges \subseteq Relations
        BY DEF Graph, Relations
    <1>2. \A p \in b.edges : p = <<p[1], p[2]>> /\ p[1] \in Nodes /\ p[2] \in Nodes
        BY <1>1, PairsAre
    <1>3. \A q \in Reversed(b.edges) : q[1] \in Nodes /\ q[2] \in Nodes
        BY <1>2 DEF Reversed
    <1>4. reached \subseteq Nodes
        <2>1. start \in SUBSET Nodes
            BY <1>1 DEF States
        <2>2. Reach(start, b.edges) \subseteq Nodes
            BY <1>2, <2>1, ReachIs
        <2>3. Reach(start, Reversed(b.edges)) \subseteq Nodes
            BY <1>3, <2>1, ReachIs
        <2> QED BY <2>2, <2>3
    <1> HIDE DEF reached
    <1>5. nodes \in SUBSET Nodes
        BY <1>1, <1>2, <1>3, <1>4 DEF Beyond, States
    <1>6. AddRelations(a, b) = g
        <2>1. <<a, b>> \in Graph \X Graph
            OBVIOUS
        <2> QED BY <1>5, <2>1 DEF AddRelations, reached
    <1>7. \A p \in b.edges : {p[1], p[2]} \intersect States(a) # {} => p[1] \in nodes /\ p[2] \in nodes
        <2> SUFFICES ASSUME NEW p \in b.edges, {p[1], p[2]} \intersect States(a) # {}
                     PROVE  p[1] \in nodes /\ p[2] \in nodes
            OBVIOUS
        <2>1. p[1] \in S => p[2] \in Beyond(S, b.edges)
            BY DEF Beyond
        <2>2. <<p[2], p[1]>> \in Reversed(b.edges)
            BY DEF Reversed
        <2>3. p[2] \in S => p[1] \in Beyond(S, Reversed(b.edges))
            BY <2>2 DEF Beyond
        <2> QED BY <2>1, <2>3
    <1>8. States(a) \subseteq nodes
        OBVIOUS
    <1> HIDE DEF nodes
    <1>9. g \in Graph
        BY <1>1 DEF Graph, Relations
    <1>10. \A x \in nodes \intersect (States(a) \union States(b)) : x \in States(g)
        BY DEF States
    <1> QED BY <1>6, <1>7, <1>9, <1>10

\* Joined graphs stay graphs, and bring every relation of r that touches a.
LEMMA JoinedOK ==
    ASSUME NEW a \in Graph, NEW r, GraphOK(r), a.whole \intersect a.trace = {},
           Ends(a.edges) \subseteq States(a)
    PROVE  /\ GraphOK(AddRelations(a, r))
           /\ a.whole \subseteq AddRelations(a, r).whole
           /\ \A x \in AddRelations(a, r).whole : x \in a.whole \/ (x \in r.whole /\ x \notin a.trace)
           /\ a.edges \subseteq AddRelations(a, r).edges
           /\ \A p \in r.edges : {p[1], p[2]} \intersect States(a) # {} => p \in AddRelations(a, r).edges
    <1> DEFINE g == AddRelations(a, r)
    <1>1. /\ g \in Graph
          /\ a.whole \subseteq g.whole /\ \A x \in g.whole : x \in a.whole \/ (x \in r.whole /\ x \notin a.trace)
          /\ a.trace \subseteq g.trace /\ \A x \in g.trace : x \in a.trace \/ (x \in r.trace /\ x \notin a.whole)
          /\ a.edges \subseteq g.edges
          /\ \A p \in g.edges : p \in a.edges \/ {p[1], p[2]} \subseteq States(g)
          /\ \A p \in r.edges :
                {p[1], p[2]} \intersect States(a) # {} /\ {p[1], p[2]} \subseteq States(a) \union States(r)
                => p \in g.edges
        BY AddRelationsIs DEF GraphOK
    <1> HIDE DEF g
    <1>2. g.whole \intersect g.trace = {}
        BY <1>1 DEF GraphOK
    <1>3. \A p \in a.edges : p[1] \in States(g) /\ p[2] \in States(g)
        BY <1>1 DEF Ends, States
    <1>4. Ends(g.edges) \subseteq States(g)
        BY <1>1, <1>3 DEF Ends
    <1>5. \A p \in r.edges : {p[1], p[2]} \subseteq States(r)
        BY DEF GraphOK, Ends
    <1> QED BY <1>1, <1>2, <1>4, <1>5 DEF GraphOK, g

\* union_mut and union_mut_with_trace: the whole nodes of both, each with the
\* relations it had.
LEMMA UnionsOK ==
    ASSUME NEW l, NEW r, GraphOK(l), GraphOK(r), NEW E, Complete(l, E), Complete(r, E),
           NEW g \in {Union(l, r), UnionWithTrace(l, r)}
    PROVE  /\ GraphOK(g) /\ Complete(g, E)
           /\ l.whole \subseteq g.whole /\ r.whole \subseteq g.whole /\ l.edges \subseteq g.edges
           /\ \A p \in r.edges : {p[1], p[2]} \intersect r.whole # {} => p \in g.edges
    <1> DEFINE u == [l EXCEPT !.whole = @ \union r.whole, !.trace = @ \ r.whole]
               t == [l EXCEPT !.whole = @ \union r.whole,
                              !.trace = (@ \union r.trace) \ (l.whole \union r.whole)]
    <1>1. l \in Graph /\ r \in Graph
        BY DEF GraphOK
    <1>2. ASSUME NEW a \in {u, t}
          PROVE  /\ a \in Graph /\ a.whole = l.whole \union r.whole /\ a.edges = l.edges
                 /\ a.whole \intersect a.trace = {} /\ States(l) \union r.whole \subseteq States(a)
        BY <1>1 DEF Graph, GraphOK, States
    <1>3. PICK a \in {u, t} : g = AddRelations(a, r)
        BY DEF Union, UnionWithTrace
    <1>4. /\ a \in Graph /\ a.whole = l.whole \union r.whole /\ a.edges = l.edges
          /\ a.whole \intersect a.trace = {} /\ States(l) \union r.whole \subseteq States(a)
        BY <1>2
    <1>5. Ends(a.edges) \subseteq States(a)
        BY <1>4 DEF GraphOK
    <1> HIDE DEF u, t
    <1>6. /\ GraphOK(g) /\ a.whole \subseteq g.whole
          /\ \A x \in g.whole : x \in a.whole \/ (x \in r.whole /\ x \notin a.trace)
          /\ a.edges \subseteq g.edges
          /\ \A p \in r.edges : {p[1], p[2]} \intersect States(a) # {} => p \in g.edges
        BY <1>3, <1>4, <1>5, JoinedOK
    <1>7. Complete(g, E)
        <2> SUFFICES ASSUME NEW p \in E, {p[1], p[2]} \intersect g.whole # {} PROVE p \in g.edges
            BY DEF Complete
        <2>1. {p[1], p[2]} \intersect (l.whole \union r.whole) # {}
            BY <1>4, <1>6
        <2>2. CASE {p[1], p[2]} \intersect l.whole # {}
            BY <1>4, <1>6, <2>2 DEF Complete
        <2>3. CASE {p[1], p[2]} \intersect r.whole # {}
            BY <1>4, <1>6, <2>3 DEF Complete
        <2> QED BY <2>1, <2>2, <2>3
    <1>8. \A p \in r.edges : {p[1], p[2]} \intersect r.whole # {} => p \in g.edges
        BY <1>4, <1>6
    <1> QED BY <1>4, <1>6, <1>7, <1>8

\* A graph with nothing but Trace nodes is complete.
LEMMA NothingWhole ==
    ASSUME NEW g, g.whole = {}, NEW E
    PROVE  Complete(g, E)
    BY DEF Complete

\* The empty graph is a graph, and complete.
LEMMA EmptyOK == GraphOK(Empty) /\ \A E : Complete(Empty, E)
    BY DEF GraphOK, Complete, Empty, Graph, Ends, States

----------------------------------------------------------------------------
(* The two evaluations of an expression.                                    *)

\* What the tables of the database can be.
Tables(B, R) == B \subseteq Nodes /\ R \subseteq Relations /\ Ends(R) \subseteq B

\* What is fetched with found nodes is a graph in which they are complete.
LEMMA FetchedOK ==
    ASSUME NEW B, NEW R, Tables(B, R), NEW found \in SUBSET B
    PROVE  /\ GraphOK(Fetched(found, B, R)) /\ Complete(Fetched(found, B, R), R)
           /\ Fetched(found, B, R).whole = found
           /\ \A p : p \in Fetched(found, B, R).edges <=> p \in R /\ {p[1], p[2]} \intersect found # {}
           /\ \A x : x \in Fetched(found, B, R).trace <=>
                       x \notin found /\ \E p \in R : x \in {p[1], p[2]} /\ {p[1], p[2]} \intersect found # {}
    <1> DEFINE E == Touching(found, R)
               g == [whole |-> found, trace |-> (Ends(E) \intersect B) \ found, edges |-> E]
    <1>1. Fetched(found, B, R) = g
        BY DEF Fetched, WithEnds
    <1>2. E \subseteq R /\ Ends(E) \subseteq B /\ B \subseteq Nodes /\ R \subseteq Relations
        BY DEF Touching, Ends, Tables
    <1>3. g \in Graph /\ g.whole = found /\ g.trace = Ends(E) \ found /\ g.edges = E
        BY <1>2 DEF Graph, Relations
    <1>4. \A p : p \in E <=> p \in R /\ {p[1], p[2]} \intersect found # {}
        BY DEF Touching
    <1>5. GraphOK(g) /\ Complete(g, R)
        BY <1>3, <1>4 DEF GraphOK, Complete, States
    <1>6. \A x : x \in Ends(E) <=> \E p \in R : x \in {p[1], p[2]} /\ {p[1], p[2]} \intersect found # {}
        BY <1>4 DEF Ends
    <1> HIDE DEF g
    <1> QED BY <1>1, <1>3, <1>4, <1>5, <1>6

\* Lists of nodes select the same nodes in memory and in the database.
LEMMA SelectsSame ==
    ASSUME NEW B, NEW R, Tables(B, R), NEW pred \in Lists
    PROVE  /\ FilterStates(pred, FALSE, B) = SelectStates(pred, FALSE, B)
           /\ SelectStates(pred, FALSE, B) \in SUBSET B
           /\ EvaluateStates(pred, FALSE, B, R) = Fetched(SelectStates(pred, FALSE, B), B, R)
    <1>1. pred.form \in {"Bid", "Bref"}
        BY ExpressionsAssumption DEF Lists
    <1>0. \A S, T : {n \in S : (n \in T) # FALSE} = {n \in S : n \in T}
        <2>1. ASSUME NEW n, NEW T
              PROVE  ((n \in T) # FALSE) <=> n \in T
            <3>1. CASE n \in T
                <4>1. (n \in T) = TRUE
                    BY <3>1
                <4> QED BY <4>1, <3>1
            <3>2. CASE n \notin T
                <4>1. (n \in T) = FALSE
                    BY <3>2
                <4> QED BY <4>1, <3>2
            <3> QED BY <3>1, <3>2
        <2> QED BY <2>1, Zenon
    <1>2. SelectStates(pred, FALSE, B) = {n \in B : n \in pred.of}
        <2>1. SelectStates(pred, FALSE, B) = {n \in B : (n \in pred.of) # FALSE}
            BY <1>1 DEF SelectStates
        <2> QED BY <1>0, <2>1
    <1>3. FilterStates(pred, FALSE, B) = {n \in B : n \in pred.of}
        <2>1. CASE pred.form = "Bid"
            BY <2>1 DEF FilterStates
        <2>2. CASE pred.form = "Bref"
            <3>1. FilterStates(pred, FALSE, B) = {n \in B : Matches(pred, n) # FALSE}
                BY <2>2 DEF FilterStates
            <3>2. \A n \in B : Matches(pred, n) = (n \in pred.of)
                BY <2>2 DEF Matches
            <3>3. FilterStates(pred, FALSE, B) = {n \in B : (n \in pred.of) # FALSE}
                BY <3>1, <3>2
            <3> QED BY <1>0, <3>3
        <2> QED BY <1>1, <2>1, <2>2
    <1> QED BY <1>2, <1>3 DEF EvaluateStates, Fetched

\* Lists of nodes give the same graph in memory and in the database, plain or as a
\* trace.
LEMMA StatesAlwaysAgree ==
    ASSUME NEW B, NEW R, Tables(B, R)
    PROVE  StatesAgree(B, R)
    <1> SUFFICES ASSUME NEW pred \in Lists
                 PROVE  /\ EvaluateStates(pred, FALSE, B, R) = Fetched(SelectStates(pred, FALSE, B), B, R)
                        /\ EvaluateAsTrace(pred, FALSE, B, R)
                              = FetchedTrace(SelectStates(pred, FALSE, B), B, R)
        BY DEF StatesAgree
    <1>1. FilterStates(pred, FALSE, B) = SelectStates(pred, FALSE, B)
        BY SelectsSame
    <1>2. EvaluateAsTrace(pred, FALSE, B, R) = FetchedTrace(SelectStates(pred, FALSE, B), B, R)
        BY <1>1 DEF EvaluateAsTrace, FetchedTrace
    <1> QED BY <1>2, SelectsSame

\* For lists of sinks or sources, memory gives a part of what the database fetches.
LEMMA RelationsAlwaysAgree ==
    ASSUME NEW B, NEW R, Tables(B, R)
    PROVE  RelationsAgree(B, R)
    <1> SUFFICES ASSUME NEW pred \in RelationPreds, NEW negated \in BOOLEAN
                 PROVE  LET g == EvaluateRelations(pred, negated, B, R)
                            h == FetchedRelations(pred, negated, B, R)
                        IN  /\ States(g) \subseteq States(h) /\ g.edges \subseteq h.edges
                            /\ g.whole = {} /\ (~negated => h.whole = {})
        BY DEF RelationsAgree
    <1> DEFINE E == {p \in R : RelationMatches(pred, p) # negated}
               found == SelectEnds(pred, negated, B, R)
               f == Fetched(found, B, R)
               trace == [f EXCEPT !.whole = {}, !.trace = @ \union f.whole]
               g == EvaluateRelations(pred, negated, B, R)
               h == FetchedRelations(pred, negated, B, R)
    <1>1. found = Ends(E) \intersect B /\ Ends(E) \subseteq B
        BY DEF SelectEnds, Ends, Tables
    <1>2. found \in SUBSET B
        BY <1>1
    <1>3. g.whole = {} /\ g.trace = found /\ g.edges = E
        BY <1>1 DEF EvaluateRelations, WithEnds
    <1>4. /\ GraphOK(f) /\ f.whole = found
          /\ \A p : p \in f.edges <=> p \in R /\ {p[1], p[2]} \intersect found # {}
        <2> HIDE DEF found
        <2> QED BY <1>2, FetchedOK
    <1>5. E \subseteq f.edges
        BY <1>1, <1>4 DEF Ends
    <1>6. h = IF negated THEN f ELSE trace
        BY DEF FetchedRelations
    <1> HIDE DEF E, found, f, g, h
    <1>7. trace.whole = {} /\ trace.trace = f.trace \union f.whole /\ trace.edges = f.edges
        BY <1>4 DEF GraphOK, Graph
    <1> HIDE DEF trace
    <1>8. States(h) = States(f) /\ h.edges = f.edges /\ (~negated => h.whole = {})
        <2>1. CASE negated
            BY <1>6, <2>1
        <2>2. CASE ~negated
            BY <1>6, <1>7, <2>2 DEF States
        <2> QED BY <2>1, <2>2
    <1>9. States(g) \subseteq States(h) /\ g.edges \subseteq h.edges
        BY <1>3, <1>4, <1>5, <1>8 DEF States
    <1> QED BY <1>3, <1>8, <1>9 DEF g, h

\* A union in memory is the graph of the nodes that either selects.
LEMMA UnionsAlwaysAgree ==
    ASSUME NEW B, NEW R, Tables(B, R)
    PROVE  UnionsAgree(B, R)
    <1> SUFFICES ASSUME NEW x \in Lists, NEW y \in Lists
                 PROVE  InMemory("Union", x, y, B, R) = InDatabase("Union", x, y, B, R)
        BY DEF UnionsAgree
    <1> DEFINE f1 == SelectStates(x, FALSE, B)
               f2 == SelectStates(y, FALSE, B)
               l == Fetched(f1, B, R)
               r == Fetched(f2, B, R)
               a == [l EXCEPT !.whole = @ \union r.whole, !.trace = @ \ r.whole]
               g == AddRelations(a, r)
               d == Fetched(f1 \union f2, B, R)
    <1>1. f1 \in SUBSET B /\ f2 \in SUBSET B
        BY SelectsSame
    <1>2. InMemory("Union", x, y, B, R) = g /\ InDatabase("Union", x, y, B, R) = d
        BY SelectsSame DEF InMemory, InDatabase, Evaluate2, Select2, Union
    <1> HIDE DEF f1, f2
    <1>3. /\ GraphOK(l) /\ l.whole = f1
          /\ \A p : p \in l.edges <=> p \in R /\ {p[1], p[2]} \intersect f1 # {}
          /\ \A n : n \in l.trace <=>
                      n \notin f1 /\ \E p \in R : n \in {p[1], p[2]} /\ {p[1], p[2]} \intersect f1 # {}
        BY <1>1, FetchedOK
    <1>4. /\ GraphOK(r) /\ r.whole = f2
          /\ \A p : p \in r.edges <=> p \in R /\ {p[1], p[2]} \intersect f2 # {}
          /\ \A n : n \in r.trace <=>
                      n \notin f2 /\ \E p \in R : n \in {p[1], p[2]} /\ {p[1], p[2]} \intersect f2 # {}
        BY <1>1, FetchedOK
    <1>5. /\ GraphOK(d) /\ d.whole = f1 \union f2
          /\ \A p : p \in d.edges <=> p \in R /\ {p[1], p[2]} \intersect (f1 \union f2) # {}
          /\ \A n : n \in d.trace <=>
                      n \notin f1 \union f2
                      /\ \E p \in R : n \in {p[1], p[2]} /\ {p[1], p[2]} \intersect (f1 \union f2) # {}
        <2> DEFINE both == f1 \union f2
        <2>1. both \in SUBSET B
            BY <1>1
        <2> HIDE DEF both
        <2>2. /\ GraphOK(Fetched(both, B, R)) /\ Fetched(both, B, R).whole = both
              /\ \A p : p \in Fetched(both, B, R).edges <=> p \in R /\ {p[1], p[2]} \intersect both # {}
              /\ \A n : n \in Fetched(both, B, R).trace <=>
                          n \notin both
                          /\ \E p \in R : n \in {p[1], p[2]} /\ {p[1], p[2]} \intersect both # {}
            BY <2>1, FetchedOK
        <2> QED BY <2>2 DEF both
    <1>6. /\ a \in Graph /\ a.whole = f1 \union f2 /\ a.trace = l.trace \ f2 /\ a.edges = l.edges
        <2>1. l \in Graph /\ r \in Graph /\ l.whole = f1 /\ r.whole = f2
            BY <1>3, <1>4 DEF GraphOK
        <2> HIDE DEF l, r
        <2> QED BY <2>1 DEF Graph
    <1>7. a.whole \intersect a.trace = {} /\ Ends(a.edges) \subseteq States(a)
        BY <1>3, <1>6 DEF GraphOK, States
    <1> HIDE DEF l, r, a, d
    <1>8. /\ g \in Graph
          /\ a.whole \subseteq g.whole /\ \A n \in g.whole : n \in a.whole \/ (n \in r.whole /\ n \notin a.trace)
          /\ a.trace \subseteq g.trace /\ \A n \in g.trace : n \in a.trace \/ (n \in r.trace /\ n \notin a.whole)
          /\ a.edges \subseteq g.edges /\ g.edges \subseteq a.edges \union r.edges
        BY <1>4, <1>6, AddRelationsIs DEF GraphOK
    <1>9. /\ GraphOK(g)
          /\ \A p \in r.edges : {p[1], p[2]} \intersect States(a) # {} => p \in g.edges
        BY <1>4, <1>6, <1>7, JoinedOK
    <1> HIDE DEF g
    <1>10. g.whole = d.whole
        BY <1>4, <1>5, <1>6, <1>8
    <1>11. g.edges = d.edges
        <2>1. \A p : p \in r.edges => p \in g.edges
            BY <1>4, <1>6, <1>9 DEF States
        <2>2. \A p : p \in g.edges <=> p \in l.edges \/ p \in r.edges
            BY <1>6, <1>8, <2>1
        <2>3. \A p : p \in g.edges <=> p \in d.edges
            BY <1>3, <1>4, <1>5, <2>2
        <2> QED BY <1>8, <1>5, <2>3 DEF GraphOK, Graph
    <1>12. g.trace = d.trace
        <2>1. \A n : n \in g.trace => n \in d.trace
            BY <1>3, <1>4, <1>5, <1>6, <1>8
        <2>2. ASSUME NEW n \in d.trace
              PROVE  n \in g.trace
            <3>1. PICK p \in R : n \in {p[1], p[2]} /\ {p[1], p[2]} \intersect (f1 \union f2) # {}
                BY <1>5
            <3>2. p \in g.edges
                BY <1>5, <1>11, <3>1
            <3>3. n \in States(g)
                BY <1>9, <3>1, <3>2 DEF GraphOK, Ends
            <3> QED BY <1>5, <1>10, <3>3 DEF States
        <2> QED BY <2>1, <2>2
    <1>13. g = d
        BY <1>5, <1>8, <1>10, <1>11, <1>12 DEF GraphOK, Graph
    <1> QED BY <1>2, <1>13

\* A combination keeps the nodes it is made of and what l has of them.
LEMMA CombinedOK ==
    ASSUME NEW l, NEW r, GraphOK(l), GraphOK(r), NEW nodes \in SUBSET Nodes
    PROVE  /\ GraphOK(Combined(nodes, l, r)) /\ nodes \subseteq Combined(nodes, l, r).whole
           /\ \A p \in l.edges : {p[1], p[2]} \intersect nodes # {} => p \in Combined(nodes, l, r).edges
    <1> DEFINE a == [whole |-> nodes, trace |-> {}, edges |-> {}]
               b == AddRelations(a, l)
               g == AddRelations(b, r)
    <1>1. /\ a \in Graph /\ a.whole = nodes /\ a.whole \intersect a.trace = {}
          /\ Ends(a.edges) \subseteq States(a) /\ States(a) = nodes
        BY DEF Graph, Ends, States
    <1> HIDE DEF a
    <1>2. /\ GraphOK(b) /\ a.whole \subseteq b.whole
          /\ \A p \in l.edges : {p[1], p[2]} \intersect States(a) # {} => p \in b.edges
        BY <1>1, JoinedOK
    <1> HIDE DEF b
    <1>3. b \in Graph /\ b.whole \intersect b.trace = {} /\ Ends(b.edges) \subseteq States(b)
        BY <1>2 DEF GraphOK
    <1>4. GraphOK(g) /\ b.whole \subseteq g.whole /\ b.edges \subseteq g.edges
        BY <1>3, JoinedOK
    <1> HIDE DEF g
    <1>5. Combined(nodes, l, r) = g
        BY DEF Combined, a, b, g
    <1> QED BY <1>1, <1>2, <1>4, <1>5

\* What the database selects is in the answer in memory.
LEMMA DyadsAlwaysContain ==
    ASSUME NEW B, NEW R, Tables(B, R),
           NEW op \in {"Intersection", "Difference", "SymmetricDifference"}
    PROVE  DyadsContain(op, B, R)
    <1> SUFFICES ASSUME NEW x \in Lists, NEW y \in Lists
                 PROVE  /\ InDatabase(op, x, y, B, R).whole \subseteq InMemory(op, x, y, B, R).whole
                        /\ InDatabase(op, x, y, B, R).edges \subseteq InMemory(op, x, y, B, R).edges
        BY DEF DyadsContain
    <1> DEFINE f1 == SelectStates(x, FALSE, B)
               f2 == SelectStates(y, FALSE, B)
               l == Fetched(f1, B, R)
               r == Fetched(f2, B, R)
               found == Select2(op, f1, f2)
               d == Fetched(found, B, R)
               g == Evaluate2(op, l, r)
    <1>1. f1 \in SUBSET B /\ f2 \in SUBSET B /\ B \subseteq Nodes
        BY SelectsSame DEF Tables
    <1>2. InMemory(op, x, y, B, R) = g /\ InDatabase(op, x, y, B, R) = d
        BY SelectsSame DEF InMemory, InDatabase
    <1> HIDE DEF f1, f2
    <1>3. /\ GraphOK(l) /\ l.whole = f1
          /\ \A p : p \in l.edges <=> p \in R /\ {p[1], p[2]} \intersect f1 # {}
        BY <1>1, FetchedOK
    <1>4. /\ GraphOK(r) /\ r.whole = f2
          /\ \A p : p \in r.edges <=> p \in R /\ {p[1], p[2]} \intersect f2 # {}
        BY <1>1, FetchedOK
    <1>5. found \in SUBSET B
        BY <1>1 DEF Select2
    <1> HIDE DEF found
    <1>6. /\ d.whole = found
          /\ \A p : p \in d.edges <=> p \in R /\ {p[1], p[2]} \intersect found # {}
        BY <1>5, FetchedOK
    <1> HIDE DEF l, r, d
    <1>7. ASSUME NEW nodes \in SUBSET f1
          PROVE  /\ GraphOK(Combined(nodes, l, r)) /\ nodes \subseteq Combined(nodes, l, r).whole
                 /\ \A p \in R : {p[1], p[2]} \intersect nodes # {} => p \in Combined(nodes, l, r).edges
        <2>1. nodes \in SUBSET Nodes
            BY <1>1
        <2>2. /\ GraphOK(Combined(nodes, l, r)) /\ nodes \subseteq Combined(nodes, l, r).whole
              /\ \A p \in l.edges : {p[1], p[2]} \intersect nodes # {} => p \in Combined(nodes, l, r).edges
            BY <1>3, <1>4, <2>1, CombinedOK
        <2> QED BY <1>3, <2>2
    <1>8. ASSUME NEW nodes \in SUBSET f2
          PROVE  /\ GraphOK(Combined(nodes, r, l)) /\ nodes \subseteq Combined(nodes, r, l).whole
                 /\ \A p \in R : {p[1], p[2]} \intersect nodes # {} => p \in Combined(nodes, r, l).edges
        <2>1. nodes \in SUBSET Nodes
            BY <1>1
        <2>2. /\ GraphOK(Combined(nodes, r, l)) /\ nodes \subseteq Combined(nodes, r, l).whole
              /\ \A p \in r.edges : {p[1], p[2]} \intersect nodes # {} => p \in Combined(nodes, r, l).edges
            BY <1>3, <1>4, <2>1, CombinedOK
        <2> QED BY <1>4, <2>2
    <1>9. CASE op \in {"Intersection", "Difference"}
        <2>1. found \in SUBSET f1 /\ g = Combined(found, l, r)
            BY <1>3, <1>4, <1>9 DEF Select2, Evaluate2, Intersection, Difference, found
        <2> QED BY <1>2, <1>6, <1>7, <2>1
    <1>10. CASE op = "SymmetricDifference"
        <2> DEFINE m == Combined(f1 \ f2, l, r)
                   n == Combined(f2 \ f1, r, l)
        <2>1. found = (f1 \ f2) \union (f2 \ f1) /\ g = Union(m, n)
            BY <1>3, <1>4, <1>10 DEF Select2, Evaluate2, Difference, found
        <2>2. /\ GraphOK(m) /\ f1 \ f2 \subseteq m.whole
              /\ \A p \in R : {p[1], p[2]} \intersect (f1 \ f2) # {} => p \in m.edges
            BY <1>7
        <2>3. /\ GraphOK(n) /\ f2 \ f1 \subseteq n.whole
              /\ \A p \in R : {p[1], p[2]} \intersect (f2 \ f1) # {} => p \in n.edges
            BY <1>8
        <2> HIDE DEF m, n, g
        <2>4. Complete(m, {}) /\ Complete(n, {})
            BY DEF Complete
        <2>5. /\ m.whole \subseteq g.whole /\ n.whole \subseteq g.whole /\ m.edges \subseteq g.edges
              /\ \A p \in n.edges : {p[1], p[2]} \intersect n.whole # {} => p \in g.edges
            BY <2>1, <2>2, <2>3, <2>4, UnionsOK
        <2>6. ASSUME NEW p \in R, {p[1], p[2]} \intersect found # {}
              PROVE  p \in g.edges
            <3>1. CASE {p[1], p[2]} \intersect (f1 \ f2) # {}
                BY <2>2, <2>5, <3>1
            <3>2. CASE {p[1], p[2]} \intersect (f2 \ f1) # {}
                BY <2>3, <2>5, <3>2
            <3> QED BY <2>1, <2>6, <3>1, <3>2
        <2> QED BY <1>2, <1>6, <2>1, <2>2, <2>3, <2>5, <2>6
    <1> QED BY <1>9, <1>10

----------------------------------------------------------------------------
(* What a call knows, of a database with the nodes B and while relations E  *)
(* have been there since it began.                                          *)

Apart(g) == g.whole \intersect g.trace = {}

\* A graph that the query has built up from the nodes it asked for.
Sound(g, k, E) ==
    /\ GraphOK(g) /\ Complete(g, E)
    /\ k.query.seed \intersect Stored \subseteq g.whole

\* What has been read of an expression, after each statement.
ReadOK(k, E, B) ==
    /\ Apart(k.got)
    /\ k.for = "balance" => k.got.whole = {}
    /\ k.for = "seed" => k.ask = k.query.seed
    /\ k.for = "seed" /\ k.read # "states" => k.query.seed \intersect Stored \subseteq k.got.whole
    /\ k.read = "relations" => k.got.edges = {}
    /\ k.read = "missing" => Ends(k.got.edges) \subseteq B /\ Complete(k.got, E)

EvaluationOK(k, E) ==
    /\ k.for # "seed" => Sound(k.result, k, E)
    /\ k.for = "up" => Sound(k.up, k, E)
    /\ k.for = "down" => k.up = Empty \/ Sound(k.up, k, E)

CallOK(k, E, B) ==
    /\ k \in Call /\ Apart(k.result)
    /\ k.at \in {"insert", "inserting"} => Sound(k.result, k, E)
    /\ k.at = "evaluating" => ReadOK(k, E, B) /\ EvaluationOK(k, E)

\* What a step makes of a call k: a call that is well-formed, for the same query.
GoesOn(e, k, E, B) == CallOK(e, E, B) /\ e.query = k.query

\* The next expression of a walk is about nodes.
LEMMA ExternalAre ==
    ASSUME NEW E \in SUBSET Relations
    PROVE  ExternalSinks(E) \in SUBSET Nodes /\ ExternalSources(E) \in SUBSET Nodes
    <1>1. \A p \in E : p[1] \in Nodes /\ p[2] \in Nodes
        BY PairsAre
    <1>2. \A q \in Reversed(E) : q[2] \in Nodes
        BY <1>1 DEF Reversed
    <1> QED BY <1>1, <1>2 DEF ExternalSinks, ExternalSources

\* The relations of a graph, and the expressions that are built from them.
LEMMA EdgesAre ==
    ASSUME NEW g, GraphOK(g)
    PROVE  /\ g \in Graph /\ g.edges \in SUBSET Relations
           /\ ExternalSinks(g.edges) \in SUBSET Nodes /\ ExternalSources(g.edges) \in SUBSET Nodes
           /\ ExternalSinks(g.edges \intersect Sections) \in SUBSET Nodes
    <1>1. g \in Graph /\ g.edges \in SUBSET Relations /\ g.edges \intersect Sections \in SUBSET Relations
        BY DEF GraphOK, Graph, Relations
    <1> QED BY <1>1, ExternalAre

\* The next expression of a query.
LEMMA EvaluateOK ==
    ASSUME NEW E, NEW B, NEW k \in Call, k.at = "evaluating",
           NEW part \in Parts \ {"seed"}, NEW ask \in SUBSET Nodes,
           Sound(k.result, k, E), part = "up" => Sound(k.up, k, E),
           part = "down" => k.up = Empty \/ Sound(k.up, k, E)
    PROVE  GoesOn(Evaluate(k, part, ask), k, E, B)
    <1> DEFINE e == Evaluate(k, part, ask)
    <1>1. /\ e \in Call /\ e.at = "evaluating" /\ e.for = part /\ e.read = "states" /\ e.ask = ask
          /\ e.got = Empty /\ e.result = k.result /\ e.up = k.up /\ e.query = k.query
        BY EmptyOK DEF Evaluate, Call, Reads, GraphOK
    <1> HIDE DEF e
    <1>2. Apart(e.result) /\ Apart(e.got) /\ e.got.whole = {}
        BY <1>1 DEF Sound, GraphOK, Apart, Empty
    <1>3. ReadOK(e, E, B)
        BY <1>1, <1>2 DEF ReadOK
    <1>4. EvaluationOK(e, E)
        BY <1>1 DEF EvaluationOK, Sound
    <1>5. CallOK(e, E, B)
        BY <1>1, <1>2, <1>3, <1>4 DEF CallOK
    <1> QED BY <1>1, <1>5 DEF e, GoesOn

\* A result that is ready to be kept.
LEMMA FinishedOK ==
    ASSUME NEW E, NEW B, NEW k \in Call, k.at = "insert", Sound(k.result, k, E)
    PROVE  GoesOn(k, k, E, B)
    BY DEF GoesOn, CallOK, Sound, GraphOK, Apart

\* The balance of a query begins with a call that is sound.
LEMMA BalanceOK ==
    ASSUME NEW E, NEW B, NEW k \in Call, k.at = "evaluating", NEW g, Sound(g, k, E)
    PROVE  GoesOn(Balance(k, g), k, E, B)
    <1> DEFINE expr == ExternalSinks(g.edges)
               next == [k EXCEPT !.result = g, !.up = Empty, !.loops = 0]
    <1>1. g \in Graph /\ expr \in SUBSET Nodes
        BY EdgesAre DEF Sound
    <1>2. /\ next \in Call /\ next.at = "evaluating" /\ next.result = g /\ next.query = k.query
          /\ [next EXCEPT !.at = "insert"] \in Call
          /\ [next EXCEPT !.at = "insert"].at = "insert"
          /\ [next EXCEPT !.at = "insert"].result = g
          /\ [next EXCEPT !.at = "insert"].query = k.query
        BY <1>1, EmptyOK DEF Call, GraphOK, Places
    <1>3. Balance(k, g) = IF expr = {} THEN [next EXCEPT !.at = "insert"]
                          ELSE Evaluate(next, "balance", expr)
        BY DEF Balance
    <1> HIDE DEF expr, next
    <1>4. Sound(next.result, next, E) /\ Sound([next EXCEPT !.at = "insert"].result, [next EXCEPT !.at = "insert"], E)
        BY <1>2 DEF Sound
    <1>5. GoesOn(Evaluate(next, "balance", expr), next, E, B)
        BY <1>1, <1>2, <1>4, EvaluateOK DEF Parts
    <1>6. GoesOn([next EXCEPT !.at = "insert"], [next EXCEPT !.at = "insert"], E, B)
        BY <1>2, <1>4, FinishedOK
    <1> QED BY <1>2, <1>3, <1>5, <1>6 DEF GoesOn

\* A call with another graph and one more step counted.
LEMMA CountedOK ==
    ASSUME NEW k \in Call, k.at = "evaluating", NEW g \in Graph
    PROVE  LET down == [k EXCEPT !.result = g, !.loops = @ + 1]
               up   == [k EXCEPT !.up = g, !.loops = @ + 1]
           IN  /\ down \in Call /\ down.at = "evaluating" /\ down.result = g /\ down.up = k.up
               /\ down.query = k.query
               /\ up \in Call /\ up.at = "evaluating" /\ up.result = k.result /\ up.up = g
               /\ up.query = k.query
    <1>1. k.loops \in Nat
        BY DEF Call
    <1>2. PICK n \in Nat : n = k.loops + 1
        BY <1>1
    <1>3. /\ [k EXCEPT !.result = g, !.loops = @ + 1] = [k EXCEPT !.result = g, !.loops = n]
          /\ [k EXCEPT !.up = g, !.loops = @ + 1] = [k EXCEPT !.up = g, !.loops = n]
        BY <1>2, Zenon DEF Call
    <1>4. [k EXCEPT !.result = g, !.loops = n] \in Call /\ [k EXCEPT !.up = g, !.loops = n] \in Call
        BY DEF Call
    <1>5. LET down == [k EXCEPT !.result = g, !.loops = n]
              up   == [k EXCEPT !.up = g, !.loops = n]
          IN  /\ down.at = "evaluating" /\ down.result = g /\ down.up = k.up /\ down.query = k.query
              /\ up.at = "evaluating" /\ up.result = k.result /\ up.up = g /\ up.query = k.query
        BY DEF Call
    <1> QED BY <1>3, <1>4, <1>5

\* After a statement of the balance it goes on, or the evaluation is done.
LEMMA BalancedOK ==
    ASSUME NEW E, NEW B, NEW k \in Call, k.at = "evaluating", Sound(k.result, k, E),
           GraphOK(k.got), Complete(k.got, E)
    PROVE  GoesOn(Balanced(k), k, E, B)
    <1> DEFINE g == Union(k.result, k.got)
               expr == ExternalSinks(g.edges \intersect Sections)
               next == [k EXCEPT !.result = g]
               done == [next EXCEPT !.at = "insert"]
               on == [next EXCEPT !.loops = @ + 1]
    <1>1. Sound(g, k, E)
        BY UnionsOK DEF Sound
    <1> HIDE DEF g
    <1>2. g \in Graph /\ expr \in SUBSET Nodes
        BY <1>1, EdgesAre DEF Sound
    <1> HIDE DEF expr
    <1>3. /\ done \in Call /\ done.at = "insert" /\ done.result = g /\ done.query = k.query
          /\ on \in Call /\ on.at = "evaluating" /\ on.result = g /\ on.query = k.query
        <2> DEFINE counted == [k EXCEPT !.result = g, !.loops = @ + 1]
        <2>1. done \in Call /\ done.at = "insert" /\ done.result = g /\ done.query = k.query
            BY <1>2 DEF Call, Places
        <2>2. /\ counted \in Call /\ counted.at = "evaluating" /\ counted.result = g
              /\ counted.query = k.query
            BY <1>2, CountedOK
        <2>3. on = counted
            BY DEF Call
        <2> HIDE DEF on, counted
        <2> QED BY <2>1, <2>2, <2>3
    <1>4. Balanced(k) \in {done, Evaluate(on, "balance", expr)}
        BY <1>2 DEF Balanced, g, expr
    <1> HIDE DEF next, done, on
    <1>5. Sound(done.result, done, E) /\ Sound(on.result, on, E)
        BY <1>1, <1>3 DEF Sound
    <1>6. GoesOn(done, done, E, B)
        BY <1>3, <1>5, FinishedOK
    <1>7. GoesOn(Evaluate(on, "balance", expr), on, E, B)
        BY <1>2, <1>3, <1>5, EvaluateOK DEF Parts
    <1> QED BY <1>3, <1>4, <1>6, <1>7 DEF GoesOn

\* The walk downstream begins with a call that is sound.
LEMMA WalkDownOK ==
    ASSUME NEW E, NEW B, NEW k \in Call, k.at = "evaluating", Sound(k.result, k, E),
           NEW up, up = Empty \/ Sound(up, k, E)
    PROVE  GoesOn(WalkDown(k, up), k, E, B)
    <1> DEFINE expr == ExternalSinks(k.result.edges)
               on == [k EXCEPT !.loops = 1, !.up = up]
               g == IF up = Empty THEN k.result ELSE up
    <1>1. up \in Graph /\ expr \in SUBSET Nodes
        BY EmptyOK, EdgesAre DEF Sound, GraphOK
    <1>2. Sound(g, k, E)
        OBVIOUS
    <1>3. WalkDown(k, up) \in {Balance(k, g), Evaluate(on, "down", expr)}
        BY DEF WalkDown
    <1>4. /\ on \in Call /\ on.at = "evaluating" /\ on.result = k.result /\ on.up = up
          /\ on.query = k.query
        BY <1>1 DEF Call
    <1> HIDE DEF expr, on, g
    <1>5. GoesOn(Balance(k, g), k, E, B)
        BY <1>2, BalanceOK
    <1>6. Sound(on.result, on, E) /\ (on.up = Empty \/ Sound(on.up, on, E))
        BY <1>4 DEF Sound
    <1>7. GoesOn(Evaluate(on, "down", expr), on, E, B)
        BY <1>1, <1>4, <1>6, EvaluateOK DEF Parts
    <1> QED BY <1>3, <1>4, <1>5, <1>7 DEF GoesOn

\* After a statement of the walk down it goes on, or the result is balanced.
LEMMA WalkedDownOK ==
    ASSUME NEW E, NEW B, NEW k \in Call, k.at = "evaluating", Sound(k.result, k, E),
           k.up = Empty \/ Sound(k.up, k, E), GraphOK(k.got), Complete(k.got, E)
    PROVE  GoesOn(WalkedDown(k), k, E, B)
    <1> DEFINE down == UnionWithTrace(k.result, k.got)
               expr == ExternalSinks(down.edges)
               on == [k EXCEPT !.result = down, !.loops = @ + 1]
               g == IF k.up = Empty THEN down ELSE Union(k.up, down)
    <1>1. Sound(down, k, E)
        BY UnionsOK DEF Sound
    <1> HIDE DEF down
    <1>2. down \in Graph /\ expr \in SUBSET Nodes
        BY <1>1, EdgesAre DEF Sound
    <1>3. Sound(g, k, E)
        BY <1>1, UnionsOK DEF Sound
    <1>4. g \in Graph
        BY <1>3 DEF Sound, GraphOK
    <1>5. WalkedDown(k) \in {Balance(k, g), Evaluate(on, "down", expr)}
        BY <1>2, <1>4 DEF WalkedDown, down
    <1>6. /\ on \in Call /\ on.at = "evaluating" /\ on.result = down /\ on.up = k.up
          /\ on.query = k.query
        BY <1>2, CountedOK
    <1> HIDE DEF expr, on, g
    <1>7. GoesOn(Balance(k, g), k, E, B)
        BY <1>3, BalanceOK
    <1>8. Sound(on.result, on, E) /\ (on.up = Empty \/ Sound(on.up, on, E))
        BY <1>1, <1>6 DEF Sound
    <1>9. GoesOn(Evaluate(on, "down", expr), on, E, B)
        BY <1>2, <1>6, <1>8, EvaluateOK DEF Parts
    <1> QED BY <1>5, <1>6, <1>7, <1>9 DEF GoesOn

\* The walk upstream goes on, or turns.
LEMMA WalkedUpOK ==
    ASSUME NEW E, NEW B, NEW k \in Call, k.at = "evaluating", Sound(k.result, k, E),
           Sound(k.up, k, E), GraphOK(k.got), Complete(k.got, E)
    PROVE  GoesOn(WalkedUp(k), k, E, B)
    <1> DEFINE up == UnionWithTrace(k.up, k.got)
               expr == ExternalSources(up.edges)
               on == [k EXCEPT !.up = up, !.loops = @ + 1]
    <1>1. Sound(up, k, E)
        BY UnionsOK DEF Sound
    <1> HIDE DEF up
    <1>2. up \in Graph /\ expr \in SUBSET Nodes
        BY <1>1, EdgesAre DEF Sound
    <1>3. WalkedUp(k) \in {WalkDown(k, up), Evaluate(on, "up", expr)}
        BY <1>2 DEF WalkedUp, up
    <1>4. /\ on \in Call /\ on.at = "evaluating" /\ on.result = k.result /\ on.up = up
          /\ on.query = k.query
        BY <1>2, CountedOK
    <1> HIDE DEF expr, on
    <1>5. GoesOn(WalkDown(k, up), k, E, B)
        BY <1>1, WalkDownOK
    <1>6. Sound(on.result, on, E) /\ Sound(on.up, on, E)
        BY <1>1, <1>4 DEF Sound
    <1>7. GoesOn(Evaluate(on, "up", expr), on, E, B)
        BY <1>2, <1>4, <1>6, EvaluateOK DEF Parts
    <1> QED BY <1>3, <1>4, <1>5, <1>7 DEF GoesOn

\* It begins from the seed.
LEMMA WalkUpOK ==
    ASSUME NEW E, NEW B, NEW k \in Call, k.at = "evaluating", Sound(k.result, k, E)
    PROVE  GoesOn(WalkUp(k), k, E, B)
    <1> DEFINE expr == ExternalSources(k.result.edges)
               on == [k EXCEPT !.loops = 1, !.up = k.result]
    <1>1. k.result \in Graph /\ expr \in SUBSET Nodes
        BY EdgesAre DEF Sound
    <1>2. WalkUp(k) \in {WalkDown(k, Empty), Evaluate(on, "up", expr)}
        BY DEF WalkUp
    <1>3. /\ on \in Call /\ on.at = "evaluating" /\ on.result = k.result /\ on.up = k.result
          /\ on.query = k.query
        BY <1>1 DEF Call
    <1> HIDE DEF expr, on
    <1>4. GoesOn(WalkDown(k, Empty), k, E, B)
        BY WalkDownOK
    <1>5. Sound(on.result, on, E) /\ Sound(on.up, on, E)
        BY <1>3 DEF Sound
    <1>6. GoesOn(Evaluate(on, "up", expr), on, E, B)
        BY <1>1, <1>3, <1>5, EvaluateOK DEF Parts
    <1> QED BY <1>2, <1>3, <1>4, <1>6 DEF GoesOn

\* An expression that is read to its end.
LEMMA AnsweredOK ==
    ASSUME NEW E, NEW B, NEW k \in Call, k.at = "evaluating", EvaluationOK(k, E),
           GraphOK(k.got), Complete(k.got, E),
           k.for = "seed" => k.query.seed \intersect Stored \subseteq k.got.whole
    PROVE  GoesOn(Answered(k), k, E, B)
    <1> DEFINE first == [k EXCEPT !.result = k.got]
    <1>1. Answered(k) = CASE k.for = "seed"    -> WalkUp(first)
                          [] k.for = "up"      -> WalkedUp(k)
                          [] k.for = "down"    -> WalkedDown(k)
                          [] k.for = "balance" -> Balanced(k)
        BY DEF Answered
    <1>2. k.for \in Parts
        BY DEF Call
    <1>3. CASE k.for = "seed"
        <2>1. first \in Call /\ first.at = "evaluating" /\ first.result = k.got /\ first.query = k.query
            BY DEF Call, GraphOK
        <2>2. Sound(first.result, first, E)
            BY <1>3, <2>1 DEF Sound
        <2> HIDE DEF first
        <2>3. GoesOn(WalkUp(first), first, E, B)
            BY <2>1, <2>2, WalkUpOK
        <2>4. Answered(k) = WalkUp(first)
            BY <1>1, <1>3
        <2> QED BY <2>1, <2>3, <2>4 DEF GoesOn
    <1>4. CASE k.for = "up"
        <2>1. GoesOn(WalkedUp(k), k, E, B)
            BY <1>4, WalkedUpOK DEF EvaluationOK
        <2>2. Answered(k) = WalkedUp(k)
            BY <1>1, <1>4
        <2> QED BY <2>1, <2>2
    <1>5. CASE k.for = "down"
        <2>1. GoesOn(WalkedDown(k), k, E, B)
            BY <1>5, WalkedDownOK DEF EvaluationOK
        <2>2. Answered(k) = WalkedDown(k)
            BY <1>1, <1>5
        <2> QED BY <2>1, <2>2
    <1>6. CASE k.for = "balance"
        <2>1. GoesOn(Balanced(k), k, E, B)
            BY <1>6, BalancedOK DEF EvaluationOK
        <2>2. Answered(k) = Balanced(k)
            BY <1>1, <1>6
        <2> QED BY <2>1, <2>2
    <1> QED BY <1>2, <1>3, <1>4, <1>5, <1>6 DEF Parts

----------------------------------------------------------------------------
(* The other steps of a call.                                               *)

\* What a call knows stays true when relations go and nodes come.
LEMMA StaysOK ==
    ASSUME NEW k, NEW E, NEW B, CallOK(k, E, B), NEW E2 \in SUBSET E, NEW B2, B \subseteq B2
    PROVE  CallOK(k, E2, B2)
    <1>1. \A g : Complete(g, E) => Complete(g, E2)
        BY DEF Complete
    <1>2. \A g : Sound(g, k, E) => Sound(g, k, E2)
        BY <1>1 DEF Sound
    <1>3. ReadOK(k, E, B) => ReadOK(k, E2, B2)
        BY <1>1 DEF ReadOK
    <1>4. EvaluationOK(k, E) => EvaluationOK(k, E2)
        BY <1>2 DEF EvaluationOK
    <1> QED BY <1>2, <1>3, <1>4 DEF CallOK

\* A call with nothing evaluated.
LEMMA ReadyOK ==
    ASSUME NEW q \in Questions, NEW offset \in Offsets, NEW result \in Graph, Apart(result),
           NEW place \in Places \ {"evaluating", "insert", "inserting"}, NEW E, NEW B
    PROVE  CallOK(Ready(q, offset, place, result), E, B)
    <1>1. Ready(q, offset, place, result) \in Call
        BY EmptyOK DEF Ready, Call, Parts, Reads, GraphOK
    <1> QED BY <1>1 DEF CallOK, Ready

\* A page of a graph is a graph.
LEMMA PageOK ==
    ASSUME NEW g \in Graph, Apart(g), NEW offset
    PROVE  Page(g, offset) \in Graph /\ Apart(Page(g, offset))
    BY DEF Page, Graph, Apart

\* A call that only goes to another place.
LEMMA GoOK ==
    ASSUME NEW k, NEW E, NEW B, CallOK(k, E, B),
           NEW place \in Places \ {"evaluating", "insert"}, place = "inserting" => k.at = "insert"
    PROVE  CallOK([k EXCEPT !.at = place], E, B)
    <1> DEFINE e == [k EXCEPT !.at = place]
    <1>1. /\ e \in Call /\ e.at = place /\ e.result = k.result /\ e.query = k.query
        BY DEF CallOK, Call
    <1> HIDE DEF e
    <1>2. CallOK(e, E, B)
        BY <1>1 DEF CallOK, Sound
    <1> QED BY <1>2 DEF e

\* A query that begins.
LEMMA BeginOK ==
    ASSUME NEW k, NEW E, NEW B, CallOK(k, E, B)
    PROVE  CallOK([Evaluate(k, "seed", k.query.seed) EXCEPT !.at = "evaluating"], E, B)
    <1> DEFINE e == [Evaluate(k, "seed", k.query.seed) EXCEPT !.at = "evaluating"]
    <1>1. k \in Call /\ Apart(k.result)
        BY DEF CallOK
    <1>2. k.query.seed \in SUBSET Nodes
        BY <1>1, QueriesAssumption DEF Call
    <1>3. /\ e \in Call /\ e.at = "evaluating" /\ e.for = "seed" /\ e.read = "states" /\ e.ask = k.query.seed
          /\ e.got = Empty /\ e.result = k.result /\ e.query = k.query
        BY <1>1, <1>2, EmptyOK DEF Evaluate, Call, Parts, Reads, Places, GraphOK
    <1> HIDE DEF e
    <1>4. Apart(e.got)
        BY <1>3 DEF Apart, Empty
    <1>5. ReadOK(e, E, B) /\ EvaluationOK(e, E)
        BY <1>3, <1>4 DEF ReadOK, EvaluationOK
    <1>6. CallOK(e, E, B)
        BY <1>1, <1>3, <1>5 DEF CallOK
    <1> QED BY <1>6 DEF e

\* The nodes of an expression are read.
LEMMA StatesRead ==
    ASSUME NEW k, NEW E, NEW E2, NEW B, CallOK(k, E, B), k.at = "evaluating",
           B \subseteq Nodes, Stored \subseteq B, k.read = "states",
           IF k.for = "seed" THEN TRUE ELSE E2 = E,
           NEW e, e = [k EXCEPT !.read = "relations",
                        !.got = IF k.for = "balance" THEN [Empty EXCEPT !.trace = k.ask \intersect B]
                                ELSE [Empty EXCEPT !.whole = k.ask \intersect B]]
    PROVE  CallOK(e, E2, B)
    <1> DEFINE found == k.ask \intersect B
               got == IF k.for = "balance" THEN [whole |-> {}, trace |-> found, edges |-> {}]
                      ELSE [whole |-> found, trace |-> {}, edges |-> {}]
    <1>1. k \in Call /\ Apart(k.result) /\ ReadOK(k, E, B) /\ EvaluationOK(k, E)
        BY DEF CallOK
    <1>2. e = [k EXCEPT !.read = "relations", !.got = got]
        <2>1. /\ [Empty EXCEPT !.trace = found] = [whole |-> {}, trace |-> found, edges |-> {}]
              /\ [Empty EXCEPT !.whole = found] = [whole |-> found, trace |-> {}, edges |-> {}]
            BY DEF Empty
        <2> QED BY <2>1
    <1>3. /\ got \in Graph /\ Apart(got) /\ got.edges = {}
          /\ k.for = "balance" => got.whole = {}
          /\ k.for # "balance" => got.whole = found
        BY <1>1 DEF Graph, Apart, Call
    <1> HIDE DEF got
    <1>4. /\ e \in Call /\ e.at = "evaluating" /\ e.for = k.for /\ e.read = "relations"
          /\ e.ask = k.ask /\ e.got = got /\ e.result = k.result /\ e.up = k.up /\ e.query = k.query
        BY <1>1, <1>2, <1>3 DEF Call, Reads
    <1>5. k.for = "seed" => k.query.seed \intersect Stored \subseteq got.whole
        BY <1>1, <1>3 DEF ReadOK
    <1>6. ReadOK(e, E2, B)
        BY <1>1, <1>3, <1>4, <1>5 DEF ReadOK
    <1>7. EvaluationOK(e, E2)
        BY <1>1, <1>4 DEF EvaluationOK, Sound
    <1> QED BY <1>1, <1>4, <1>6, <1>7 DEF CallOK

\* The relations are read: of the nodes that are not Trace, all of them.
LEMMA RelationsRead ==
    ASSUME NEW k, NEW B, NEW R, Tables(B, R), NEW E \in SUBSET R, CallOK(k, E, B),
           k.at = "evaluating", k.read = "relations",
           NEW rows \in SUBSET R,
           k.for # "balance" => rows = {p \in R : {p[1], p[2]} \intersect States(k.got) # {}}
    PROVE  CallOK([k EXCEPT !.read = "missing", !.got.edges = rows], E, B)
    <1> DEFINE e == [k EXCEPT !.read = "missing", !.got.edges = rows]
               got == [whole |-> k.got.whole, trace |-> k.got.trace, edges |-> rows]
    <1>1. k \in Call /\ Apart(k.result) /\ ReadOK(k, E, B) /\ EvaluationOK(k, E)
        BY DEF CallOK
    <1>2. k.got \in Graph /\ rows \subseteq Relations
        BY <1>1 DEF Call, Tables
    <1>3. [k.got EXCEPT !.edges = rows] = got /\ got \in Graph
        BY <1>2 DEF Graph, Relations
    <1>4. e = [k EXCEPT !.read = "missing", !.got = got]
        BY <1>1, <1>3 DEF Call
    <1>5. got.whole = k.got.whole /\ got.trace = k.got.trace /\ got.edges = rows
        OBVIOUS
    <1> HIDE DEF got
    <1>6. /\ e \in Call /\ e.at = "evaluating" /\ e.for = k.for /\ e.read = "missing"
          /\ e.ask = k.ask /\ e.got = got /\ e.result = k.result /\ e.up = k.up /\ e.query = k.query
        BY <1>1, <1>3, <1>4 DEF Call, Reads
    <1> HIDE DEF e
    <1>7. Ends(got.edges) \subseteq B
        BY <1>5 DEF Ends, Tables
    <1>8. Complete(got, E)
        BY <1>1, <1>5 DEF Complete, ReadOK, States
    <1>9. ReadOK(e, E, B)
        BY <1>1, <1>5, <1>6, <1>7, <1>8 DEF ReadOK, Apart
    <1>10. EvaluationOK(e, E)
        BY <1>1, <1>6 DEF EvaluationOK, Sound
    <1>11. CallOK(e, E, B)
        BY <1>1, <1>6, <1>9, <1>10 DEF CallOK
    <1> QED BY <1>11 DEF e

\* The other ends of the relations are read.
LEMMA MissingRead ==
    ASSUME NEW k, NEW B, B \subseteq Nodes, NEW E, CallOK(k, E, B),
           k.at = "evaluating", k.read = "missing",
           NEW e, e = [k EXCEPT !.got.trace =
                          @ \union ((Ends(k.got.edges) \ States(k.got)) \intersect B)]
    PROVE  GoesOn(Answered(e), k, E, B)
    <1> DEFINE trace == k.got.trace \union ((Ends(k.got.edges) \ States(k.got)) \intersect B)
               got == [whole |-> k.got.whole, trace |-> trace, edges |-> k.got.edges]
    <1>1. k \in Call /\ ReadOK(k, E, B) /\ EvaluationOK(k, E)
        BY DEF CallOK
    <1>2. k.got \in Graph
        BY <1>1 DEF Call
    <1>3. [k.got EXCEPT !.trace = trace] = got /\ got \in Graph
        <2>1. trace \in SUBSET Nodes
            BY <1>2 DEF Graph
        <2> HIDE DEF trace
        <2> QED BY <1>2, <2>1 DEF Graph
    <1>4. e = [k EXCEPT !.got = got]
        BY <1>1, <1>3 DEF Call
    <1>5. got.whole = k.got.whole /\ got.trace = trace /\ got.edges = k.got.edges
        OBVIOUS
    <1> HIDE DEF got
    <1>6. /\ e \in Call /\ e.at = "evaluating" /\ e.for = k.for
          /\ e.got = got /\ e.result = k.result /\ e.up = k.up /\ e.query = k.query
        BY <1>1, <1>3, <1>4 DEF Call
    <1>7. GraphOK(got)
        BY <1>1, <1>3, <1>5 DEF GraphOK, ReadOK, Apart, States
    <1>8. Complete(got, E)
        BY <1>1, <1>5 DEF Complete, ReadOK
    <1>9. EvaluationOK(e, E)
        BY <1>1, <1>6 DEF EvaluationOK, Sound
    <1>10. e.for = "seed" => e.query.seed \intersect Stored \subseteq e.got.whole
        BY <1>1, <1>5, <1>6 DEF ReadOK
    <1> QED BY <1>6, <1>7, <1>8, <1>9, <1>10, AnsweredOK DEF GoesOn

----------------------------------------------------------------------------
(* The invariant: the tables are a graph, what is cached and what every     *)
(* call has read are graphs without a node that is whole and a Trace, and   *)
(* the calls know what they should.                                         *)

\* The calls f, with the relations K[c] there since each began.
CallsOK(f, K, B) ==
    /\ f \in [Clients -> Call]
    /\ \A c \in Clients : CallOK(f[c], K[c], B)

CacheOK == cache \in [Questions -> Graph] /\ \A q \in Questions : Apart(cache[q])

BoundsOK == statements \in 0..MaxStatements /\ calls \in 0..MaxCalls

QueriesInv ==
    /\ Tables(beliefs, relations) /\ Stored \subseteq beliefs
    /\ CacheOK
    /\ kept \in [Clients -> SUBSET relations]
    /\ CallsOK(call, kept, beliefs)
    /\ BoundsOK

\* One call goes on, and the relations kept for it may be others.
LEMMA OneCallGoesOn ==
    ASSUME NEW f, NEW K, NEW B, CallsOK(f, K, B), NEW c \in Clients, NEW k,
           NEW K2, \A d \in Clients : d # c => K2[d] = K[d], CallOK(k, K2[c], B)
    PROVE  CallsOK([f EXCEPT ![c] = k], K2, B)
    <1> DEFINE g == [f EXCEPT ![c] = k]
    <1>1. k \in Call /\ f \in [Clients -> Call]
        BY DEF CallOK, CallsOK
    <1>2. g \in [Clients -> Call] /\ g[c] = k /\ \A d \in Clients : d # c => g[d] = f[d]
        BY <1>1
    <1> HIDE DEF g
    <1>3. \A d \in Clients : CallOK(g[d], K2[d], B)
        BY <1>2 DEF CallsOK
    <1>4. CallsOK(g, K2, B)
        BY <1>2, <1>3 DEF CallsOK
    <1> QED BY <1>4 DEF g

\* Relations go, nodes come.
LEMMA CallsStayOK ==
    ASSUME NEW f, NEW K, NEW B, CallsOK(f, K, B), NEW K2, \A c \in Clients : K2[c] \subseteq K[c],
           NEW B2, B \subseteq B2
    PROVE  CallsOK(f, K2, B2)
    <1>1. ASSUME NEW c \in Clients
          PROVE  CallOK(f[c], K2[c], B2)
        <2>1. CallOK(f[c], K[c], B) /\ K2[c] \in SUBSET K[c]
            BY DEF CallsOK
        <2> QED BY <2>1, StaysOK
    <1> QED BY <1>1 DEF CallsOK

\* The invariant holds at the start.
LEMMA InitQueriesInv == Init => QueriesInv
    <1> SUFFICES ASSUME Init PROVE QueriesInv
        OBVIOUS
    <1>1. Tables(beliefs, relations) /\ Stored \subseteq beliefs
        BY QueriesAssumption, GraphAssumption DEF Init, Tables, Relations, Ends
    <1>2. CacheOK
        BY DEF Init, CacheOK, NoResult, Graph, Apart
    <1>3. kept \in [Clients -> SUBSET relations] /\ BoundsOK
        BY QueriesAssumption DEF Init, BoundsOK
    <1>4. CallsOK(call, kept, beliefs)
        <2> DEFINE q == CHOOSE q \in Questions : TRUE
        <2>1. q \in Questions
            BY QueriesAssumption
        <2>2. Min(Offsets) \in Offsets
            <3>1. \E x \in Offsets : \A y \in Offsets : x <= y
                BY QueriesAssumption, SmallestExists
            <3> QED BY <3>1 DEF Min
        <2> HIDE DEF q
        <2>3. Apart(Empty) /\ Empty \in Graph
            BY EmptyOK DEF GraphOK, Apart
        <2> DEFINE k == Ready(q, Min(Offsets), "idle", Empty)
        <2>4. \A E, B : CallOK(k, E, B)
            BY <2>1, <2>2, <2>3, ReadyOK DEF Places
        <2>5. call = [c \in Clients |-> k]
            BY DEF Init, q
        <2> HIDE DEF k
        <2>6. k \in Call
            BY <2>4 DEF CallOK
        <2> QED BY <2>4, <2>5, <2>6 DEF CallsOK
    <1> QED BY <1>1, <1>2, <1>3, <1>4 DEF QueriesInv

\* One lemma per kind of step.
LEMMA CommitInv == QueriesInv /\ Commit => QueriesInv'
    <1> SUFFICES ASSUME QueriesInv, Commit PROVE QueriesInv'
        OBVIOUS
    <1> USE DEF QueriesInv
    <1>1. Statement /\ CacheOK' /\ BoundsOK'
        <2>1. Statement
            BY DEF Commit, UpdateNode, UpdateRelation, RemoveRelation
        <2> QED BY <2>1, QueriesAssumption DEF Statement, CacheOK, BoundsOK
    <1>2. CASE \E n \in Nodes : UpdateNode(n)
        <2>1. /\ beliefs \subseteq beliefs' /\ beliefs' \subseteq Nodes
              /\ UNCHANGED <<relations, kept, call>>
            BY <1>2 DEF UpdateNode, Statement, Tables
        <2>2. Tables(beliefs', relations')
            BY <2>1 DEF Tables
        <2>3. CallsOK(call, kept, beliefs')
            BY <2>1, CallsStayOK
        <2> QED BY <1>1, <2>1, <2>2, <2>3 DEF CallsOK
    <1>3. CASE \E p \in Changing : UpdateRelation(p)
        <2>1. PICK p \in Changing : UpdateRelation(p)
            BY <1>3
        <2>2. relations' = relations \union {p} /\ UNCHANGED <<beliefs, kept, call>>
            BY <2>1 DEF UpdateRelation, Statement
        <2>3. Tables(beliefs', relations')
            BY <2>1, <2>2, QueriesAssumption DEF UpdateRelation, Tables, Ends, Relations
        <2> QED BY <1>1, <2>2, <2>3
    <1>4. CASE \E p \in Changing : RemoveRelation(p)
        <2>1. PICK p \in Changing : RemoveRelation(p)
            BY <1>4
        <2>2. /\ relations' = relations \ {p} /\ kept' = [c \in Clients |-> kept[c] \ {p}]
              /\ UNCHANGED <<beliefs, call>>
            BY <2>1 DEF RemoveRelation, Statement
        <2>3. Tables(beliefs', relations') /\ kept' \in [Clients -> SUBSET relations']
            BY <2>2 DEF Tables, Ends
        <2>4. CallsOK(call, kept', beliefs)
            <3>1. \A c \in Clients : kept'[c] \subseteq kept[c]
                BY <2>2
            <3> QED BY <3>1, CallsStayOK
        <2> QED BY <1>1, <2>2, <2>3, <2>4
    <1> QED BY <1>2, <1>3, <1>4 DEF Commit

\* What a step of one call has to show.
LEMMA CallStepInv ==
    ASSUME QueriesInv, UNCHANGED <<beliefs, relations, statements>>, CacheOK', BoundsOK',
           NEW c \in Clients, NEW k, call' = [call EXCEPT ![c] = k],
           kept' \in [Clients -> SUBSET relations], \A d \in Clients : d # c => kept'[d] = kept[d],
           CallOK(k, kept'[c], beliefs)
    PROVE  QueriesInv'
    <1>1. CallsOK(call', kept', beliefs)
        BY OneCallGoesOn DEF QueriesInv
    <1> QED BY <1>1 DEF QueriesInv

\* The cache is locked and released, and a cached result is dropped.
LEMMA LocksInv ==
    ASSUME QueriesInv, NEW c \in Clients,
           LockToRead(c) \/ LockToWrite(c) \/ Check(c) \/ Remove(c)
    PROVE  QueriesInv'
    <1>1. /\ call[c] \in Call /\ CallOK(call[c], kept[c], beliefs)
          /\ kept \in [Clients -> SUBSET relations]
        BY DEF QueriesInv, CallsOK
    <1>2. PICK place \in {"reading", "removing", "inserting", "answered", "panicked", "check"} :
             /\ Go(c, place) /\ (place = "inserting" => call[c].at = "insert")
             /\ CallUnchanged /\ UNCHANGED calls
        BY DEF LockToRead, LockToWrite, Check, Remove, At
    <1>3. CallOK([call[c] EXCEPT !.at = place], kept[c], beliefs)
        BY <1>1, <1>2, GoOK DEF Places
    <1>4. CacheOK' /\ BoundsOK'
        <2>1. cache' = cache \/ cache' = [cache EXCEPT ![call[c].query] = NoResult]
            BY DEF LockToRead, LockToWrite, Check, Remove
        <2>2. NoResult \in Graph /\ Apart(NoResult)
            BY DEF NoResult, Graph, Apart
        <2>3. CacheOK /\ BoundsOK
            BY DEF QueriesInv
        <2> QED BY <1>2, <2>1, <2>2, <2>3 DEF CacheOK, BoundsOK, CallUnchanged
    <1>5. call' = [call EXCEPT ![c] = [call[c] EXCEPT !.at = place]]
        BY <1>2 DEF Go, Step
    <1>6. UNCHANGED <<beliefs, relations, kept, statements>>
        BY <1>2 DEF CallUnchanged
    <1> QED BY <1>1, <1>3, <1>4, <1>5, <1>6, CallStepInv

\* The three statements of an expression.
LEMMA ReadsInv ==
    ASSUME QueriesInv, NEW c \in Clients, ReadStates(c) \/ ReadRelations(c) \/ ReadMissing(c)
    PROVE  QueriesInv'
    <1> DEFINE k == call[c]
    <1>1. /\ k \in Call /\ CallOK(k, kept[c], beliefs) /\ k.at = "evaluating"
          /\ kept \in [Clients -> SUBSET relations] /\ kept[c] \in SUBSET relations
          /\ Tables(beliefs, relations) /\ Stored \subseteq beliefs /\ beliefs \subseteq Nodes
        BY DEF QueriesInv, CallsOK, Tables, ReadStates, ReadRelations, ReadMissing, At
    <1>2. UNCHANGED <<beliefs, relations, statements>> /\ CacheOK' /\ BoundsOK'
        BY DEF QueriesInv, CacheOK, BoundsOK, ReadStates, ReadRelations, ReadMissing, EvalUnchanged
    <1>3. CASE ReadStates(c)
        <2> DEFINE e == [k EXCEPT !.read = "relations",
                           !.got = IF k.for = "balance" THEN [Empty EXCEPT !.trace = k.ask \intersect beliefs]
                                   ELSE [Empty EXCEPT !.whole = k.ask \intersect beliefs]]
        <2>1. /\ k.read = "states" /\ call' = [call EXCEPT ![c] = e]
              /\ kept' = IF k.for = "seed" THEN [kept EXCEPT ![c] = relations] ELSE kept
            BY <1>3 DEF ReadStates, Step
        <2>2. /\ kept' \in [Clients -> SUBSET relations] /\ \A d \in Clients : d # c => kept'[d] = kept[d]
              /\ IF k.for = "seed" THEN TRUE ELSE kept'[c] = kept[c]
            BY <1>1, <2>1
        <2> HIDE DEF k
        <2>3. CallOK(e, kept'[c], beliefs)
            BY <1>1, <2>1, <2>2, StatesRead
        <2> HIDE DEF e
        <2> QED BY <1>2, <2>1, <2>2, <2>3, CallStepInv
    <1>4. CASE ReadRelations(c)
        <2> DEFINE rows == IF k.for = "balance"
                           THEN {p \in relations \intersect Sections : p[1] \in States(k.got)}
                           ELSE {p \in relations : {p[1], p[2]} \intersect States(k.got) # {}}
                   e == [k EXCEPT !.read = "missing", !.got.edges = rows]
        <2>1. k.read = "relations" /\ call' = [call EXCEPT ![c] = e] /\ UNCHANGED kept
            BY <1>4 DEF ReadRelations, Step
        <2>2. /\ rows \in SUBSET relations
              /\ k.for # "balance" => rows = {p \in relations : {p[1], p[2]} \intersect States(k.got) # {}}
            OBVIOUS
        <2> HIDE DEF rows, k
        <2>3. CallOK(e, kept[c], beliefs)
            BY <1>1, <2>1, <2>2, RelationsRead
        <2> HIDE DEF e
        <2> QED BY <1>1, <1>2, <2>1, <2>3, CallStepInv
    <1>5. CASE ReadMissing(c)
        <2> DEFINE e == [k EXCEPT !.got.trace =
                           @ \union ((Ends(k.got.edges) \ States(k.got)) \intersect beliefs)]
        <2>1. k.read = "missing" /\ call' = [call EXCEPT ![c] = Answered(e)] /\ UNCHANGED kept
            BY <1>5 DEF ReadMissing, Step
        <2> HIDE DEF k
        <2>2. CallOK(Answered(e), kept[c], beliefs)
            BY <1>1, <2>1, MissingRead DEF GoesOn
        <2> HIDE DEF e
        <2> QED BY <1>1, <1>2, <2>1, <2>2, CallStepInv
    <1> QED BY <1>3, <1>4, <1>5

\* A page is answered, of a cached result or of a fresh one, which is kept.
LEMMA AnswersInv ==
    ASSUME QueriesInv, NEW c \in Clients, Lookup(c) \/ Insert(c) \/ CutPage(c)
    PROVE  QueriesInv'
    <1> DEFINE k == call[c]
    <1>1. /\ k \in Call /\ CallOK(k, kept[c], beliefs)
          /\ kept \in [Clients -> SUBSET relations] /\ k.query \in Questions /\ k.offset \in Offsets
          /\ CacheOK /\ BoundsOK
        BY DEF QueriesInv, CallsOK, Call
    <1>2. UNCHANGED <<beliefs, relations, statements>> /\ BoundsOK'
        BY <1>1 DEF BoundsOK, Lookup, Insert, CutPage, CallUnchanged
    \* What is answered is a page, or a panic.
    <1>3. ASSUME NEW g \in Graph, Apart(g), NEW place \in {"remove", "check", "panicked"}, NEW E
          PROVE  /\ CallOK(Ready(k.query, k.offset, place, Page(g, k.offset)), E, beliefs)
                 /\ CallOK(Ready(k.query, k.offset, place, Empty), E, beliefs)
        <2>1. Page(g, k.offset) \in Graph /\ Apart(Page(g, k.offset))
            BY <1>3, PageOK
        <2>2. Empty \in Graph /\ Apart(Empty)
            BY EmptyOK DEF GraphOK, Apart
        <2> QED BY <1>1, <2>1, <2>2, ReadyOK DEF Places
    <1>4. CASE Lookup(c)
        <2> DEFINE g == cache[k.query]
                   begun == [Evaluate(k, "seed", k.query.seed) EXCEPT !.at = "evaluating"]
        <2>1. g \in Graph /\ Apart(g)
            BY <1>1 DEF CacheOK
        <2>2. CallOK(begun, kept[c], beliefs)
            BY <1>1, BeginOK
        <2>3. PICK m \in {begun} \union
                      {Ready(k.query, k.offset, place, Page(g, k.offset)) : place \in {"remove", "check"}} \union
                      {Ready(k.query, k.offset, "panicked", Empty)} :
                 call' = [call EXCEPT ![c] = m]
            BY <1>4 DEF Lookup, Paged, Step
        <2>4. UNCHANGED kept /\ CacheOK'
            BY <1>1, <1>4 DEF Lookup, CallUnchanged, CacheOK
        <2> HIDE DEF g, k, begun
        <2>5. CallOK(m, kept[c], beliefs)
            BY <1>3, <2>1, <2>2, <2>3
        <2> QED BY <1>1, <1>2, <2>3, <2>4, <2>5, CallStepInv
    <1>5. CASE Insert(c)
        <2> DEFINE m == Ready(k.query, k.offset, "check", Page(k.result, k.offset))
        <2>1. call' = [call EXCEPT ![c] = m] /\ kept' = [kept EXCEPT ![c] = {}]
            BY <1>5 DEF Insert, Step
        <2>2. k.result \in Graph /\ Apart(k.result)
            BY <1>1 DEF CallOK, Call
        <2>3. CacheOK'
            <3>1. cache' = [cache EXCEPT ![k.query] = k.result]
                BY <1>5 DEF Insert
            <3> HIDE DEF k
            <3> QED BY <1>1, <2>2, <3>1 DEF CacheOK
        <2> HIDE DEF k
        <2>4. CallOK(m, kept'[c], beliefs)
            BY <1>3, <2>2
        <2>5. kept' \in [Clients -> SUBSET relations] /\ \A d \in Clients : d # c => kept'[d] = kept[d]
            BY <1>1, <2>1
        <2> HIDE DEF m
        <2> QED BY <1>2, <2>1, <2>3, <2>4, <2>5, CallStepInv
    <1>6. CASE CutPage(c)
        <2> DEFINE m == Ready(k.query, k.offset, "panicked", Empty)
        <2>1. call' = [call EXCEPT ![c] = m] /\ kept' = [kept EXCEPT ![c] = {}] /\ UNCHANGED cache
            BY <1>6 DEF CutPage, Step
        <2>2. k.result \in Graph /\ Apart(k.result)
            BY <1>1 DEF CallOK, Call
        <2> HIDE DEF k
        <2>3. CallOK(m, kept'[c], beliefs)
            BY <1>3, <2>2
        <2>4. kept' \in [Clients -> SUBSET relations] /\ \A d \in Clients : d # c => kept'[d] = kept[d]
            BY <1>1, <2>1
        <2>5. CacheOK'
            BY <1>1, <2>1 DEF CacheOK
        <2> HIDE DEF m
        <2> QED BY <1>2, <2>1, <2>3, <2>4, <2>5, CallStepInv
    <1> QED BY <1>4, <1>5, <1>6

\* A client asks.
LEMMA AskInv ==
    ASSUME QueriesInv, NEW c \in Clients, NEW q \in Questions, NEW offset \in Offsets,
           Ask(c, q, offset)
    PROVE  QueriesInv'
    <1> DEFINE k == Ready(q, offset, "lookup", Empty)
    <1>1. Empty \in Graph /\ Apart(Empty)
        BY EmptyOK DEF GraphOK, Apart
    <1>2. CallOK(k, kept[c], beliefs)
        BY <1>1, ReadyOK DEF Places
    <1>3. CacheOK' /\ BoundsOK'
        BY QueriesAssumption DEF QueriesInv, CacheOK, BoundsOK, Ask, CallUnchanged
    <1>4. UNCHANGED <<beliefs, relations, kept, statements>> /\ call' = [call EXCEPT ![c] = k]
        BY DEF Ask, Step, CallUnchanged
    <1>5. kept \in [Clients -> SUBSET relations]
        BY DEF QueriesInv
    <1> HIDE DEF k
    <1> QED BY <1>2, <1>3, <1>4, <1>5, CallStepInv

\* Every step keeps the invariant.
LEMMA NextQueriesInv == QueriesInv /\ [Next]_vars => QueriesInv'
    <1> SUFFICES ASSUME QueriesInv, [Next]_vars PROVE QueriesInv'
        OBVIOUS
    <1>1. CASE Commit
        BY <1>1, CommitInv
    <1>2. ASSUME NEW c \in Clients, Serve(c)
          PROVE  QueriesInv'
        BY <1>2, LocksInv, ReadsInv, AnswersInv DEF Serve
    <1>3. ASSUME NEW c \in Clients, NEW q \in Questions, NEW offset \in Offsets, Ask(c, q, offset)
          PROVE  QueriesInv'
        BY <1>3, AskInv
    <1>4. CASE UNCHANGED vars
        BY <1>4 DEF vars, QueriesInv, CacheOK, BoundsOK
    <1> QED BY <1>1, <1>2, <1>3, <1>4 DEF Next

\* So it always holds.
THEOREM QueriesAreSound == Spec => []QueriesInv
    BY InitQueriesInv, NextQueriesInv, PTL DEF Spec

\* The tables stay a graph, the calls and the cache stay well-formed, and no
\* result has a node that is both whole and a Trace.
THEOREM QueriesStayTyped == Spec => []QueriesTypeOK
    <1>1. QueriesInv => QueriesTypeOK
        BY DEF QueriesInv, QueriesTypeOK, Tables, Relations, CacheOK, CallsOK, CallOK, Apart, BoundsOK
    <1> QED BY <1>1, QueriesAreSound, PTL

\* A node of a result that is not a Trace has every relation that was there
\* while the query was evaluated, and the nodes asked for are not Trace.
THEOREM WholeNodesStayWhole == Spec => []WholeNodesAreWhole
    <1>1. QueriesInv => WholeNodesAreWhole
        <2> SUFFICES ASSUME QueriesInv, NEW c \in Clients, Evaluated(c)
                     PROVE  /\ call[c].query.seed \intersect Stored \subseteq call[c].result.whole
                            /\ \A p \in kept[c] :
                                  {p[1], p[2]} \intersect call[c].result.whole # {} => p \in call[c].result.edges
            BY DEF WholeNodesAreWhole
        <2>1. Sound(call[c].result, call[c], kept[c])
            BY DEF QueriesInv, CallsOK, CallOK, Evaluated
        <2> QED BY <2>1 DEF Sound, Complete
    <1> QED BY <1>1, QueriesAreSound, PTL

\* Memory and the database give the same answers, for every database and every
\* expression about lists of nodes or relations with listed sinks or sources.
THEOREM SourcesAlwaysAgree == Spec => []SourcesAgree
    <1>1. QueriesInv => SourcesAgree
        BY StatesAlwaysAgree, RelationsAlwaysAgree, UnionsAlwaysAgree, DyadsAlwaysContain
           DEF QueriesInv, SourcesAgree
    <1> QED BY <1>1, QueriesAreSound, PTL

----------------------------------------------------------------------------
(* The chain above a node.  A query for one node, with no walk, has read    *)
(* all that is above it when its balance ends: what the balance asks for    *)
(* next is all that it has found and not read, so that each statement gets  *)
(* one step higher, and BALANCE_CUTOFF statements are enough where no node  *)
(* is deeper.                                                               *)

\* No node is deeper than the balance climbs, and a parent is less deep.
Shallow(depth) ==
    /\ depth \in [Nodes -> 0..BALANCE_CUTOFF]
    /\ \A p \in Sections : depth[p[2]] < depth[p[1]]

\* The query asks for the node s alone, which does not link to its parent.
Single(s) == [seed |-> {s}, radius |-> 0]
LinksNoParent(s) == \A p \in Sections : p[1] = s => <<p[2], s>> \notin Links
AsksFor(k, s) == k.query = Single(s) /\ LinksNoParent(s)

\* g has every Section relation of the node x that was there all along.
Done(x, g, E) == \A p \in E \intersect Sections : p[1] = x => p \in g.edges

Above(s, E) == Reach({s}, E \intersect Sections)

\* What has been read of the node that was asked for.
SeedRead(k, s, E) ==
    /\ k.read # "states" =>
          /\ k.got.whole \subseteq {s} /\ k.got.trace = {}
          /\ \A p \in E : s \in {p[1], p[2]} => s \in k.got.whole
    /\ k.read = "missing" => \A p \in k.got.edges : {p[1], p[2]} \intersect k.got.whole # {}

\* What has been read of the nodes above.
AboveRead(k, E) ==
    /\ k.read = "relations" =>
          /\ k.got.trace \subseteq k.ask
          /\ \A p \in E \intersect Sections : p[1] \in k.ask => p[1] \in k.got.trace
    /\ k.read = "missing" =>
          /\ \A p \in k.got.edges : p \in Sections /\ p[1] \in k.ask
          /\ \A p \in E \intersect Sections : p[1] \in k.ask => p \in k.got.edges

\* A node with a relation above it is done or a child of s, one without is done
\* or asked for, and what is not done is less deep with every statement.
Climbing(k, s, E, depth) ==
    /\ s \in k.result.whole /\ k.ask \subseteq States(k.result)
    /\ \A p \in k.result.edges \intersect Sections : p[2] = s \/ Done(p[1], k.result, E)
    /\ \A x \in ExternalSinks(k.result.edges \intersect Sections) :
          x \in k.ask \/ Done(x, k.result, E)
    /\ \A x \in Above(s, E) : Done(x, k.result, E) \/ depth[x] + k.loops <= BALANCE_CUTOFF

Climbed(g, s, E) == \A x \in Above(s, E) : Done(x, g, E)

ChainOK(k, s, E, depth) ==
    /\ k.at = "evaluating" =>
          /\ k.for \in {"seed", "balance"}
          /\ k.for = "seed" => SeedRead(k, s, E)
          /\ k.for = "balance" => AboveRead(k, E) /\ Climbing(k, s, E, depth)
    /\ k.at \in {"insert", "inserting"} => Climbed(k.result, s, E)

ChainsOK(f, K, depth) ==
    \A c \in Clients, s \in Nodes : AsksFor(f[c], s) => ChainOK(f[c], s, K[c], depth)

\* What is closed has all that can be reached.
LEMMA ReachWithin ==
    ASSUME NEW S, NEW E, NEW X, \A p \in E : p[1] \in S \union X => p[2] \in S \union X
    PROVE  Reach(S, E) \subseteq S \union X
    <1> DEFINE sinks == {p[2] : p \in E} \ S
               Y == X \intersect sinks
    <1>1. Y \in SUBSET sinks
        OBVIOUS
    <1>2. \A p \in E : p[2] \in S \union sinks
        OBVIOUS
    <1>3. \A p \in E : p[1] \in S \union Y => p[2] \in S \union Y
        BY <1>2
    <1> HIDE DEF Y
    <1>4. Reach(S, E) \subseteq S \union Y
        BY <1>1, <1>3 DEF Reach
    <1> QED BY <1>4 DEF Y

\* What can be reached is closed.
LEMMA ReachGoesOn ==
    ASSUME NEW S, NEW E
    PROVE  S \subseteq Reach(S, E) /\ \A p \in E : p[1] \in Reach(S, E) => p[2] \in Reach(S, E)
    BY DEF Reach

\* It is less with fewer relations.
LEMMA ReachShrinks ==
    ASSUME NEW S, NEW E, NEW F \in SUBSET E
    PROVE  Reach(S, F) \subseteq Reach(S, E)
    <1>1. \A p \in F : p[1] \in S \union Reach(S, E) => p[2] \in S \union Reach(S, E)
        BY ReachGoesOn
    <1>2. Reach(S, F) \subseteq S \union Reach(S, E)
        BY <1>1, ReachWithin
    <1> QED BY <1>2, ReachGoesOn

\* The balance brings relations only: those it has read of nodes in the result.
LEMMA UnionOfTraces ==
    ASSUME NEW l, NEW r, GraphOK(l), GraphOK(r), r.whole = {}
    PROVE  /\ l.edges \subseteq Union(l, r).edges /\ l.whole \subseteq Union(l, r).whole
           /\ Union(l, r).edges \subseteq l.edges \union r.edges
           /\ \A p \in r.edges : {p[1], p[2]} \intersect States(l) # {} => p \in Union(l, r).edges
    <1> DEFINE a == [l EXCEPT !.whole = @ \union r.whole, !.trace = @ \ r.whole]
    <1>1. l \in Graph /\ r \in Graph /\ Ends(l.edges) \subseteq States(l) /\ l.whole \intersect l.trace = {}
        BY DEF GraphOK
    <1>2. /\ a \in Graph /\ a.whole = l.whole /\ a.trace = l.trace /\ a.edges = l.edges
        BY <1>1 DEF Graph
    <1>3. Union(l, r) = AddRelations(a, r)
        BY DEF Union
    <1> HIDE DEF a
    <1>4. States(a) = States(l)
        BY <1>2 DEF States
    <1>5. /\ a.edges \subseteq AddRelations(a, r).edges /\ a.whole \subseteq AddRelations(a, r).whole
          /\ \A p \in r.edges : {p[1], p[2]} \intersect States(a) # {} => p \in AddRelations(a, r).edges
        BY <1>1, <1>2, <1>4, JoinedOK
    <1>6. AddRelations(a, r).edges \subseteq a.edges \union r.edges
        BY <1>1, <1>2, AddRelationsIs
    <1> QED BY <1>2, <1>3, <1>4, <1>5, <1>6

\* A whole node is done.
LEMMA WholeIsDone ==
    ASSUME NEW g, NEW E, Complete(g, E), NEW x \in g.whole
    PROVE  Done(x, g, E)
    BY DEF Complete, Done

\* A relation leads to a node that is less deep.
LEMMA Higher ==
    ASSUME NEW depth, Shallow(depth), NEW p \in Sections
    PROVE  /\ p = <<p[1], p[2]>> /\ p[1] \in Nodes /\ p[2] \in Nodes
           /\ depth[p[1]] \in Nat /\ depth[p[2]] \in Nat /\ depth[p[2]] < depth[p[1]]
           /\ depth[p[1]] <= BALANCE_CUTOFF /\ depth[p[2]] <= BALANCE_CUTOFF
    <1>1. p = <<p[1], p[2]>> /\ p[1] \in Nodes /\ p[2] \in Nodes
        BY GraphAssumption
    <1>2. depth \in [Nodes -> 0..BALANCE_CUTOFF] /\ depth[p[2]] < depth[p[1]] /\ BALANCE_CUTOFF \in Nat
        BY QueriesAssumption DEF Shallow
    <1> QED BY <1>1, <1>2

\* The nodes above a node are not deeper.
LEMMA AboveIsHigher ==
    ASSUME NEW depth, Shallow(depth), NEW s \in Nodes, NEW E, NEW x \in Above(s, E)
    PROVE  x \in Nodes /\ depth[x] \in Nat /\ depth[x] <= depth[s]
    <1> DEFINE X == {n \in Nodes : depth[n] <= depth[s]}
               F == E \intersect Sections
    <1>1. \A n \in Nodes : depth[n] \in Nat
        BY QueriesAssumption DEF Shallow
    <1>2. ASSUME NEW p \in F, p[1] \in {s} \union X
          PROVE  p[2] \in {s} \union X
        <2>1. p[2] \in Nodes /\ depth[p[2]] \in Nat /\ depth[p[1]] \in Nat /\ depth[p[2]] < depth[p[1]]
            BY Higher
        <2>2. depth[p[1]] <= depth[s] /\ depth[s] \in Nat
            BY <1>1, <1>2
        <2> QED BY <2>1, <2>2
    <1>3. Reach({s}, F) \subseteq {s} \union X
        <2> HIDE DEF F, X
        <2> QED BY <1>2, ReachWithin
    <1>4. x \in {s} \union X
        BY <1>3 DEF Above
    <1> QED BY <1>1, <1>4

\* A node that a relation leads to has one that leads on, or is an external sink.
LEMMA SinkOrSource ==
    ASSUME NEW F, NEW p \in F
    PROVE  p[2] \in ExternalSinks(F) \/ \E q \in F : q[1] = p[2]
    BY DEF ExternalSinks

\* Every statement of the balance brings what is above the nodes asked for.
LEMMA RoundOK ==
    ASSUME NEW depth, Shallow(depth), NEW s \in Nodes, NEW E, NEW k,
           k.loops \in Nat, Sound(k.result, k, E), Climbing(k, s, E, depth),
           GraphOK(k.got), k.got.whole = {}, k.read = "missing", AboveRead(k, E),
           NEW g, g = Union(k.result, k.got)
    PROVE  /\ s \in g.whole /\ GraphOK(g)
           /\ \A x : x \in k.ask \/ Done(x, k.result, E) => Done(x, g, E)
           /\ \A p \in g.edges \intersect Sections : p[2] = s \/ Done(p[1], g, E)
           /\ \A x \in Above(s, E) : Done(x, g, E) \/ depth[x] + (k.loops + 1) <= BALANCE_CUTOFF
    <1>1. /\ k.result.edges \subseteq g.edges /\ k.result.whole \subseteq g.whole
          /\ g.edges \subseteq k.result.edges \union k.got.edges
          /\ \A p \in k.got.edges : {p[1], p[2]} \intersect States(k.result) # {} => p \in g.edges
        BY UnionOfTraces DEF Sound
    <1>2. GraphOK(g)
        <2>1. Complete(k.got, E) /\ Complete(k.result, E) /\ GraphOK(k.result)
            BY NothingWhole DEF Sound
        <2> QED BY <2>1, UnionsOK
    <1>3. ASSUME NEW x, x \in k.ask \/ Done(x, k.result, E)
          PROVE  Done(x, g, E)
        <2>1. CASE x \in k.ask
            <3> SUFFICES ASSUME NEW p \in E \intersect Sections, p[1] = x PROVE p \in g.edges
                BY DEF Done
            <3>1. p \in k.got.edges /\ p[1] \in States(k.result)
                BY <2>1 DEF AboveRead, Climbing
            <3> QED BY <1>1, <3>1
        <2>2. CASE Done(x, k.result, E)
            BY <1>1, <2>2 DEF Done
        <2> QED BY <1>3, <2>1, <2>2
    <1>4. ASSUME NEW p \in g.edges \intersect Sections
          PROVE  p[2] = s \/ Done(p[1], g, E)
        <2>1. CASE p \in k.result.edges
            BY <1>3, <2>1 DEF Climbing
        <2>2. CASE p \in k.got.edges
            BY <1>3, <2>2 DEF AboveRead
        <2> QED BY <1>1, <2>1, <2>2
    <1>5. ASSUME NEW x \in Above(s, E)
          PROVE  Done(x, g, E) \/ depth[x] + (k.loops + 1) <= BALANCE_CUTOFF
        <2> DEFINE F == E \intersect Sections
                   X == {n \in Above(s, E) : Done(n, g, E) \/ depth[n] + (k.loops + 1) <= BALANCE_CUTOFF}
        <2>1. s \in X
            <3>1. Done(s, g, E)
                <4>1. Done(s, k.result, E)
                    BY WholeIsDone DEF Sound, Climbing
                <4> QED BY <1>3, <4>1
            <3>2. s \in Above(s, E)
                BY ReachGoesOn DEF Above
            <3> QED BY <3>1, <3>2
        <2>2. ASSUME NEW p \in F, p[1] \in X
              PROVE  p[2] \in X
            <3>1. p[2] \in Above(s, E)
                BY <2>2, ReachGoesOn DEF Above
            <3>2. /\ depth[p[1]] \in Nat /\ depth[p[2]] \in Nat /\ depth[p[2]] < depth[p[1]]
                  /\ BALANCE_CUTOFF \in Nat
                BY Higher, QueriesAssumption
            <3>3. CASE Done(p[1], k.result, E)
                <4>1. p \in k.result.edges \intersect Sections
                    BY <3>3 DEF Done
                <4>2. CASE p[2] \in ExternalSinks(k.result.edges \intersect Sections)
                    <5>1. Done(p[2], g, E)
                        BY <1>3, <4>2 DEF Climbing
                    <5> QED BY <3>1, <5>1
                <4>3. ASSUME NEW q \in k.result.edges \intersect Sections, q[1] = p[2]
                      PROVE  p[2] \in X
                    <5>1. q[2] # s
                        <6>1. depth[p[2]] \in Nat /\ depth[p[2]] <= depth[s]
                            BY <3>1, AboveIsHigher
                        <6>2. depth[q[2]] < depth[q[1]] /\ depth[q[2]] \in Nat
                            BY Higher
                        <6> QED BY <4>3, <6>1, <6>2
                    <5>2. Done(p[2], g, E)
                        BY <1>3, <4>3, <5>1 DEF Climbing
                    <5> QED BY <3>1, <5>2
                <4> QED BY <4>1, <4>2, <4>3, SinkOrSource
            <3>4. CASE depth[p[1]] + k.loops <= BALANCE_CUTOFF
                <4>1. depth[p[2]] + (k.loops + 1) <= BALANCE_CUTOFF
                    BY <3>2, <3>4
                <4> QED BY <3>1, <4>1
            <3>5. p[1] \in Above(s, E)
                BY <2>2
            <3> QED BY <3>3, <3>4, <3>5 DEF Climbing
        <2>3. Above(s, E) \subseteq {s} \union X
            <3> HIDE DEF X
            <3>1. \A p \in F : p[1] \in {s} \union X => p[2] \in {s} \union X
                BY <2>1, <2>2
            <3> HIDE DEF F
            <3>2. Reach({s}, F) \subseteq {s} \union X
                BY <3>1, ReachWithin
            <3> QED BY <3>2 DEF Above, F
        <2> QED BY <2>1, <2>3
    <1>6. s \in g.whole
        BY <1>1 DEF Climbing
    <1> QED BY <1>2, <1>3, <1>4, <1>5, <1>6

\* When there is nothing left to ask for, everything above s is done.
LEMMA NothingLeft ==
    ASSUME NEW depth, Shallow(depth), NEW s \in Nodes, NEW E, NEW g,
           Done(s, g, E),
           \A p \in g.edges \intersect Sections : p[2] = s \/ Done(p[1], g, E),
           \A x \in ExternalSinks(g.edges \intersect Sections) : Done(x, g, E)
    PROVE  Climbed(g, s, E)
    <1> DEFINE F == E \intersect Sections
               X == {n \in Above(s, E) : Done(n, g, E)}
    <1>1. s \in X
        BY ReachGoesOn DEF Above
    <1>2. ASSUME NEW p \in F, p[1] \in X
          PROVE  p[2] \in X
        <2>1. p[2] \in Above(s, E)
            BY <1>2, ReachGoesOn DEF Above
        <2>2. p \in g.edges \intersect Sections
            BY <1>2 DEF Done
        <2>3. ASSUME NEW q \in g.edges \intersect Sections, q[1] = p[2]
              PROVE  Done(p[2], g, E)
            <3>1. q[2] # s
                <4>1. depth[p[2]] \in Nat /\ depth[p[2]] <= depth[s]
                    BY <2>1, AboveIsHigher
                <4>2. depth[q[2]] < depth[q[1]] /\ depth[q[2]] \in Nat
                    BY Higher
                <4> QED BY <2>3, <4>1, <4>2
            <3> QED BY <2>3, <3>1
        <2>4. Done(p[2], g, E)
            BY <2>2, <2>3, SinkOrSource
        <2> QED BY <2>1, <2>4
    <1>3. Above(s, E) \subseteq {s} \union X
        <2>1. \A p \in F : p[1] \in {s} \union X => p[2] \in {s} \union X
            BY <1>1, <1>2
        <2> HIDE DEF X, F
        <2>2. Reach({s}, F) \subseteq {s} \union X
            BY <2>1, ReachWithin
        <2> QED BY <2>2 DEF Above, F
    <1> QED BY <1>1, <1>3 DEF Climbed

\* The balance goes on, or everything above s is done.
LEMMA ClimbOn ==
    ASSUME NEW depth, Shallow(depth), NEW s \in Nodes, NEW E, NEW k \in Call,
           k.at = "evaluating", Sound(k.result, k, E), Climbing(k, s, E, depth),
           GraphOK(k.got), k.got.whole = {}, k.read = "missing", AboveRead(k, E)
    PROVE  ChainOK(Balanced(k), s, E, depth)
    <1> DEFINE g == Union(k.result, k.got)
               expr == ExternalSinks(g.edges \intersect Sections)
               next == [k EXCEPT !.result = g]
               done == [next EXCEPT !.at = "insert"]
               on == Evaluate([next EXCEPT !.loops = @ + 1], "balance", expr)
    <1>1. k.loops \in Nat
        BY DEF Call
    <1>2. /\ s \in g.whole /\ GraphOK(g)
          /\ \A x : x \in k.ask \/ Done(x, k.result, E) => Done(x, g, E)
          /\ \A p \in g.edges \intersect Sections : p[2] = s \/ Done(p[1], g, E)
          /\ \A x \in Above(s, E) : Done(x, g, E) \/ depth[x] + (k.loops + 1) <= BALANCE_CUTOFF
        BY <1>1, RoundOK
    <1> HIDE DEF g
    <1>3. g \in Graph /\ expr \in SUBSET Nodes /\ expr \subseteq States(g)
        <2>1. g \in Graph /\ expr \in SUBSET Nodes
            BY <1>2, EdgesAre
        <2>2. expr \subseteq Ends(g.edges)
            BY DEF ExternalSinks, Ends
        <2> QED BY <1>2, <2>1, <2>2 DEF GraphOK
    <1>4. Done(s, g, E)
        <2>1. Done(s, k.result, E)
            BY WholeIsDone DEF Sound, Climbing
        <2> QED BY <1>2, <2>1
    <1> HIDE DEF expr
    <1>5. Balanced(k) = IF expr \in {{}, k.ask} \/ k.loops >= BALANCE_CUTOFF THEN done ELSE on
        BY <1>3 DEF Balanced, g, expr
    <1>6. CASE expr \in {{}, k.ask} \/ k.loops >= BALANCE_CUTOFF
        <2>1. Climbed(g, s, E)
            <3>1. CASE expr \in {{}, k.ask}
                <4>1. \A x \in expr : Done(x, g, E)
                    BY <1>2, <3>1
                <4> QED BY <1>2, <1>4, <4>1, NothingLeft DEF expr
            <3>2. CASE k.loops >= BALANCE_CUTOFF
                <4> SUFFICES ASSUME NEW x \in Above(s, E) PROVE Done(x, g, E)
                    BY DEF Climbed
                <4>1. depth[x] \in Nat /\ BALANCE_CUTOFF \in Nat
                    BY AboveIsHigher, QueriesAssumption
                <4>2. ~ (depth[x] + (k.loops + 1) <= BALANCE_CUTOFF)
                    BY <1>1, <3>2, <4>1
                <4> QED BY <1>2, <4>2
            <3> QED BY <1>6, <3>1, <3>2
        <2>2. done.at = "insert" /\ done.result = g
            BY DEF Call
        <2>3. Balanced(k) = done
            BY <1>5, <1>6
        <2> HIDE DEF done
        <2> QED BY <2>1, <2>2, <2>3 DEF ChainOK
    <1>7. CASE ~ (expr \in {{}, k.ask} \/ k.loops >= BALANCE_CUTOFF)
        <2>1. /\ on.at = "evaluating" /\ on.for = "balance" /\ on.read = "states" /\ on.ask = expr
              /\ on.result = g /\ on.loops = k.loops + 1
            BY DEF Evaluate, Call
        <2>2. Balanced(k) = on
            BY <1>5, <1>7
        <2> HIDE DEF on
        <2>3. Climbing(on, s, E, depth)
            BY <1>2, <1>3, <2>1 DEF Climbing, expr
        <2>4. AboveRead(on, E)
            BY <2>1 DEF AboveRead
        <2> QED BY <2>1, <2>2, <2>3, <2>4 DEF ChainOK
    <1> QED BY <1>6, <1>7

\* A query for one node without a walk goes from its seed to its balance, which
\* asks for the parents of the node first: they are the sources of no relation
\* of it.
LEMMA ClimbBegins ==
    ASSUME NEW depth, Shallow(depth), NEW s \in Nodes, LinksNoParent(s), NEW E, NEW k \in Call,
           k.at = "evaluating", NEW g, GraphOK(g), Complete(g, E), g.whole \subseteq {s},
           \A p \in E : s \in {p[1], p[2]} => s \in g.whole,
           \A p \in g.edges : {p[1], p[2]} \intersect g.whole # {}
    PROVE  ChainOK(Balance(k, g), s, E, depth)
    <1> DEFINE expr == ExternalSinks(g.edges)
               next == [k EXCEPT !.result = g, !.up = Empty, !.loops = 0]
               done == [next EXCEPT !.at = "insert"]
               on == Evaluate(next, "balance", expr)
    <1>1. g \in Graph /\ expr \in SUBSET Nodes /\ expr \subseteq States(g) /\ g.edges \subseteq Relations
        <2>1. g \in Graph /\ expr \in SUBSET Nodes /\ g.edges \subseteq Relations
            BY EdgesAre
        <2>2. expr \subseteq Ends(g.edges)
            BY DEF ExternalSinks, Ends
        <2> QED BY <2>1, <2>2 DEF GraphOK
    <1>2. \A p \in g.edges : p = <<p[1], p[2]>> /\ s \in g.whole /\ s \in {p[1], p[2]}
        <2>1. g.edges \in SUBSET Relations
            BY <1>1
        <2> QED BY <2>1, PairsAre
    <1>3. Done(s, g, E)
        BY DEF Done, Complete
    <1>4. ASSUME NEW p \in g.edges \intersect Sections, p[1] = s
          PROVE  p[2] \in expr
        <2>1. \A q \in g.edges : q[1] # p[2]
            <3> SUFFICES ASSUME NEW q \in g.edges, q[1] = p[2] PROVE FALSE
                OBVIOUS
            <3>1. depth[p[2]] < depth[s] /\ depth[p[2]] \in Nat /\ depth[s] \in Nat
                BY <1>4, Higher
            <3>2. q = <<p[2], s>>
                BY <1>2, <3>1
            <3>3. CASE q \in Sections
                BY <3>1, <3>2, <3>3, Higher
            <3>4. CASE q \in Links
                BY <1>4, <3>2, <3>4 DEF LinksNoParent
            <3> QED BY <1>1, <3>3, <3>4 DEF Relations
        <2> QED BY <2>1 DEF ExternalSinks
    <1>5. \A p \in g.edges \intersect Sections : p[2] = s \/ Done(p[1], g, E)
        BY <1>2, <1>3
    <1>6. \A x \in ExternalSinks(g.edges \intersect Sections) : x \in expr \/ Done(x, g, E)
        <2> SUFFICES ASSUME NEW p \in g.edges \intersect Sections
                     PROVE  p[2] \in expr \/ Done(p[2], g, E)
            BY DEF ExternalSinks
        <2> HIDE DEF expr
        <2> QED BY <1>2, <1>3, <1>4
    <1>7. Balance(k, g) = IF expr = {} THEN done ELSE on
        BY DEF Balance
    <1>8. CASE expr = {}
        <2>1. Climbed(g, s, E)
            <3>1. \A x \in ExternalSinks(g.edges \intersect Sections) : Done(x, g, E)
                BY <1>6, <1>8
            <3> QED BY <1>3, <1>5, <3>1, NothingLeft
        <2>2. done.at = "insert" /\ done.result = g
            BY DEF Call
        <2>3. Balance(k, g) = done
            BY <1>7, <1>8
        <2> HIDE DEF done
        <2> QED BY <2>1, <2>2, <2>3 DEF ChainOK
    <1>9. CASE expr # {}
        <2>1. /\ on.at = "evaluating" /\ on.for = "balance" /\ on.read = "states" /\ on.ask = expr
              /\ on.result = g /\ on.loops = 0
            BY DEF Evaluate, Call
        <2>2. Balance(k, g) = on
            BY <1>7, <1>9
        <2>3. s \in g.whole
            <3>1. \E p \in g.edges : TRUE
                BY <1>9 DEF ExternalSinks
            <3> QED BY <1>2, <3>1
        <2>4. ASSUME NEW x \in Above(s, E)
              PROVE  depth[x] + 0 <= BALANCE_CUTOFF
            <3>1. x \in Nodes
                BY AboveIsHigher
            <3> QED BY <3>1, QueriesAssumption DEF Shallow
        <2> HIDE DEF on, expr
        <2>5. Climbing(on, s, E, depth)
            BY <1>1, <1>5, <1>6, <2>1, <2>3, <2>4 DEF Climbing
        <2>6. AboveRead(on, E)
            BY <2>1 DEF AboveRead
        <2> QED BY <2>1, <2>2, <2>5, <2>6 DEF ChainOK
    <1> QED BY <1>8, <1>9

\* A call with nothing evaluated is where it is put.
LEMMA ReadyIsAt ==
    ASSUME NEW q, NEW offset, NEW place, NEW result
    PROVE  Ready(q, offset, place, result).at = place
    BY DEF Ready

\* What is known of the chain stays true when relations go.
LEMMA ChainStays ==
    ASSUME NEW depth, NEW s, NEW E, NEW F \in SUBSET E, NEW k, ChainOK(k, s, E, depth)
    PROVE  ChainOK(k, s, F, depth)
    <1>1. \A x, g : Done(x, g, E) => Done(x, g, F)
        BY DEF Done
    <1>2. Above(s, F) \subseteq Above(s, E)
        <2>1. F \intersect Sections \in SUBSET (E \intersect Sections)
            OBVIOUS
        <2> QED BY <2>1, ReachShrinks DEF Above
    <1>3. SeedRead(k, s, E) => SeedRead(k, s, F)
        BY DEF SeedRead
    <1>4. AboveRead(k, E) => AboveRead(k, F)
        BY DEF AboveRead
    <1>5. Climbing(k, s, E, depth) => Climbing(k, s, F, depth)
        BY <1>1, <1>2 DEF Climbing
    <1>6. Climbed(k.result, s, E) => Climbed(k.result, s, F)
        BY <1>1, <1>2 DEF Climbed
    <1> QED BY <1>3, <1>4, <1>5, <1>6 DEF ChainOK

\* So of all calls.
LEMMA ChainsStay ==
    ASSUME NEW depth, NEW f, NEW K, ChainsOK(f, K, depth),
           NEW K2, \A c \in Clients : K2[c] \subseteq K[c]
    PROVE  ChainsOK(f, K2, depth)
    <1> SUFFICES ASSUME NEW c \in Clients, NEW s \in Nodes, AsksFor(f[c], s)
                 PROVE  ChainOK(f[c], s, K2[c], depth)
        BY DEF ChainsOK
    <1>1. ChainOK(f[c], s, K[c], depth) /\ K2[c] \in SUBSET K[c]
        BY DEF ChainsOK
    <1> QED BY <1>1, ChainStays

\* What a step of one call has to show.
LEMMA OneChainGoesOn ==
    ASSUME NEW depth, NEW f \in [Clients -> Call], NEW K, ChainsOK(f, K, depth),
           NEW c \in Clients, NEW k, NEW K2, \A d \in Clients : d # c => K2[d] = K[d],
           \A s \in Nodes : AsksFor(k, s) => ChainOK(k, s, K2[c], depth)
    PROVE  ChainsOK([f EXCEPT ![c] = k], K2, depth)
    <1> DEFINE g == [f EXCEPT ![c] = k]
    <1>1. g[c] = k /\ \A d \in Clients : d # c => g[d] = f[d]
        OBVIOUS
    <1> HIDE DEF g
    <1>2. ChainsOK(g, K2, depth)
        BY <1>1 DEF ChainsOK
    <1> QED BY <1>2 DEF g

\* Nothing is to be known of a call that evaluates nothing.
LEMMA ElsewhereOK ==
    ASSUME NEW k, k.at \notin {"evaluating", "insert", "inserting"}, NEW depth, NEW s, NEW E
    PROVE  ChainOK(k, s, E, depth)
    BY DEF ChainOK

\* The nodes of an expression are read.
LEMMA ChainStatesRead ==
    ASSUME NEW k, NEW s \in Nodes, k.query = Single(s), NEW E, NEW E2, NEW B, NEW R, NEW depth,
           CallOK(k, E, B), ChainOK(k, s, E, depth), k.at = "evaluating", k.read = "states",
           E2 \in SUBSET R, Tables(B, R), IF k.for = "seed" THEN TRUE ELSE E2 = E,
           NEW e, e = [k EXCEPT !.read = "relations",
                        !.got = IF k.for = "balance" THEN [Empty EXCEPT !.trace = k.ask \intersect B]
                                ELSE [Empty EXCEPT !.whole = k.ask \intersect B]]
    PROVE  ChainOK(e, s, E2, depth)
    <1>1. k \in Call /\ ReadOK(k, E, B) /\ k.for \in {"seed", "balance"}
        BY DEF CallOK, ChainOK
    <1>2. /\ e.at = "evaluating" /\ e.for = k.for /\ e.read = "relations" /\ e.ask = k.ask
          /\ e.result = k.result /\ e.loops = k.loops
          /\ e.got = IF k.for = "balance" THEN [Empty EXCEPT !.trace = k.ask \intersect B]
                     ELSE [Empty EXCEPT !.whole = k.ask \intersect B]
        BY <1>1 DEF Call
    <1>3. \A p \in E2 : p[1] \in B /\ p[2] \in B
        BY DEF Tables, Ends
    <1>4. CASE k.for = "seed"
        <2>1. k.ask = {s}
            BY <1>1, <1>4 DEF ReadOK, Single
        <2>2. e.got.whole = {s} \intersect B /\ e.got.trace = {}
            BY <1>2, <1>4, <2>1 DEF Empty
        <2>3. SeedRead(e, s, E2)
            BY <1>2, <1>3, <2>2 DEF SeedRead
        <2> QED BY <1>2, <1>4, <2>3 DEF ChainOK
    <1>5. CASE k.for = "balance"
        <2>1. e.got.trace = k.ask \intersect B
            BY <1>2, <1>5 DEF Empty
        <2>2. AboveRead(e, E2)
            BY <1>2, <1>3, <2>1 DEF AboveRead
        <2>3. Climbing(k, s, E2, depth)
            BY <1>5 DEF ChainOK
        <2>4. Climbing(e, s, E2, depth)
            BY <1>2, <2>3 DEF Climbing
        <2> QED BY <1>2, <1>5, <2>2, <2>4 DEF ChainOK
    <1> QED BY <1>1, <1>4, <1>5

\* Their relations are read.
LEMMA ChainRelationsRead ==
    ASSUME NEW k, NEW s \in Nodes, NEW R, NEW E \in SUBSET R, NEW B, NEW depth,
           CallOK(k, E, B), ChainOK(k, s, E, depth), k.at = "evaluating", k.read = "relations",
           NEW rows, rows = IF k.for = "balance" THEN {p \in R \intersect Sections : p[1] \in States(k.got)}
                            ELSE {p \in R : {p[1], p[2]} \intersect States(k.got) # {}}
    PROVE  ChainOK([k EXCEPT !.read = "missing", !.got.edges = rows], s, E, depth)
    <1> DEFINE e == [k EXCEPT !.read = "missing", !.got.edges = rows]
    <1>1. k \in Call /\ k.got \in Graph /\ ReadOK(k, E, B) /\ k.for \in {"seed", "balance"}
        BY DEF CallOK, ChainOK, Call
    <1>2. /\ e.at = "evaluating" /\ e.for = k.for /\ e.read = "missing" /\ e.ask = k.ask
          /\ e.result = k.result /\ e.loops = k.loops
          /\ e.got.whole = k.got.whole /\ e.got.trace = k.got.trace /\ e.got.edges = rows
        BY <1>1 DEF Call, Graph
    <1> HIDE DEF e
    <1>3. CASE k.for = "seed"
        <2>1. SeedRead(k, s, E)
            BY <1>3 DEF ChainOK
        <2>2. States(k.got) = k.got.whole
            BY <2>1 DEF SeedRead, States
        <2>3. SeedRead(e, s, E)
            BY <1>2, <1>3, <2>1, <2>2 DEF SeedRead
        <2>4. ChainOK(e, s, E, depth)
            BY <1>2, <1>3, <2>3 DEF ChainOK
        <2> QED BY <2>4 DEF e
    <1>4. CASE k.for = "balance"
        <2>1. AboveRead(k, E) /\ Climbing(k, s, E, depth)
            BY <1>4 DEF ChainOK
        <2>2. States(k.got) = k.got.trace
            BY <1>1, <1>4 DEF ReadOK, States
        <2>3. AboveRead(e, E)
            BY <1>2, <1>4, <2>1, <2>2 DEF AboveRead
        <2>4. Climbing(e, s, E, depth)
            BY <1>2, <2>1 DEF Climbing
        <2>5. ChainOK(e, s, E, depth)
            BY <1>2, <1>4, <2>3, <2>4 DEF ChainOK
        <2> QED BY <2>5 DEF e
    <1> QED BY <1>1, <1>3, <1>4

\* The other ends are read, and the query goes on.
LEMMA ChainMissingRead ==
    ASSUME NEW k, NEW B, B \subseteq Nodes, NEW E, NEW depth, Shallow(depth),
           NEW s \in Nodes, AsksFor(k, s), CallOK(k, E, B), ChainOK(k, s, E, depth),
           k.at = "evaluating", k.read = "missing",
           NEW e, e = [k EXCEPT !.got.trace =
                          @ \union ((Ends(k.got.edges) \ States(k.got)) \intersect B)]
    PROVE  ChainOK(Answered(e), s, E, depth)
    <1> DEFINE trace == k.got.trace \union ((Ends(k.got.edges) \ States(k.got)) \intersect B)
               got == [whole |-> k.got.whole, trace |-> trace, edges |-> k.got.edges]
    <1>1. /\ k \in Call /\ ReadOK(k, E, B) /\ EvaluationOK(k, E) /\ k.for \in {"seed", "balance"}
          /\ k.got \in Graph /\ k.query = Single(s) /\ LinksNoParent(s)
        BY DEF CallOK, ChainOK, Call, AsksFor
    <1>2. [k.got EXCEPT !.trace = trace] = got /\ got \in Graph
        <2>1. trace \in SUBSET Nodes
            BY <1>1 DEF Graph
        <2> HIDE DEF trace
        <2> QED BY <1>1, <2>1 DEF Graph
    <1>3. e = [k EXCEPT !.got = got]
        BY <1>1, <1>2 DEF Call
    <1>4. got.whole = k.got.whole /\ got.trace = trace /\ got.edges = k.got.edges
        OBVIOUS
    <1> HIDE DEF got
    <1>5. /\ e \in Call /\ e.at = "evaluating" /\ e.for = k.for /\ e.read = "missing" /\ e.ask = k.ask
          /\ e.got = got /\ e.result = k.result /\ e.loops = k.loops /\ e.query = k.query
        BY <1>1, <1>2, <1>3 DEF Call
    <1>6. GraphOK(got) /\ Complete(got, E)
        BY <1>1, <1>2, <1>4 DEF GraphOK, ReadOK, Apart, States, Complete
    <1>7. CASE k.for = "seed"
        <2> DEFINE first == [e EXCEPT !.result = e.got]
        <2>1. first \in Call /\ first.at = "evaluating" /\ first.result = got /\ first.query = Single(s)
            BY <1>1, <1>2, <1>5 DEF Call
        <2>2. Answered(e) = WalkUp(first)
            BY <1>5, <1>7 DEF Answered
        <2> HIDE DEF first
        <2>3. first.query.radius = 0
            BY <2>1 DEF Single
        <2>4. WalkUp(first) = Balance(first, got)
            BY <2>1, <2>3 DEF WalkUp, WalkDown
        <2>5. SeedRead(k, s, E)
            BY <1>7 DEF ChainOK
        <2>6. /\ got.whole \subseteq {s} /\ \A p \in E : s \in {p[1], p[2]} => s \in got.whole
              /\ \A p \in got.edges : {p[1], p[2]} \intersect got.whole # {}
            BY <1>4, <2>5 DEF SeedRead
        <2>7. ChainOK(Balance(first, got), s, E, depth)
            BY <1>1, <1>6, <2>1, <2>6, ClimbBegins
        <2> QED BY <2>2, <2>4, <2>7
    <1>8. CASE k.for = "balance"
        <2>1. Answered(e) = Balanced(e)
            BY <1>5, <1>8 DEF Answered
        <2>2. AboveRead(k, E) /\ Climbing(k, s, E, depth) /\ Sound(k.result, k, E) /\ got.whole = {}
            BY <1>1, <1>4, <1>8 DEF ChainOK, EvaluationOK, ReadOK
        <2>3. AboveRead(e, E)
            BY <1>4, <1>5, <2>2 DEF AboveRead
        <2>4. Climbing(e, s, E, depth) /\ Sound(e.result, e, E)
            BY <1>5, <2>2 DEF Climbing, Sound
        <2>5. ChainOK(Balanced(e), s, E, depth)
            BY <1>5, <1>6, <2>2, <2>3, <2>4, ClimbOn
        <2> QED BY <2>1, <2>5
    <1> QED BY <1>1, <1>7, <1>8

\* Every step keeps what is known of the chains: first those of commits.
LEMMA CommitChains ==
    ASSUME NEW depth, QueriesInv, ChainsOK(call, kept, depth), Commit
    PROVE  ChainsOK(call', kept', depth)
    <1>1. call' = call
        BY DEF Commit, UpdateNode, UpdateRelation, RemoveRelation, Statement
    <1>2. \A c \in Clients : kept'[c] \subseteq kept[c]
        BY DEF Commit, UpdateNode, UpdateRelation, RemoveRelation, QueriesInv
    <1>3. ChainsOK(call, kept', depth)
        BY <1>2, ChainsStay
    <1> QED BY <1>1, <1>3

\* What a step of one call has to show.
LEMMA CallStepChains ==
    ASSUME NEW depth, QueriesInv, ChainsOK(call, kept, depth), NEW c \in Clients, NEW k,
           call' = [call EXCEPT ![c] = k], \A d \in Clients : d # c => kept'[d] = kept[d],
           \A s \in Nodes : AsksFor(k, s) => ChainOK(k, s, kept'[c], depth)
    PROVE  ChainsOK(call', kept', depth)
    <1>1. call \in [Clients -> Call]
        BY DEF QueriesInv, CallsOK
    <1> QED BY <1>1, OneChainGoesOn

\* The steps that evaluate nothing.
LEMMA OtherChains ==
    ASSUME NEW depth, QueriesInv, ChainsOK(call, kept, depth), NEW c \in Clients,
           \/ LockToRead(c) \/ LockToWrite(c) \/ Check(c) \/ Remove(c)
           \/ Lookup(c) \/ Insert(c) \/ CutPage(c)
           \/ \E q \in Questions, offset \in Offsets : Ask(c, q, offset)
    PROVE  ChainsOK(call', kept', depth)
    <1> DEFINE k == call[c]
    <1>1. k \in Call /\ kept \in [Clients -> SUBSET relations]
        BY DEF QueriesInv, CallsOK
    <1>2. \A d \in Clients : d # c => kept'[d] = kept[d]
        BY <1>1 DEF LockToRead, LockToWrite, Check, Remove, Lookup, Insert, CutPage, Ask, CallUnchanged
    <1>3. CASE LockToWrite(c) /\ At(c, "insert")
        <2> DEFINE m == [k EXCEPT !.at = "inserting"]
        <2>1. call' = [call EXCEPT ![c] = m] /\ UNCHANGED kept /\ k.at = "insert"
            BY <1>3 DEF LockToWrite, Go, Step, At, CallUnchanged
        <2>2. m.at = "inserting" /\ m.query = k.query /\ m.result = k.result
            BY <1>1 DEF Call
        <2> HIDE DEF m, k
        <2>3. ASSUME NEW s \in Nodes, AsksFor(m, s)
              PROVE  ChainOK(m, s, kept'[c], depth)
            <3>1. ChainOK(k, s, kept[c], depth)
                BY <2>2, <2>3 DEF ChainsOK, AsksFor, k
            <3>2. Climbed(m.result, s, kept[c])
                BY <2>1, <2>2, <3>1 DEF ChainOK
            <3> QED BY <2>1, <2>2, <3>2 DEF ChainOK
        <2> QED BY <1>2, <2>1, <2>3, CallStepChains
    <1>4. CASE ~ (LockToWrite(c) /\ At(c, "insert")) /\ ~ Lookup(c)
        <2>1. PICK m : call' = [call EXCEPT ![c] = m] /\ m.at \notin {"evaluating", "insert", "inserting"}
            <3>1. CASE LockToRead(c) \/ LockToWrite(c) \/ Check(c) \/ Remove(c)
                <4>1. PICK place \in {"reading", "removing", "answered", "panicked", "check"} : Go(c, place)
                    BY <1>4, <3>1 DEF LockToRead, LockToWrite, Check, Remove, At
                <4>2. [k EXCEPT !.at = place].at = place
                    BY <1>1 DEF Call
                <4> QED BY <4>1, <4>2 DEF Go, Step
            <3>2. CASE Insert(c) \/ CutPage(c) \/ \E q \in Questions, offset \in Offsets : Ask(c, q, offset)
                <4>1. CASE Insert(c)
                    <5>1. Step(c, Ready(k.query, k.offset, "check", Page(k.result, k.offset)))
                        BY <4>1 DEF Insert
                    <5>2. Ready(k.query, k.offset, "check", Page(k.result, k.offset)).at = "check"
                        BY ReadyIsAt
                    <5> QED BY <5>1, <5>2 DEF Step
                <4>2. CASE CutPage(c)
                    <5>1. Step(c, Ready(k.query, k.offset, "panicked", Empty))
                        BY <4>2 DEF CutPage
                    <5>2. Ready(k.query, k.offset, "panicked", Empty).at = "panicked"
                        BY ReadyIsAt
                    <5> QED BY <5>1, <5>2 DEF Step
                <4>3. CASE \E q \in Questions, offset \in Offsets : Ask(c, q, offset)
                    <5>1. PICK q \in Questions, offset \in Offsets : Ask(c, q, offset)
                        BY <4>3
                    <5>2. Step(c, Ready(q, offset, "lookup", Empty))
                        BY <5>1 DEF Ask
                    <5>3. Ready(q, offset, "lookup", Empty).at = "lookup"
                        BY ReadyIsAt
                    <5> QED BY <5>2, <5>3 DEF Step
                <4> QED BY <3>2, <4>1, <4>2, <4>3
            <3> QED BY <1>4, <3>1, <3>2
        <2>2. \A s \in Nodes : ChainOK(m, s, kept'[c], depth)
            BY <2>1, ElsewhereOK
        <2> QED BY <1>2, <2>1, <2>2, CallStepChains
    <1>5. CASE Lookup(c)
        <2> DEFINE begun == [Evaluate(k, "seed", k.query.seed) EXCEPT !.at = "evaluating"]
        <2>1. PICK m : /\ call' = [call EXCEPT ![c] = m]
                       /\ m = begun \/ m.at \notin {"evaluating", "insert", "inserting"}
            <3> DEFINE g == cache[k.query]
                       page(place) == Ready(k.query, k.offset, place, Page(g, k.offset))
                       panic == Ready(k.query, k.offset, "panicked", Empty)
            <3>1. Step(c, begun) \/ Step(c, page("remove")) \/ Step(c, page("check")) \/ Step(c, panic)
                BY <1>5 DEF Lookup, Paged
            <3>2. page("remove").at = "remove" /\ page("check").at = "check" /\ panic.at = "panicked"
                BY ReadyIsAt
            <3> HIDE DEF page, panic, begun
            <3> QED BY <3>1, <3>2 DEF Step
        <2>2. begun.at = "evaluating" /\ begun.for = "seed" /\ begun.read = "states"
            BY <1>1 DEF Evaluate, Call
        <2> HIDE DEF begun
        <2>3. \A s \in Nodes : ChainOK(begun, s, kept'[c], depth)
            BY <2>2 DEF ChainOK, SeedRead
        <2>4. \A s \in Nodes : ChainOK(m, s, kept'[c], depth)
            BY <2>1, <2>3, ElsewhereOK
        <2> QED BY <1>2, <2>1, <2>4, CallStepChains
    <1> QED BY <1>3, <1>4, <1>5

\* The three statements of an expression.
LEMMA ReadChains ==
    ASSUME NEW depth, Shallow(depth), QueriesInv, ChainsOK(call, kept, depth), NEW c \in Clients,
           ReadStates(c) \/ ReadRelations(c) \/ ReadMissing(c)
    PROVE  ChainsOK(call', kept', depth)
    <1> DEFINE k == call[c]
    <1>1. /\ k \in Call /\ CallOK(k, kept[c], beliefs) /\ k.at = "evaluating"
          /\ kept \in [Clients -> SUBSET relations] /\ kept[c] \in SUBSET relations
          /\ Tables(beliefs, relations) /\ beliefs \subseteq Nodes
        BY DEF QueriesInv, CallsOK, Tables, ReadStates, ReadRelations, ReadMissing, At
    <1>2. \A s \in Nodes : AsksFor(k, s) => ChainOK(k, s, kept[c], depth)
        BY DEF ChainsOK
    <1>3. CASE ReadStates(c)
        <2> DEFINE e == [k EXCEPT !.read = "relations",
                           !.got = IF k.for = "balance" THEN [Empty EXCEPT !.trace = k.ask \intersect beliefs]
                                   ELSE [Empty EXCEPT !.whole = k.ask \intersect beliefs]]
        <2>1. /\ k.read = "states" /\ call' = [call EXCEPT ![c] = e]
              /\ kept' = IF k.for = "seed" THEN [kept EXCEPT ![c] = relations] ELSE kept
            BY <1>3 DEF ReadStates, Step
        <2>2. /\ kept'[c] \in SUBSET relations /\ \A d \in Clients : d # c => kept'[d] = kept[d]
              /\ IF k.for = "seed" THEN TRUE ELSE kept'[c] = kept[c]
            BY <1>1, <2>1
        <2>3. e.query = k.query
            BY <1>1 DEF Call
        <2> HIDE DEF k
        <2>4. ASSUME NEW s \in Nodes, AsksFor(e, s)
              PROVE  ChainOK(e, s, kept'[c], depth)
            <3>1. AsksFor(k, s) /\ k.query = Single(s)
                BY <2>3, <2>4 DEF AsksFor
            <3> QED BY <1>1, <1>2, <2>1, <2>2, <3>1, ChainStatesRead
        <2> HIDE DEF e
        <2> QED BY <2>1, <2>2, <2>4, CallStepChains
    <1>4. CASE ReadRelations(c)
        <2> DEFINE rows == IF k.for = "balance"
                           THEN {p \in relations \intersect Sections : p[1] \in States(k.got)}
                           ELSE {p \in relations : {p[1], p[2]} \intersect States(k.got) # {}}
                   e == [k EXCEPT !.read = "missing", !.got.edges = rows]
        <2>1. k.read = "relations" /\ call' = [call EXCEPT ![c] = e] /\ UNCHANGED kept
            BY <1>4 DEF ReadRelations, Step
        <2>2. e.query = k.query
            BY <1>1 DEF Call
        <2> HIDE DEF k
        <2>3. ASSUME NEW s \in Nodes, AsksFor(e, s)
              PROVE  ChainOK(e, s, kept'[c], depth)
            <3>1. ChainOK(k, s, kept[c], depth)
                BY <1>2, <2>2, <2>3 DEF AsksFor
            <3> QED BY <1>1, <2>1, <3>1, ChainRelationsRead
        <2> HIDE DEF e
        <2> QED BY <2>1, <2>3, CallStepChains
    <1>5. CASE ReadMissing(c)
        <2> DEFINE e == [k EXCEPT !.got.trace =
                           @ \union ((Ends(k.got.edges) \ States(k.got)) \intersect beliefs)]
        <2>1. k.read = "missing" /\ call' = [call EXCEPT ![c] = Answered(e)] /\ UNCHANGED kept
            BY <1>5 DEF ReadMissing, Step
        <2> HIDE DEF k
        <2>2. ASSUME NEW s \in Nodes, AsksFor(Answered(e), s)
              PROVE  ChainOK(Answered(e), s, kept'[c], depth)
            <3>1. Answered(e).query = k.query
                BY <1>1, <2>1, MissingRead DEF GoesOn
            <3>2. AsksFor(k, s) /\ ChainOK(k, s, kept[c], depth)
                BY <1>2, <2>2, <3>1 DEF AsksFor
            <3> QED BY <1>1, <2>1, <3>2, ChainMissingRead
        <2> HIDE DEF e
        <2> QED BY <2>1, <2>2, CallStepChains
    <1> QED BY <1>3, <1>4, <1>5
\* Nothing is evaluated at the start.
LEMMA InitChains ==
    ASSUME NEW depth, Init
    PROVE  ChainsOK(call, kept, depth)
    <1>1. \A c \in Clients : call[c].at = "idle"
        BY ReadyIsAt DEF Init
    <1>2. \A c \in Clients : call[c].at \notin {"evaluating", "insert", "inserting"}
        BY <1>1
    <1>3. \A c \in Clients, s \in Nodes : ChainOK(call[c], s, kept[c], depth)
        BY <1>2, ElsewhereOK
    <1> QED BY <1>3 DEF ChainsOK

\* Every step keeps what is known of the chains.
LEMMA NextChains ==
    ASSUME NEW depth, Shallow(depth), QueriesInv, ChainsOK(call, kept, depth), [Next]_vars
    PROVE  ChainsOK(call', kept', depth)
    <1>1. CASE Commit
        BY <1>1, CommitChains
    <1>2. ASSUME NEW c \in Clients, Serve(c)
          PROVE  ChainsOK(call', kept', depth)
        <2>1. CASE ReadStates(c) \/ ReadRelations(c) \/ ReadMissing(c)
            BY <2>1, ReadChains
        <2>2. CASE \/ LockToRead(c) \/ LockToWrite(c) \/ Check(c) \/ Remove(c)
                   \/ Lookup(c) \/ Insert(c) \/ CutPage(c)
            BY <2>2, OtherChains
        <2> QED BY <1>2, <2>1, <2>2 DEF Serve
    <1>3. ASSUME NEW c \in Clients, NEW q \in Questions, NEW offset \in Offsets, Ask(c, q, offset)
          PROVE  ChainsOK(call', kept', depth)
        BY <1>3, OtherChains
    <1>4. CASE UNCHANGED vars
        <2>1. call' = call /\ kept' = kept
            BY <1>4 DEF vars
        <2> QED BY <2>1
    <1> QED BY <1>1, <1>2, <1>3, <1>4 DEF Next

\* What is climbed is the chain, and a parse finds its way along it.
LEMMA ClimbedIsFound ==
    ASSUME NEW c \in Clients, NEW s \in Nodes, call[c].query = Single(s),
           kept[c] \in SUBSET Relations, call[c].result \in Graph,
           Sound(call[c].result, call[c], kept[c]), Climbed(call[c].result, s, kept[c])
    PROVE  ChainFound(c)
    <1> DEFINE g     == call[c].result
               above == kept[c] \intersect Sections
               found == {s} \intersect States(g)
    <1>1. call[c].query.seed = {s}
        BY DEF Single
    <1>2. Reach(found, above) \subseteq Above(s, kept[c])
        <2>1. \A p \in above : p[1] \in found \union Reach({s}, above) => p[2] \in found \union Reach({s}, above)
            BY ReachGoesOn
        <2>2. Reach(found, above) \subseteq found \union Reach({s}, above)
            BY <2>1, ReachWithin
        <2> QED BY <2>2, ReachGoesOn DEF Above
    <1>3. {p \in above : p[1] \in Reach(found, above)} \subseteq g.edges
        BY <1>2 DEF Climbed, Done
    <1>4. ASSUME NEW n \in Networks \ {Repo}, {s} = {n}, <<n, Repo>> \in above
          PROVE  Stack(g, n) = <<Repo, n>>
        <2> DEFINE p == <<n, Repo>>
        <2>1. n = s /\ p \in above /\ p[1] = n /\ p[2] = Repo
            BY <1>4
        <2>2. n \in Above(s, kept[c])
            BY <2>1, ReachGoesOn DEF Above
        <2>3. p \in g.edges
            BY <2>1, <2>2 DEF Climbed, Done
        <2>4. n \in States(g) /\ Repo \in States(g)
            BY <2>1, <2>3 DEF Sound, GraphOK, Ends
        <2>5. n \in Networks /\ Repo \in Networks
            BY <1>4, QueriesAssumption
        <2>6. Repo \in States(Ancestors(g)) /\ n \in Mounted(Ancestors(g))
            BY <2>1, <2>3, <2>4, <2>5 DEF Ancestors, Mounted, States
        <2> QED BY <2>6 DEF Stack
    <1> QED BY <1>1, <1>3, <1>4 DEF ChainFound

\* A query for one node, with no walk, brings the whole chain above it, whatever
\* is committed between its statements, where no chain is longer than
\* BALANCE_CUTOFF and the node does not link to its parent.
THEOREM ChainsAreComplete ==
    ASSUME NEW CONSTANT depth, Shallow(depth)
    PROVE  Spec => [](\A c \in Clients, s \in Nodes : Evaluated(c) /\ AsksFor(call[c], s) => ChainFound(c))
    <1> DEFINE Chains == ChainsOK(call, kept, depth)
               Found  == \A c \in Clients, s \in Nodes : Evaluated(c) /\ AsksFor(call[c], s) => ChainFound(c)
    <1>1. Init => Chains
        BY InitChains
    <1>2. QueriesInv /\ Chains /\ [Next]_vars => Chains'
        BY NextChains
    <1>3. QueriesInv /\ Chains => Found
        <2> SUFFICES ASSUME QueriesInv, Chains, NEW c \in Clients, NEW s \in Nodes,
                            Evaluated(c), AsksFor(call[c], s)
                     PROVE  ChainFound(c)
            OBVIOUS
        <2>1. ChainOK(call[c], s, kept[c], depth) /\ call[c].at \in {"insert", "inserting"}
            BY DEF ChainsOK, Evaluated
        <2>2. call[c] \in Call /\ CallOK(call[c], kept[c], beliefs)
            BY DEF QueriesInv, CallsOK
        <2>3. Sound(call[c].result, call[c], kept[c]) /\ Climbed(call[c].result, s, kept[c])
            BY <2>1, <2>2 DEF CallOK, ChainOK
        <2>4. kept[c] \in SUBSET Relations /\ call[c].result \in Graph
            BY <2>2 DEF QueriesInv, Tables, Call
        <2> QED BY <2>3, <2>4, ClimbedIsFound DEF AsksFor
    <1> HIDE DEF Chains, Found
    <1>4. Spec => []Chains
        BY <1>1, <1>2, QueriesAreSound, PTL DEF Spec
    <1>5. Spec => []Found
        BY <1>3, <1>4, QueriesAreSound, PTL
    <1> QED BY <1>5 DEF Found

\* So where every query is of this kind, as those of a parse are, a parse finds
\* its way from the repository, whatever is committed meanwhile.
THEOREM AncestorsAreFound ==
    ASSUME NEW CONSTANT depth, Shallow(depth),
           \A q \in Questions : \E s \in Nodes : q = Single(s) /\ LinksNoParent(s)
    PROVE  Spec => []AncestorsFound
    <1> DEFINE Found == \A c \in Clients, s \in Nodes : Evaluated(c) /\ AsksFor(call[c], s) => ChainFound(c)
    <1>1. QueriesInv /\ Found => AncestorsFound
        <2> SUFFICES ASSUME QueriesInv, Found, NEW c \in Clients, Evaluated(c)
                     PROVE  ChainFound(c)
            BY DEF AncestorsFound
        <2>1. call[c].query \in Questions
            BY DEF QueriesInv, CallsOK, Call
        <2>2. PICK s \in Nodes : AsksFor(call[c], s)
            BY <2>1 DEF AsksFor
        <2> QED BY <2>2
    <1>2. Spec => []Found
        BY ChainsAreComplete
    <1> HIDE DEF Found
    <1> QED BY <1>1, <1>2, QueriesAreSound, PTL

=============================================================================
