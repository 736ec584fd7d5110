---------------------------- MODULE Expressions ----------------------------
(***************************************************************************)
(* The query language (query.rs) and its two evaluations: by a BeliefBase  *)
(* (base.rs, in memory) and by a DbConnection (db.rs, as SQL).  The code    *)
(* takes either for a BeliefSource.  B and R are the beliefs and relations  *)
(* both hold.                                                              *)
(***************************************************************************)
EXTENDS GraphAlgebra

CONSTANTS
    Kinds,          \* the kinds of each node
    Predicates,     \* StatePreds: records of a form and what it lists
    RelationSets    \* the lists of nodes of RelationPreds

ASSUME ExpressionsAssumption ==
    /\ DOMAIN Kinds = Nodes
    /\ \A pred \in Predicates : pred.form \in {"Bid", "Bref", "Kind"}
    /\ RelationSets \subseteq SUBSET Nodes

----------------------------------------------------------------------------
(* In memory.                                                               *)

\* match_state.  Bref stands for every predicate a node is tested for alone
\* (Any, InNamespace, Bref, Schema).
Matches(pred, n) == CASE pred.form = "Bref" -> n \in pred.of
                      [] pred.form = "Kind" -> Kinds[n] \subseteq pred.of

\* filter_states: a list of Bids is looked up, also when it is to be inverted.
FilterStates(pred, invert, B) ==
    IF pred.form = "Bid" THEN pred.of \intersect B
    ELSE {n \in B : Matches(pred, n) # invert}

Touching(S, R) == {p \in R : {p[1], p[2]} \intersect S # {}}

\* match_ref.
RelationMatches(pred, p) ==
    CASE pred.form = "SinkIn"   -> p[2] \in pred.of
      [] pred.form = "SourceIn" -> p[1] \in pred.of
      [] pred.form = "NodeIn"   -> {p[1], p[2]} \intersect pred.of # {}
      [] pred.form = "Kind"     -> p \in Sections

\* The ends of relations that are not among the nodes come as Trace nodes.
WithEnds(whole, E, B) ==
    [whole |-> whole, trace |-> (Ends(E) \intersect B) \ whole, edges |-> E]

\* Mutant: relations are followed from their sources only.
EvaluateLeaving(pred, invert, B, R) ==
    LET found == FilterStates(pred, invert, B)
    IN  WithEnds(found, {p \in R : p[1] \in found}, B)

EvaluateStates(pred, invert, B, R) ==
    LET found == FilterStates(pred, invert, B)
    IN  WithEnds(found, Touching(found, R), B)

EvaluateRelations(pred, invert, B, R) ==
    WithEnds({}, {p \in R : RelationMatches(pred, p) # invert}, B)

\* evaluate_expression_as_trace: the Section relations that lead from the
\* nodes, and every node a Trace.
EvaluateAsTrace(pred, invert, B, R) ==
    LET found == FilterStates(pred, invert, B)
        edges == {p \in R \intersect Sections : p[1] \in found}
    IN  [whole |-> {}, trace |-> found \union ({p[2] : p \in edges} \intersect B),
         edges |-> edges]

\* intersection, difference: of the whole nodes of the two, with the relations
\* of both and what these lead to.
Combined(nodes, l, r) ==
    AddRelations(AddRelations([whole |-> nodes, trace |-> {}, edges |-> {}], l), r)
Intersection(l, r) == Combined(l.whole \intersect r.whole, l, r)
Difference(l, r)   == Combined(l.whole \ r.whole, l, r)

Evaluate2(op, l, r) == CASE op = "Union"        -> Union(l, r)
                         [] op = "Intersection" -> Intersection(l, r)
                         [] op = "Difference"   -> Difference(l, r)
                         [] op = "SymmetricDifference" ->
                              Union(Difference(l, r), Difference(r, l))

----------------------------------------------------------------------------
(* By the database.                                                         *)

\* build_query of a StatePred.  A mask of kinds is tested for being contained.
SelectStates(pred, negated, B) ==
    {n \in B : CASE pred.form \in {"Bid", "Bref"} -> (n \in pred.of) # negated
                 [] pred.form = "Kind"            -> (pred.of \subseteq Kinds[n]) # negated}

\* SQLite accepts the statements of lists of sinks or of sources.  NodeIn puts
\* whole statements in the WHERE clause of another, Kind a pair of a kind and a
\* weight in the place of a column: evaluating these is an error.
Answerable(pred) == pred.form \in {"SinkIn", "SourceIn"}

\* build_query of a RelationPred: both ends of the relations.
SelectEnds(pred, negated, B, R) ==
    Ends({p \in R : RelationMatches(pred, p) # negated}) \intersect B

\* build_query of a Dyad.
Select2(op, l, r) == CASE op = "Union"        -> l \union r
                       [] op = "Intersection" -> l \intersect r
                       [] op = "Difference"   -> l \ r
                       [] op = "SymmetricDifference" -> (l \ r) \union (r \ l)

\* eval_unbalanced: the relations that touch what was selected.
Fetched(found, B, R) == WithEnds(found, Touching(found, R), B)

\* The answer to RelationIn is made of Trace nodes, that to RelationNotIn is not.
FetchedRelations(pred, negated, B, R) ==
    LET g == Fetched(SelectEnds(pred, negated, B, R), B, R)
    IN  IF negated THEN g ELSE [g EXCEPT !.whole = {}, !.trace = @ \union g.whole]

\* eval_trace.
FetchedTrace(found, B, R) ==
    LET edges == {p \in R \intersect Sections : p[1] \in found}
    IN  [whole |-> {}, trace |-> found \union ({p[2] : p \in edges} \intersect B),
         edges |-> edges]

----------------------------------------------------------------------------
(* What callers that take either rely on.                                   *)

Lists == {pred \in Predicates : pred.form # "Kind"}
RelationPreds == [form : {"SinkIn", "SourceIn", "NodeIn"}, of : RelationSets]
                 \union {[form |-> "Kind", of |-> {}]}

StatesAgree(B, R) ==
    \A pred \in Lists :
        /\ EvaluateStates(pred, FALSE, B, R) = Fetched(SelectStates(pred, FALSE, B), B, R)
        /\ EvaluateAsTrace(pred, FALSE, B, R) = FetchedTrace(SelectStates(pred, FALSE, B), B, R)

RelationsAgree(B, R) ==
    \A pred \in RelationPreds, negated \in BOOLEAN : Answerable(pred) =>
        LET g == EvaluateRelations(pred, negated, B, R)
            h == FetchedRelations(pred, negated, B, R)
        IN  /\ States(g) \subseteq States(h) /\ g.edges \subseteq h.edges
            /\ g.whole = {} /\ (~negated => h.whole = {})

InMemory(op, x, y, B, R) ==
    Evaluate2(op, EvaluateStates(x, FALSE, B, R), EvaluateStates(y, FALSE, B, R))
InDatabase(op, x, y, B, R) ==
    Fetched(Select2(op, SelectStates(x, FALSE, B), SelectStates(y, FALSE, B)), B, R)

UnionsAgree(B, R) ==
    \A x, y \in Lists : InMemory("Union", x, y, B, R) = InDatabase("Union", x, y, B, R)

\* In memory the relations of an intersection or difference bring whole nodes
\* back that it left out; the database's are those that were selected.
DyadsContain(op, B, R) ==
    \A x, y \in Lists :
        /\ InDatabase(op, x, y, B, R).whole \subseteq InMemory(op, x, y, B, R).whole
        /\ InDatabase(op, x, y, B, R).edges \subseteq InMemory(op, x, y, B, R).edges

\* "Query language for interacting with BeliefGraph and their relations"
\* (query.rs): whatever a BeliefBase can be asked, a database can.  Not so for
\* NodeIn and Kind.
EveryPredicateIsAnswered == \A pred \in RelationPreds : Answerable(pred)
=============================================================================
