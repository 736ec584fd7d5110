------------------------------ MODULE Queries ------------------------------
(***************************************************************************)
(* Queries of a WatchService against its database.  get_states (watch.rs)  *)
(* serves pages of a query from the pagination cache, or evaluates it:     *)
(* BeliefSource::eval_query (query.rs) reads what the query asks for,      *)
(* walks up and down the relations from there, and balances the result     *)
(* with the networks above.  Every evaluation of an expression by the      *)
(* database (db.rs) is three SQL statements, between which the statements  *)
(* of other connections run: those of a commit, which no transaction       *)
(* holds together.                                                         *)
(***************************************************************************)
EXTENDS Expressions

CONSTANTS
    Stored,         \* the nodes in the database at the start
    Changing,       \* the relations that the commits are about
    Clients,        \* the callers of get_states
    Questions,      \* the queries they ask: the nodes to start from and a radius
    Offsets,        \* where the pages they ask for begin
    Networks,       \* the nodes that are networks
    Repo,           \* the network of the repository
    BALANCE_CUTOFF,
    MaxStatements,  \* bound: statements of commits
    MaxCalls        \* bound: calls of get_states

ASSUME QueriesAssumption ==
    /\ Stored \subseteq Nodes
    /\ Changing \subseteq Sections \union Links
    /\ Networks \subseteq Nodes /\ Repo \in Networks
    /\ Questions \subseteq [seed : SUBSET Nodes, radius : Nat]
    /\ Offsets \subseteq Nat /\ BALANCE_CUTOFF \in Nat
    /\ Questions # {} /\ Offsets # {}
    /\ {MaxStatements, MaxCalls} \subseteq Nat

VARIABLES
    beliefs,    \* the table of nodes
    relations,  \* the table of relations
    cache,      \* pagination_cache: the result of each query
    call,       \* the call of each client
    kept,       \* the relations that are there since a call began to evaluate
    statements, calls

vars == <<beliefs, relations, cache, call, kept, statements, calls>>

----------------------------------------------------------------------------
(* A call.  It is "evaluating" while it reads for the part of the query     *)
(* that "for" names: the seed, the walks up and down, or the balance.       *)

Places == {"idle", "lookup", "reading", "evaluating", "remove", "removing",
           "insert", "inserting", "check", "answered", "panicked"}
Parts == {"seed", "up", "down", "balance"}
Reads == {"states", "relations", "missing"}

Call == [at : Places, query : Questions, offset : Offsets,
         for : Parts, read : Reads, ask : SUBSET Nodes, got : Graph,
         result : Graph, up : Graph, loops : Nat]

\* A call with nothing evaluated, at some place, with a result.
Ready(q, offset, place, result) ==
    [at |-> place, query |-> q, offset |-> offset, for |-> "seed", read |-> "states",
     ask |-> {}, got |-> Empty, result |-> result, up |-> Empty, loops |-> 0]

Init ==
    /\ beliefs = Stored
    /\ relations = {p \in Sections : {p[1], p[2]} \subseteq Stored}
    /\ cache = [q \in Questions |-> NoResult]
    /\ call = [c \in Clients |->
                 Ready(CHOOSE q \in Questions : TRUE, Min(Offsets), "idle", Empty)]
    /\ kept = [c \in Clients |-> {}]
    /\ statements = 0 /\ calls = 0

Reading == {c \in Clients : call[c].at = "reading"}
Writing == {c \in Clients : call[c].at \in {"removing", "inserting"}}

----------------------------------------------------------------------------
(* The statements of commits.  The accumulator puts the nodes of a batch    *)
(* before its relations.  No statement removes a node: no diff has any to   *)
(* remove (module Reconcile).                                               *)

Statement ==
    /\ statements < MaxStatements
    /\ statements' = statements + 1
    /\ UNCHANGED <<cache, call, calls>>

UpdateNode(n) ==
    /\ n \in Nodes \ beliefs
    /\ Statement
    /\ beliefs' = beliefs \union {n}
    /\ UNCHANGED <<relations, kept>>

UpdateRelation(p) ==
    /\ p \in Changing \ relations
    /\ {p[1], p[2]} \subseteq beliefs
    /\ Statement
    /\ relations' = relations \union {p}
    /\ UNCHANGED <<beliefs, kept>>

RemoveRelation(p) ==
    /\ p \in Changing \intersect relations
    /\ Statement
    /\ relations' = relations \ {p}
    /\ kept' = [c \in Clients |-> kept[c] \ {p}]
    /\ UNCHANGED beliefs

----------------------------------------------------------------------------
(* eval_query.  What follows a read, up to the next, is one step.           *)

Evaluate(k, part, ask) ==
    [k EXCEPT !.for = part, !.read = "states", !.ask = ask, !.got = Empty]

\* balance: the first expression is about relations of every kind.
Balance(k, result) ==
    LET expr == ExternalSinks(result.edges)
        next == [k EXCEPT !.result = result, !.up = Empty, !.loops = 0]
    IN  IF expr = {} THEN [next EXCEPT !.at = "insert"] ELSE Evaluate(next, "balance", expr)

\* Mutant: the balance takes one step.
BalancedOnce(k) == [k EXCEPT !.result = Union(k.result, k.got), !.at = "insert"]

\* The later ones are about Section relations.  It ends when an expression
\* comes back or the loop has run too often.
Balanced(k) ==
    LET more[result \in Graph] ==
            LET expr == ExternalSinks(result.edges \intersect Sections)
                next == [k EXCEPT !.result = result]
            IN  IF expr \in {{}, k.ask} \/ k.loops >= BALANCE_CUTOFF
                THEN [next EXCEPT !.at = "insert"]
                ELSE Evaluate([next EXCEPT !.loops = @ + 1], "balance", expr)
    IN  more[Union(k.result, k.got)]

\* The walk downstream begins at the seed again.  What the walk upstream has
\* found, if there was one, is joined to it.
WalkedDown(k) ==
    LET more[down \in Graph] ==
            LET expr == ExternalSinks(down.edges)
            IN  IF expr \in {{}, k.ask} \/ k.loops >= k.query.radius
                THEN LET all[g \in Graph] == Balance(k, g)
                     IN  all[IF k.up = Empty THEN down ELSE Union(k.up, down)]
                ELSE Evaluate([k EXCEPT !.result = down, !.loops = @ + 1], "down", expr)
    IN  more[UnionWithTrace(k.result, k.got)]

WalkDown(k, up) ==
    LET expr == ExternalSinks(k.result.edges)
    IN  IF k.query.radius = 0 \/ expr = {}
        THEN Balance(k, IF up = Empty THEN k.result ELSE up)
        ELSE Evaluate([k EXCEPT !.loops = 1, !.up = up], "down", expr)

WalkedUp(k) ==
    LET more[up \in Graph] ==
            LET expr == ExternalSources(up.edges)
            IN  IF expr \in {{}, k.ask} \/ k.loops >= k.query.radius THEN WalkDown(k, up)
                ELSE Evaluate([k EXCEPT !.up = up, !.loops = @ + 1], "up", expr)
    IN  more[UnionWithTrace(k.up, k.got)]

WalkUp(k) ==
    LET expr == ExternalSources(k.result.edges)
    IN  IF k.query.radius = 0 \/ expr = {} THEN WalkDown(k, Empty)
        ELSE Evaluate([k EXCEPT !.loops = 1, !.up = k.result], "up", expr)

\* What the query does with the answer to an expression.
Answered(current) ==
    LET next[k \in Call] ==
            CASE k.for = "seed"    -> WalkUp([k EXCEPT !.result = k.got])
              [] k.for = "up"      -> WalkedUp(k)
              [] k.for = "down"    -> WalkedDown(k)
              [] k.for = "balance" -> Balanced(k)
    IN  next[current]

At(c, place) == call[c].at = place
Step(c, k) == call' = [call EXCEPT ![c] = k]
Go(c, place) == Step(c, [call[c] EXCEPT !.at = place])

EvalUnchanged == UNCHANGED <<beliefs, relations, cache, statements, calls>>

\* get_states of the database.  The balance asks eval_trace, which makes every
\* node a Trace; the rest asks eval_unbalanced.
ReadStates(c) ==
    LET k     == call[c]
        found == k.ask \intersect beliefs
    IN  /\ At(c, "evaluating") /\ k.read = "states"
        /\ Step(c, [k EXCEPT !.read = "relations",
                              !.got = IF k.for = "balance" THEN [Empty EXCEPT !.trace = found]
                                      ELSE [Empty EXCEPT !.whole = found]])
        /\ kept' = IF k.for = "seed" THEN [kept EXCEPT ![c] = relations] ELSE kept
        /\ EvalUnchanged

\* eval_unbalanced reads the relations that touch the nodes, eval_trace the
\* Section relations that lead from them.
ReadRelations(c) ==
    LET k     == call[c]
        nodes == States(k.got)
        rows  == IF k.for = "balance" THEN {p \in relations \intersect Sections : p[1] \in nodes}
                 ELSE {p \in relations : {p[1], p[2]} \intersect nodes # {}}
    IN  /\ At(c, "evaluating") /\ k.read = "relations"
        /\ Step(c, [k EXCEPT !.read = "missing", !.got.edges = rows])
        /\ EvalUnchanged /\ UNCHANGED kept

\* find_orphaned_edges: the other ends of the relations come as Trace nodes.
ReadMissing(c) ==
    LET k == call[c]
    IN  /\ At(c, "evaluating") /\ k.read = "missing"
        /\ Step(c, Answered([k EXCEPT !.got.trace =
                @ \union ((Ends(k.got.edges) \ States(k.got)) \intersect beliefs)]))
        /\ EvalUnchanged /\ UNCHANGED kept

----------------------------------------------------------------------------
(* get_states of the service.  Callers wait while the cache is locked, look *)
(* again every 100 ms, and then lock it: for reading together, for writing  *)
(* alone.                                                                   *)

CallUnchanged == UNCHANGED <<beliefs, relations, kept, statements>>

Ask(c, q, offset) ==
    /\ call[c].at \in {"idle", "answered", "panicked"}
    /\ calls < MaxCalls
    /\ calls' = calls + 1
    /\ Step(c, Ready(q, offset, "lookup", Empty))
    /\ CallUnchanged /\ UNCHANGED cache

LockToRead(c) ==
    /\ At(c, "lookup") /\ Writing = {}
    /\ Go(c, "reading")
    /\ CallUnchanged /\ UNCHANGED <<cache, calls>>

\* paginate computes the nodes behind the offset first, an unsigned number: a
\* debug build panics when there are fewer nodes, a release build goes on.
Paged(c, g, place) ==
    LET k == call[c]
    IN  \/ Step(c, Ready(k.query, k.offset, place, Page(g, k.offset)))
        \/ /\ k.offset > Cardinality(States(g))
           /\ Step(c, Ready(k.query, k.offset, "panicked", Empty))

LastPage(g, offset) ==
    Cardinality(States(g)) <= offset + Cardinality(States(Page(g, offset)))

\* A cached result is dropped with its last page.
Lookup(c) ==
    LET k == call[c]
        g == cache[k.query]
    IN  /\ At(c, "reading")
        /\ IF g = NoResult THEN Step(c, [Evaluate(k, "seed", k.query.seed) EXCEPT !.at = "evaluating"])
           ELSE Paged(c, g, IF LastPage(g, k.offset) THEN "remove" ELSE "check")
        /\ CallUnchanged /\ UNCHANGED <<cache, calls>>

LockToWrite(c) ==
    /\ call[c].at \in {"remove", "insert"}
    /\ Reading = {} /\ Writing = {}
    /\ Go(c, IF At(c, "remove") THEN "removing" ELSE "inserting")
    /\ CallUnchanged /\ UNCHANGED <<cache, calls>>

Remove(c) ==
    /\ At(c, "removing")
    /\ cache' = [cache EXCEPT ![call[c].query] = NoResult]
    /\ Go(c, "check")
    /\ CallUnchanged /\ UNCHANGED calls

\* Mutant: the guard of the cache is not dropped.
InsertAndHold(c) ==
    /\ At(c, "inserting")
    /\ cache[call[c].query] # call[c].result
    /\ cache' = [cache EXCEPT ![call[c].query] = call[c].result]
    /\ CallUnchanged /\ UNCHANGED <<call, calls>>

\* A fresh result is kept, whole, for the pages to come.
Insert(c) ==
    LET k == call[c]
    IN  /\ At(c, "inserting")
        /\ cache' = [cache EXCEPT ![k.query] = k.result]
        /\ Step(c, Ready(k.query, k.offset, "check", Page(k.result, k.offset)))
        /\ kept' = [kept EXCEPT ![c] = {}]
        /\ UNCHANGED <<beliefs, relations, statements, calls>>

\* The page of a fresh result is cut before the result is kept.
CutPage(c) ==
    LET k == call[c]
    IN  /\ At(c, "insert") /\ k.offset > Cardinality(States(k.result))
        /\ Step(c, Ready(k.query, k.offset, "panicked", Empty))
        /\ kept' = [kept EXCEPT ![c] = {}]
        /\ UNCHANGED <<beliefs, relations, cache, statements, calls>>

\* The assertion at the end: nobody has the cache locked.
Check(c) ==
    /\ At(c, "check")
    /\ Go(c, IF Reading \union Writing = {} THEN "answered" ELSE "panicked")
    /\ CallUnchanged /\ UNCHANGED <<cache, calls>>

----------------------------------------------------------------------------
(* What a parse makes of the answers                                        *)
(* (try_initialize_stack_from_session_cache, builder.rs).                   *)

\* A parse of a document, or of a network in another one, asks for the network
\* of the directory that it is in; without one, or for the repository, it walks
\* the directories instead.
ParentQuery(d) == [seed |-> {p \in Networks : <<d, p>> \in Sections}, radius |-> 0]

\* Then it asks for the document by its Bid, so that its headings are found in
\* the session and keep theirs.
EntryQuery(d) == [seed |-> {d}, radius |-> 0]

\* Mutant: Trace nodes are left out.
WholeAncestors(g) ==
    [whole |-> g.whole \intersect Networks, trace |-> {},
     edges |-> {p \in g.edges : {p[1], p[2]} \subseteq g.whole \intersect Networks}]

\* The base of the document begins with the networks of the first answer, and
\* the relations between them: what is in the document comes from its text.
Ancestors(g) ==
    [whole |-> g.whole \intersect Networks, trace |-> g.trace \intersect Networks,
     edges |-> {p \in g.edges : {p[1], p[2]} \subseteq Networks}]

\* The PathMap of the repository in this base has the networks right below it;
\* what is below a network has its place in that one's PathMap alone.
Mounted(base) == {n \in Networks : <<n, Repo>> \in base.edges}

\* The stack of the parse is the repository, what leads from it to the parent,
\* and the parent.  Without the parent in the PathMap it is the repository,
\* and without the repository in the base there is none.
Stack(g, parent) ==
    LET base == Ancestors(g)
    IN  CASE Repo \notin States(base) -> <<>>
          [] Repo \in States(base) /\ parent \in Mounted(base) -> <<Repo, parent>>
          [] OTHER -> <<Repo>>

----------------------------------------------------------------------------
Commit ==
    \/ \E n \in Nodes : UpdateNode(n)
    \/ \E p \in Changing : UpdateRelation(p) \/ RemoveRelation(p)

\* What a call does once it is made.
Serve(c) ==
    \/ LockToRead(c) \/ Lookup(c)
    \/ ReadStates(c) \/ ReadRelations(c) \/ ReadMissing(c)
    \/ LockToWrite(c) \/ Remove(c) \/ Insert(c) \/ CutPage(c)
    \/ Check(c)

Next ==
    \/ Commit
    \/ \E c \in Clients : Serve(c) \/ \E q \in Questions, offset \in Offsets : Ask(c, q, offset)

\* The threads of the runtime go on, and the locks are held for one step only.
Fairness == \A c \in Clients : WF_vars(Serve(c))

Spec == Init /\ [][Next]_vars /\ Fairness

----------------------------------------------------------------------------
(* Properties.                                                              *)

QueriesTypeOK ==
    /\ beliefs \subseteq Nodes
    /\ relations \subseteq Sections \union Links
    /\ cache \in [Questions -> Graph \union {NoResult}]
    /\ call \in [Clients -> Call]
    /\ \A c \in Clients : call[c].result.whole \intersect call[c].result.trace = {}
    /\ kept \in [Clients -> SUBSET relations]
    /\ statements \in 0..MaxStatements /\ calls \in 0..MaxCalls

Evaluated(c) == call[c].at \in {"insert", "inserting"}

\* "not all their relationships are loaded" is what Trace means (graph.rs).  The
\* nodes that the query asked for are in the result and never Trace, however its
\* parts are joined, and of a node that is not the result has every relation that
\* was there all along.  (Of those that are in the database before: one that is
\* committed between the first statement and the second can come as the other
\* end of a relation, which is a Trace.)
WholeNodesAreWhole ==
    \A c \in Clients : Evaluated(c) =>
        LET g == call[c].result
        IN  /\ call[c].query.seed \intersect Stored \subseteq g.whole
            /\ \A p \in kept[c] : {p[1], p[2]} \intersect g.whole # {} => p \in g.edges

\* The chain of Section relations above each node that a query asked for, up to
\* the top, as far as it was there all along, and what a parse makes of it.
ChainFound(c) ==
    LET above == kept[c] \intersect Sections
        seed  == call[c].query.seed
        found == seed \intersect States(call[c].result)
    IN  /\ {p \in above : p[1] \in Reach(found, above)} \subseteq call[c].result.edges
        /\ \A n \in Networks \ {Repo} : seed = {n} /\ <<n, Repo>> \in above
              => Stack(call[c].result, n) = <<Repo, n>>

\* A result has this chain.  So a parse that has asked for the network of its
\* directory finds its way to it from the repository, whatever is committed
\* between the reads of the query: no document becomes a child of the repository
\* instead.  (Networks right below the repository: one that is deeper is passed
\* over by Stack.  And no node that is asked for may link to its parent, see
\* ResultsAreBalanced.)
AncestorsFound == \A c \in Clients : Evaluated(c) => ChainFound(c)

\* "This will keep querying the BeliefSource until the provided set returns an
\* empty option for build_balance_expr, or the BALANCE_CUTOFF max query depth is
\* reached" (query.rs): a result leaves no node with a relation above it that
\* was there all along.  Not so when the first expression, about relations of
\* every kind, is empty: a document that links to its parent makes that the
\* source of a relation, and what is above the parent is never asked for.
ResultsAreBalanced ==
    \A c \in Clients : Evaluated(c) =>
        \A p \in kept[c] \intersect Sections :
            p[1] \in ExternalSinks(call[c].result.edges \intersect Sections)
            => call[c].loops >= BALANCE_CUTOFF

\* watch.rs, end of get_states: assert!(!self.pagination_cache.lock().0.is_locked()):
\* the assertion holds.
NobodyPanics == \A c \in Clients : call[c].at # "panicked"

\* Every call comes to its end, whatever is committed meanwhile and whoever
\* else asks.
CallsEnd == \A c \in Clients : At(c, "lookup") ~> call[c].at \in {"answered", "panicked"}

\* What takes a BeliefSource gets the same answer from a BeliefBase as from a
\* database with the same content: the same graph for lists of nodes, plain, as
\* a trace or united; for lists of sinks or sources a part of what the database
\* fetches; for intersections and differences all of it.  (Of the other relations
\* the database cannot be asked, see EveryPredicateIsAnswered.  The contents are
\* those that the tables can have before the first call.)
SourcesAgree ==
    calls = 0 =>
        /\ StatesAgree(beliefs, relations)
        /\ RelationsAgree(beliefs, relations)
        /\ UnionsAgree(beliefs, relations)
        /\ \A op \in {"Intersection", "Difference", "SymmetricDifference"} :
              DyadsContain(op, beliefs, relations)
=============================================================================
