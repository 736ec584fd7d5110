----------------------------- MODULE Reconcile -----------------------------
(***************************************************************************)
(* What a parse does to what is known of a repository.  GraphBuilder       *)
(* (codec/builder.rs) builds the base of one document from its text, lets  *)
(* BeliefBase::compute_diff compare it with the session's base, applies    *)
(* the events of the diff to the session one by one, which moves its       *)
(* relations and its path maps, and sends the diff and the path events to  *)
(* the database.                                                           *)
(*                                                                         *)
(* A text is a sequence of headings with their levels and a sequence of    *)
(* links.  Nodes keep their identity from parse to parse, and each text    *)
(* has been written back with its identities.  The states of the session   *)
(* are those of documents it has parsed itself, so none is a Trace.        *)
(***************************************************************************)
EXTENDS PathEntries

CONSTANTS
    Home,       \* the network of each document
    DocKey,     \* the sort key of each document in its network
    Texts,      \* the texts that the file of each document or network can have
    Link        \* the kind of weight that a link makes (WeightKind::Epistemic)

ASSUME TextAssumption ==
    /\ Link \in Kinds /\ Link # Section
    /\ Home \in [Docs -> Nets] /\ DocKey \in [Docs -> Nat]
    /\ DOMAIN Texts = Nets \union Docs

VARIABLES
    text,       \* the text of each document at its last parse
    known,      \* session_bb: the nodes that have a state
    edges,      \* session_bb: the weights of each pair
    maps,       \* session_bb: the path map of each network
    events,     \* the events of the diff that the session has not seen
    stored      \* the database: its relations and its paths

vars == <<text, known, edges, maps, events, stored>>

Idle == events = <<>>
NoText == [headings |-> <<>>, links |-> <<>>]
None == [p \in Pairs |-> NoWeights]

\* A network is known with its index.md before its documents are.
Init ==
    /\ text = [d \in Nets \union Docs |-> NoText]
    /\ known = Nets
    /\ edges = None
    /\ maps = [n \in Nets |-> NewMap(None, n)]
    /\ events = <<>>
    /\ stored = [edges |-> None, paths |-> {}]

----------------------------------------------------------------------------
\* The base of a document (doc_bb)

Headings(t) == {h.bid : h \in Range(t.headings)}
ParsedNodes(d, t) == {d} \union Headings(t)

\* get_parent_from_stack: the last heading above with a lower level, else
\* the document.
ParentAt(d, t, i) ==
    LET above == {j \in 1..(i - 1) : t.headings[j].level < t.headings[i].level}
    IN  IF above = {} THEN d ELSE t.headings[Max(above)].bid

Weight(key) == [key |-> key, owner |-> "sink"]

\* push: a document hangs on its network with the key of its place there, a
\* heading on its parent behind the headings that do already.
Structure(d, t) ==
    LET child(i) == <<t.headings[i].bid, ParentAt(d, t, i)>>
        key(i)   == Cardinality({j \in 1..(i - 1) : ParentAt(d, t, j) = ParentAt(d, t, i)})
        place(p) == CASE \E i \in DOMAIN t.headings : child(i) = p ->
                            Weight(key(CHOOSE i \in DOMAIN t.headings : child(i) = p))
                      [] d \in Docs /\ p = <<d, Home[d]>> -> Weight(DocKey[d])
                      [] OTHER -> NoWeight
    IN  [p \in Pairs |-> [NoWeights EXCEPT ![Section] = place(p)]]

\* push_relation: the links of a text that find their target, by pair.  The
\* key of a link is its place among the links of its owner.
Resolved(d, t) ==
    {i \in DOMAIN t.links : /\ t.links[i].to \in known \union Headings(t) \union {d}
                            /\ t.links[i].to # t.links[i].from}
LinkWeights(d, t) ==
    LET pair(i) == <<t.links[i].to, t.links[i].from>>
        key(i)  == Cardinality({j \in 1..(i - 1) : t.links[j].from = t.links[i].from})
        at(p)   == {i \in Resolved(d, t) : pair(i) = p}
    IN  [p \in Pairs |-> [NoWeights EXCEPT ![Link] =
            IF at(p) = {} THEN NoWeight ELSE Weight(key(Max(at(p))))]]

\* The relations that come along with the targets of links, which are taken
\* from the session with all relations they have there (eval_query).
Fetched(d, t) == {t.links[i].to : i \in Resolved(d, t)} \ ParsedNodes(d, t)

DocRelations(d, t) ==
    [p \in Pairs |->
        WeightUnion(IF {p[1], p[2]} \intersect Fetched(d, t) # {} /\ edges[p] # NoWeights
                    THEN edges[p] ELSE Structure(d, t)[p],
                    LinkWeights(d, t)[p])]

\* The order of the sink of a new relation in the document's base.
OrderIn(d, t, b) ==
    LET own == IF d \in Docs THEN <<DocKey[d]>> ELSE <<NetworkSectionSortKey>>
        order[i \in DOMAIN t.headings] ==
            LET p     == ParentAt(d, t, i)
                above == IF p = d THEN own
                         ELSE order[CHOOSE j \in DOMAIN t.headings : t.headings[j].bid = p]
            IN  Append(above, Structure(d, t)[<<t.headings[i].bid, p>>][Section].key)
    IN  CASE b = d           -> own
          [] b \in Headings(t) -> order[CHOOSE i \in DOMAIN t.headings : t.headings[i].bid = b]
          [] OTHER           -> <<>>

----------------------------------------------------------------------------
\* compute_diff

\* Mutant: Section weights count by their owner like the others.
OwnedLikeOthers(p, ws, parsed) ==
    LET owner(w) == IF w.owner = "source" THEN p[1] ELSE p[2]
    IN  [k \in Kinds |-> IF ws[k] # NoWeight /\ owner(ws[k]) \in parsed
                         THEN ws[k] ELSE NoWeight]

\* The weights of a pair that the parsed nodes decide about: the place of a
\* parsed node, and what a parsed node owns otherwise.
Owned(p, ws, parsed) ==
    LET owner(w) == IF w.owner = "source" THEN p[1] ELSE p[2]
    IN  [k \in Kinds |->
            IF ws[k] # NoWeight /\ (IF k = Section THEN p[1] ELSE owner(ws[k])) \in parsed
            THEN ws[k] ELSE NoWeight]

PairBefore(p, q) == p[1] < q[1] \/ (p[1] = q[1] /\ p[2] < q[2])

\* The events for a document d with the text t.  Nodes that are no longer in
\* the text are looked for below the parsed nodes, but the search ends at
\* the parsed nodes themselves, so that none is ever removed.
Diff(d, t, changed) ==
    LET parsed == ParsedNodes(d, t)
        doc    == DocRelations(d, t)
        new(p) == Owned(p, doc[p], parsed)
        old(p) == Owned(p, edges[p], parsed)
        gone    == {p \in Pairs : old(p) # NoWeights /\ new(p) = NoWeights /\ p[2] \in known}
        added   == {p \in Pairs : old(p) = NoWeights /\ new(p) # NoWeights}
        kept    == {p \in Pairs : old(p) # NoWeights /\ new(p) # NoWeights}
        updated == {x \in kept \X Kinds : new(x[1])[x[2]] \notin {NoWeight, old(x[1])[x[2]]}}
        addedBefore(p, q) ==
            LET o == OrderIn(d, t, p[2])
                r == OrderIn(d, t, q[2])
            IN  IF o = r THEN PairBefore(p, q) ELSE OrderBefore(o, r)
        updatedBefore(x, y) ==
            PairBefore(x[1], y[1]) \/ (x[1] = y[1] /\ x[2] # Section /\ y[2] = Section)
        nodes   == {[type |-> "node", bid |-> b] : b \in (parsed \ known) \union changed}
        gones   == InOrder(gone, PairBefore)
        addeds  == InOrder(added, addedBefore)
        updates == InOrder(updated, updatedBefore)
    IN  InOrder(nodes, LAMBDA m, n : m.bid < n.bid)
        \o [i \in DOMAIN gones |-> [type |-> "removed", pair |-> gones[i]]]
        \o [i \in DOMAIN addeds |->
                [type |-> "update", pair |-> addeds[i], weights |-> new(addeds[i])]]
        \o [i \in DOMAIN updates |->
                [type |-> "change", pair |-> updates[i][1], kind |-> updates[i][2],
                 weight |-> new(updates[i][1])[updates[i][2]]]]

\* parse_content.  A network whose own node has changed is sent again.
Parse(d, t) ==
    /\ Idle
    /\ text' = [text EXCEPT ![d] = t]
    /\ \E changed \in SUBSET ({d} \intersect Nets) :
          events' = Diff(d, t, changed)
    /\ UNCHANGED <<known, edges, maps, stored>>

----------------------------------------------------------------------------
\* process_event on the session

\* The maps of all networks and the paths in the database, after a map has
\* heard of a relation.
Hear(maps_, paths, p, ws) ==
    LET heard == [n \in Nets |-> RelationHeard(maps_[n], n, p[1], p[2], ws)]
        kept  == {x \in paths : x.path \notin heard[x.net].removed}
        put   == UNION {{[net |-> n, path |-> e.path, bid |-> e.bid] : e \in heard[n].put} :
                           n \in Nets}
    IN  [maps |-> [n \in Nets |-> heard[n].map],
         paths |-> put \union {x \in kept :
                       ~\E y \in put : y.net = x.net /\ y.path = x.path}]

\* The state of all maps and stored paths after the relations of a queue.
HeardAll(p, ws, queue, new) ==
    FoldLeft(LAMBDA acc, q : Hear(acc.maps, acc.paths, q, IF q = p THEN ws ELSE new[q]),
             [maps |-> maps, paths |-> stored.paths], queue)

\* process_event_queue: the event and the relations that reindexing has
\* renumbered, each with its weights; the maps are sorted at the end.
PathsAfter(p, ws, queue, new) ==
    LET state == HeardAll(p, ws, queue, new)
    IN  [state EXCEPT !.maps = [n \in Nets |-> Sorted(@[n])]]

\* update_relation with its derivatives, and what the database gets of it.
Relate(p, ws, storedEdges) ==
    \E new \in UpdatedRelation(edges, p[1], p[2], ws) :
        LET renumbered == {q \in Pairs : q # p /\ new[q] # edges[q]}
        IN  \E order \in SetToAllKPermutations(renumbered) :
                LET after == PathsAfter(p, ws, <<p>> \o order, new)
                IN  /\ Len(order) = Cardinality(renumbered)
                    /\ edges' = new
                    /\ maps' = after.maps
                    /\ stored' = [edges |-> storedEdges, paths |-> after.paths]

\* A node event.  The map of a network is built anew, and nobody is told.
ApplyNode(e) ==
    /\ e.type = "node"
    /\ known' = known \union {e.bid}
    /\ maps' = [n \in Nets |-> IF n = e.bid THEN NewMap(edges, n) ELSE maps[n]]
    /\ UNCHANGED <<edges, stored>>

ApplyRemoved(e) ==
    /\ e.type = "removed"
    /\ Relate(e.pair, NoWeights, [stored.edges EXCEPT ![e.pair] = NoWeights])
    /\ UNCHANGED known

ApplyUpdate(e) ==
    /\ e.type = "update"
    /\ Relate(e.pair, e.weights, [stored.edges EXCEPT ![e.pair] = e.weights])
    /\ UNCHANGED known

\* Mutant: a weight that is there already is not changed.
ChangedIfMissing(e) ==
    /\ e.type = "change"
    /\ IF edges[e.pair][e.kind] # NoWeight THEN UNCHANGED <<edges, maps, stored>>
       ELSE Relate(e.pair, ChangedWeights(edges, e.pair[1], e.pair[2], e.kind, e.weight), stored.edges)
    /\ UNCHANGED known

\* A change of one weight.  The database waits for the resolved update,
\* which is a derivative of the session and is not sent.
ApplyChange(e) ==
    LET ws == ChangedWeights(edges, e.pair[1], e.pair[2], e.kind, e.weight)
    IN  /\ e.type = "change"
        /\ IF ws = edges[e.pair] THEN UNCHANGED <<edges, maps, stored>>
           ELSE Relate(e.pair, ws, stored.edges)
        /\ UNCHANGED known

Apply ==
    /\ ~Idle
    /\ LET e == Head(events)
       IN  ApplyNode(e) \/ ApplyRemoved(e) \/ ApplyUpdate(e) \/ ApplyChange(e)
    /\ events' = Tail(events)
    /\ UNCHANGED text

Next ==
    \/ \E d \in Nets \union Docs : \E t \in Texts[d] : Parse(d, t)
    \/ Apply

Spec == Init /\ [][Next]_vars
----------------------------------------------------------------------------
\* Types, and the order of every map that its lookups depend on: sub-entries
\* are found as a run of entries behind their parent (source_sub_indices).
SessionTypeOK ==
    /\ known \subseteq Bids
    /\ edges \in [Pairs -> [Kinds -> [key : Nat, owner : Owners] \union {NoWeight}]]
    /\ stored.edges \in [Pairs -> [Kinds -> [key : Nat, owner : Owners] \union {NoWeight}]]
    /\ \A n \in Nets : maps[n] = Sorted(maps[n])

\* A node has at most one parent when a parse is done, also when its heading
\* has moved to another level or to another document, whichever of the two
\* documents is parsed first (the guards on Section weights in compute_diff),
\* provided that no node links to a heading that it is the parent of: such a
\* link keeps the pair, and with it the place that the heading had.
\* Documents keep their network, whatever is parsed: the network's index.md,
\* which does not name them, or a document that links to them and has got their
\* relations with them.
OneParent ==
    Idle => /\ \A b \in Bids : Cardinality({s \in Bids : edges[<<b, s>>][Section] # NoWeight}) <= 1
            /\ \A d \in Docs \intersect known : edges[<<d, Home[d]>>][Section] # NoWeight

\* Headings below one parent have keys in the order of the last parsed text,
\* after any sequence of insertions, swaps and changes of level.
OrderAsText ==
    Idle => \A d \in Docs : \A i, j \in DOMAIN text[d].headings :
        LET place(k) == <<text[d].headings[k].bid, ParentAt(d, text[d], k)>>
            weight(k) == edges[place(k)][Section]
        IN  /\ i < j /\ place(i)[2] = place(j)[2]
            /\ NoWeight \notin {weight(i), weight(j)}
            => weight(i).key < weight(j).key

\* Two nodes get the same path in a map only when it is built anew: events
\* give the second heading of a title another name.
Collide(map) == \E i, j \in DOMAIN map : map[i].path = map[j].path /\ map[i].bid # map[j].bid
Rebuilding == ~Idle /\ Head(events).type = "node" /\ Head(events).bid \in Nets
EventsKeepPathsApart ==
    [][\A n \in Nets : ~Rebuilding /\ ~Collide(maps[n]) => ~Collide(maps'[n])]_vars

\* The path events are complete: as long as no map is built anew, the paths
\* of the database are those of the maps, with all that moves or goes with a
\* heading.
PathsOf(ms) ==
    UNION {{[net |-> n, path |-> e.path, bid |-> e.bid] :
               e \in {x \in Range(ms[n]) : x.bid # n}} : n \in Nets}
PathsFollowMaps ==
    [][~Rebuilding /\ stored.paths = PathsOf(maps) => stored.paths' = PathsOf(maps')]_vars

\* The parsed nodes own the links of their last text and no others:
\* compute_diff "generates a consolidated set of events representing their
\* differences" (base.rs).  Not so when a node has linked to a heading that it
\* is the parent of: without the link the pair remains, as the place of the
\* heading, and compute_diff removes pairs that are gone altogether, and of the
\* others looks at the kinds that the new text has.  Nor when another link of
\* the document leads to the same node, whose relations come along with it.
LinksAsText ==
    Idle => \A d \in Nets \union Docs : \A p \in Pairs :
        p[2] \in ParsedNodes(d, text[d]) /\ edges[p][Link] # NoWeight
        => \E i \in DOMAIN text[d].links :
               p = <<text[d].links[i].to, text[d].links[i].from>>

\* What the code does not keep.  A heading that is in no text any more is
\* removed: "Identifies nodes that existed before but are no longer
\* referenced" and "Generates NodesRemoved events for the differences"
\* (beliefbase_architecture.md).
DeletedHeadingsGo ==
    Idle => \A b \in known : IsAnchor(b) => \E d \in Nets \union Docs : b \in Headings(text[d])

\* Invariant 1.1 of built_in_test: nodes with relations have a path.
RelationNodesHavePaths ==
    Idle => \A p \in Pairs : edges[p] # NoWeights =>
                \A b \in {p[1], p[2]} : \E n \in Nets : Positions(maps[n], b) # {}

\* The database has the weights of the session: it leaves a RelationChange
\* alone "to get the resolved entire RelationUpdate event" (db.rs).
DbWeights == Idle => stored.edges = edges
=============================================================================
