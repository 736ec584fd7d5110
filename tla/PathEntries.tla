---------------------------- MODULE PathEntries ----------------------------
(***************************************************************************)
(* The path map of a network as a value, and what PathMap (paths/          *)
(* pathmap.rs) does to it.  A map is a sequence of entries: a path inside  *)
(* the network, the node it names, and the order of the node, which is the *)
(* sequence of sort keys from the network down to it.  The sub-entries of  *)
(* an entry are those that follow it with its order as a prefix, so the    *)
(* sequence has to be sorted by order for the code to find them.           *)
(*                                                                         *)
(* A path is a file and an anchor in it.  A document is placed at the      *)
(* path that its relation carries, a heading at an anchor in the file of   *)
(* its document, however deep it is.  Of the names a heading can get       *)
(* (identifier, title, position, Bref) the model keeps the title, which    *)
(* two headings may share, and the Bref, which is its own.                 *)
(***************************************************************************)
EXTENDS BeliefEdges, SequencesExt

CONSTANTS
    Nets,       \* nodes that are networks, which have a map of their own
    Docs,       \* nodes that are documents and not networks
    File,       \* the path of each document or network inside its network
    Title       \* the title of each heading

ASSUME PathAssumption ==
    /\ Bids \subseteq Nat                       \* a Bid is compared with <
    /\ Nets \subseteq Bids /\ Docs \subseteq Bids /\ Nets \intersect Docs = {}

IsAnchor(b) == b \notin Nets \union Docs

\* NETWORK_SECTION_SORT_KEY: u16::MAX in the code, above all keys.
NetworkSectionSortKey == 1000
NetworkName == "index.md"

NoAnchor == <<>>
TitleAnchor(b) == <<"title", Title[b]>>
Bref(b) == <<"bref", b>>

Path(file, anchor) == [file |-> file, anchor |-> anchor]
Entry(path, bid, order) == [path |-> path, bid |-> bid, order |-> order]

\* pathmap_order, and the order of entries in a sorted map.
OrderBefore(o, p) ==
    \/ \E i \in DOMAIN o \intersect DOMAIN p :
          o[i] < p[i] /\ \A j \in 1..(i - 1) : o[j] = p[j]
    \/ Len(o) < Len(p) /\ IsPrefix(o, p)

EntryBefore(e, f) ==
    OrderBefore(e.order, f.order) \/ (e.order = f.order /\ e.bid < f.bid)

Sorted(map) == SortSeq(map, EntryBefore)

\* The elements of a set from the first to the last.
InOrder(S, before(_, _)) ==
    [i \in 1..Cardinality(S) |-> CHOOSE x \in S : Cardinality({y \in S : before(y, x)}) = i - 1]

\* The part of a sequence at some of its positions.
Part(map, positions) ==
    LET at == InOrder(positions, <)
    IN  [i \in DOMAIN at |-> map[at[i]]]

Positions(map, b) == {i \in DOMAIN map : map[i].bid = b}

\* source_sub_indices: the entries below the one at position i.
SubIndices(map, i) ==
    {j \in (i + 1)..Len(map) :
        /\ \A k \in (i + 1)..j : IsPrefix(map[i].order, map[k].order)
        /\ map[j].order # map[i].order}

\* The entry under which process_relation_update looks for the source.  A
\* network has two: "" for documents and index.md for headings.
SinkIndices(map, net, source, sink) ==
    {i \in Positions(map, sink) :
        sink = net => (map[i].order = <<>>) = ~IsAnchor(source)}

\* Mutant: the title is taken whether or not another heading has it.
NewPathUnchecked(map, source, file) ==
    IF IsAnchor(source) THEN Path(file, TitleAnchor(source)) ELSE Path(File[source], NoAnchor)

\* generate_path_name_with_collision_check
NewPath(map, source, file) ==
    LET taken(p) == \E i \in DOMAIN map : map[i].path = p /\ map[i].bid # source
        titled   == Path(file, TitleAnchor(source))
    IN  IF ~IsAnchor(source) THEN Path(File[source], NoAnchor)
        ELSE IF taken(titled) THEN Path(file, Bref(source))
        ELSE titled

\* The outcome of an event for one map: the map, the paths that are removed
\* and the entries that are added or updated, in the order of the events.
Outcome(map, removed, put) == [map |-> map, removed |-> removed, put |-> put]
Unchanged(map) == Outcome(map, {}, {})

----------------------------------------------------------------------------
\* Mutant: the entries below the source's go without an event.
RemovedQuietly(map, i, source) ==
    LET subs  == SubIndices(map, i)
        found == {j \in subs : map[j].bid = source}
        gone  == {j \in subs : IsPrefix(map[Min(found)].order, map[j].order)}
    IN  IF found = {} THEN Unchanged(map)
        ELSE Outcome(Part(map, DOMAIN map \ gone), {map[Min(found)].path}, {})

\* A relation without a Section weight: the source's entry below the sink is
\* removed with all entries whose order continues its order.
Removed(map, i, source) ==
    LET subs  == SubIndices(map, i)
        found == {j \in subs : map[j].bid = source}
        gone  == {j \in subs : IsPrefix(map[Min(found)].order, map[j].order)}
    IN  IF found = {} THEN Unchanged(map)
        ELSE Outcome(Part(map, DOMAIN map \ gone), {map[j].path : j \in gone}, {})

\* The source has no entry below the sink: it gets one behind them all.
Added(map, i, source, key) ==
    LET new == Entry(NewPath(map, source, map[i].path.file), source, Append(map[i].order, key))
    IN  Outcome(InsertAt(map, Max(SubIndices(map, i) \union {i}) + 1, new), {}, {new})

\* The order of an entry whose ancestor moves to a new order.
Moved(order, new) ==
    IF Len(order) >= Len(new) THEN new \o SubSeq(order, Len(new) + 1, Len(order)) ELSE order

\* The source's entry at j gets a new order, and so have the entries after
\* it that continue the old one.  Only its own path is looked at again.
Updated(map, i, j, source, key) ==
    LET old    == map[j]
        new    == Entry(NewPath(map, source, map[i].path.file), source, Append(map[i].order, key))
        follow == IF old.order = new.order THEN {}
                  ELSE {k \in (j + 1)..Len(map) :
                           \A l \in (j + 1)..k : IsPrefix(old.order, map[l].order)}
    IN  Outcome([k \in DOMAIN map |->
                    CASE k = j        -> new
                      [] k \in follow -> [map[k] EXCEPT !.order = Moved(@, new.order)]
                      [] OTHER        -> map[k]],
                IF old.path = new.path THEN {} ELSE {old.path},
                {new})

\* process_relation_update: the map of net hears that the relation from
\* source to sink has the weights ws.
RelationHeard(map, net, source, sink, ws) ==
    LET at    == CHOOSE i \in SinkIndices(map, net, source, sink) : TRUE
        found == {j \in SubIndices(map, at) : map[j].bid = source}
    IN  IF SinkIndices(map, net, source, sink) = {} \/ (sink \in Nets /\ sink # net)
        THEN Unchanged(map)
        ELSE IF ws[Section] = NoWeight THEN Removed(map, at, source)
        ELSE IF found = {} THEN Added(map, at, source, ws[Section].key)
        ELSE Updated(map, at, Max(found), source, ws[Section].key)

----------------------------------------------------------------------------
Children(edges, b) == Incoming(edges, b, Section)

\* The nodes on the way from a network down to each node of its map, by the
\* length of the way.  A network below it is an entry but not searched.
Ways(edges, net) ==
    LET ways[n \in 1..Cardinality(Bids)] ==
            IF n = 1 THEN {<<b>> : b \in Children(edges, net)}
            ELSE UNION {{Append(w, b) : b \in Children(edges, Last(w)) \ Range(w)} :
                           w \in {v \in ways[n - 1] : Last(v) \notin Nets}}
    IN  UNION {ways[n] : n \in DOMAIN ways}

\* The entry that the constructor gives the last node of a way.
EntryOf(edges, net, way) ==
    LET sink(i) == IF i = 1 THEN net ELSE way[i - 1]
        keys    == [i \in DOMAIN way |-> edges[<<way[i], sink(i)>>][Section].key]
        first   == Head(way)
        file    == IF IsAnchor(first) THEN NetworkName ELSE File[first]
    IN  Entry(Path(file, IF IsAnchor(Last(way)) THEN TitleAnchor(Last(way)) ELSE NoAnchor),
              Last(way),
              (IF IsAnchor(first) THEN <<NetworkSectionSortKey>> ELSE <<>>) \o keys)

\* PathMap::new: the map that the relations of a base give a network.
NewMap(edges, net) ==
    InOrder({Entry(Path("", NoAnchor), net, <<>>),
                  Entry(Path(NetworkName, NoAnchor), net, <<NetworkSectionSortKey>>)}
            \union {EntryOf(edges, net, w) : w \in Ways(edges, net)},
                 EntryBefore)
=============================================================================
