-------------------------------- MODULE Shards --------------------------------
(***************************************************************************)
(* The exported site and the viewer that reads it.  finalize_html          *)
(* (codec/compiler.rs) writes the search indices (shard/search.rs) and     *)
(* then the graph (shard/export.rs), as one file or as shards, one file    *)
(* after another into the directory of the export before.  The viewer      *)
(* (assets/viewer) fetches the files over the network when it needs them   *)
(* and merges the shards into a BeliefBase (wasm.rs).  Nothing holds the   *)
(* two together: an export may run, fail or be killed between any two      *)
(* requests.                                                               *)
(*                                                                         *)
(* Every export has a graph of its own.  The content of a file is          *)
(* determined by its name and the export that wrote it, so the model keeps *)
(* the number of the export.                                               *)
(***************************************************************************)
EXTENDS Naturals, Sequences, FiniteSets, FiniteSetsExt, SequencesExt

CONSTANTS
    Graphs,             \* the graph of each export, in turn
    Nets,               \* the networks there can be, numbers in the order of their Bids
    Api, System,        \* the API node; with the networks of assets and of hrefs
    Entry,              \* the network of the entry point
    SHARD_THRESHOLD,    \* in nodes and relations
    NodeSize,           \* estimated size of a node in a shard, in units of AVG_NODE_BYTES
    MemoryBudget,       \* in the same unit
    Visited,            \* bound: the networks the reader of a page asks for
    Slots,              \* bound: calls of loadNetwork under way at a time
    MaxFaults           \* bound: failures

None == 0
Global == 0             \* the key of the global shard

ASSUME ShardsAssumption ==
    /\ Nets \subseteq Nat \ {0} /\ IsFiniteSet(Nets) /\ Entry \in Nets
    /\ Api \in System /\ System \subseteq Nets /\ Visited \subseteq Nets
    /\ Len(Graphs) \in Nat /\ DOMAIN Graphs = 1..Len(Graphs)
    /\ \A i \in DOMAIN Graphs : LET g == Graphs[i] IN
          /\ g.states \subseteq Nat \ {0} /\ g.traces \subseteq g.states
          /\ g.edges \subseteq g.states \X g.states
          /\ Api \in g.states => Api \in g.traces       \* "_always_ also a Trace"
          \* the network in whose path map a node is, a network's is the one around it
          /\ g.home \in [g.states -> (Nets \intersect g.states) \union {None}]

VARIABLES
    site,       \* the export that wrote each file
    export,     \* the export under way
    exports,    \* how many have begun
    viewer,     \* what an open page is at
    base,       \* BeliefBaseWasm.inner: its nodes and relations
    loaded,     \* loaded_shards: the export each loaded shard is from
    shown,      \* ShardManager._loadedNetworks
    loads,      \* the calls of loadNetwork under way
    faults

vars == <<site, export, exports, viewer, base, loaded, shown, loads, faults>>

----------------------------------------------------------------------------
(* What an export writes.                                                   *)

\* PathMapMap::new: the networks of the graph and those every path map has.
NetsOf(g) == (Nets \intersect g.states) \union System

\* PathMap::recursive_map: the nodes of a network, those of the networks in
\* it included.
RecursiveMap(g, net) ==
    LET below(S) == S \union {n \in g.states : g.home[n] \in S \intersect Nets}
        all[S \in SUBSET (g.states \union Nets)] == IF below(S) = S THEN S ELSE all[below(S)]
    IN  all[{net}]

\* bid_to_net: the first network whose recursive path map has the node.
NetworkOf(g, n) ==
    LET of == {net \in NetsOf(g) : n \in RecursiveMap(g, net)}
    IN  IF of = {} THEN None ELSE Min(of)

\* Mutant: a Trace node is in no shard.
GlobalStatesUntraced(g) == {n \in g.states \ g.traces : NetworkOf(g, n) = None}
GlobalStates(g) == {n \in g.states : n \in g.traces \/ NetworkOf(g, n) = None}

NetworkStates(g, net) == {n \in g.states \ g.traces : NetworkOf(g, n) = net}

\* is_cross_network
GlobalRelations(g) ==
    {e \in g.edges : NetworkOf(g, e[1]) # NetworkOf(g, e[2]) \/ NetworkOf(g, e[1]) = None}

\* RelationPred::NodeIn: one end is in the network.
NetworkRelations(g, net) ==
    {e \in g.edges : e[1] \in NetworkStates(g, net) \/ e[2] \in NetworkStates(g, net)}

\* The shards of all exports.
ShardContents ==
    [i \in DOMAIN Graphs |-> LET g == Graphs[i] IN
        [key \in Nets \union {Global} |->
            IF key = Global THEN [nodes |-> GlobalStates(g), edges |-> GlobalRelations(g)]
            ELSE [nodes |-> NetworkStates(g, key), edges |-> NetworkRelations(g, key)]]]

Shard(i, key) == ShardContents[i][key]

ShouldShard(g) == Cardinality(g.states) + Cardinality(g.edges) >= SHARD_THRESHOLD

\* The search indices of all networks and their manifest count as one file:
\* the page does without any of them.
SearchFile == <<"search", 0>>
ShardFile(key) == <<"beliefbase", key>>
Manifest == <<"manifest", 0>>
WholeFile == <<"beliefbase.json", 0>>

Files == {ShardFile(n) : n \in Nets \union {Global}} \union {SearchFile, Manifest, WholeFile}

Missing == 0
Torn == Len(Graphs) + 1     \* truncated and not yet written
Good(f) == site[f] \notin {Missing, Torn}

\* The files of the graph in the order they are written.
GraphWrites(g) ==
    IF ShouldShard(g)
    THEN <<ShardFile(Global)>>
         \o [i \in 1..Cardinality(NetsOf(g)) |-> ShardFile(SetToSortSeq(NetsOf(g), <)[i])]
         \o <<Manifest>>
    ELSE <<WholeFile>>

NoExport == [writes |-> <<>>, begun |-> FALSE, fallback |-> FALSE]

\* finalize_html
Finalize ==
    /\ export = NoExport /\ exports < Len(Graphs)
    /\ exports' = exports + 1
    /\ export' = [NoExport EXCEPT !.writes = <<SearchFile>> \o GraphWrites(Graphs[exports + 1])]
    /\ UNCHANGED <<site, viewer, base, loaded, shown, loads, faults>>

\* tokio::fs::write truncates the file and then writes it.
BeginWrite ==
    /\ export.writes # <<>> /\ ~export.begun
    /\ site' = [site EXCEPT ![Head(export.writes)] = Torn]
    /\ export' = [export EXCEPT !.begun = TRUE]
    /\ UNCHANGED <<exports, viewer, base, loaded, shown, loads, faults>>

EndWrite ==
    /\ export.begun
    /\ site' = [site EXCEPT ![Head(export.writes)] = exports]
    /\ export' = IF Len(export.writes) = 1 THEN NoExport
                 ELSE [export EXCEPT !.writes = Tail(@), !.begun = FALSE]
    /\ UNCHANGED <<exports, viewer, base, loaded, shown, loads, faults>>

\* Without its search indices an export goes on; without a shard, or the
\* whole file, it writes the whole file with export_beliefbase_json.
FailWrite ==
    /\ export.writes # <<>>
    /\ export' =
          IF Head(export.writes) = SearchFile
          THEN [export EXCEPT !.writes = GraphWrites(Graphs[exports]), !.begun = FALSE]
          ELSE IF export.fallback THEN NoExport
          ELSE [writes |-> <<WholeFile>>, begun |-> FALSE, fallback |-> TRUE]
    /\ faults < MaxFaults /\ faults' = faults + 1
    /\ UNCHANGED <<site, exports, viewer, base, loaded, shown, loads>>

Killed ==
    /\ export # NoExport
    /\ export' = NoExport
    /\ faults < MaxFaults /\ faults' = faults + 1
    /\ UNCHANGED <<site, exports, viewer, base, loaded, shown, loads>>

----------------------------------------------------------------------------
(* BeliefBaseWasm                                                           *)

\* BeliefBase::default: the API node and nothing else.
Default == [nodes |-> {Api}, edges |-> {}]
Within(edges, nodes) == {e \in edges : e[1] \in nodes /\ e[2] \in nodes}
LoadedKeys == {k \in DOMAIN loaded : loaded[k] # Missing}

\* Mutant: the nodes of a shard go with it, whoever else has them.
UnloadedWholly(b, held, key) ==
    LET nodes == b.nodes \ Shard(held[key], key).nodes
    IN  [nodes |-> nodes, edges |-> Within(b.edges, nodes)]

\* unload_shard: the nodes that no other loaded shard has, and their relations.
Unloaded(b, held, key) ==
    LET needed == UNION {Shard(held[k], k).nodes : k \in LoadedKeys \ {key}}
        nodes  == b.nodes \ (Shard(held[key], key).nodes \ needed)
    IN  [nodes |-> nodes, edges |-> Within(b.edges, nodes)]

\* merge: a relation between nodes the base does not have is skipped.
Merged(b, shard) ==
    LET nodes == b.nodes \union shard.nodes
    IN  [nodes |-> nodes,
         edges |-> b.edges \union {e \in Within(shard.edges, nodes) :
                                      e[1] \in shard.nodes \/ e[2] \in shard.nodes}]

\* load_shard: a shard that is loaded is unloaded first, then the file is read.
LoadShard(key, file) ==
    LET left == IF key \in LoadedKeys THEN Unloaded(base, loaded, key) ELSE base
    IN  IF file = Torn
        THEN base' = left /\ loaded' = [loaded EXCEPT ![key] = Missing]
        ELSE base' = Merged(left, Shard(file, key)) /\ loaded' = [loaded EXCEPT ![key] = file]

----------------------------------------------------------------------------
(* The viewer: initializeWasm and ShardManager.                             *)

Closed == [at |-> "closed", manifest |-> Missing, index |-> Missing]
Idle == [net |-> None, body |-> Missing]
NoLoads == [s \in Slots |-> Idle]
NothingLoaded == [k \in Nets \union {Global} |-> Missing]

Listed == IF viewer.manifest = Missing THEN {} ELSE NetsOf(Graphs[viewer.manifest])
EstimatedSize(net) == NodeSize * Cardinality(Shard(viewer.manifest, net).nodes)
CanLoadNetwork(net) == Cardinality(base.nodes) + EstimatedSize(net) <= MemoryBudget

\* The page is opened, or opened again.
Open ==
    /\ viewer.at \in {"closed", "ready", "whole", "failed"}
    /\ exports > 0
    /\ base' = Default /\ loaded' = NothingLoaded /\ shown' = {} /\ loads' = NoLoads
    /\ viewer' = [Closed EXCEPT !.at = "probing"]
    /\ UNCHANGED <<site, export, exports, faults>>

\* A manifest, of whatever export, means shards.
Probe ==
    /\ viewer.at = "probing"
    /\ viewer' = CASE site[Manifest] = Missing -> [viewer EXCEPT !.at = "unsharded"]
                   [] site[Manifest] = Torn -> [viewer EXCEPT !.at = "failed"]
                   [] OTHER -> [viewer EXCEPT !.at = "searching", !.manifest = site[Manifest]]
    /\ UNCHANGED <<site, export, exports, base, loaded, shown, loads, faults>>

FetchWhole ==
    /\ viewer.at = "unsharded"
    /\ IF Good(WholeFile) /\ Entry \in Graphs[site[WholeFile]].states
       THEN /\ base' = [nodes |-> Graphs[site[WholeFile]].states \union {Api},
                        edges |-> Graphs[site[WholeFile]].edges]
            /\ viewer' = [viewer EXCEPT !.at = "whole"]
       ELSE base' = base /\ viewer' = [viewer EXCEPT !.at = "failed"]
    /\ UNCHANGED <<site, export, exports, loaded, shown, loads, faults>>

\* _loadAllSearchIndices; without the indices there is no search.
LoadAllSearchIndices ==
    /\ viewer.at = "searching"
    /\ viewer' = [viewer EXCEPT !.at = "indexed",
                                !.index = IF Good(SearchFile) THEN site[SearchFile] ELSE Missing]
    /\ UNCHANGED <<site, export, exports, base, loaded, shown, loads, faults>>

\* _loadGlobalShard
LoadGlobalShard ==
    /\ viewer.at = "indexed"
    /\ IF Good(ShardFile(Global))
       THEN LoadShard(Global, site[ShardFile(Global)]) /\ viewer' = [viewer EXCEPT !.at = "entering"]
       ELSE viewer' = [viewer EXCEPT !.at = "failed"] /\ UNCHANGED <<base, loaded>>
    /\ UNCHANGED <<site, export, exports, shown, loads, faults>>

\* init loads the entry network; without the node of the entry point the
\* page fails.
LoadEntry ==
    /\ viewer.at = "entering"
    /\ IF Entry \in Listed /\ CanLoadNetwork(Entry) /\ Good(ShardFile(Entry))
             /\ Entry \in Merged(base, Shard(site[ShardFile(Entry)], Entry)).nodes
       THEN /\ LoadShard(Entry, site[ShardFile(Entry)])
            /\ shown' = {Entry}
            /\ viewer' = [viewer EXCEPT !.at = "ready"]
       ELSE viewer' = [viewer EXCEPT !.at = "failed"] /\ UNCHANGED <<base, loaded, shown>>
    /\ UNCHANGED <<site, export, exports, loads, faults>>

\* loadNetwork: the budget is looked at before the request.  The list of
\* networks is drawn anew by every load that ends, so the same network can be
\* asked for again while a request for it is under way.
BeginLoad(s, net) ==
    /\ viewer.at = "ready" /\ loads[s] = Idle
    /\ net \in Listed
    /\ net \in shown \/ CanLoadNetwork(net)
    /\ loads' = [loads EXCEPT ![s] = [net |-> net, body |-> Missing]]
    /\ UNCHANGED <<site, export, exports, viewer, base, loaded, shown, faults>>

Answer(s) ==
    /\ loads[s].net # None /\ loads[s].body = Missing
    /\ site[ShardFile(loads[s].net)] # Missing
    /\ loads' = [loads EXCEPT ![s].body = site[ShardFile(loads[s].net)]]
    /\ UNCHANGED <<site, export, exports, viewer, base, loaded, shown, faults>>

FailRequest(s) ==
    /\ loads[s].net # None /\ loads[s].body = Missing
    /\ loads' = [loads EXCEPT ![s] = Idle]
    /\ faults < MaxFaults /\ faults' = faults + 1
    /\ UNCHANGED <<site, export, exports, viewer, base, loaded, shown>>

EndLoad(s) ==
    /\ loads[s].body # Missing
    /\ LoadShard(loads[s].net, loads[s].body)
    /\ shown' = IF loads[s].body = Torn THEN shown ELSE shown \union {loads[s].net}
    /\ loads' = [loads EXCEPT ![s] = Idle]
    /\ UNCHANGED <<site, export, exports, viewer, faults>>

\* unloadNetwork
UnloadNetwork(net) ==
    /\ viewer.at = "ready" /\ net \in shown
    /\ shown' = shown \ {net}
    /\ IF net \in LoadedKeys
       THEN base' = Unloaded(base, loaded, net) /\ loaded' = [loaded EXCEPT ![net] = Missing]
       ELSE UNCHANGED <<base, loaded>>
    /\ UNCHANGED <<site, export, exports, viewer, loads, faults>>

Init ==
    /\ site = [f \in Files |-> Missing]
    /\ export = NoExport /\ exports = 0
    /\ viewer = Closed /\ base = Default /\ loaded = NothingLoaded
    /\ shown = {} /\ loads = NoLoads /\ faults = 0

Next ==
    \/ Finalize \/ BeginWrite \/ EndWrite \/ FailWrite \/ Killed
    \/ Open \/ Probe \/ FetchWhole \/ LoadAllSearchIndices \/ LoadGlobalShard \/ LoadEntry
    \/ \E net \in Nets : UnloadNetwork(net)
    \/ \E s \in Slots : Answer(s) \/ FailRequest(s) \/ EndLoad(s)
    \/ \E s \in Slots, net \in Visited : BeginLoad(s, net)

Spec == Init /\ [][Next]_vars

----------------------------------------------------------------------------
Sharded == viewer.at \in {"indexed", "entering", "ready"}

\* The exports that what the page has read is from, the manifest included.
LoadedExports == {loaded[k] : k \in LoadedKeys}

\* The relations between Trace nodes of one network: an http link makes one,
\* of its href to the network of hrefs (push_relation in codec/builder.rs).
TraceRelations(g) ==
    {e \in g.edges : /\ {e[1], e[2]} \subseteq g.traces
                     /\ NetworkOf(g, e[1]) = NetworkOf(g, e[2])
                     /\ NetworkOf(g, e[1]) # None}

\* A page holds the API node, the nodes of the shards it has loaded and no
\* others, and no relation of a node it does not have, whatever was loaded,
\* loaded again after an export that moved nodes between networks, unloaded, or
\* failed to be read (load_shard, unload_shard in wasm.rs).  It has every
\* relation of the graph between them, except those between Trace nodes of one
\* network, in whatever order shards of one export came: a relation is skipped
\* when it comes before one of its nodes, so both networks must bring it
\* (export_sharded, merge).
BaseIsLoadedShards ==
    /\ Sharded =>
          /\ base.nodes = {Api} \union UNION {Shard(loaded[k], k).nodes : k \in LoadedKeys}
          /\ base.edges = Within(base.edges, base.nodes)
    /\ viewer.at = "ready" /\ Cardinality(LoadedExports) = 1 =>
          LET g == Graphs[CHOOSE i \in LoadedExports : TRUE]
          IN  \A e \in g.edges \ TraceRelations(g) :
                 e[1] \in base.nodes /\ e[2] \in base.nodes => e \in base.edges

\* The shards of a finished export are the graph: every node is in exactly
\* one of them, and every relation in some, except those between Trace nodes of
\* one network (partition_graph).
ShardsAreTheGraph ==
    \A i \in DOMAIN Graphs :
        LET g == Graphs[i]
            keys == NetsOf(g) \union {Global}
            written == {Manifest} \union {ShardFile(k) : k \in keys}
        IN  (\A f \in written : site[f] = i)
            => /\ \A n \in g.states : Cardinality({k \in keys : n \in Shard(i, k).nodes}) = 1
               /\ g.edges \ TraceRelations(g) \subseteq UNION {Shard(i, k).edges : k \in keys}

----------------------------------------------------------------------------
(* What the documents and comments say and the code does not do.            *)

\* manifest.rs: "this file only exists in sharded mode".  An export below the
\* threshold leaves the manifest of an earlier one, and the viewer takes it.
ManifestOnlySharded ==
    export = NoExport /\ exports > 0 /\ Good(WholeFile) /\ site[WholeFile] = exports
        => ShouldShard(Graphs[exports]) \/ site[Manifest] = Missing

\* partition_graph: a node that "belongs to a system namespace (href, asset)" is
\* in the global shard, and a relation is in the global shard or in that of the
\* network its ends share.  The relation of an href to the network of hrefs is
\* in no shard, since both are Trace nodes of that network; an asset is in the
\* shard of the network of assets.
EveryRelationIsExported ==
    \A i \in DOMAIN Graphs :
        /\ Graphs[i].edges \subseteq UNION {Shard(i, k).edges : k \in Nets \union {Global}}
        /\ \A n \in Graphs[i].states : NetworkOf(Graphs[i], n) \in System => n \in Shard(i, Global).nodes

\* search_and_sharding.md: "refuses to load shards that would exceed the
\* budget".  It is looked at before the request for the shard, and not again
\* when the answer comes.
BudgetKept == Cardinality(base.nodes) <= MemoryBudget \/ viewer.at # "ready"

\* search_and_sharding.md: a page found in the index of a network is there
\* once that network is loaded.
FoundPagesLoad ==
    viewer.at = "ready" =>
        \A net \in Nets : net \in LoadedKeys /\ viewer.index = loaded[net] =>
            RecursiveMap(Graphs[loaded[net]], net) \ Graphs[loaded[net]].traces \subseteq base.nodes
=============================================================================
