----------------------------- MODULE ShardsProofs -----------------------------
(***************************************************************************)
(* Proofs about Shards, for every sequence of exported graphs, every set   *)
(* of networks and any number of requests under way: the shards of an      *)
(* export are its graph, and what an open page holds is what its shards    *)
(* say, whatever exports they are from.                                    *)
(*                                                                         *)
(* That a page has every relation between its nodes when all its shards    *)
(* are of one export is not inductive: it may hold shards of two exports   *)
(* and then unload those of one.  HoldsShards says it of every two shards  *)
(* of the same export instead.                                             *)
(***************************************************************************)
EXTENDS Shards, OrderLemmas, FiniteSetTheorems, TLAPS

Keys == Nets \union {Global}
Exports == 1..Len(Graphs)
Numbers == 0..Len(Graphs)

----------------------------------------------------------------------------
(* How an export divides its graph.                                         *)

\* The shards are what partition_graph returns for their export.
LEMMA ShardIs ==
    ASSUME NEW i \in Exports, NEW key \in Keys
    PROVE  /\ key = Global => /\ Shard(i, key).nodes = GlobalStates(Graphs[i])
                              /\ Shard(i, key).edges = GlobalRelations(Graphs[i])
           /\ key # Global => /\ Shard(i, key).nodes = NetworkStates(Graphs[i], key)
                              /\ Shard(i, key).edges = NetworkRelations(Graphs[i], key)
    <1>1. Shard(i, key) = IF key = Global
                          THEN [nodes |-> GlobalStates(Graphs[i]), edges |-> GlobalRelations(Graphs[i])]
                          ELSE [nodes |-> NetworkStates(Graphs[i], key),
                                edges |-> NetworkRelations(Graphs[i], key)]
        BY ShardsAssumption DEF Shard, ShardContents, Exports, Keys
    <1> QED BY <1>1

\* A node is given one network, or none.
LEMMA NetworkOfIsNet ==
    ASSUME NEW g, NEW n
    PROVE  NetworkOf(g, n) \in NetsOf(g) \union {None} /\ NetsOf(g) \subseteq Nets
    <1> DEFINE of == {net \in NetsOf(g) : n \in RecursiveMap(g, net)}
    <1>0. NetsOf(g) \subseteq Nets
        BY ShardsAssumption DEF NetsOf
    <1>1. NetworkOf(g, n) = IF of = {} THEN None ELSE Min(of)
        BY DEF NetworkOf
    <1>2. CASE of = {}
        BY <1>0, <1>1, <1>2
    <1>3. CASE of # {}
        <2>1. of \in SUBSET Nat /\ of \subseteq NetsOf(g)
            BY <1>0, ShardsAssumption
        <2> HIDE DEF of
        <2>2. PICK m \in of : \A k \in of : m <= k
            BY <1>3, <2>1, SmallestExists
        <2>3. Min(of) \in of
            BY <2>2 DEF Min
        <2> QED BY <1>0, <1>1, <1>3, <2>1, <2>3
    <1> QED BY <1>2, <1>3

\* Network keys are not the key of the global shard.
LEMMA KeysApart ==
    /\ Global \notin Nets
    /\ None = Global
    BY ShardsAssumption DEF Global, None

\* A Trace node, or one in no network, is in the global shard; any other in the
\* shard of its network.
LEMMA NodeIsIn ==
    ASSUME NEW i \in Exports, NEW n \in Graphs[i].states, NEW key \in Keys
    PROVE  n \in Shard(i, key).nodes <=>
              key = IF n \in Graphs[i].traces THEN Global ELSE NetworkOf(Graphs[i], n)
    <1>1. CASE key = Global
        BY <1>1, ShardIs, KeysApart DEF GlobalStates
    <1>2. CASE key # Global
        BY <1>2, ShardIs, KeysApart DEF NetworkStates
    <1> QED BY <1>1, <1>2

\* A shard has nodes of the exported graph only.
LEMMA ShardNodesAreStates ==
    ASSUME NEW i \in Exports, NEW key \in Keys
    PROVE  Shard(i, key).nodes \subseteq Graphs[i].states
    BY ShardIs DEF GlobalStates, NetworkStates

\* The API node is in no shard of a network.
LEMMA ApiIsGlobal ==
    ASSUME NEW i \in Exports, NEW key \in Nets
    PROVE  /\ Api \notin Shard(i, key).nodes
           /\ Api \in Graphs[i].states => Api \in Shard(i, Global).nodes
    <1>1. Api \in Graphs[i].states => Api \in Graphs[i].traces
        BY ShardsAssumption DEF Exports
    <1>2. Shard(i, key).nodes = NetworkStates(Graphs[i], key)
        BY ShardIs, KeysApart DEF Keys
    <1>3. Shard(i, Global).nodes = GlobalStates(Graphs[i])
        BY ShardIs DEF Keys
    <1> QED BY <1>1, <1>2, <1>3 DEF NetworkStates, GlobalStates

\* A relation has two ends in the graph.
LEMMA EdgeEnds ==
    ASSUME NEW i \in Exports, NEW e \in Graphs[i].edges
    PROVE  e[1] \in Graphs[i].states /\ e[2] \in Graphs[i].states
    <1>1. Graphs[i].edges \subseteq Graphs[i].states \X Graphs[i].states
        BY ShardsAssumption DEF Exports
    <1> QED BY <1>1

\* The shard of a network brings every relation of its nodes; the global shard
\* brings those between its own, but for those between Trace nodes of a network.
LEMMA EdgeIsBrought ==
    ASSUME NEW i \in Exports, NEW key \in Keys, NEW other \in Keys,
           NEW e \in Graphs[i].edges \ TraceRelations(Graphs[i]),
           \/ e[1] \in Shard(i, key).nodes /\ e[2] \in Shard(i, other).nodes
           \/ e[2] \in Shard(i, key).nodes /\ e[1] \in Shard(i, other).nodes,
           key = Global => other = Global
    PROVE  e \in Shard(i, key).edges
    <1>1. CASE key # Global
        BY <1>1, ShardIs DEF NetworkRelations
    <1>2. CASE key = Global
        <2> DEFINE g == Graphs[i]
        <2>1. e[1] \in GlobalStates(g) /\ e[2] \in GlobalStates(g)
            BY <1>2, ShardIs
        <2>2. \/ NetworkOf(g, e[1]) = None \/ NetworkOf(g, e[2]) = None
              \/ {e[1], e[2]} \subseteq g.traces
            BY <2>1 DEF GlobalStates
        <2>3. NetworkOf(g, e[1]) # NetworkOf(g, e[2]) \/ NetworkOf(g, e[1]) = None
            BY <2>2 DEF TraceRelations
        <2>4. e \in GlobalRelations(g)
            BY <2>3 DEF GlobalRelations
        <2> QED BY <1>2, <2>4, ShardIs
    <1> QED BY <1>1, <1>2

\* Every node is in the shard of one key and in no other.
LEMMA OneShardEach ==
    ASSUME NEW i \in Exports, NEW n \in Graphs[i].states
    PROVE  Cardinality({k \in NetsOf(Graphs[i]) \union {Global} : n \in Shard(i, k).nodes}) = 1
    <1> DEFINE keys == NetsOf(Graphs[i]) \union {Global}
               one == IF n \in Graphs[i].traces THEN Global ELSE NetworkOf(Graphs[i], n)
    <1>1. one \in keys
        BY NetworkOfIsNet, KeysApart
    <1>2. keys \subseteq Keys
        BY NetworkOfIsNet DEF Keys
    <1>3. {k \in keys : n \in Shard(i, k).nodes} = {one}
        BY <1>1, <1>2, NodeIsIn
    <1> QED BY <1>3, FS_Singleton

\* Every relation but those between Trace nodes of a network is in some shard.
LEMMA EdgeInSomeShard ==
    ASSUME NEW i \in Exports, NEW e \in Graphs[i].edges \ TraceRelations(Graphs[i])
    PROVE  e \in UNION {Shard(i, k).edges : k \in NetsOf(Graphs[i]) \union {Global}}
    <1> DEFINE g == Graphs[i]
    <1>1. CASE e \in GlobalRelations(g)
        BY <1>1, ShardIs DEF Keys
    <1>2. CASE e \notin GlobalRelations(g)
        <2> DEFINE net == NetworkOf(g, e[1])
        <2>1. net = NetworkOf(g, e[2]) /\ net # None
            BY <1>2 DEF GlobalRelations
        <2>2. net \in NetsOf(g) /\ net \in Keys
            BY <2>1, NetworkOfIsNet DEF Keys
        <2>3. e[1] \in NetworkStates(g, net) \/ e[2] \in NetworkStates(g, net)
            BY <2>1, EdgeEnds DEF NetworkStates, TraceRelations
        <2>4. e \in Shard(i, net).edges
            BY <2>1, <2>2, <2>3, ShardIs, KeysApart DEF NetworkRelations
        <2> QED BY <2>2, <2>4
    <1> QED BY <1>1, <1>2

\* partition_graph repeats no node and loses none, and no relation but those
\* between Trace nodes of one network, in every graph: networks inside networks,
\* nodes in no network and Trace nodes included.
THEOREM ShardsAreAlwaysTheGraph == Spec => []ShardsAreTheGraph
    <1>1. DOMAIN Graphs = Exports
        BY ShardsAssumption DEF Exports
    <1>2. ShardsAreTheGraph
        BY <1>1, OneShardEach, EdgeInSomeShard DEF ShardsAreTheGraph
    <1> QED BY <1>2, PTL
----------------------------------------------------------------------------
(* What a page holds.                                                       *)

Held(held) == {k \in Keys : held[k] # Missing}
HasNode(held, n) == \E k \in Held(held) : n \in Shard(held[k], k).nodes

\* The nodes of b are the API's and those of the shards, and every relation between two of
\* one export, or within one, is in b if both its ends come from that export.
HoldsShards(b, held) ==
    /\ \A n : n \in b.nodes <=> n = Api \/ HasNode(held, n)
    /\ b.edges = Within(b.edges, b.nodes)
    /\ \A k, l \in Held(held) : held[k] = held[l] =>
          \A e \in Graphs[held[k]].edges \ TraceRelations(Graphs[held[k]]) :
              e[1] \in Shard(held[k], k).nodes /\ e[2] \in Shard(held[l], l).nodes => e \in b.edges

\* The base unload_shard leaves when the shards held are held and key goes.
Left(b, held, key) ==
    LET needed == UNION {Shard(held[k], k).nodes : k \in Held(held) \ {key}}
        rest   == b.nodes \ (Shard(held[key], key).nodes \ needed)
    IN  [nodes |-> rest, edges |-> Within(b.edges, rest)]

\* Unloading a shard leaves what the other loaded shards hold.
LEMMA UnloadedIsLeft ==
    ASSUME loaded \in [Keys -> Numbers], NEW key
    PROVE  Unloaded(base, loaded, key) = Left(base, loaded, key)
    <1>1. LoadedKeys = Held(loaded)
        BY DEF LoadedKeys, Held
    <1> QED BY <1>1 DEF Unloaded, Left

\* What stays after a shard is unloaded is what the other shards say.
LEMMA LeftHolds ==
    ASSUME NEW b, NEW held \in [Keys -> Numbers], HoldsShards(b, held),
           NEW key \in Held(held) \ {Global}
    PROVE  HoldsShards(Left(b, held, key), [held EXCEPT ![key] = Missing])
    <1> DEFINE after == [held EXCEPT ![key] = Missing]
               r == Left(b, held, key)
               needed == UNION {Shard(held[k], k).nodes : k \in Held(held) \ {key}}
    <1>1. key \in Keys /\ after \in [Keys -> Numbers] /\ after[key] = Missing
        BY ShardsAssumption DEF Held, Numbers, Missing
    <1>2. Held(after) = Held(held) \ {key} /\ \A k \in Held(after) : after[k] = held[k]
        BY <1>1 DEF Held
    <1>3. r.nodes = b.nodes \ (Shard(held[key], key).nodes \ needed)
          /\ r.edges = Within(b.edges, r.nodes)
        BY DEF Left
    <1>4. \A n : n \in needed <=> HasNode(after, n)
        BY <1>2 DEF HasNode
    <1>5. \A n : HasNode(held, n) <=> n \in needed \/ n \in Shard(held[key], key).nodes
        BY DEF HasNode
    <1>10. Api \notin Shard(held[key], key).nodes
        <2>1. key \in Nets /\ held[key] \in Exports
            BY <1>1, ShardsAssumption DEF Keys, Held, Numbers, Exports, Missing
        <2> QED BY <2>1, ApiIsGlobal
    <1> HIDE DEF needed, r, after
    <1>6. \A n : n \in r.nodes <=> n = Api \/ HasNode(after, n)
        BY <1>3, <1>4, <1>5, <1>10 DEF HoldsShards
    <1>7. r.edges = Within(r.edges, r.nodes)
        BY <1>3 DEF Within
    <1>8. ASSUME NEW k \in Held(after), NEW l \in Held(after), after[k] = after[l],
                 NEW e \in Graphs[after[k]].edges \ TraceRelations(Graphs[after[k]]),
                 e[1] \in Shard(after[k], k).nodes, e[2] \in Shard(after[l], l).nodes
          PROVE  e \in r.edges
        <2>1. e \in b.edges
            BY <1>2, <1>8 DEF HoldsShards
        <2>2. e[1] \in r.nodes /\ e[2] \in r.nodes
            BY <1>6, <1>8 DEF HasNode
        <2> QED BY <1>3, <2>1, <2>2 DEF Within
    <1>9. HoldsShards(r, after)
        BY <1>6, <1>7, <1>8 DEF HoldsShards
    <1> QED BY <1>9 DEF r, after

\* A shard that is merged brings its nodes and every relation it must: the global
\* shard comes first, so that what it skips no other shard needs it for.
LEMMA MergedHolds ==
    ASSUME NEW b, NEW held \in [Keys -> Numbers], HoldsShards(b, held),
           NEW key \in Keys, held[key] = Missing, NEW file \in Exports,
           key = Global => Held(held) = {}
    PROVE  HoldsShards(Merged(b, Shard(file, key)), [held EXCEPT ![key] = file])
    <1> DEFINE after == [held EXCEPT ![key] = file]
               r == Merged(b, Shard(file, key))
               S == Shard(file, key)
    <1>1. file # Missing /\ after \in [Keys -> Numbers] /\ after[key] = file
        BY ShardsAssumption DEF Exports, Numbers, Missing
    <1>2. Held(after) = Held(held) \union {key} /\ \A k \in Held(held) : after[k] = held[k] /\ k # key
        BY <1>1 DEF Held
    <1>3. r.nodes = b.nodes \union S.nodes
          /\ r.edges = b.edges \union {e \in Within(S.edges, r.nodes) :
                                          e[1] \in S.nodes \/ e[2] \in S.nodes}
        BY DEF Merged
    <1>4. \A n : HasNode(after, n) <=> HasNode(held, n) \/ n \in S.nodes
        BY <1>1, <1>2 DEF HasNode
    <1> HIDE DEF r, after
    <1>6. \A n : n \in r.nodes <=> n = Api \/ HasNode(after, n)
        BY <1>3, <1>4 DEF HoldsShards
    <1>7. r.edges = Within(r.edges, r.nodes)
        BY <1>3 DEF Within, HoldsShards
    <1>8. ASSUME NEW k \in Held(after), NEW l \in Held(after), after[k] = after[l],
                 NEW e \in Graphs[after[k]].edges \ TraceRelations(Graphs[after[k]]),
                 e[1] \in Shard(after[k], k).nodes, e[2] \in Shard(after[l], l).nodes
          PROVE  e \in r.edges
        <2>1. CASE k # key /\ l # key
            BY <1>2, <1>3, <1>8, <2>1 DEF HoldsShards
        <2>2. CASE k = key \/ l = key
            <3> DEFINE other == IF k = key THEN l ELSE k
            <3>1. after[k] = file /\ other \in Keys /\ k \in Keys /\ l \in Keys
                BY <1>1, <1>8, <2>2 DEF Held
            <3>2. key = Global => other = Global
                BY <1>2
            <3>3. \/ e[1] \in S.nodes /\ e[2] \in Shard(file, other).nodes
                  \/ e[2] \in S.nodes /\ e[1] \in Shard(file, other).nodes
                BY <1>8, <2>2, <3>1
            <3>4. e \in Graphs[file].edges \ TraceRelations(Graphs[file])
                BY <1>8, <3>1
            <3> HIDE DEF other
            <3>5. e \in S.edges
                BY <3>1, <3>2, <3>3, <3>4, EdgeIsBrought
            <3>6. e[1] \in r.nodes /\ e[2] \in r.nodes
                BY <1>6, <1>8 DEF HasNode
            <3> QED BY <1>3, <3>3, <3>5, <3>6 DEF Within
        <2> QED BY <2>1, <2>2
    <1>9. HoldsShards(r, after)
        BY <1>6, <1>7, <1>8 DEF HoldsShards
    <1> QED BY <1>9 DEF r, after

\* A page that has loaded nothing holds it.
LEMMA DefaultHolds == HoldsShards(Default, NothingLoaded)
    <1>1. Held(NothingLoaded) = {}
        BY DEF Held, NothingLoaded, Keys
    <1>2. Default.nodes = {Api} /\ Default.edges = {}
        BY DEF Default
    <1> QED BY <1>1, <1>2 DEF HoldsShards, HasNode, Within

\* load_shard, of a network that may be loaded, from a file that may be torn.
LEMMA LoadShardHolds ==
    ASSUME loaded \in [Keys -> Numbers], HoldsShards(base, loaded),
           NEW key \in Keys, NEW file \in Exports \union {Torn}, LoadShard(key, file),
           key = Global => Held(loaded) = {}
    PROVE  loaded' \in [Keys -> Numbers] /\ HoldsShards(base', loaded')
    <1> DEFINE left == IF key \in LoadedKeys THEN Unloaded(base, loaded, key) ELSE base
               held == [loaded EXCEPT ![key] = Missing]
    <1>1. held \in [Keys -> Numbers] /\ held[key] = Missing
        BY ShardsAssumption DEF Numbers, Missing
    <1>2. LoadedKeys = Held(loaded)
        BY DEF LoadedKeys, Held
    <1>3. HoldsShards(left, held)
        <2>1. CASE key \in LoadedKeys
            <3>1. key \in Held(loaded) \ {Global}
                BY <1>2, <2>1
            <3> QED BY <1>2, <2>1, <3>1, UnloadedIsLeft, LeftHolds
        <2>2. CASE key \notin LoadedKeys
            <3>1. held = loaded
                BY <1>2, <2>2 DEF Held
            <3> QED BY <2>2, <3>1
        <2> QED BY <2>1, <2>2
    <1>4. Held(held) \subseteq Held(loaded)
        BY DEF Held
    <1>5. \/ file = Torn /\ base' = left /\ loaded' = held
          \/ /\ file \in Exports /\ base' = Merged(left, Shard(file, key))
             /\ loaded' = [loaded EXCEPT ![key] = file]
        BY DEF LoadShard
    <1>6. [loaded EXCEPT ![key] = file] = [held EXCEPT ![key] = file]
        OBVIOUS
    <1> HIDE DEF left, held
    <1>7. CASE file = Torn /\ base' = left /\ loaded' = held
        BY <1>1, <1>3, <1>7
    <1>8. CASE /\ file \in Exports /\ base' = Merged(left, Shard(file, key))
               /\ loaded' = [loaded EXCEPT ![key] = file]
        <2>1. HoldsShards(base', loaded')
            BY <1>1, <1>3, <1>4, <1>6, <1>8, MergedHolds
        <2>2. file \in Numbers
            BY <1>8, ShardsAssumption DEF Exports, Numbers
        <2> QED BY <1>8, <2>1, <2>2
    <1> QED BY <1>5, <1>7, <1>8

\* The global shard stays loaded while others come and go.
LEMMA GlobalStays ==
    ASSUME loaded \in [Keys -> Numbers], NEW key \in Keys, NEW file \in Exports \union {Torn},
           LoadShard(key, file)
    PROVE  /\ key # Global /\ Global \in Held(loaded) => Global \in Held(loaded')
           /\ key = Global /\ file # Torn => Global \in Held(loaded')
    <1>1. loaded' = [loaded EXCEPT ![key] = IF file = Torn THEN Missing ELSE file]
        BY DEF LoadShard
    <1>2. file \in Exports => file # Missing
        BY ShardsAssumption DEF Exports, Missing
    <1>3. Global \in Keys
        BY DEF Keys
    <1> QED BY <1>1, <1>2, <1>3 DEF Held

----------------------------------------------------------------------------
(* The invariant.                                                           *)

ExportInv ==
    /\ site \in [Files -> 0..Torn]
    /\ exports \in Numbers

LoadsInv ==
    /\ loads \in [Slots -> [net : Nets \union {None}, body : 0..Torn]]
    /\ \A s \in Slots : loads[s].net = None => loads[s].body = Missing
    /\ viewer.at # "ready" => loads = NoLoads

PageInv ==
    /\ "at" \in DOMAIN viewer
    /\ loaded \in [Keys -> Numbers]
    /\ viewer.at \in {"closed", "probing", "unsharded", "searching", "indexed"} =>
          base = Default /\ loaded = NothingLoaded
    /\ Sharded => HoldsShards(base, loaded)
    /\ viewer.at \in {"entering", "ready"} => Global \in Held(loaded)

ShardsInv == ExportInv /\ LoadsInv /\ PageInv

\* A file that is there is of an export, or torn.
LEMMA FileIs ==
    ASSUME ExportInv, NEW key \in Keys
    PROVE  /\ site[ShardFile(key)] \in 0..Torn
           /\ Good(ShardFile(key)) => site[ShardFile(key)] \in Exports
           /\ \A body \in 0..Torn : body # Missing => body \in Exports \union {Torn}
    <1>1. ShardFile(key) \in Files
        BY DEF Files, Keys
    <1>2. site[ShardFile(key)] \in 0..Torn
        BY <1>1 DEF ExportInv
    <1>3. \A body \in 0..Torn : body # Missing => body \in Exports \union {Torn}
        BY ShardsAssumption DEF Torn, Missing, Exports
    <1> QED BY <1>2, <1>3 DEF Good

\* Exports do not touch pages, and write files of their own number.
LEMMA ExportStep ==
    ASSUME ShardsInv, Finalize \/ BeginWrite \/ EndWrite \/ FailWrite \/ Killed
    PROVE  ExportInv' /\ UNCHANGED <<viewer, base, loaded, shown, loads>>
    <1>0. Torn \in 0..Torn /\ Numbers \subseteq 0..Torn /\ \A n \in Numbers : n < Len(Graphs) => n + 1 \in Numbers
        BY ShardsAssumption DEF Torn, Numbers
    <1>1. CASE Finalize
        BY <1>0, <1>1 DEF Finalize, ShardsInv, ExportInv
    <1>2. CASE BeginWrite
        <2>1. site' = [site EXCEPT ![Head(export.writes)] = Torn]
            BY <1>2 DEF BeginWrite
        <2>2. site' \in [Files -> 0..Torn]
            BY <1>0, <2>1 DEF ShardsInv, ExportInv
        <2> QED BY <1>2, <2>2 DEF BeginWrite, ShardsInv, ExportInv
    <1>3. CASE EndWrite
        <2>1. site' = [site EXCEPT ![Head(export.writes)] = exports]
            BY <1>3 DEF EndWrite
        <2>2. site' \in [Files -> 0..Torn]
            BY <1>0, <2>1 DEF ShardsInv, ExportInv
        <2> QED BY <1>3, <2>2 DEF EndWrite, ShardsInv, ExportInv
    <1>4. CASE FailWrite
        BY <1>4 DEF FailWrite, ShardsInv, ExportInv
    <1>5. CASE Killed
        BY <1>5 DEF Killed, ShardsInv, ExportInv
    <1> QED BY <1>1, <1>2, <1>3, <1>4, <1>5

\* A page with no load under way.
LEMMA NoLoadsTyped ==
    /\ NoLoads \in [Slots -> [net : Nets \union {None}, body : 0..Torn]]
    /\ \A s \in Slots : NoLoads[s].net = None => NoLoads[s].body = Missing
    BY ShardsAssumption DEF NoLoads, Idle, None, Missing, Torn

\* The invariant holds when the page is opened.
LEMMA InitShardsInv == Init => ShardsInv
    <1> SUFFICES ASSUME Init PROVE ShardsInv
        OBVIOUS
    <1>1. ExportInv
        BY ShardsAssumption DEF Init, ExportInv, Missing, Torn, Numbers
    <1>2. loaded \in [Keys -> Numbers]
        BY ShardsAssumption DEF Init, NothingLoaded, Keys, Numbers, Missing
    <1>3. viewer.at = "closed" /\ "at" \in DOMAIN viewer
        BY DEF Init, Closed
    <1> QED BY <1>1, <1>2, <1>3, NoLoadsTyped DEF Init, ShardsInv, LoadsInv, PageInv, Sharded

\* Every export, load and unload keeps the invariant.
LEMMA NextShardsInv ==
    ASSUME ShardsInv, [Next]_vars
    PROVE  ShardsInv'
    <1> USE DEF ShardsInv
    <1>1. CASE Finalize \/ BeginWrite \/ EndWrite \/ FailWrite \/ Killed
        BY <1>1, ExportStep DEF LoadsInv, PageInv, Sharded
    <1>2. CASE Open
        <2>1. viewer'.at = "probing" /\ "at" \in DOMAIN viewer'
            BY <1>2 DEF Open, Closed
        <2>2. loaded' \in [Keys -> Numbers]
            BY <1>2, ShardsAssumption DEF Open, NothingLoaded, Keys, Numbers, Missing
        <2> QED BY <1>2, <2>1, <2>2, NoLoadsTyped DEF Open, ExportInv, LoadsInv, PageInv, Sharded
    <1>3. CASE Probe
        <2>1. viewer.at = "probing" /\ viewer'.at \in {"unsharded", "failed", "searching"}
            BY <1>3 DEF Probe, LoadsInv
        <2> QED BY <1>3, <2>1 DEF Probe, ExportInv, LoadsInv, PageInv, Sharded
    <1>4. CASE FetchWhole
        BY <1>4 DEF FetchWhole, ExportInv, LoadsInv, PageInv, Sharded
    <1>5. CASE LoadAllSearchIndices
        BY <1>5, DefaultHolds DEF LoadAllSearchIndices, ExportInv, LoadsInv, PageInv, Sharded
    <1>6. CASE LoadGlobalShard
        <2>1. /\ viewer.at = "indexed" /\ viewer'.at \in {"entering", "failed"}
              /\ loads' = loads /\ UNCHANGED <<site, exports>>
            BY <1>6 DEF LoadGlobalShard, LoadsInv, PageInv
        <2>2. base = Default /\ loaded = NothingLoaded /\ loaded \in [Keys -> Numbers]
            BY <2>1 DEF PageInv
        <2>3. /\ loaded' \in [Keys -> Numbers]
              /\ viewer'.at = "entering" => HoldsShards(base', loaded') /\ Global \in Held(loaded')
            <3>1. CASE Good(ShardFile(Global))
                <4>1. LoadShard(Global, site[ShardFile(Global)])
                    BY <1>6, <3>1 DEF LoadGlobalShard
                <4>2. /\ Global \in Keys /\ site[ShardFile(Global)] \in Exports \union {Torn}
                      /\ site[ShardFile(Global)] # Torn
                    BY <3>1, FileIs DEF Keys, Good
                <4>3. Held(loaded) = {}
                    BY <2>2 DEF Held, NothingLoaded
                <4>4. HoldsShards(base, loaded)
                    BY <2>2, DefaultHolds
                <4> QED BY <2>2, <4>1, <4>2, <4>3, <4>4, LoadShardHolds, GlobalStays
            <3>2. CASE ~Good(ShardFile(Global))
                <4>1. viewer' = [viewer EXCEPT !.at = "failed"] /\ loaded' = loaded
                    BY <1>6, <3>2 DEF LoadGlobalShard
                <4>2. viewer'.at = "failed"
                    BY <4>1 DEF PageInv
                <4> QED BY <2>2, <4>1, <4>2
            <3> QED BY <3>1, <3>2
        <2>4. LoadsInv' /\ ExportInv'
            BY <2>1 DEF LoadsInv, ExportInv
        <2>5. "at" \in DOMAIN viewer'
            BY <1>6 DEF LoadGlobalShard, PageInv
        <2> QED BY <2>1, <2>3, <2>4, <2>5 DEF PageInv, Sharded
    <1>7. CASE LoadEntry
        <2>1. /\ viewer.at = "entering" /\ viewer'.at \in {"ready", "failed"}
              /\ loads' = loads /\ UNCHANGED <<site, exports>>
            BY <1>7 DEF LoadEntry, LoadsInv, PageInv
        <2>2. HoldsShards(base, loaded) /\ loaded \in [Keys -> Numbers] /\ Global \in Held(loaded)
            BY <2>1 DEF PageInv, Sharded
        <2>3. /\ loaded' \in [Keys -> Numbers]
              /\ viewer'.at = "ready" => HoldsShards(base', loaded') /\ Global \in Held(loaded')
            <3>1. CASE LoadShard(Entry, site[ShardFile(Entry)]) /\ Good(ShardFile(Entry))
                <4>1. LoadShard(Entry, site[ShardFile(Entry)]) /\ Good(ShardFile(Entry))
                    BY <3>1
                <4>2. Entry \in Keys /\ Entry # Global
                    BY ShardsAssumption, KeysApart DEF Keys
                <4>3. site[ShardFile(Entry)] \in Exports \union {Torn}
                    BY <4>1, <4>2, FileIs
                <4> QED BY <2>2, <4>1, <4>2, <4>3, LoadShardHolds, GlobalStays
            <3>2. CASE viewer' = [viewer EXCEPT !.at = "failed"] /\ UNCHANGED <<base, loaded>>
                BY <2>2, <3>2 DEF PageInv
            <3> QED BY <1>7, <3>1, <3>2 DEF LoadEntry
        <2>4. LoadsInv' /\ ExportInv'
            BY <2>1 DEF LoadsInv, ExportInv
        <2>5. "at" \in DOMAIN viewer'
            BY <1>7 DEF LoadEntry, PageInv
        <2> QED BY <2>1, <2>3, <2>4, <2>5 DEF PageInv, Sharded
    <1>8. ASSUME NEW net \in Nets, UnloadNetwork(net)
          PROVE  ShardsInv'
        <2>1. viewer.at = "ready" /\ UNCHANGED <<viewer, loads, site, exports>>
            BY <1>8 DEF UnloadNetwork
        <2>2. HoldsShards(base, loaded) /\ loaded \in [Keys -> Numbers] /\ Global \in Held(loaded)
            BY <2>1 DEF PageInv, Sharded
        <2>3. loaded' \in [Keys -> Numbers] /\ HoldsShards(base', loaded') /\ Global \in Held(loaded')
            <3>1. CASE net \in LoadedKeys
                <4>1. base' = Unloaded(base, loaded, net) /\ loaded' = [loaded EXCEPT ![net] = Missing]
                    BY <1>8, <3>1 DEF UnloadNetwork
                <4>2. net \in Held(loaded) \ {Global} /\ Missing \in Numbers
                    BY <2>2, <3>1, KeysApart, ShardsAssumption DEF LoadedKeys, Held, Missing, Numbers
                <4>3. Global \in Held(loaded')
                    BY <2>2, <4>1, <4>2 DEF Held
                <4> QED BY <2>2, <4>1, <4>2, <4>3, UnloadedIsLeft, LeftHolds
            <3>2. CASE net \notin LoadedKeys
                BY <1>8, <2>2, <3>2 DEF UnloadNetwork
            <3> QED BY <3>1, <3>2
        <2> QED BY <2>1, <2>3 DEF ExportInv, LoadsInv, PageInv, Sharded
    <1>9. ASSUME NEW s \in Slots, Answer(s)
          PROVE  ShardsInv'
        <2> DEFINE net == loads[s].net
        <2>1. /\ UNCHANGED <<site, exports, viewer, base, loaded>>
              /\ loads' = [loads EXCEPT ![s].body = site[ShardFile(net)]]
              /\ net # None
            BY <1>9 DEF Answer
        <2>2. net \in Keys
            BY <2>1 DEF LoadsInv, Keys
        <2>3. site[ShardFile(net)] \in 0..Torn
            BY <2>2, FileIs
        <2>4. loads' \in [Slots -> [net : Nets \union {None}, body : 0..Torn]]
            BY <2>1, <2>3 DEF LoadsInv
        <2>5. viewer.at = "ready"
            BY <2>1 DEF LoadsInv, NoLoads, Idle
        <2>6. \A t \in Slots : loads'[t].net = None => loads'[t].body = Missing
            BY <2>1 DEF LoadsInv
        <2> HIDE DEF net
        <2> QED BY <2>1, <2>4, <2>5, <2>6 DEF ExportInv, LoadsInv, PageInv, Sharded
    <1>10. ASSUME NEW s \in Slots, FailRequest(s)
           PROVE  ShardsInv'
        <2>1. /\ UNCHANGED <<site, exports, viewer, base, loaded>>
              /\ loads' = [loads EXCEPT ![s] = Idle]
            BY <1>10 DEF FailRequest
        <2>2. Idle \in [net : Nets \union {None}, body : 0..Torn]
            BY ShardsAssumption DEF Idle, Missing, Torn
        <2>3. loads' \in [Slots -> [net : Nets \union {None}, body : 0..Torn]]
            BY <2>1, <2>2 DEF LoadsInv
        <2>4. loads = NoLoads => loads' = NoLoads
            BY <2>1 DEF NoLoads
        <2>5. \A t \in Slots : loads'[t].net = None => loads'[t].body = Missing
            BY <2>1 DEF LoadsInv, Idle
        <2> QED BY <2>1, <2>3, <2>4, <2>5 DEF ExportInv, LoadsInv, PageInv, Sharded
    <1>11. ASSUME NEW s \in Slots, EndLoad(s)
           PROVE  ShardsInv'
        <2> DEFINE net == loads[s].net
                   body == loads[s].body
        <2>1. /\ UNCHANGED <<site, exports, viewer>>
              /\ LoadShard(net, body) /\ body # Missing
              /\ loads' = [loads EXCEPT ![s] = Idle]
            BY <1>11 DEF EndLoad
        <2>2. Idle \in [net : Nets \union {None}, body : 0..Torn]
            BY ShardsAssumption DEF Idle, Missing, Torn
        <2>3. loads' \in [Slots -> [net : Nets \union {None}, body : 0..Torn]]
            BY <2>1, <2>2 DEF LoadsInv
        <2>4. viewer.at = "ready"
            BY <2>1 DEF LoadsInv, NoLoads, Idle
        <2>5. HoldsShards(base, loaded) /\ loaded \in [Keys -> Numbers] /\ Global \in Held(loaded)
            BY <2>4 DEF PageInv, Sharded
        <2>6. net \in Keys /\ net # Global
            <3>1. net # None
                BY <1>11, <2>1 DEF EndLoad, LoadsInv
            <3> QED BY <3>1, KeysApart DEF LoadsInv, Keys
        <2>8. body \in Exports \union {Torn}
            BY <2>1, <2>6, FileIs DEF LoadsInv
        <2>7. loaded' \in [Keys -> Numbers] /\ HoldsShards(base', loaded') /\ Global \in Held(loaded')
            BY <2>1, <2>5, <2>6, <2>8, LoadShardHolds, GlobalStays
        <2>9. \A t \in Slots : loads'[t].net = None => loads'[t].body = Missing
            BY <2>1 DEF LoadsInv, Idle
        <2> QED BY <2>1, <2>3, <2>4, <2>7, <2>9 DEF ExportInv, LoadsInv, PageInv, Sharded
    <1>12. ASSUME NEW s \in Slots, NEW net \in Nets, BeginLoad(s, net)
           PROVE  ShardsInv'
        <2>1. /\ UNCHANGED <<site, exports, viewer, base, loaded>> /\ viewer.at = "ready"
              /\ loads' = [loads EXCEPT ![s] = [net |-> net, body |-> Missing]]
            BY <1>12 DEF BeginLoad
        <2>2. [net |-> net, body |-> Missing] \in [net : Nets \union {None}, body : 0..Torn]
            BY ShardsAssumption DEF Missing, Torn
        <2>3. loads' \in [Slots -> [net : Nets \union {None}, body : 0..Torn]]
            BY <2>1, <2>2 DEF LoadsInv
        <2>4. \A t \in Slots : loads'[t].net = None => loads'[t].body = Missing
            BY <2>1, KeysApart DEF LoadsInv
        <2> QED BY <2>1, <2>3, <2>4 DEF ExportInv, LoadsInv, PageInv, Sharded
    <1>13. CASE UNCHANGED vars
        BY <1>13 DEF vars, ExportInv, LoadsInv, PageInv, Sharded, Held
    <1>14. Visited \subseteq Nets
        BY ShardsAssumption
    <1> QED
        BY <1>1, <1>2, <1>3, <1>4, <1>5, <1>6, <1>7, <1>8, <1>9, <1>10, <1>11, <1>12, <1>13, <1>14
           DEF Next

\* What the properties say of a page follows from HoldsShards.
LEMMA InvGivesShards == ShardsInv => BaseIsLoadedShards
    <1> SUFFICES ASSUME ShardsInv PROVE BaseIsLoadedShards
        OBVIOUS
    <1>1. LoadedKeys = Held(loaded) /\ loaded \in [Keys -> Numbers]
        BY DEF ShardsInv, PageInv, LoadedKeys, Held
    <1>2. Sharded => HoldsShards(base, loaded)
        BY DEF ShardsInv, PageInv
    <1>3. viewer.at = "ready" => Sharded
        BY DEF Sharded
    <1>4. ASSUME Sharded
          PROVE  /\ base.nodes = {Api} \union UNION {Shard(loaded[k], k).nodes : k \in LoadedKeys}
                 /\ base.edges = Within(base.edges, base.nodes)
        <2>1. \A n : n \in base.nodes <=> n = Api \/ HasNode(loaded, n)
            BY <1>2, <1>4 DEF HoldsShards
        <2> QED BY <1>1, <1>2, <1>4, <2>1 DEF HoldsShards, HasNode
    <1>5. ASSUME viewer.at = "ready", Cardinality(LoadedExports) = 1,
                 NEW e \in Graphs[CHOOSE i \in LoadedExports : TRUE].edges,
                 e \notin TraceRelations(Graphs[CHOOSE i \in LoadedExports : TRUE]),
                 e[1] \in base.nodes, e[2] \in base.nodes
          PROVE  e \in base.edges
        <2>1. LoadedExports \subseteq Numbers
            BY <1>1 DEF LoadedExports, Held
        <2>2. IsFiniteSet(Numbers)
            <3>1. Len(Graphs) \in Nat
                BY ShardsAssumption
            <3> QED BY <3>1, FS_Interval DEF Numbers
        <2>3. IsFiniteSet(LoadedExports)
            BY <2>1, <2>2, FS_Subset
        <2>4. PICK i : LoadedExports = {i}
            BY <1>5, <2>3, FS_Singleton
        <2>5. e \in Graphs[i].edges \ TraceRelations(Graphs[i])
            BY <1>5, <2>4
        <2>6. \A k \in Held(loaded) : loaded[k] = i
            BY <1>1, <2>4 DEF LoadedExports
        <2>7. HoldsShards(base, loaded)
            BY <1>2, <1>3, <1>5
        <2>8. Global \in Held(loaded) /\ i \in Exports
            BY <1>1, <1>5, <2>6, ShardsAssumption
               DEF ShardsInv, PageInv, Held, Numbers, Exports, Missing
        <2>9. ASSUME NEW n \in base.nodes, n \in Graphs[i].states
              PROVE  \E k \in Held(loaded) : n \in Shard(loaded[k], k).nodes
            <3>1. CASE n = Api
                BY <2>6, <2>8, <2>9, <3>1, ApiIsGlobal, ShardsAssumption
            <3>2. CASE n # Api
                BY <2>7, <2>9, <3>2 DEF HoldsShards, HasNode
            <3> QED BY <3>1, <3>2
        <2>10. e[1] \in Graphs[i].states /\ e[2] \in Graphs[i].states
            BY <2>5, <2>8, EdgeEnds
        <2>11. PICK k \in Held(loaded) : e[1] \in Shard(loaded[k], k).nodes
            BY <1>5, <2>9, <2>10
        <2>12. PICK l \in Held(loaded) : e[2] \in Shard(loaded[l], l).nodes
            BY <1>5, <2>9, <2>10
        <2> QED BY <2>5, <2>6, <2>7, <2>11, <2>12 DEF HoldsShards
    <1> QED BY <1>4, <1>5 DEF BaseIsLoadedShards

\* A page holds exactly the API node and what the shards it has loaded say, and
\* every relation between its nodes that is in a shard when they are of one
\* export, however exports, loads, unloads and failures interleave.
THEOREM PagesHoldTheirShards == Spec => []BaseIsLoadedShards
    <1>1. Init => ShardsInv
        BY InitShardsInv
    <1>2. ShardsInv /\ [Next]_vars => ShardsInv'
        BY NextShardsInv
    <1>3. ShardsInv => BaseIsLoadedShards
        BY InvGivesShards
    <1> QED BY <1>1, <1>2, <1>3, PTL DEF Spec
=============================================================================
