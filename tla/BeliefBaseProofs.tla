-------------------------- MODULE BeliefBaseProofs --------------------------
(***************************************************************************)
(* Proofs about BeliefBase, for any set of nodes, kinds and owners: the    *)
(* index of a belief base is exact whenever it is clean, and a base that   *)
(* looks everything up through it implements the abstract BeliefGraph.     *)
(*                                                                         *)
(* Neither CleanIndexIsExact nor the refinement is inductive by itself: a  *)
(* stale index is harmless only because it is dirty, and rebuilding it     *)
(* gives every node one position only if no node is in the graph twice or  *)
(* without a state.  IndexInv is the conjunction of these.                 *)
(***************************************************************************)
EXTENDS BeliefBase, OrderLemmas, TLAPS, FiniteSetTheorems

\* A value that assigns every kind something, and one that assigns every
\* pair such a value.
IsWeights(ws) == ws = [k \in Kinds |-> ws[k]]
IsGraph(e) == e = [p \in Pairs |-> e[p]] /\ \A p \in Pairs : IsWeights(e[p])

NoDuplicates(n) == \A i, j \in DOMAIN n : n[i] = n[j] => i = j

\* Only the nodes of a set have relations.
EndsInGraph(e, set) == \A p \in Pairs : e[p] # NoWeights => {p[1], p[2]} \subseteq set

IndexInv ==
    /\ states \subseteq Bids
    /\ nodes \in Seq(Bids)
    /\ NoDuplicates(nodes)
    /\ InGraph(nodes) \subseteq states
    /\ dirty \in BOOLEAN
    /\ CleanIndexIsExact
    /\ IsGraph(edges)
    /\ EndsInGraph(edges, InGraph(nodes))
    /\ ~Idle => /\ replacing[1] \in states
                /\ replacing[2] \subseteq states \ {replacing[1]}

----------------------------------------------------------------------------
\* Sequences without duplicates and their index

\* Looking up a node in the index of a sequence gives its position.
LEMMA IndexLookup ==
    ASSUME NEW n \in Seq(Bids), NEW b \in InGraph(n)
    PROVE  /\ IndexOf(n)[b] \in DOMAIN n
           /\ n[IndexOf(n)[b]] = b
    <1>1. PICK i \in DOMAIN n : n[i] = b
        BY DEF InGraph
    <1>2. IndexOf(n)[b] = CHOOSE j \in DOMAIN n : n[j] = b
        BY DEF IndexOf
    <1> QED BY <1>1, <1>2

\* The sequences that Orderings lists are sequences of the whole set,
\* without duplicates.
LEMMA OrderingsAre ==
    ASSUME NEW set \in SUBSET Bids, NEW s \in Orderings(set)
    PROVE  /\ s \in Seq(set) /\ s \in Seq(Bids)
           /\ InGraph(s) = set
           /\ NoDuplicates(s)
    <1>1. Cardinality(set) \in Nat
        BY EdgesAssumption, FS_Subset, FS_CardinalityType
    <1>2. /\ s \in [1..Cardinality(set) -> set]
          /\ \A x, y \in 1..Cardinality(set) : s[x] = s[y] => x = y
          /\ \A t \in set : \E x \in 1..Cardinality(set) : s[x] = t
        BY DEF Orderings, Bijection, Injection, Surjection, IsInjective
    <1>3. DOMAIN s = 1..Cardinality(set)
        BY <1>2
    <1>4. s \in Seq(set)
        BY <1>1, <1>2
    <1>5. s \in Seq(Bids)
        BY <1>1, <1>2
    <1>6. InGraph(s) = set
        BY <1>2, <1>3 DEF InGraph
    <1> QED BY <1>2, <1>3, <1>4, <1>5, <1>6 DEF NoDuplicates

\* Appending the nodes that are missing keeps a sequence free of duplicates.
LEMMA AppendMissing ==
    ASSUME NEW n \in Seq(Bids), NoDuplicates(n),
           NEW a \in Seq(Bids), NoDuplicates(a),
           InGraph(n) \cap InGraph(a) = {}
    PROVE  /\ n \o a \in Seq(Bids)
           /\ NoDuplicates(n \o a)
           /\ InGraph(n \o a) = InGraph(n) \union InGraph(a)
    <1>1. n \o a \in Seq(Bids) /\ Len(n \o a) = Len(n) + Len(a)
        OBVIOUS
    <1>2. /\ DOMAIN (n \o a) = 1..(Len(n) + Len(a))
          /\ DOMAIN n = 1..Len(n) /\ DOMAIN a = 1..Len(a)
          /\ Len(n) \in Nat /\ Len(a) \in Nat
        OBVIOUS
    <1>3. \A i \in 1..(Len(n) + Len(a)) :
             (n \o a)[i] = IF i <= Len(n) THEN n[i] ELSE a[i - Len(n)]
        OBVIOUS
    <1>4. ASSUME NEW i \in DOMAIN (n \o a), NEW j \in DOMAIN (n \o a), (n \o a)[i] = (n \o a)[j]
          PROVE  i = j
        <2>1. CASE i <= Len(n) /\ j <= Len(n)
            BY <1>2, <1>3, <1>4, <2>1 DEF NoDuplicates
        <2>2. CASE ~(i <= Len(n)) /\ ~(j <= Len(n))
            <3>1. i - Len(n) \in DOMAIN a /\ j - Len(n) \in DOMAIN a
                BY <1>2, <2>2
            <3>2. a[i - Len(n)] = a[j - Len(n)]
                BY <1>2, <1>3, <1>4, <2>2
            <3>3. i - Len(n) = j - Len(n)
                BY <3>1, <3>2 DEF NoDuplicates
            <3> QED BY <1>2, <3>3
        <2>3. CASE i <= Len(n) /\ ~(j <= Len(n))
            <3>1. i \in DOMAIN n /\ j - Len(n) \in DOMAIN a /\ n[i] = a[j - Len(n)]
                BY <1>2, <1>3, <1>4, <2>3
            <3> QED BY <3>1 DEF InGraph
        <2>4. CASE ~(i <= Len(n)) /\ j <= Len(n)
            <3>1. j \in DOMAIN n /\ i - Len(n) \in DOMAIN a /\ n[j] = a[i - Len(n)]
                BY <1>2, <1>3, <1>4, <2>4
            <3> QED BY <3>1 DEF InGraph
        <2> QED BY <2>1, <2>2, <2>3, <2>4
    <1>5. InGraph(n \o a) \subseteq InGraph(n) \union InGraph(a)
        <2> SUFFICES ASSUME NEW i \in DOMAIN (n \o a)
                     PROVE  (n \o a)[i] \in InGraph(n) \union InGraph(a)
            BY DEF InGraph
        <2>1. CASE i <= Len(n)
            BY <1>2, <1>3, <2>1 DEF InGraph
        <2>2. CASE ~(i <= Len(n))
            <3>1. i - Len(n) \in DOMAIN a /\ (n \o a)[i] = a[i - Len(n)]
                BY <1>2, <1>3, <2>2
            <3> QED BY <3>1 DEF InGraph
        <2> QED BY <2>1, <2>2
    <1>6. InGraph(n) \subseteq InGraph(n \o a)
        <2> SUFFICES ASSUME NEW i \in DOMAIN n PROVE n[i] \in InGraph(n \o a)
            BY DEF InGraph
        <2>1. i \in DOMAIN (n \o a) /\ (n \o a)[i] = n[i]
            BY <1>2, <1>3
        <2> QED BY <2>1 DEF InGraph
    <1>7. InGraph(a) \subseteq InGraph(n \o a)
        <2> SUFFICES ASSUME NEW i \in DOMAIN a PROVE a[i] \in InGraph(n \o a)
            BY DEF InGraph
        <2>1. i + Len(n) \in DOMAIN (n \o a) /\ (n \o a)[i + Len(n)] = a[i]
            BY <1>2, <1>3
        <2> QED BY <2>1 DEF InGraph
    <1> QED BY <1>1, <1>4, <1>5, <1>6, <1>7 DEF NoDuplicates

\* The nodes that index_sync leaves in the graph: those that were there and
\* those that were only in states.
LEMMA Rebuilt ==
    ASSUME NEW n \in Seq(Bids), NoDuplicates(n),
           NEW set \in SUBSET Bids, InGraph(n) \subseteq set,
           NEW added \in Orderings(set \ InGraph(n))
    PROVE  /\ n \o added \in Seq(Bids)
           /\ NoDuplicates(n \o added)
           /\ InGraph(n \o added) = set
    <1>1. /\ added \in Seq(Bids) /\ NoDuplicates(added)
          /\ InGraph(added) = set \ InGraph(n)
        BY OrderingsAre
    <1>2. /\ n \o added \in Seq(Bids) /\ NoDuplicates(n \o added)
          /\ InGraph(n \o added) = InGraph(n) \union InGraph(added)
        BY <1>1, AppendMissing
    <1> QED BY <1>1, <1>2

\* After index_sync the index is exact, and every node of the base is in the
\* graph but one that was inserted since.
LEMMA Synced ==
    ASSUME IndexInv, NEW g \in SyncResults
    PROVE  /\ g.nodes \in Seq(Bids)
           /\ NoDuplicates(g.nodes)
           /\ InGraph(nodes) \subseteq InGraph(g.nodes)
           /\ InGraph(g.nodes) \subseteq states
           /\ g.index = IndexOf(g.nodes)
           /\ states \subseteq InGraph(g.nodes) \union (IF Idle THEN {} ELSE {replacing[1]})
    <1>1. CASE dirty
        <2>1. PICK added \in Orderings(states \ InGraph(nodes)) :
                 g = [nodes |-> nodes \o added, index |-> IndexOf(nodes \o added)]
            BY <1>1 DEF SyncResults
        <2>2. /\ nodes \o added \in Seq(Bids)
              /\ NoDuplicates(nodes \o added)
              /\ InGraph(nodes \o added) = states
            BY Rebuilt DEF IndexInv
        <2> QED BY <2>1, <2>2 DEF IndexInv
    <1>2. CASE ~dirty
        <2>1. g = [nodes |-> nodes, index |-> index]
            BY <1>2 DEF SyncResults
        <2> QED BY <1>2, <2>1 DEF IndexInv, CleanIndexIsExact
    <1> QED BY <1>1, <1>2

\* What the code finds under a node in an exact index is that node.
LEMMA FindsItself ==
    ASSUME NEW g, g.nodes \in Seq(Bids), g.index = IndexOf(g.nodes),
           NEW b \in DOMAIN g.index
    PROVE  b \in InGraph(g.nodes) /\ At(g, b) = b
    <1>1. b \in InGraph(g.nodes)
        BY DEF IndexOf
    <1> QED BY <1>1, IndexLookup DEF At

\* Removing the node at a position takes it out of the graph and no other.
LEMMA SwapRemoved ==
    ASSUME NEW n \in Seq(Bids), NoDuplicates(n), NEW i \in DOMAIN n
    PROVE  /\ SwapRemove(n, i) \in Seq(Bids)
           /\ NoDuplicates(SwapRemove(n, i))
           /\ InGraph(SwapRemove(n, i)) = InGraph(n) \ {n[i]}
    <1> DEFINE m == SwapRemove(n, i)
    <1>1. /\ Len(n) \in Nat /\ DOMAIN n = 1..Len(n) /\ Len(n) > 0 /\ Len(n) - 1 \in Nat
          /\ \A j \in 1..Len(n) : n[j] \in Bids
        OBVIOUS
    <1>2. m = [j \in 1..(Len(n) - 1) |-> IF j = i THEN n[Len(n)] ELSE n[j]]
        BY DEF SwapRemove
    <1>3. DOMAIN m = 1..(Len(n) - 1)
        BY <1>2
    <1>4. m \in Seq(Bids)
        <2>1. m \in [1..(Len(n) - 1) -> Bids]
            BY <1>1, <1>2
        <2> QED BY <1>1, <2>1
    <1>5. \A j \in DOMAIN m : m[j] = IF j = i THEN n[Len(n)] ELSE n[j]
        BY <1>2, <1>3
    <1>6. ASSUME NEW j \in DOMAIN m, NEW k \in DOMAIN m, m[j] = m[k]
          PROVE  j = k
        <2>1. j \in DOMAIN n /\ k \in DOMAIN n /\ Len(n) \in DOMAIN n
              /\ j # Len(n) /\ k # Len(n)
            BY <1>1, <1>3
        <2> QED BY <1>5, <1>6, <2>1 DEF NoDuplicates
    <1>7. InGraph(m) \subseteq InGraph(n) \ {n[i]}
        <2> SUFFICES ASSUME NEW j \in DOMAIN m PROVE m[j] \in InGraph(n) \ {n[i]}
            BY DEF InGraph
        <2>1. j \in DOMAIN n /\ Len(n) \in DOMAIN n /\ j # Len(n)
            BY <1>1, <1>3
        <2> QED BY <1>5, <2>1 DEF NoDuplicates, InGraph
    <1>8. InGraph(n) \ {n[i]} \subseteq InGraph(m)
        <2> SUFFICES ASSUME NEW j \in DOMAIN n, n[j] # n[i] PROVE n[j] \in InGraph(m)
            BY DEF InGraph
        <2>1. CASE j = Len(n)
            <3>1. i \in DOMAIN m /\ m[i] = n[j]
                BY <1>1, <1>3, <1>5, <2>1
            <3> QED BY <3>1 DEF InGraph
        <2>2. CASE j # Len(n)
            <3>1. j \in DOMAIN m /\ m[j] = n[j]
                BY <1>1, <1>3, <1>5, <2>2
            <3> QED BY <3>1 DEF InGraph
        <2> QED BY <2>1, <2>2
    <1> HIDE DEF m
    <1> QED BY <1>4, <1>6, <1>7, <1>8 DEF m, NoDuplicates

----------------------------------------------------------------------------
\* What the operations do to the relations

\* What the operations assign to a pair.
LEMMA WeightsAre ==
    /\ IsWeights(NoWeights)
    /\ \A x, y : IsWeights(WeightUnion(x, y))
    /\ \A x : x = NoWeights => NonSection(x) = NoWeights
    /\ WeightUnion(NoWeights, NoWeights) = NoWeights
    BY DEF IsWeights, NoWeights, WeightUnion, NonSection

\* Reindexing changes keys only: no relation appears.
LEMMA ReindexedGraph ==
    ASSUME NEW e, NEW affected, NEW r \in Reindexed(e, affected), NEW set,
           IsGraph(e), EndsInGraph(e, set)
    PROVE  /\ IsGraph(r)
           /\ EndsInGraph(r, set)
           /\ \A p \in Pairs :
                 (\A k \in Kinds : <<p[2], k>> \notin affected \/ e[p][k] = NoWeight) => r[p] = e[p]
    <1> DEFINE numberings ==
                  {n \in [affected -> UNION {Renumberings(e, a[1], a[2]) : a \in affected}] :
                      \A a \in affected : n[a] \in Renumberings(e, a[1], a[2])}
               weight(n, p, k) ==
                  IF <<p[2], k>> \in affected /\ e[p][k] # NoWeight
                  THEN [e[p][k] EXCEPT !.key = n[<<p[2], k>>][p[1]]]
                  ELSE e[p][k]
    <1>1. PICK n \in numberings : r = [p \in Pairs |-> [k \in Kinds |-> weight(n, p, k)]]
        BY Zenon DEF Reindexed
    <1> HIDE DEF numberings
    <1>2. \A p \in Pairs : r[p] = [k \in Kinds |-> weight(n, p, k)]
        BY <1>1
    <1>3. IsGraph(r)
        <2> HIDE DEF weight
        <2>1. \A p \in Pairs : IsWeights(r[p])
            BY <1>2 DEF IsWeights
        <2>2. r = [p \in Pairs |-> r[p]]
            BY <1>1
        <2> QED BY <2>1, <2>2 DEF IsGraph
    <1>4. \A p \in Pairs : e[p] = [k \in Kinds |-> e[p][k]]
        BY DEF IsGraph, IsWeights
    <1>5. ASSUME NEW p \in Pairs,
                 \A k \in Kinds : <<p[2], k>> \notin affected \/ e[p][k] = NoWeight
          PROVE  r[p] = e[p]
        <2>1. \A k \in Kinds : weight(n, p, k) = e[p][k]
            BY <1>5
        <2> HIDE DEF weight
        <2>2. r[p] = [k \in Kinds |-> e[p][k]]
            BY <1>2, <2>1
        <2> QED BY <1>4, <2>2
    <1>6. EndsInGraph(r, set)
        <2> SUFFICES ASSUME NEW p \in Pairs, e[p] = NoWeights PROVE r[p] = NoWeights
            BY DEF EndsInGraph
        <2>1. \A k \in Kinds : e[p][k] = NoWeight
            BY DEF NoWeights
        <2> QED BY <1>5, <2>1
    <1> QED BY <1>3, <1>5, <1>6

\* update_relation leaves the relation with exactly the weights it was given.
LEMMA UpdatedGraph ==
    ASSUME NEW e, IsGraph(e), NEW set \in SUBSET Bids, EndsInGraph(e, set),
           NEW s \in set, NEW t \in set,
           NEW ws, IsWeights(ws),
           NEW r \in UpdatedRelation(e, s, t, ws)
    PROVE  /\ IsGraph(r)
           /\ EndsInGraph(r, set)
           /\ r[<<s, t>>] = ws
    <1> DEFINE d == [e EXCEPT ![<<s, t>>] = ws]
               affected == {t} \X (KindsOf(e[<<s, t>>]) \ KindsOf(ws))
    <1>1. <<s, t>> \in Pairs
        BY DEF Pairs
    <1>2. DOMAIN e = Pairs
        BY DEF IsGraph
    <1>3. /\ d[<<s, t>>] = ws
          /\ \A p \in Pairs : p # <<s, t>> => d[p] = e[p]
          /\ d = [p \in Pairs |-> d[p]]
        BY <1>1, <1>2
    <1>4. r \in Reindexed(d, affected)
        BY DEF UpdatedRelation
    <1> HIDE DEF d
    <1>6. IsGraph(d)
        BY <1>3 DEF IsGraph
    <1>7. EndsInGraph(d, set)
        BY <1>1, <1>3 DEF EndsInGraph
    <1>8. \A k \in Kinds : <<t, k>> \notin affected \/ d[<<s, t>>][k] = NoWeight
        BY <1>3 DEF KindsOf
    <1> HIDE DEF affected
    <1>9. IsGraph(r) /\ EndsInGraph(r, set)
        BY <1>4, <1>6, <1>7, ReindexedGraph
    <1>10. r[<<s, t>>] = d[<<s, t>>]
        <2>1. \A k \in Kinds : <<<<s, t>>[2], k>> \notin affected \/ d[<<s, t>>][k] = NoWeight
            BY <1>8
        <2> QED BY <1>1, <1>4, <1>6, <1>7, <2>1, ReindexedGraph
    <1> QED BY <1>3, <1>9, <1>10

\* remove_nodes leaves no relation of a removed node.
LEMMA RemovedGraph ==
    ASSUME NEW e, IsGraph(e), NEW set \in SUBSET Bids, EndsInGraph(e, set),
           NEW removed \in SUBSET Bids,
           NEW r \in WithoutNodes(e, removed)
    PROVE  IsGraph(r) /\ EndsInGraph(r, set \ removed)
    <1> DEFINE d == [p \in Pairs |-> IF p[1] \in removed \/ p[2] \in removed
                                     THEN NoWeights ELSE e[p]]
    <1>1. PICK affected : r \in Reindexed(d, affected)
        BY DEF WithoutNodes
    <1>2. /\ DOMAIN d = Pairs
          /\ \A p \in Pairs : d[p] = IF p[1] \in removed \/ p[2] \in removed
                                     THEN NoWeights ELSE e[p]
          /\ d = [p \in Pairs |-> d[p]]
        OBVIOUS
    <1> HIDE DEF d
    <1>5. IsGraph(d)
        BY <1>2, WeightsAre DEF IsGraph
    <1>6. EndsInGraph(d, set \ removed)
        BY <1>2 DEF EndsInGraph
    <1> QED BY <1>1, <1>5, <1>6, ReindexedGraph

\* replace_bid leaves no relation of the old node, and gives relations to
\* the new node and to nodes that had some.
LEMMA ReplacedGraph ==
    ASSUME NEW e, IsGraph(e), NEW set \in SUBSET Bids, EndsInGraph(e, set),
           NEW old \in Bids, NEW new \in Bids, old # new
    PROVE  /\ IsGraph(ReplacedNode(e, old, new))
           /\ EndsInGraph(ReplacedNode(e, old, new), (set \ {old}) \union {new})
    <1> DEFINE moved == [p \in Pairs |->
                    CASE p[1] = old -> NoWeights
                      [] p[1] = new -> WeightUnion(e[p], NonSection(e[<<old, p[2]>>]))
                      [] OTHER      -> e[p]]
               r == ReplacedNode(e, old, new)
    <1>1. r = [p \in Pairs |->
                CASE p[2] = old -> NoWeights
                  [] p[2] = new -> WeightUnion(moved[p], NonSection(moved[<<p[1], old>>]))
                  [] OTHER      -> moved[p]]
        BY Zenon DEF ReplacedNode
    <1>2. \A p \in Pairs :
             /\ p[1] = old => moved[p] = NoWeights
             /\ p[1] = new => moved[p] = WeightUnion(e[p], NonSection(e[<<old, p[2]>>]))
             /\ p[1] # old /\ p[1] # new => moved[p] = e[p]
        OBVIOUS
    <1> HIDE DEF moved
    <1>3. \A p \in Pairs :
             /\ p[2] = old => r[p] = NoWeights
             /\ p[2] = new => r[p] = WeightUnion(moved[p], NonSection(moved[<<p[1], old>>]))
             /\ p[2] # old /\ p[2] # new => r[p] = moved[p]
        BY <1>1
    <1>4. r = [p \in Pairs |-> r[p]]
        BY <1>1
    <1> HIDE DEF r
    <1>6. IsGraph(r)
        <2>1. ASSUME NEW p \in Pairs PROVE IsWeights(moved[p])
            <3>1. CASE p[1] = old
                BY <1>2, <3>1, WeightsAre
            <3>2. CASE p[1] = new
                <4>1. moved[p] = WeightUnion(e[p], NonSection(e[<<old, p[2]>>]))
                    BY <1>2, <3>2
                <4> QED BY <4>1, WeightsAre, Zenon
            <3>3. CASE p[1] # old /\ p[1] # new
                BY <1>2, <3>3 DEF IsGraph
            <3> QED BY <3>1, <3>2, <3>3
        <2>2. ASSUME NEW p \in Pairs PROVE IsWeights(r[p])
            <3>1. CASE p[2] = old
                BY <1>3, <3>1, WeightsAre
            <3>2. CASE p[2] = new
                <4>1. r[p] = WeightUnion(moved[p], NonSection(moved[<<p[1], old>>]))
                    BY <1>3, <3>2
                <4> QED BY <4>1, WeightsAre, Zenon
            <3>3. CASE p[2] # old /\ p[2] # new
                BY <1>3, <2>1, <3>3
            <3> QED BY <3>1, <3>2, <3>3
        <2> QED BY <1>4, <2>2 DEF IsGraph
    <1>7. \A p \in Pairs : /\ <<old, p[2]>> \in Pairs /\ <<p[1], old>> \in Pairs
                         /\ p[1] \in Bids /\ p[2] \in Bids
        BY DEF Pairs
    <1>8. \A p \in Pairs : moved[p] # NoWeights =>
             {p[1], p[2]} \subseteq (set \ {old}) \union {new, old} /\ p[1] # old
        BY <1>2, WeightsAre, <1>7 DEF EndsInGraph
    <1>9. \A p \in Pairs : r[p] # NoWeights => {p[1], p[2]} \subseteq (set \ {old}) \union {new}
        BY <1>3, WeightsAre, <1>7, <1>8
    <1> QED BY <1>6, <1>9 DEF r, EndsInGraph

----------------------------------------------------------------------------
\* Every step keeps the invariant

\* NodeUpdate inserts a node; with nodes to replace it leaves a clean index.
LEMMA NodeUpdateKeeps ==
    ASSUME IndexInv, NEW b \in Bids, NEW replaced \in SUBSET states,
           NEW changed \in BOOLEAN, NodeUpdate(b, replaced, changed)
    PROVE  IndexInv'
    <1>1. CASE replaced = {}
        BY <1>1 DEF NodeUpdate, IndexInv, CleanIndexIsExact, Idle
    <1>2. CASE replaced # {}
        <2>1. PICK g \in SyncResults : nodes' = g.nodes /\ index' = g.index
            BY <1>2 DEF NodeUpdate
        <2>2. /\ states' = states \union {b} /\ edges' = edges /\ dirty' = FALSE
              /\ replacing' = <<b, replaced>> /\ b \notin replaced /\ Idle
            BY <1>2 DEF NodeUpdate
        <2>3. ~Idle' /\ replacing'[1] = b /\ replacing'[2] = replaced
            BY <2>2 DEF Idle
        <2>4. EndsInGraph(edges, InGraph(g.nodes))
            BY Synced DEF IndexInv, EndsInGraph
        <2> QED BY <2>1, <2>2, <2>3, <2>4, Synced DEF IndexInv, CleanIndexIsExact
    <1> QED BY <1>1, <1>2

\* NodeUpdate with unknown keys synchronizes and inserts.
LEMMA NodeUpdateUnknownKeysKeeps ==
    ASSUME IndexInv, NEW b \in Bids, NEW changed \in BOOLEAN,
           NodeUpdateUnknownKeys(b, changed)
    PROVE  IndexInv'
    <1>1. PICK g \in SyncResults : nodes' = g.nodes /\ index' = g.index
        BY DEF NodeUpdateUnknownKeys
    <1>2. EndsInGraph(edges, InGraph(g.nodes))
        BY Synced DEF IndexInv, EndsInGraph
    <1> QED BY <1>1, <1>2, Synced DEF NodeUpdateUnknownKeys, IndexInv, CleanIndexIsExact, Idle

\* A replacement takes the old node from states and graph and leaves the
\* index dirty.  The new node may have entered the graph last.
LEMMA ReplaceBidKeeps ==
    ASSUME IndexInv, NEW old \in Bids, ReplaceBid(old)
    PROVE  /\ IndexInv'
           /\ replacing[1] \in states /\ old \in states /\ old # replacing[1]
           /\ edges' = ReplacedNode(edges, old, replacing[1])
    <1> DEFINE new == replacing[1]
    <1>1. PICK g \in SyncResults :
             LET known == new \in DOMAIN g.index
                 h     == IF known THEN g ELSE [g EXCEPT !.nodes = Append(@, new)]
                 newAt == IF known THEN At(g, new) ELSE new
             IN  /\ edges' = ReplacedNode(edges, At(h, old), newAt)
                 /\ nodes' = SwapRemove(h.nodes, h.index[old])
                 /\ index' = h.index
        BY DEF ReplaceBid
    <1> DEFINE h == IF new \in DOMAIN g.index THEN g ELSE [g EXCEPT !.nodes = Append(@, new)]
               newAt == IF new \in DOMAIN g.index THEN At(g, new) ELSE new
    <1>2. /\ edges' = ReplacedNode(edges, At(h, old), newAt)
          /\ nodes' = SwapRemove(h.nodes, h.index[old])
        BY <1>1
    <1>3. /\ ~Idle /\ old \in replacing[2] /\ dirty' = TRUE /\ states' = states \ {old}
          /\ replacing' = IF replacing[2] = {old} THEN <<>>
                          ELSE <<replacing[1], replacing[2] \ {old}>>
        BY DEF ReplaceBid
    <1>4. new \in states /\ old \in states /\ old # new /\ new \in Bids
        BY <1>3 DEF IndexInv
    <1>5. /\ g.nodes \in Seq(Bids) /\ NoDuplicates(g.nodes)
          /\ InGraph(nodes) \subseteq InGraph(g.nodes) /\ InGraph(g.nodes) \subseteq states
          /\ g.index = IndexOf(g.nodes) /\ old \in InGraph(g.nodes)
          /\ DOMAIN g.index = InGraph(g.nodes)
        BY <1>3, <1>4, Synced DEF IndexOf
    <1>6. newAt = new
        BY <1>5, FindsItself
    <1>7. /\ g.index[old] \in DOMAIN g.nodes
          /\ g.nodes[g.index[old]] = old
        BY <1>5, IndexLookup
    <1>8. /\ h.nodes \in Seq(Bids) /\ NoDuplicates(h.nodes)
          /\ InGraph(h.nodes) = InGraph(g.nodes) \union {new}
          /\ h.index = g.index
          /\ g.index[old] \in DOMAIN h.nodes
          /\ h.nodes[g.index[old]] = old
        <2>1. CASE new \in DOMAIN g.index
            BY <1>5, <1>7, <2>1
        <2>2. CASE new \notin DOMAIN g.index
            <3>1. g \in [nodes : Seq(Bids), index : {g.index}]
                <4>1. \E n, x : g = [nodes |-> n, index |-> x]
                    BY DEF SyncResults
                <4> QED BY <1>5, <4>1
            <3>2. h.nodes = Append(g.nodes, new) /\ h.index = g.index
                BY <2>2, <3>1
            <3>3. /\ Len(g.nodes) \in Nat
                  /\ DOMAIN g.nodes = 1..Len(g.nodes)
                  /\ DOMAIN h.nodes = 1..(Len(g.nodes) + 1)
                  /\ \A i \in 1..(Len(g.nodes) + 1) :
                        h.nodes[i] = IF i = Len(g.nodes) + 1 THEN new ELSE g.nodes[i]
                  /\ h.nodes \in Seq(Bids)
                BY <1>4, <1>5, <3>2
            <3>4. new \notin InGraph(g.nodes)
                BY <1>5, <2>2
            <3> HIDE DEF h
            <3>5. NoDuplicates(h.nodes)
                <4> SUFFICES ASSUME NEW i \in DOMAIN h.nodes, NEW j \in DOMAIN h.nodes,
                                    h.nodes[i] = h.nodes[j]
                             PROVE  i = j
                    BY DEF NoDuplicates
                <4>1. \A k \in DOMAIN g.nodes : g.nodes[k] # new
                    BY <3>4 DEF InGraph
                <4>2. /\ i \in 1..(Len(g.nodes) + 1) /\ j \in 1..(Len(g.nodes) + 1)
                      /\ i # Len(g.nodes) + 1 => i \in DOMAIN g.nodes /\ h.nodes[i] = g.nodes[i]
                      /\ j # Len(g.nodes) + 1 => j \in DOMAIN g.nodes /\ h.nodes[j] = g.nodes[j]
                      /\ i = Len(g.nodes) + 1 => h.nodes[i] = new
                      /\ j = Len(g.nodes) + 1 => h.nodes[j] = new
                    BY <3>3
                <4>3. CASE i # Len(g.nodes) + 1 /\ j # Len(g.nodes) + 1
                    BY <1>5, <4>2, <4>3 DEF NoDuplicates
                <4>4. CASE i = Len(g.nodes) + 1 \/ j = Len(g.nodes) + 1
                    BY <4>1, <4>2, <4>4
                <4> QED BY <4>3, <4>4
            <3>6. InGraph(h.nodes) = InGraph(g.nodes) \union {new}
                <4>1. InGraph(h.nodes) \subseteq InGraph(g.nodes) \union {new}
                    BY <3>3 DEF InGraph
                <4>2. InGraph(g.nodes) \subseteq InGraph(h.nodes)
                    BY <3>3 DEF InGraph
                <4>3. new \in InGraph(h.nodes)
                    <5>1. Len(g.nodes) + 1 \in DOMAIN h.nodes /\ h.nodes[Len(g.nodes) + 1] = new
                        BY <3>3
                    <5> QED BY <5>1 DEF InGraph
                <4> QED BY <4>1, <4>2, <4>3
            <3> QED BY <1>7, <3>2, <3>3, <3>5, <3>6
        <2> QED BY <2>1, <2>2
    <1> HIDE DEF h, newAt
    <1>9. At(h, old) = old
        BY <1>8 DEF At
    <1>10. edges' = ReplacedNode(edges, old, new)
        BY <1>2, <1>6, <1>9
    <1>11. /\ nodes' \in Seq(Bids) /\ NoDuplicates(nodes')
           /\ InGraph(nodes') = (InGraph(g.nodes) \union {new}) \ {old}
        BY <1>2, <1>8, SwapRemoved
    <1>12. IsGraph(edges') /\ EndsInGraph(edges', InGraph(nodes'))
        <2>1. /\ IsGraph(edges) /\ EndsInGraph(edges, InGraph(g.nodes))
              /\ InGraph(g.nodes) \in SUBSET Bids
            BY <1>5 DEF IndexInv, EndsInGraph
        <2>2. (InGraph(g.nodes) \ {old}) \union {new} = InGraph(nodes')
            BY <1>4, <1>11
        <2>3. IsGraph(edges') /\ EndsInGraph(edges', (InGraph(g.nodes) \ {old}) \union {new})
            BY <1>4, <1>10, <2>1, ReplacedGraph
        <2> QED BY <2>2, <2>3
    <1>13. ~Idle' => replacing'[1] \in states' /\ replacing'[2] \subseteq states' \ {replacing'[1]}
        BY <1>3, <1>4 DEF Idle, IndexInv
    <1>14. CleanIndexIsExact'
        BY <1>3, <1>5, <1>11 DEF CleanIndexIsExact
    <1> QED BY <1>3, <1>4, <1>5, <1>10, <1>11, <1>12, <1>13, <1>14 DEF IndexInv

\* NodesRemoved takes nodes from states, graph and relations alike.
LEMMA NodesRemovedKeeps ==
    ASSUME IndexInv, NEW removed \in SUBSET Bids, NodesRemoved(removed)
    PROVE  IndexInv'
    <1>1. PICK g \in SyncResults :
             \E kept \in Orderings(InGraph(g.nodes) \ removed) :
                /\ nodes' = kept
                /\ IF \E r \in removed, t \in Bids : edges[<<r, t>>] # NoWeights
                   THEN index' = IndexOf(kept) /\ dirty' = FALSE
                   ELSE index' = g.index /\ dirty' = TRUE
        BY DEF NodesRemoved
    <1>2. PICK kept \in Orderings(InGraph(g.nodes) \ removed) :
                /\ nodes' = kept
                /\ \/ index' = IndexOf(kept) /\ dirty' = FALSE
                   \/ index' = g.index /\ dirty' = TRUE
        BY <1>1
    <1>3. /\ Idle /\ states' = states \ removed
          /\ edges' \in WithoutNodes(edges, removed)
          /\ replacing' = replacing
        BY DEF NodesRemoved
    <1>4. /\ InGraph(nodes) \subseteq InGraph(g.nodes) /\ InGraph(g.nodes) \subseteq states
          /\ states \subseteq InGraph(g.nodes)
        BY <1>3, Synced
    <1>5. /\ kept \in Seq(Bids) /\ NoDuplicates(kept)
          /\ InGraph(kept) = InGraph(g.nodes) \ removed
        BY <1>4, OrderingsAre DEF IndexInv
    <1>6. IsGraph(edges') /\ EndsInGraph(edges', InGraph(kept))
        <2>1. /\ IsGraph(edges) /\ EndsInGraph(edges, InGraph(g.nodes))
              /\ InGraph(g.nodes) \in SUBSET Bids
            BY <1>4 DEF IndexInv, EndsInGraph
        <2>2. edges' \in WithoutNodes(edges, removed)
            BY <1>3
        <2>3. IsGraph(edges') /\ EndsInGraph(edges', InGraph(g.nodes) \ removed)
            BY <2>1, <2>2, RemovedGraph
        <2> QED BY <1>5, <2>3
    <1>7. dirty' \in BOOLEAN /\ (~dirty' => index' = IndexOf(nodes'))
        BY <1>2
    <1>8. /\ nodes' = kept /\ InGraph(kept) \subseteq InGraph(g.nodes)
          /\ states' \subseteq InGraph(kept) /\ InGraph(kept) \subseteq states'
        BY <1>2, <1>3, <1>4, <1>5
    <1>9. /\ states' \subseteq Bids
          /\ ~Idle' => replacing'[1] \in states' /\ replacing'[2] \subseteq states' \ {replacing'[1]}
        BY <1>3 DEF IndexInv, Idle
    <1>10. CleanIndexIsExact'
        <2>1. states' \subseteq InGraph(nodes')
            BY <1>8
        <2> QED BY <1>7, <2>1 DEF CleanIndexIsExact
    <1>11. nodes' \in Seq(Bids) /\ NoDuplicates(nodes') /\ InGraph(nodes') \subseteq states'
        BY <1>5, <1>8
    <1>12. IsGraph(edges') /\ EndsInGraph(edges', InGraph(nodes'))
        BY <1>6, <1>8
    <1> QED BY <1>7, <1>9, <1>10, <1>11, <1>12 DEF IndexInv

\* update_relation leaves nodes and index in step, and gives weights to the
\* two nodes that it was asked for, if it knows them.
LEMMA UpdateAtKeeps ==
    ASSUME IndexInv, Idle, NEW g \in SyncResults,
           NEW source \in Bids, NEW sink \in Bids, NEW ws,
           {source, sink} \subseteq DOMAIN g.index => IsWeights(ws),
           UpdateAt(g, source, sink, ws)
    PROVE  /\ IndexInv'
           /\ \/ edges' = edges
              \/ /\ source \in states /\ sink \in states
                 /\ edges' \in UpdatedRelation(edges, source, sink, edges'[<<source, sink>>])
    <1>1. /\ nodes' = g.nodes /\ index' = g.index /\ dirty' = FALSE
          /\ states' = states /\ replacing' = replacing
        BY DEF UpdateAt
    <1>2. /\ g.nodes \in Seq(Bids) /\ NoDuplicates(g.nodes)
          /\ InGraph(nodes) \subseteq InGraph(g.nodes) /\ InGraph(g.nodes) \subseteq states
          /\ g.index = IndexOf(g.nodes) /\ states \subseteq InGraph(g.nodes)
        BY Synced
    <1>3. EndsInGraph(edges, InGraph(g.nodes)) /\ InGraph(g.nodes) \in SUBSET Bids
        BY <1>2 DEF IndexInv, EndsInGraph
    <1>4. /\ IsGraph(edges') /\ EndsInGraph(edges', InGraph(g.nodes))
          /\ \/ edges' = edges
             \/ /\ source \in states /\ sink \in states
                /\ edges' \in UpdatedRelation(edges, source, sink, edges'[<<source, sink>>])
        <2>1. CASE ~({source, sink} \subseteq DOMAIN g.index)
            BY <1>3, <2>1 DEF UpdateAt, IndexInv
        <2>2. CASE {source, sink} \subseteq DOMAIN g.index
            <3>1. edges' \in UpdatedRelation(edges, At(g, source), At(g, sink), ws)
                BY <2>2 DEF UpdateAt
            <3>2. /\ At(g, source) = source /\ At(g, sink) = sink
                  /\ source \in InGraph(g.nodes) /\ sink \in InGraph(g.nodes)
                BY <1>2, <2>2, FindsItself
            <3>3. edges' \in UpdatedRelation(edges, source, sink, ws)
                BY <3>1, <3>2
            <3>4. /\ IsGraph(edges') /\ EndsInGraph(edges', InGraph(g.nodes))
                  /\ edges'[<<source, sink>>] = ws
                BY <1>3, <2>2, <3>2, <3>3, UpdatedGraph DEF IndexInv
            <3> QED BY <1>2, <3>2, <3>3, <3>4
        <2> QED BY <2>1, <2>2
    <1> QED BY <1>1, <1>2, <1>4 DEF IndexInv, CleanIndexIsExact, Idle

\* The merge of nodes is one insertion and one synchronization.
LEMMA MergeNodesKeeps ==
    ASSUME IndexInv, NEW added \in SUBSET Bids, NEW changed \in BOOLEAN,
           MergeNodes(added, changed)
    PROVE  IndexInv'
    <1>1. /\ Idle /\ states' = states \union added
          /\ added \subseteq states \/ changed
          /\ dirty' = FALSE /\ edges' = edges /\ replacing' = replacing
        BY DEF MergeNodes
    <1>2. /\ nodes' \in Seq(Bids) /\ NoDuplicates(nodes') /\ index' = IndexOf(nodes')
          /\ InGraph(nodes') = states'
        <2>1. CASE dirty \/ changed
            <3> DEFINE merged == {[nodes |-> nodes \o new, index |-> IndexOf(nodes \o new)] :
                                     new \in Orderings(states' \ InGraph(nodes))}
            <3>3. PICK g \in merged : nodes' = g.nodes /\ index' = g.index
                BY <2>1, Zenon DEF MergeNodes
            <3>1. PICK new \in Orderings(states' \ InGraph(nodes)) :
                     g = [nodes |-> nodes \o new, index |-> IndexOf(nodes \o new)]
                BY <3>3
            <3>2. states' \in SUBSET Bids /\ InGraph(nodes) \subseteq states'
                BY <1>1 DEF IndexInv
            <3> HIDE DEF merged
            <3> QED BY <3>1, <3>2, <3>3, Rebuilt DEF IndexInv
        <2>2. CASE ~(dirty \/ changed)
            <3>1. nodes' = nodes /\ index' = index
                BY <2>2 DEF MergeNodes
            <3> QED BY <1>1, <2>2, <3>1 DEF IndexInv, CleanIndexIsExact
        <2> QED BY <2>1, <2>2
    <1>3. EndsInGraph(edges, states')
        BY <1>1 DEF IndexInv, EndsInGraph
    <1> QED BY <1>1, <1>2, <1>3 DEF IndexInv, CleanIndexIsExact, Idle

\* A base starts empty.
LEMMA InitIndexInv == Init => IndexInv
    <1> SUFFICES ASSUME Init PROVE IndexInv
        OBVIOUS
    <1>1. InGraph(<<>>) = {}
        BY DEF InGraph
    <1>2. IndexOf(<<>>) = [b \in {} |-> 0]
        BY <1>1 DEF IndexOf
    <1>3. IsGraph(edges) /\ EndsInGraph(edges, {})
        BY WeightsAre DEF Init, IsGraph, EndsInGraph
    <1>4. <<>> \in Seq(Bids) /\ NoDuplicates(<<>>)
        BY DEF NoDuplicates
    <1>5. CleanIndexIsExact
        BY <1>2 DEF Init, CleanIndexIsExact
    <1> QED BY <1>1, <1>3, <1>4, <1>5 DEF Init, IndexInv, Idle

\* The events about relations all end in update_relation, with weights for
\* every kind.
LEMMA RelationStep ==
    ASSUME IndexInv, NEW source \in Bids, NEW sink \in Bids,
           \/ \E ws \in WeightSets : RelationUpdate(source, sink, ws)
           \/ RelationRemoved(source, sink)
           \/ \E kind \in Kinds :
                 \/ \E weight \in [key : 0..MaxKey \union {NoKey}, owner : Owners] :
                       RelationChange(source, sink, kind, weight)
                 \/ KindRemoved(source, sink, kind)
    PROVE  /\ Idle
           /\ \E g \in SyncResults : \E ws :
                 /\ {source, sink} \subseteq DOMAIN g.index => IsWeights(ws)
                 /\ UpdateAt(g, source, sink, ws)
    <1>1. ASSUME NEW ws \in WeightSets, RelationUpdate(source, sink, ws)
          PROVE  Idle /\ IsWeights(ws) /\ \E g \in SyncResults : UpdateAt(g, source, sink, ws)
        BY <1>1 DEF RelationUpdate, WeightSets, IsWeights
    <1>2. ASSUME RelationRemoved(source, sink)
          PROVE  /\ Idle /\ IsWeights(NoWeights)
                 /\ \E g \in SyncResults : UpdateAt(g, source, sink, NoWeights)
        BY <1>2, WeightsAre DEF RelationRemoved
    <1>3. ASSUME NEW g \in SyncResults, {source, sink} \subseteq DOMAIN g.index
          PROVE  IsWeights(edges[<<At(g, source), At(g, sink)>>])
        <2>1. /\ g.nodes \in Seq(Bids) /\ g.index = IndexOf(g.nodes)
            BY Synced
        <2>2. At(g, source) = source /\ At(g, sink) = sink
            BY <1>3, <2>1, FindsItself
        <2> QED BY <2>2 DEF IndexInv, IsGraph, Pairs
    <1>4. \A ws, kind, w : IsWeights(ws) => IsWeights([ws EXCEPT ![kind] = w])
        BY DEF IsWeights
    <1>5. ASSUME NEW kind \in Kinds, NEW weight, RelationChange(source, sink, kind, weight)
          PROVE  /\ Idle
                 /\ \E g \in SyncResults : \E ws :
                       /\ {source, sink} \subseteq DOMAIN g.index => IsWeights(ws)
                       /\ UpdateAt(g, source, sink, ws)
        <2>1. Idle
            BY <1>5 DEF RelationChange
        <2>2. PICK g \in SyncResults :
                 UpdateAt(g, source, sink,
                          ChangedWeights(edges, At(g, source), At(g, sink), kind, weight))
            BY <1>5 DEF RelationChange
        <2>3. {source, sink} \subseteq DOMAIN g.index =>
                 IsWeights(ChangedWeights(edges, At(g, source), At(g, sink), kind, weight))
            BY <1>3, <1>4, Zenon DEF ChangedWeights
        <2> QED BY <2>1, <2>2, <2>3
    <1>6. ASSUME NEW kind \in Kinds, KindRemoved(source, sink, kind)
          PROVE  /\ Idle
                 /\ \E g \in SyncResults : \E ws :
                       /\ {source, sink} \subseteq DOMAIN g.index => IsWeights(ws)
                       /\ UpdateAt(g, source, sink, ws)
        <2>1. Idle
            BY <1>6 DEF KindRemoved
        <2>2. PICK g \in SyncResults :
                 UpdateAt(g, source, sink,
                          [edges[<<At(g, source), At(g, sink)>>] EXCEPT ![kind] = NoWeight])
            BY <1>6 DEF KindRemoved
        <2>3. {source, sink} \subseteq DOMAIN g.index =>
                 IsWeights([edges[<<At(g, source), At(g, sink)>>] EXCEPT ![kind] = NoWeight])
            BY <1>3, <1>4
        <2> QED BY <2>1, <2>2, <2>3
    <1> QED BY <1>1, <1>2, <1>5, <1>6

\* The operators of the abstract graph are those of the base.
LEMMA SameOperators ==
    /\ \A e, old, new : Abstract!ReplacedNode(e, old, new) = ReplacedNode(e, old, new)
    /\ \A e, removed : Abstract!WithoutNodes(e, removed) = WithoutNodes(e, removed)
    /\ \A e, s, t, ws : Abstract!UpdatedRelation(e, s, t, ws) = UpdatedRelation(e, s, t, ws)
    <1>1. /\ Abstract!Pairs = Pairs
          /\ Abstract!NoWeight = NoWeight
          /\ Abstract!NoWeights = NoWeights
        BY DEF Abstract!Pairs, Pairs, Abstract!NoWeight, NoWeight, Abstract!NoWeights, NoWeights
    <1>3. ASSUME NEW ws PROVE Abstract!KindsOf(ws) = KindsOf(ws)
        BY <1>1 DEF Abstract!KindsOf, KindsOf
    <1>5. ASSUME NEW e, NEW affected PROVE Abstract!Reindexed(e, affected) = Reindexed(e, affected)
        BY DEF Abstract!Reindexed, Reindexed, Abstract!Renumberings, Renumberings,
               Abstract!Incoming, Incoming, Abstract!Cardinality, Cardinality,
               Abstract!NoWeight, NoWeight, Abstract!Pairs, Pairs
    <1>6. ASSUME NEW e, NEW old, NEW new
          PROVE  Abstract!ReplacedNode(e, old, new) = ReplacedNode(e, old, new)
        BY DEF Abstract!ReplacedNode, ReplacedNode, Abstract!WeightUnion, WeightUnion,
               Abstract!NonSection, NonSection, Abstract!NoWeights, NoWeights,
               Abstract!NoWeight, NoWeight, Abstract!Pairs, Pairs
    <1>7. ASSUME NEW e, NEW removed
          PROVE  Abstract!WithoutNodes(e, removed) = WithoutNodes(e, removed)
        BY <1>1, <1>5 DEF Abstract!WithoutNodes, WithoutNodes
    <1>8. ASSUME NEW e, NEW s, NEW t, NEW ws
          PROVE  Abstract!UpdatedRelation(e, s, t, ws) = UpdatedRelation(e, s, t, ws)
        BY <1>3, <1>5 DEF Abstract!UpdatedRelation, UpdatedRelation
    <1> QED BY <1>6, <1>7, <1>8

\* Every step keeps the invariant and is a step of the abstract graph, or
\* changes nothing in it.
LEMMA StepKeepsAndImplements ==
    ASSUME IndexInv, [Next]_vars
    PROVE  IndexInv' /\ [Abstract!GraphNext]_<<states, edges>>
    <1> USE DEF Abstract!GraphNext
    <1>1. CASE Read
        <2>1. PICK g \in SyncResults : nodes' = g.nodes /\ index' = g.index
            BY <1>1 DEF Read
        <2>2. /\ Idle /\ dirty' = FALSE
              /\ states' = states /\ edges' = edges /\ replacing' = replacing
            BY <1>1 DEF Read
        <2>3. EndsInGraph(edges, InGraph(g.nodes))
            BY Synced DEF IndexInv, EndsInGraph
        <2>4. IndexInv'
            BY <2>1, <2>2, <2>3, Synced DEF IndexInv, CleanIndexIsExact, Idle
        <2> QED BY <2>2, <2>4
    <1>2. ASSUME NEW b \in Bids, NEW changed \in BOOLEAN, NEW replaced \in SUBSET states,
                 NodeUpdate(b, replaced, changed)
          PROVE  IndexInv' /\ [Abstract!GraphNext]_<<states, edges>>
        <2>1. {b} \in SUBSET Bids /\ states' = states \union {b} /\ edges' = edges
            BY <1>2 DEF NodeUpdate
        <2>2. Abstract!AddNodes
            BY <2>1 DEF Abstract!AddNodes
        <2> QED BY <1>2, <2>2, NodeUpdateKeeps
    <1>3. ASSUME NEW b \in Bids, NEW changed \in BOOLEAN, NodeUpdateUnknownKeys(b, changed)
          PROVE  IndexInv' /\ [Abstract!GraphNext]_<<states, edges>>
        <2>1. {b} \in SUBSET Bids /\ states' = states \union {b} /\ edges' = edges
            BY <1>3 DEF NodeUpdateUnknownKeys
        <2>2. Abstract!AddNodes
            BY <2>1 DEF Abstract!AddNodes
        <2> QED BY <1>3, <2>2, NodeUpdateUnknownKeysKeeps
    <1>4. ASSUME NEW old \in Bids, ReplaceBid(old)
          PROVE  IndexInv' /\ [Abstract!GraphNext]_<<states, edges>>
        <2>1. /\ IndexInv'
              /\ replacing[1] \in states /\ old \in states /\ old # replacing[1]
              /\ edges' = ReplacedNode(edges, old, replacing[1])
            BY <1>4, ReplaceBidKeeps
        <2>2. states' = states \ {old}
            BY <1>4 DEF ReplaceBid
        <2>3. Abstract!ReplacedNode(edges, old, replacing[1]) = ReplacedNode(edges, old, replacing[1])
            BY SameOperators
        <2>4. Abstract!ReplaceNode
            BY <2>1, <2>2, <2>3 DEF Abstract!ReplaceNode
        <2> QED BY <2>1, <2>4
    <1>5. ASSUME NEW removed \in SUBSET Bids, NodesRemoved(removed)
          PROVE  IndexInv' /\ [Abstract!GraphNext]_<<states, edges>>
        <2>1. /\ states' = states \ removed
              /\ edges' \in WithoutNodes(edges, removed)
            BY <1>5 DEF NodesRemoved
        <2>2. Abstract!WithoutNodes(edges, removed) = WithoutNodes(edges, removed)
            BY SameOperators
        <2>3. Abstract!RemoveNodes
            BY <2>1, <2>2 DEF Abstract!RemoveNodes
        <2> QED BY <1>5, <2>3, NodesRemovedKeeps
    <1>6. ASSUME NEW r \in Related,
                 \/ \E ws \in WeightSets : RelationUpdate(r[1], r[2], ws)
                 \/ RelationRemoved(r[1], r[2])
                 \/ \E kind \in Kinds :
                       \/ \E weight \in [key : 0..MaxKey \union {NoKey}, owner : Owners] :
                             RelationChange(r[1], r[2], kind, weight)
                       \/ KindRemoved(r[1], r[2], kind)
          PROVE  IndexInv' /\ [Abstract!GraphNext]_<<states, edges>>
        <2>1. r[1] \in Bids /\ r[2] \in Bids
            BY RelatedAssumption DEF Pairs
        <2>2. Idle
            BY <1>6, <2>1, RelationStep
        <2>9. PICK g \in SyncResults : \E ws :
                 /\ {r[1], r[2]} \subseteq DOMAIN g.index => IsWeights(ws)
                 /\ UpdateAt(g, r[1], r[2], ws)
            BY <1>6, <2>1, RelationStep
        <2>3. PICK ws :
                 /\ {r[1], r[2]} \subseteq DOMAIN g.index => IsWeights(ws)
                 /\ UpdateAt(g, r[1], r[2], ws)
            BY <2>9
        <2>4. /\ IndexInv'
              /\ \/ edges' = edges
                 \/ /\ r[1] \in states /\ r[2] \in states
                    /\ edges' \in UpdatedRelation(edges, r[1], r[2], edges'[<<r[1], r[2]>>])
            BY <2>1, <2>2, <2>3, UpdateAtKeeps
        <2>5. states' = states
            BY <2>3 DEF UpdateAt
        <2>6. \A ws2 : Abstract!UpdatedRelation(edges, r[1], r[2], ws2)
                           = UpdatedRelation(edges, r[1], r[2], ws2)
            BY SameOperators
        <2>7. CASE edges' = edges
            BY <2>4, <2>5, <2>7
        <2>8. CASE edges' # edges
            <3>1. Abstract!Relate
                BY <2>4, <2>5, <2>6, <2>8 DEF Abstract!Relate
            <3> QED BY <2>4, <3>1
        <2> QED BY <2>7, <2>8
    <1>7. ASSUME NEW added \in SUBSET Bids, NEW changed \in BOOLEAN, MergeNodes(added, changed)
          PROVE  IndexInv' /\ [Abstract!GraphNext]_<<states, edges>>
        <2>1. states' = states \union added /\ edges' = edges
            BY <1>7 DEF MergeNodes
        <2>2. Abstract!AddNodes
            BY <2>1 DEF Abstract!AddNodes
        <2> QED BY <1>7, <2>2, MergeNodesKeeps
    <1>8. CASE UNCHANGED vars
        BY <1>8 DEF vars, IndexInv, CleanIndexIsExact, Idle
    <1> QED BY <1>1, <1>2, <1>3, <1>4, <1>5, <1>6, <1>7, <1>8 DEF Next

\* The strengthened invariant holds in every reachable state.
THEOREM IndexInvariant == Spec => []IndexInv
    <1>1. IndexInv /\ [Next]_vars => IndexInv'
        BY StepKeepsAndImplements
    <1> QED BY <1>1, InitIndexInv, PTL DEF Spec

\* A clean index is exact: it names the position of every node of the graph,
\* and every node of the base is in the graph but one that was just inserted.
THEOREM IndexIsExact == Spec => []CleanIndexIsExact
    <1>1. IndexInv => CleanIndexIsExact
        BY DEF IndexInv
    <1> QED BY <1>1, IndexInvariant, PTL

\* Nodes of the graph have states, are in it once, and relations have both
\* their ends in it (static invariant 1.0 of BeliefBase).
THEOREM RelationsHaveStatesAlways == Spec => []RelationsHaveStates
    <1>1. IndexInv => RelationsHaveStates
        BY DEF IndexInv, RelationsHaveStates, NoDuplicates, EndsInGraph
    <1> QED BY <1>1, IndexInvariant, PTL

\* A belief base that looks its nodes up through an index that removals
\* disturb behaves as the abstract graph.
THEOREM Refinement == Spec => ImplementsBeliefGraph
    <1>1. Init => Abstract!GraphInit
        BY DEF Init, Abstract!GraphInit, Abstract!NoWeights, NoWeights,
               Abstract!NoWeight, NoWeight, Abstract!Pairs, Pairs
    <1>2. IndexInv /\ [Next]_vars => [Abstract!GraphNext]_(Abstract!graphVars)
        BY StepKeepsAndImplements DEF Abstract!graphVars
    <1> QED BY <1>1, <1>2, IndexInvariant, PTL DEF Spec, ImplementsBeliefGraph, Abstract!GraphSpec
----------------------------------------------------------------------------
\* The weights: their types, and the numbering of the relations of a sink

WeightValues == [key : Nat, owner : Owners] \union {NoWeight}
TypedWeights == [Kinds -> WeightValues]
TypedEdges == [Pairs -> TypedWeights]

\* The relations of a kind into a sink are numbered 0, 1, ...
Compact(e, sink, kind) ==
    {e[<<s, sink>>][kind].key : s \in Incoming(e, sink, kind)}
        = 0..(Cardinality(Incoming(e, sink, kind)) - 1)

\* The absence of a weight is no weight.
LEMMA NoWeightIsApart == \A w \in [key : Nat, owner : Owners] : w # NoWeight
    BY DEF NoWeight

\* A numbering gives the sources of a sink the numbers 0, 1, ..., each once.
LEMMA NumberingIsOnto ==
    ASSUME NEW e, NEW sink, NEW kind, NEW f \in Renumberings(e, sink, kind)
    PROVE  /\ \A s \in Incoming(e, sink, kind) : f[s] \in Nat
           /\ {f[s] : s \in Incoming(e, sink, kind)}
                 = 0..(Cardinality(Incoming(e, sink, kind)) - 1)
    <1> DEFINE S == Incoming(e, sink, kind)
               c == Cardinality(S)
    <1>1. IsFiniteSet(S) /\ c \in Nat
        <2>1. S \subseteq Bids
            BY DEF Incoming
        <2> QED BY <2>1, EdgesAssumption, FS_Subset, FS_CardinalityType
    <1>2. f \in [S -> 0..(c - 1)] /\ \A s, t \in S : s # t => f[s] # f[t]
        BY DEF Renumberings
    <1> HIDE DEF c, S
    <1>3. IsFiniteSet(0..(c - 1)) /\ Cardinality(0..(c - 1)) = c
        BY <1>1, FS_Interval
    <1>4. f \in Injection(S, 0..(c - 1))
        BY <1>2 DEF Injection, IsInjective
    <1>5. f \in Surjection(S, 0..(c - 1))
        BY <1>1, <1>3, <1>4, FS_Injection DEF c
    <1>6. {f[s] : s \in S} = 0..(c - 1)
        BY <1>2, <1>5 DEF Surjection
    <1>7. \A s \in S : f[s] \in Nat
        BY <1>1, <1>2
    <1> QED BY <1>6, <1>7 DEF c, S

\* Reindexing changes no relation and numbers the sinks that it is for.
LEMMA ReindexedWeights ==
    ASSUME NEW e \in TypedEdges, NEW affected \in SUBSET (Bids \X Kinds),
           NEW r \in Reindexed(e, affected)
    PROVE  /\ r \in TypedEdges
           /\ \A t \in Bids, k \in Kinds : Incoming(r, t, k) = Incoming(e, t, k)
           /\ \A t \in Bids, k \in Kinds : <<t, k>> \in affected => Compact(r, t, k)
    <1> DEFINE numberings ==
                  {n \in [affected -> UNION {Renumberings(e, a[1], a[2]) : a \in affected}] :
                      \A a \in affected : n[a] \in Renumberings(e, a[1], a[2])}
               weight(n, p, k) ==
                  IF <<p[2], k>> \in affected /\ e[p][k] # NoWeight
                  THEN [e[p][k] EXCEPT !.key = n[<<p[2], k>>][p[1]]]
                  ELSE e[p][k]
    <1>1. PICK n \in numberings : r = [p \in Pairs |-> [k \in Kinds |-> weight(n, p, k)]]
        BY Zenon DEF Reindexed
    <1>2. \A a \in affected : n[a] \in Renumberings(e, a[1], a[2])
        BY <1>1
    <1> HIDE DEF numberings
    <1>3. \A p \in Pairs, k \in Kinds : r[p][k] = weight(n, p, k)
        BY <1>1
    <1>4. ASSUME NEW t \in Bids, NEW k \in Kinds, <<t, k>> \in affected
          PROVE  /\ \A s \in Incoming(e, t, k) : n[<<t, k>>][s] \in Nat
                 /\ {n[<<t, k>>][s] : s \in Incoming(e, t, k)}
                       = 0..(Cardinality(Incoming(e, t, k)) - 1)
        <2>1. n[<<t, k>>] \in Renumberings(e, t, k)
            BY <1>2, <1>4
        <2> QED BY <2>1, NumberingIsOnto
    <1>5. \A p \in Pairs, k \in Kinds : e[p][k] \in WeightValues
        BY DEF TypedEdges, TypedWeights
    <1>6. ASSUME NEW p \in Pairs, NEW k \in Kinds
          PROVE  /\ r[p][k] \in WeightValues
                 /\ r[p][k] = NoWeight <=> e[p][k] = NoWeight
                 /\ <<p[2], k>> \in affected /\ e[p][k] # NoWeight =>
                       r[p][k].key = n[<<p[2], k>>][p[1]]
        <2>1. CASE <<p[2], k>> \in affected /\ e[p][k] # NoWeight
            <3>1. p[1] \in Bids /\ p[2] \in Bids /\ p = <<p[1], p[2]>>
                BY DEF Pairs
            <3>2. p[1] \in Incoming(e, p[2], k)
                BY <2>1, <3>1 DEF Incoming
            <3>3. n[<<p[2], k>>][p[1]] \in Nat
                BY <1>4, <2>1, <3>1, <3>2
            <3>4. e[p][k] \in [key : Nat, owner : Owners]
                BY <1>5, <2>1 DEF WeightValues
            <3>5. r[p][k] = [e[p][k] EXCEPT !.key = n[<<p[2], k>>][p[1]]]
                BY <1>3, <2>1
            <3>6. r[p][k] \in [key : Nat, owner : Owners] /\ r[p][k].key = n[<<p[2], k>>][p[1]]
                BY <3>3, <3>4, <3>5
            <3> QED BY <2>1, <3>6, NoWeightIsApart DEF WeightValues
        <2>2. CASE ~(<<p[2], k>> \in affected /\ e[p][k] # NoWeight)
            <3>1. r[p][k] = e[p][k]
                BY <1>3, <2>2
            <3> QED BY <1>5, <2>2, <3>1
        <2> QED BY <2>1, <2>2
    <1> HIDE DEF weight
    <1>7. r \in TypedEdges
        <2>1. \A p \in Pairs : r[p] \in TypedWeights
            BY <1>1, <1>6 DEF TypedWeights
        <2> QED BY <1>1, <2>1 DEF TypedEdges
    <1>8. \A t \in Bids, k \in Kinds : Incoming(r, t, k) = Incoming(e, t, k)
        BY <1>6 DEF Incoming, Pairs
    <1>9. ASSUME NEW t \in Bids, NEW k \in Kinds, <<t, k>> \in affected
          PROVE  Compact(r, t, k)
        <2>1. \A s \in Incoming(e, t, k) : r[<<s, t>>][k].key = n[<<t, k>>][s]
            <3> SUFFICES ASSUME NEW s \in Incoming(e, t, k)
                         PROVE  r[<<s, t>>][k].key = n[<<t, k>>][s]
                OBVIOUS
            <3>1. <<s, t>> \in Pairs /\ e[<<s, t>>][k] # NoWeight
                BY DEF Incoming, Pairs
            <3> QED BY <1>6, <1>9, <3>1
        <2>2. {r[<<s, t>>][k].key : s \in Incoming(e, t, k)} = {n[<<t, k>>][s] : s \in Incoming(e, t, k)}
            BY <2>1
        <2> QED BY <1>4, <1>8, <1>9, <2>2 DEF Compact
    <1> QED BY <1>7, <1>8, <1>9

\* What update_relation and remove_nodes leave of the relations of a kind into
\* a sink is numbered anew where some went.
CompactsRemovals(e, r, sinks) ==
    \A t \in sinks, k \in Kinds :
        ~(Incoming(e, t, k) \subseteq Incoming(r, t, k)) => Compact(r, t, k)

\* A relation update leaves typed weights, and contiguous keys where one is removed.
LEMMA UpdatedWeights ==
    ASSUME NEW e \in TypedEdges, NEW s \in Bids, NEW t \in Bids, NEW ws \in TypedWeights,
           NEW r \in UpdatedRelation(e, s, t, ws)
    PROVE  r \in TypedEdges /\ CompactsRemovals(e, r, Bids)
    <1> DEFINE d == [e EXCEPT ![<<s, t>>] = ws]
               affected == {t} \X (KindsOf(e[<<s, t>>]) \ KindsOf(ws))
    <1>1. <<s, t>> \in Pairs
        BY DEF Pairs
    <1>2. /\ d[<<s, t>>] = ws
          /\ \A p \in Pairs : p # <<s, t>> => d[p] = e[p]
          /\ d \in TypedEdges
        BY <1>1 DEF TypedEdges
    <1>3. affected \in SUBSET (Bids \X Kinds)
        BY DEF KindsOf
    <1>4. r \in Reindexed(d, affected)
        BY DEF UpdatedRelation
    <1> HIDE DEF d
    <1>5. ASSUME NEW u \in Bids, NEW k \in Kinds, NEW x \in Incoming(e, u, k),
                 x \notin Incoming(d, u, k)
          PROVE  <<u, k>> \in affected
        <2>1. x \in Bids /\ <<x, u>> \in Pairs /\ e[<<x, u>>][k] # NoWeight /\ d[<<x, u>>][k] = NoWeight
            BY <1>5 DEF Incoming, Pairs
        <2>2. <<x, u>> = <<s, t>>
            BY <1>2, <2>1
        <2>3. u = t /\ k \in KindsOf(e[<<s, t>>]) \ KindsOf(ws)
            BY <1>2, <2>1, <2>2 DEF KindsOf
        <2> QED BY <2>3
    <1> HIDE DEF affected
    <1>6. /\ r \in TypedEdges
          /\ \A u \in Bids, k \in Kinds : Incoming(r, u, k) = Incoming(d, u, k)
          /\ \A u \in Bids, k \in Kinds : <<u, k>> \in affected => Compact(r, u, k)
        BY <1>2, <1>3, <1>4, ReindexedWeights
    <1> QED BY <1>5, <1>6 DEF CompactsRemovals

\* So does the removal of nodes, at the sinks that are left.
LEMMA RemovedWeights ==
    ASSUME NEW e \in TypedEdges, NEW removed \in SUBSET Bids, NEW r \in WithoutNodes(e, removed)
    PROVE  r \in TypedEdges /\ CompactsRemovals(e, r, Bids \ removed)
    <1> DEFINE affected == {a \in (Bids \ removed) \X Kinds :
                              \E x \in removed : e[<<x, a[1]>>][a[2]] # NoWeight}
               d == [p \in Pairs |-> IF p[1] \in removed \/ p[2] \in removed
                                     THEN NoWeights ELSE e[p]]
    <1>1. r \in Reindexed(d, affected)
        BY DEF WithoutNodes
    <1>2. \A p \in Pairs : d[p] = IF p[1] \in removed \/ p[2] \in removed THEN NoWeights ELSE e[p]
        OBVIOUS
    <1>3. d \in TypedEdges
        <2>1. NoWeights \in TypedWeights
            BY DEF NoWeights, TypedWeights, WeightValues
        <2> QED BY <2>1 DEF TypedEdges
    <1>4. affected \in SUBSET (Bids \X Kinds)
        OBVIOUS
    <1> HIDE DEF d
    <1>5. ASSUME NEW u \in Bids \ removed, NEW k \in Kinds, NEW x \in Incoming(e, u, k),
                 x \notin Incoming(d, u, k)
          PROVE  <<u, k>> \in affected
        <2>1. x \in Bids /\ <<x, u>> \in Pairs /\ e[<<x, u>>][k] # NoWeight /\ d[<<x, u>>][k] = NoWeight
            BY <1>5 DEF Incoming, Pairs
        <2>2. x \in removed
            BY <1>2, <2>1
        <2> QED BY <2>1, <2>2
    <1> HIDE DEF affected
    <1>6. /\ r \in TypedEdges
          /\ \A u \in Bids, k \in Kinds : Incoming(r, u, k) = Incoming(d, u, k)
          /\ \A u \in Bids, k \in Kinds : <<u, k>> \in affected => Compact(r, u, k)
        BY <1>1, <1>3, <1>4, ReindexedWeights
    <1> QED BY <1>5, <1>6 DEF CompactsRemovals

\* replace_bid moves weights as they are.
LEMMA ReplacedWeights ==
    ASSUME NEW e \in TypedEdges, NEW old \in Bids, NEW new \in Bids, old # new
    PROVE  ReplacedNode(e, old, new) \in TypedEdges
    <1> DEFINE moved == [p \in Pairs |->
                    CASE p[1] = old -> NoWeights
                      [] p[1] = new -> WeightUnion(e[p], NonSection(e[<<old, p[2]>>]))
                      [] OTHER      -> e[p]]
               r == ReplacedNode(e, old, new)
    <1>1. r = [p \in Pairs |->
                CASE p[2] = old -> NoWeights
                  [] p[2] = new -> WeightUnion(moved[p], NonSection(moved[<<p[1], old>>]))
                  [] OTHER      -> moved[p]]
        BY Zenon DEF ReplacedNode
    <1>2. /\ NoWeights \in TypedWeights
          /\ \A x, y \in TypedWeights : WeightUnion(x, NonSection(y)) \in TypedWeights
        BY DEF NoWeights, TypedWeights, WeightValues, WeightUnion, NonSection
    <1>3. \A p \in Pairs : <<old, p[2]>> \in Pairs /\ <<p[1], old>> \in Pairs
        BY DEF Pairs
    <1>4. moved \in TypedEdges
        <2>1. \A p \in Pairs : moved[p] \in TypedWeights
            BY <1>2, <1>3 DEF TypedEdges
        <2> QED BY <2>1 DEF TypedEdges
    <1> HIDE DEF moved
    <1>5. r \in TypedEdges
        <2>1. \A p \in Pairs : moved[p] \in TypedWeights /\ moved[<<p[1], old>>] \in TypedWeights
            BY <1>3, <1>4 DEF TypedEdges
        <2>2. ASSUME NEW p \in Pairs PROVE r[p] \in TypedWeights
            <3>1. CASE p[2] = old
                BY <1>1, <1>2, <3>1
            <3>2. CASE p[2] # old /\ p[2] = new
                <4>1. r[p] = WeightUnion(moved[p], NonSection(moved[<<p[1], old>>]))
                    BY <1>1, <3>2
                <4> QED BY <1>2, <2>1, <4>1
            <3>3. CASE p[2] # old /\ p[2] # new
                BY <1>1, <2>1, <3>3
            <3> QED BY <3>1, <3>2, <3>3
        <2> HIDE DEF r
        <2>3. r = [p \in Pairs |-> r[p]]
            BY <1>1
        <2> QED BY <2>2, <2>3 DEF TypedEdges
    <1> QED BY <1>5

\* generate_edge_update: a weight without a key gets one.
LEMMA ChangedWeightsTyped ==
    ASSUME NEW e \in TypedEdges, NEW s \in Bids, NEW t \in Bids, NEW kind \in Kinds,
           NEW weight \in [key : 0..MaxKey \union {NoKey}, owner : Owners]
    PROVE  ChangedWeights(e, s, t, kind, weight) \in TypedWeights
    <1> DEFINE S == Incoming(e, t, kind)
               keys == {e[<<x, t>>][kind].key : x \in S}
               present == e[<<s, t>>][kind]
               key == CASE weight.key # NoKey   -> weight.key
                        [] present # NoWeight   -> present.key
                        [] OTHER                -> NextKey(e, t, kind)
    <1>1. <<s, t>> \in Pairs /\ \A x \in S : <<x, t>> \in Pairs
        BY DEF Pairs, Incoming
    <1>2. \A p \in Pairs : e[p] \in TypedWeights /\ e[p][kind] \in WeightValues
        BY DEF TypedEdges, TypedWeights
    <1>3. NextKey(e, t, kind) \in Nat
        <2>1. \A x \in S : e[<<x, t>>][kind].key \in Nat
            BY <1>1, <1>2 DEF Incoming, WeightValues
        <2>2. IsFiniteSet(S)
            <3>1. S \subseteq Bids
                BY DEF Incoming
            <3> QED BY <3>1, EdgesAssumption, FS_Subset
        <2>3. keys \in SUBSET Nat
            BY <2>1
        <2>4. IsFiniteSet(keys)
            <3> DEFINE f == [x \in S |-> e[<<x, t>>][kind].key]
            <3>1. f \in Surjection(S, keys)
                BY DEF Surjection
            <3> HIDE DEF S, keys, f
            <3> QED BY <2>2, <3>1, FS_Surjection
        <2>5. NextKey(e, t, kind) = IF keys = {} THEN 0 ELSE Max(keys) + 1
            BY DEF NextKey
        <2> HIDE DEF keys
        <2>6. keys # {} => Max(keys) \in Nat
            <3> SUFFICES ASSUME keys # {} PROVE Max(keys) \in Nat
                OBVIOUS
            <3>1. PICK m \in keys : \A y \in keys : y <= m
                BY <2>3, <2>4, FiniteLargestExists
            <3>2. \A y \in keys : m >= y
                BY <2>3, <3>1
            <3>3. Max(keys) \in keys
                BY <3>2 DEF Max
            <3> QED BY <2>3, <3>3
        <2> QED BY <2>5, <2>6
    <1>4. key \in Nat
        <2>1. weight.key # NoKey => weight.key \in Nat
            BY EdgesAssumption DEF NoKey
        <2>2. present # NoWeight => present.key \in Nat
            BY <1>1, <1>2 DEF WeightValues
        <2> QED BY <1>3, <2>1, <2>2
    <1>5. ChangedWeights(e, s, t, kind, weight) =
             [e[<<s, t>>] EXCEPT ![kind] = [weight EXCEPT !.key = key]]
        BY DEF ChangedWeights
    <1> HIDE DEF key
    <1>6. [weight EXCEPT !.key = key] \in WeightValues
        BY <1>4 DEF WeightValues
    <1> QED BY <1>1, <1>2, <1>5, <1>6 DEF TypedWeights
----------------------------------------------------------------------------
\* Types of every reachable state, and what a removal leaves

IndexTyped(ix) == DOMAIN ix \subseteq Bids /\ \A b \in DOMAIN ix : ix[b] \in Nat

BaseInv ==
    /\ IndexInv
    /\ edges \in TypedEdges
    /\ IndexTyped(index)
    /\ ~Idle => replacing[2] # {}

\* The index of a sequence of nodes leads from nodes to positions.
LEMMA IndexOfTyped ==
    ASSUME NEW n \in Seq(Bids)
    PROVE  IndexTyped(IndexOf(n))
    <1>1. DOMAIN IndexOf(n) = InGraph(n) /\ InGraph(n) \subseteq Bids
        BY DEF IndexOf, InGraph
    <1>2. \A b \in InGraph(n) : IndexOf(n)[b] \in DOMAIN n
        BY IndexLookup
    <1>3. DOMAIN n \subseteq Nat
        OBVIOUS
    <1> QED BY <1>1, <1>2, <1>3 DEF IndexTyped

\* The index that index_sync builds is typed.
LEMMA SyncedTyped ==
    ASSUME IndexInv, NEW g \in SyncResults
    PROVE  IndexTyped(g.index)
    BY Synced, IndexOfTyped

\* The events about relations give weights of their types, or change none.
LEMMA RelationEventWeights ==
    ASSUME BaseInv, NEW source \in Bids, NEW sink \in Bids, NEW g \in SyncResults, Idle,
           NEW ws, UpdateAt(g, source, sink, ws),
           {source, sink} \subseteq DOMAIN g.index => ws \in TypedWeights
    PROVE  edges' \in TypedEdges /\ CompactsRemovals(edges, edges', Bids)
    <1>1. g.nodes \in Seq(Bids) /\ g.index = IndexOf(g.nodes)
        BY Synced DEF BaseInv
    <1>2. CASE {source, sink} \subseteq DOMAIN g.index
        <2>1. At(g, source) = source /\ At(g, sink) = sink
            BY <1>1, <1>2, FindsItself
        <2>2. edges' \in UpdatedRelation(edges, source, sink, ws)
            BY <1>2, <2>1 DEF UpdateAt
        <2> QED BY <1>2, <2>2, UpdatedWeights DEF BaseInv
    <1>3. CASE ~({source, sink} \subseteq DOMAIN g.index)
        BY <1>3 DEF UpdateAt, BaseInv, CompactsRemovals
    <1> QED BY <1>2, <1>3

\* Every event about a relation keeps the weights typed and their keys contiguous.
LEMMA RelationWeights ==
    ASSUME BaseInv, NEW source \in Bids, NEW sink \in Bids,
           \/ \E ws \in WeightSets : RelationUpdate(source, sink, ws)
           \/ RelationRemoved(source, sink)
           \/ \E kind \in Kinds :
                 \/ \E weight \in [key : 0..MaxKey \union {NoKey}, owner : Owners] :
                       RelationChange(source, sink, kind, weight)
                 \/ KindRemoved(source, sink, kind)
    PROVE  /\ edges' \in TypedEdges /\ CompactsRemovals(edges, edges', Bids)
           /\ dirty' = FALSE /\ replacing' = replacing /\ states' = states
    <1> DEFINE Goal == /\ edges' \in TypedEdges /\ CompactsRemovals(edges, edges', Bids)
                       /\ dirty' = FALSE /\ replacing' = replacing /\ states' = states
    <1> SUFFICES Goal
        OBVIOUS
    <1>1. ASSUME NEW g \in SyncResults, NEW ws, Idle, UpdateAt(g, source, sink, ws),
                 {source, sink} \subseteq DOMAIN g.index => ws \in TypedWeights
          PROVE  Goal
        <2>1. edges' \in TypedEdges /\ CompactsRemovals(edges, edges', Bids)
            BY <1>1, RelationEventWeights
        <2> QED BY <1>1, <2>1 DEF UpdateAt
    <1> HIDE DEF Goal
    <1>2. ASSUME NEW ws \in WeightSets, RelationUpdate(source, sink, ws)
          PROVE  Goal
        <2>1. ws \in TypedWeights
            BY EdgesAssumption DEF WeightSets, Weights, TypedWeights, WeightValues
        <2>2. Idle /\ \E g \in SyncResults : UpdateAt(g, source, sink, ws)
            BY <1>2 DEF RelationUpdate
        <2> QED BY <1>1, <2>1, <2>2
    <1>3. CASE RelationRemoved(source, sink)
        <2>1. NoWeights \in TypedWeights
            BY DEF NoWeights, TypedWeights, WeightValues
        <2>2. Idle /\ \E g \in SyncResults : UpdateAt(g, source, sink, NoWeights)
            BY <1>3 DEF RelationRemoved
        <2> QED BY <1>1, <2>1, <2>2
    <1>4. ASSUME NEW g \in SyncResults, {source, sink} \subseteq DOMAIN g.index
          PROVE  /\ At(g, source) = source /\ At(g, sink) = sink
                 /\ edges[<<source, sink>>] \in TypedWeights
        <2>1. g.nodes \in Seq(Bids) /\ g.index = IndexOf(g.nodes)
            BY Synced DEF BaseInv
        <2>2. At(g, source) = source /\ At(g, sink) = sink
            BY <1>4, <2>1, FindsItself
        <2> QED BY <2>2 DEF BaseInv, TypedEdges, Pairs
    <1>5. ASSUME NEW kind \in Kinds,
                 NEW weight \in [key : 0..MaxKey \union {NoKey}, owner : Owners],
                 RelationChange(source, sink, kind, weight)
          PROVE  Goal
        <2>1. Idle
            BY <1>5 DEF RelationChange
        <2>2. PICK g \in SyncResults :
                 UpdateAt(g, source, sink,
                          ChangedWeights(edges, At(g, source), At(g, sink), kind, weight))
            BY <1>5 DEF RelationChange
        <2>3. ChangedWeights(edges, source, sink, kind, weight) \in TypedWeights
            BY ChangedWeightsTyped DEF BaseInv
        <2>4. {source, sink} \subseteq DOMAIN g.index =>
                 ChangedWeights(edges, At(g, source), At(g, sink), kind, weight) \in TypedWeights
            BY <1>4, <2>3
        <2> QED BY <1>1, <2>1, <2>2, <2>4
    <1>6. ASSUME NEW kind \in Kinds, KindRemoved(source, sink, kind)
          PROVE  Goal
        <2>1. Idle
            BY <1>6 DEF KindRemoved
        <2>2. PICK g \in SyncResults :
                 UpdateAt(g, source, sink,
                          [edges[<<At(g, source), At(g, sink)>>] EXCEPT ![kind] = NoWeight])
            BY <1>6 DEF KindRemoved
        <2>3. \A ws \in TypedWeights : [ws EXCEPT ![kind] = NoWeight] \in TypedWeights
            BY DEF TypedWeights, WeightValues
        <2>4. {source, sink} \subseteq DOMAIN g.index =>
                 [edges[<<At(g, source), At(g, sink)>>] EXCEPT ![kind] = NoWeight] \in TypedWeights
            BY <1>4, <2>3
        <2> QED BY <1>1, <2>1, <2>2, <2>4
    <1> QED BY <1>2, <1>3, <1>5, <1>6

\* The invariant holds at the start.
LEMMA InitBaseInv == Init => BaseInv
    <1> SUFFICES ASSUME Init PROVE BaseInv
        OBVIOUS
    <1>1. NoWeights \in TypedWeights
        BY DEF NoWeights, TypedWeights, WeightValues
    <1>2. edges \in TypedEdges
        BY <1>1 DEF Init, TypedEdges
    <1>3. IndexTyped(index)
        BY DEF Init, IndexTyped
    <1> QED BY <1>2, <1>3, InitIndexInv DEF Init, Idle, BaseInv

\* Every event keeps the invariant, and compacts what it removes.
LEMMA NextBaseInv ==
    ASSUME BaseInv, [Next]_vars
    PROVE  BaseInv' /\ (Idle => CompactsRemovals(edges, edges', states'))
    <1>0. IndexInv /\ IndexInv' /\ states' \subseteq Bids
        BY StepKeepsAndImplements DEF BaseInv, IndexInv
    <1>s. \A S, T : CompactsRemovals(edges, edges', S) /\ T \subseteq S => CompactsRemovals(edges, edges', T)
        BY DEF CompactsRemovals
    <1>e. edges' = edges => edges' \in TypedEdges /\ CompactsRemovals(edges, edges', states')
        BY DEF BaseInv, CompactsRemovals
    <1>c. dirty' = FALSE => IndexTyped(index')
        BY <1>0, IndexOfTyped DEF IndexInv, CleanIndexIsExact
    <1>1. CASE Read
        BY <1>0, <1>1, <1>c, <1>e DEF Read, Idle, BaseInv
    <1>2. ASSUME NEW b \in Bids, NEW changed \in BOOLEAN, NEW replaced \in SUBSET states,
                 NodeUpdate(b, replaced, changed)
          PROVE  BaseInv' /\ (Idle => CompactsRemovals(edges, edges', states'))
        <2>1. CASE replaced = {}
            BY <1>0, <1>2, <1>e, <2>1 DEF NodeUpdate, Idle, BaseInv
        <2>2. CASE replaced # {}
            <3>1. edges' = edges /\ dirty' = FALSE /\ replacing' = <<b, replaced>>
                BY <1>2, <2>2 DEF NodeUpdate
            <3> QED BY <1>0, <1>c, <1>e, <2>2, <3>1 DEF BaseInv
        <2> QED BY <2>1, <2>2
    <1>3. ASSUME NEW b \in Bids, NEW changed \in BOOLEAN, NodeUpdateUnknownKeys(b, changed)
          PROVE  BaseInv' /\ (Idle => CompactsRemovals(edges, edges', states'))
        <2>1. PICK g \in SyncResults : nodes' = g.nodes /\ index' = g.index
            BY <1>3 DEF NodeUpdateUnknownKeys
        <2>2. IndexTyped(index')
            BY <1>0, <2>1, SyncedTyped
        <2> QED BY <1>0, <1>3, <1>e, <2>2 DEF NodeUpdateUnknownKeys, Idle, BaseInv
    <1>4. ASSUME NEW old \in Bids, ReplaceBid(old)
          PROVE  BaseInv' /\ (Idle => CompactsRemovals(edges, edges', states'))
        <2>1. PICK g \in SyncResults : index' = g.index
            BY <1>4 DEF ReplaceBid
        <2>2. IndexTyped(index')
            BY <1>0, <2>1, SyncedTyped
        <2>3. /\ replacing[1] \in states /\ old # replacing[1]
              /\ edges' = ReplacedNode(edges, old, replacing[1])
            BY <1>0, <1>4, ReplaceBidKeeps
        <2>4. edges' \in TypedEdges
            BY <1>0, <2>3, ReplacedWeights DEF BaseInv, IndexInv
        <2>5. ~Idle /\ (~Idle' => replacing'[2] # {})
            BY <1>4 DEF ReplaceBid, Idle
        <2> QED BY <1>0, <2>2, <2>4, <2>5 DEF BaseInv
    <1>5. ASSUME NEW removed \in SUBSET Bids, NodesRemoved(removed)
          PROVE  BaseInv' /\ (Idle => CompactsRemovals(edges, edges', states'))
        <2>1. PICK g \in SyncResults : index' = g.index \/ dirty' = FALSE
            BY <1>5 DEF NodesRemoved
        <2>2. IndexTyped(index')
            BY <1>0, <1>c, <2>1, SyncedTyped
        <2>3. edges' \in WithoutNodes(edges, removed) /\ Idle /\ Idle' /\ states' = states \ removed
            BY <1>5 DEF NodesRemoved, Idle
        <2>4. edges' \in TypedEdges /\ CompactsRemovals(edges, edges', Bids \ removed)
            BY <2>3, RemovedWeights DEF BaseInv
        <2>5. states' \subseteq Bids \ removed
            BY <1>0, <2>3 DEF IndexInv
        <2> QED BY <1>0, <1>s, <2>2, <2>3, <2>4, <2>5 DEF BaseInv
    <1>6. ASSUME NEW r \in Related,
                 \/ \E ws \in WeightSets : RelationUpdate(r[1], r[2], ws)
                 \/ RelationRemoved(r[1], r[2])
                 \/ \E kind \in Kinds :
                       \/ \E weight \in [key : 0..MaxKey \union {NoKey}, owner : Owners] :
                             RelationChange(r[1], r[2], kind, weight)
                       \/ KindRemoved(r[1], r[2], kind)
          PROVE  BaseInv' /\ (Idle => CompactsRemovals(edges, edges', states'))
        <2>1. r[1] \in Bids /\ r[2] \in Bids
            BY RelatedAssumption DEF Pairs
        <2>2. /\ edges' \in TypedEdges /\ CompactsRemovals(edges, edges', Bids)
              /\ dirty' = FALSE /\ replacing' = replacing /\ states' = states
            BY <1>6, <2>1, RelationWeights
        <2>3. Idle' = Idle
            BY <2>2 DEF Idle
        <2> QED BY <1>0, <1>s, <1>c, <2>2, <2>3 DEF BaseInv
    <1>7. ASSUME NEW added \in SUBSET Bids, NEW changed \in BOOLEAN, MergeNodes(added, changed)
          PROVE  BaseInv' /\ (Idle => CompactsRemovals(edges, edges', states'))
        BY <1>0, <1>7, <1>c, <1>e DEF MergeNodes, Idle, BaseInv
    <1>8. CASE UNCHANGED vars
        BY <1>0, <1>8, <1>e DEF vars, Idle, BaseInv
    <1> QED BY <1>1, <1>2, <1>3, <1>4, <1>5, <1>6, <1>7, <1>8 DEF Next

\* Every reachable state is of its types: the index names positions whether or
\* not it is clean, and no relation carries a weight without a sort key.
THEOREM TypesAreKept == Spec => []BaseTypeOK
    <1>1. BaseInv => BaseTypeOK
        <2> SUFFICES ASSUME BaseInv PROVE BaseTypeOK
            OBVIOUS
        <2>1. edges \in [Pairs -> [Kinds -> [key : Nat, owner : Owners] \union {NoWeight}]]
            BY DEF BaseInv, TypedEdges, TypedWeights, WeightValues
        <2> QED BY <2>1 DEF BaseInv, IndexInv, IndexTyped, BaseTypeOK
    <1>2. BaseInv /\ [Next]_vars => BaseInv'
        BY NextBaseInv
    <1> QED BY <1>1, <1>2, InitBaseInv, PTL DEF Spec

\* Whatever event takes relations of a kind from a sink, those that are left are
\* numbered without gaps; only a replacement of nodes may leave some.
THEOREM RemovalsAlwaysCompact == Spec => RemovalsCompact
    <1> DEFINE Compacts == Idle => CompactsRemovals(edges, edges', states')
    <1>1. BaseInv /\ [Next]_vars => BaseInv' /\ Compacts
        BY NextBaseInv
    <1>2. BaseInv /\ [Next]_vars =>
             [Idle => \A sink \in states', kind \in Kinds :
                LET before == Incoming(edges, sink, kind)
                    after  == Incoming(edges', sink, kind)
                IN  ~(before \subseteq after) =>
                       {edges'[<<s, sink>>][kind].key : s \in after}
                           = 0..(Cardinality(after) - 1)]_vars
        BY <1>1 DEF CompactsRemovals, Compact
    <1> QED BY <1>1, <1>2, InitBaseInv, PTL DEF Spec, RemovalsCompact
=============================================================================
