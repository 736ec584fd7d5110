------------------------ MODULE DocumentCompilerProofs ------------------------
(***************************************************************************)
(* Proofs about the compiler, for every tree of documents, every set of    *)
(* faulty files and every attempt limit.  First the open system of         *)
(* DocumentCompiler, whose theorems hold for every client.  Then           *)
(* parse_all: with one job it implements the open system, and with any     *)
(* number of jobs a finished run leaves nothing behind, and what it        *)
(* reports as resolved is.  Last the watch pipeline, the other client: it  *)
(* keeps the scheduler's invariant, and what is parsed reaches the         *)
(* database.                                                               *)
(***************************************************************************)
EXTENDS ParseAll, FileUpdateSyncer, OrderLemmas, FiniteSetTheorems, TLAPS

-----------------------------------------------------------------------------
(* Lemmas on the queue operators.                                          *)

\* Removing a path from a queue that holds it at most once leaves a queue that
\* holds every other path as before.
LEMMA WithoutProperties ==
  ASSUME NEW S, NEW q \in Seq(S), NEW p, IsInjective(q)
  PROVE  /\ Without(q, p) \in Seq(S)
         /\ IsInjective(Without(q, p))
         /\ Range(Without(q, p)) = Range(q) \ {p}
<1>1. CASE p \notin Range(q)
  BY <1>1 DEF Without
<1>2. CASE p \in Range(q)
  <2> DEFINE i == CHOOSE k \in DOMAIN q : q[k] = p
             r == [k \in 1..(Len(q) - 1) |-> q[IF k < i THEN k ELSE k + 1]]
  <2>1. i \in 1..Len(q) /\ q[i] = p
    BY <1>2 DEF Range
  <2>2. Without(q, p) = r
    BY <1>2 DEF Without
  <2> HIDE DEF i
  <2>3. r \in Seq(S) /\ Len(r) = Len(q) - 1
    <3>1. Len(q) - 1 \in Nat
      BY <2>1
    <3>2. \A k \in 1..(Len(q) - 1) : q[IF k < i THEN k ELSE k + 1] \in S
      BY <2>1
    <3> QED  BY <3>1, <3>2
  <2>4. IsInjective(r)
    BY <2>1, <2>3 DEF IsInjective
  <2>5. \A k \in 1..Len(q) : q[k] = p => k = i
    BY <2>1 DEF IsInjective
  <2>6. \A k \in DOMAIN r : r[k] \in Range(q) \ {p}
    BY <2>1, <2>3, <2>5 DEF Range
  <2>7. ASSUME NEW x \in Range(q), x # p
        PROVE  x \in Range(r)
    <3>1. PICK k \in 1..Len(q) : q[k] = x
      BY DEF Range
    <3>2. CASE k < i
      <4>1. k \in 1..(Len(q) - 1) /\ r[k] = x
        BY <2>1, <3>1, <3>2
      <4> QED  BY <4>1, <2>3 DEF Range
    <3>3. CASE k > i
      <4>1. k - 1 \in 1..(Len(q) - 1) /\ r[k - 1] = x
        BY <2>1, <3>1, <3>3
      <4> QED  BY <4>1, <2>3 DEF Range
    <3>4. k # i
      BY <2>1, <2>7, <3>1
    <3> QED  BY <2>1, <3>2, <3>3, <3>4
  <2>8. Range(r) = Range(q) \ {p}
    BY <2>6, <2>7 DEF Range
  <2> QED  BY <2>2, <2>3, <2>4, <2>8
<1> QED  BY <1>1, <1>2

\* An ordering of a finite set is a queue of its members, each once.
LEMMA OrderingsProperties ==
  ASSUME NEW S, IsFiniteSet(S), NEW o \in Orderings(S)
  PROVE  o \in Seq(S) /\ IsInjective(o) /\ Range(o) = S
<1>1. Cardinality(S) \in Nat
  BY FS_CardinalityType
<1>2. o \in [1..Cardinality(S) -> S] /\ IsInjective(o) /\ Range(o) = S
  BY DEF Orderings
<1> QED  BY <1>1, <1>2

\* Two queues with no path in common form one.
LEMMA ConcatProperties ==
  ASSUME NEW S, NEW q \in Seq(S), NEW r \in Seq(S),
         IsInjective(q), IsInjective(r), Range(q) \cap Range(r) = {}
  PROVE  /\ q \o r \in Seq(S)
         /\ IsInjective(q \o r)
         /\ Range(q \o r) = Range(q) \cup Range(r)
<1> DEFINE s == q \o r
<1>1. /\ s \in Seq(S) /\ Len(s) = Len(q) + Len(r)
      /\ \A k \in 1..Len(s) : s[k] = IF k <= Len(q) THEN q[k] ELSE r[k - Len(q)]
  OBVIOUS
<1> HIDE DEF s
<1>2. Len(q) \in Nat /\ Len(r) \in Nat
  OBVIOUS
<1>3. \A k \in 1..Len(q) : s[k] = q[k] /\ k \in 1..Len(s)
  BY <1>1, <1>2
<1>4. \A k \in 1..Len(r) : s[k + Len(q)] = r[k] /\ k + Len(q) \in 1..Len(s)
  BY <1>1, <1>2
<1>5. \A k \in 1..Len(s) : k \in 1..Len(q) \/ (k - Len(q) \in 1..Len(r) /\ s[k] = r[k - Len(q)])
  BY <1>1, <1>2
<1>5a. /\ \A k \in 1..Len(q) : q[k] \in Range(q)
      /\ \A k \in 1..Len(r) : r[k] \in Range(r)
  BY DEF Range
<1>6. IsInjective(s)
  <2> SUFFICES ASSUME NEW a \in 1..Len(s), NEW b \in 1..Len(s), s[a] = s[b]
               PROVE  a = b
    BY <1>1 DEF IsInjective
  <2>1. CASE a \in 1..Len(q) /\ b \in 1..Len(q)
    BY <1>3, <2>1 DEF IsInjective
  <2>2. CASE a \in 1..Len(q) /\ b \notin 1..Len(q)
    BY <1>3, <1>5, <1>5a, <2>2
  <2>3. CASE a \notin 1..Len(q) /\ b \in 1..Len(q)
    BY <1>3, <1>5, <1>5a, <2>3
  <2>4. CASE a \notin 1..Len(q) /\ b \notin 1..Len(q)
    <3>1. r[a - Len(q)] = r[b - Len(q)] /\ a - Len(q) \in 1..Len(r) /\ b - Len(q) \in 1..Len(r)
      BY <1>5, <2>4
    <3>2. a - Len(q) = b - Len(q)
      BY <3>1 DEF IsInjective
    <3> QED  BY <3>2, <1>2
  <2> QED  BY <2>1, <2>2, <2>3, <2>4
<1>7. Range(s) \subseteq Range(q) \cup Range(r)
  BY <1>1, <1>3, <1>5 DEF Range
<1>8. Range(q) \subseteq Range(s) /\ Range(r) \subseteq Range(s)
  <2>1. \A k \in 1..Len(s) : s[k] \in Range(s)
    BY <1>1 DEF Range
  <2>2. \A k \in 1..Len(q) : q[k] \in Range(s)
    BY <2>1, <1>3
  <2>3. \A k \in 1..Len(r) : r[k] \in Range(s)
    BY <2>1, <1>4
  <2> QED  BY <2>2, <2>3 DEF Range
<1> QED  BY <1>1, <1>6, <1>7, <1>8 DEF s

\* One path forms a queue.
LEMMA SingletonProperties ==
  ASSUME NEW S, NEW p \in S
  PROVE  <<p>> \in Seq(S) /\ IsInjective(<<p>>) /\ Range(<<p>>) = {p}
BY DEF IsInjective, Range

\* Pushing a path that is not in a queue.
LEMMA AppendProperties ==
  ASSUME NEW S, NEW q \in Seq(S), NEW p \in S, IsInjective(q), p \notin Range(q)
  PROVE  /\ Append(q, p) \in Seq(S)
         /\ IsInjective(Append(q, p))
         /\ Range(Append(q, p)) = Range(q) \cup {p}
<1>1. Append(q, p) = q \o <<p>>
  OBVIOUS
<1>2. <<p>> \in Seq(S) /\ IsInjective(<<p>>) /\ Range(<<p>>) = {p}
  BY SingletonProperties
<1>3. Range(q) \cap Range(<<p>>) = {}
  BY <1>2
<1> DEFINE r == <<p>>
<1> HIDE DEF r
<1>4. r \in Seq(S) /\ IsInjective(r) /\ Range(r) = {p} /\ Range(q) \cap Range(r) = {}
  BY <1>2, <1>3 DEF r
<1>5. /\ q \o r \in Seq(S)
      /\ IsInjective(q \o r)
      /\ Range(q \o r) = Range(q) \cup {p}
  BY <1>4, ConcatProperties
<1>6. Append(q, p) = q \o r
  BY <1>1 DEF r
<1> QED  BY <1>5, <1>6

-----------------------------------------------------------------------------
(* The inductive invariant, and what each way to touch the queues keeps.   *)

\* A pair of queues as the compiler keeps them.
QueuesOK(primary, reparse) ==
  /\ primary \in Seq(Paths) /\ reparse \in Seq(Docs)
  /\ IsInjective(primary) /\ IsInjective(reparse)
  /\ Range(primary) \cap Range(reparse) = {}

\* Everything but the queues is of its type.
DataOK ==
  /\ processed \in [Paths -> Nat]
  /\ pending_dependencies \in [Docs -> SUBSET Docs]
  /\ reparse_stable \in BOOLEAN
  /\ last_round_updates \subseteq Paths
  /\ session_bb \subseteq Paths
  /\ global_bb \subseteq Paths

Inv == QueuesOK(primary_queue, reparse_queue) /\ DataOK /\ AttemptsBounded

\* The invariant is the conjunction of the three invariants the runs check.
LEMMA InvIsTheChecked == Inv <=> TypeOK /\ QueuesDisjoint /\ AttemptsBounded
BY DEF Inv, QueuesOK, DataOK, TypeOK, QueuesDisjoint

\* Orderings are taken of sets of paths, which are finite.
LEMMA PathsFinite == IsFiniteSet(Paths) /\ \A S \in SUBSET Paths : IsFiniteSet(S)
<1>1. IsFiniteSet(Paths)
  BY CompilerAssumption, FS_Union DEF Paths
<1> QED  BY <1>1, FS_Subset

\* A path leaves both queues.
LEMMA DequeueKeepsQueues ==
  ASSUME NEW primary, NEW reparse, QueuesOK(primary, reparse), NEW p
  PROVE  /\ QueuesOK(Without(primary, p), Without(reparse, p))
         /\ Range(Without(primary, p)) = Range(primary) \ {p}
         /\ Range(Without(reparse, p)) = Range(reparse) \ {p}
<1>1. /\ Without(primary, p) \in Seq(Paths) /\ IsInjective(Without(primary, p))
      /\ Range(Without(primary, p)) = Range(primary) \ {p}
  BY WithoutProperties DEF QueuesOK
<1>2. /\ Without(reparse, p) \in Seq(Docs) /\ IsInjective(Without(reparse, p))
      /\ Range(Without(reparse, p)) = Range(reparse) \ {p}
  BY WithoutProperties DEF QueuesOK
<1> QED  BY <1>1, <1>2 DEF QueuesOK

\* The path parse_next works on, and the primary queue it is left in: filled by
\* finalize with assets, of which the reparse queue holds none.
LEMMA PickedQueue ==
  ASSUME QueuesOK(primary_queue, reparse_queue), DataOK,
         NEW q \in {primary_queue} \cup Orderings(UncheckedAssets),
         NEW p \in Range(q) \cup Range(reparse_queue), Picks(p, q)
  PROVE  /\ QueuesOK(q, reparse_queue)
         /\ Range(q) \subseteq Range(primary_queue) \cup UncheckedAssets
         /\ p \in Paths
<1>1. Range(reparse_queue) \subseteq Docs
  BY DEF QueuesOK, Range
<1>2. CASE q = primary_queue
  BY <1>1, <1>2 DEF QueuesOK, Range, Paths
<1>3. CASE q \in Orderings(UncheckedAssets)
  <2>1. UncheckedAssets \subseteq Assets /\ UncheckedAssets \subseteq Paths
    BY DEF UncheckedAssets, Paths
  <2>2. IsFiniteSet(UncheckedAssets)
    BY <2>1, PathsFinite
  <2>3. q \in Seq(UncheckedAssets) /\ IsInjective(q) /\ Range(q) = UncheckedAssets
    BY <1>3, <2>2, OrderingsProperties
  <2>4. q \in Seq(Paths)
    BY <2>1, <2>3
  <2>5. Range(q) \cap Range(reparse_queue) = {}
    BY <1>1, <2>1, <2>3, CompilerAssumption
  <2> QED  BY <1>1, <2>1, <2>3, <2>4, <2>5 DEF QueuesOK, Paths
<1> QED  BY <1>2, <1>3

\* Steps 8 to 10 of parse_next: the targets pushed are queued nowhere, and the
\* document, which just left both queues, joins one.
LEMMA TrackReferencesKeepsQueues ==
  ASSUME NEW d \in Docs, NEW known, NEW nets, NEW primary, NEW reparse,
         QueuesOK(primary, reparse), d \notin Range(primary),
         DataOK, TrackReferences(d, known, nets, primary, reparse),
         processed'[d] # 0
  PROVE  /\ QueuesOK(primary_queue', reparse_queue')
         /\ pending_dependencies' \in [Docs -> SUBSET Docs]
         /\ reparse_stable' \in BOOLEAN
<1> DEFINE unresolved == Unresolved(d, known)
           followed == Followed(unresolved, nets)
           requeue == HasUnresolved(d, known)
           fresh == Fresh(followed \cup (unresolved \cap Assets), primary, reparse)
<1>1. followed \subseteq Docs
  BY DEF Followed
<1>2. fresh \subseteq Paths /\ d \notin fresh
  BY <1>1 DEF Fresh, Paths
<1>3. IsFiniteSet(fresh)
  BY <1>2, PathsFinite
<1>4. PICK o \in Orderings(fresh) : primary_queue' = primary \o o
  BY DEF TrackReferences
<1>5. o \in Seq(fresh) /\ IsInjective(o) /\ Range(o) = fresh
  BY <1>3, OrderingsProperties
<1>6. /\ reparse_queue' = IF requeue /\ d \notin Range(reparse)
                            THEN Append(reparse, d) ELSE reparse
      /\ reparse_stable' = (reparse_stable /\ ~ (requeue /\ d \notin Range(reparse)))
      /\ pending_dependencies' =
           [pending_dependencies EXCEPT ![d] = IF requeue THEN @ \cup followed ELSE {}]
  BY DEF TrackReferences
<1> HIDE DEF fresh
<1>7. /\ primary_queue' \in Seq(Paths) /\ IsInjective(primary_queue')
      /\ Range(primary_queue') = Range(primary) \cup fresh
  <2>1. o \in Seq(Paths)
    BY <1>2, <1>5
  <2>2. Range(primary) \cap Range(o) = {}
    BY <1>5 DEF fresh, Fresh
  <2> QED  BY <1>4, <1>5, <2>1, <2>2, ConcatProperties DEF QueuesOK
<1>8. /\ reparse_queue' \in Seq(Docs) /\ IsInjective(reparse_queue')
      /\ Range(reparse_queue') \subseteq Range(reparse) \cup {d}
  BY <1>6, AppendProperties DEF QueuesOK
<1>9. Range(primary_queue') \cap Range(reparse_queue') = {}
  BY <1>2, <1>7, <1>8 DEF QueuesOK, fresh, Fresh
<1>10. pending_dependencies' \in [Docs -> SUBSET Docs]
  BY <1>1, <1>6 DEF DataOK
<1>11. reparse_stable' \in BOOLEAN
  BY <1>6 DEF DataOK
<1> QED  BY <1>7, <1>8, <1>9, <1>10, <1>11 DEF QueuesOK

-----------------------------------------------------------------------------
(* The invariant holds initially and every operation keeps it.             *)

\* The invariant holds at the start.
LEMMA InitInv == Init => Inv
<1> SUFFICES ASSUME Init PROVE Inv
  OBVIOUS
<1> USE DEF Init
<1>1. primary_queue \in Seq(Paths) /\ IsInjective(primary_queue)
  BY CompilerAssumption, SingletonProperties DEF Paths
<1>2. reparse_queue \in Seq(Docs) /\ IsInjective(reparse_queue) /\ Range(reparse_queue) = {}
  BY DEF IsInjective, Range
<1>3. DataOK
  BY DEF DataOK
<1>4. AttemptsBounded
  BY CompilerAssumption DEF AttemptsBounded
<1> QED  BY <1>1, <1>2, <1>3, <1>4 DEF Inv, QueuesOK

\* An attempt is charged only while the budget lasts.
LEMMA AttemptKeepsBound ==
  ASSUME Inv, NEW p \in Paths, processed[p] < MaxReparse, CountAttempt(p)
  PROVE  /\ processed' \in [Paths -> Nat]
         /\ AttemptsBounded'
         /\ processed'[p] # 0
BY CompilerAssumption DEF Inv, DataOK, AttemptsBounded, CountAttempt

\* One attempt at a path keeps it.
LEMMA AttemptInv ==
  ASSUME Inv, NEW p \in Paths, NEW q, QueuesOK(q, reparse_queue), ParsePath(p, q)
  PROVE  Inv'
<1> USE DEF Inv
<1>1. QueuesOK(q, reparse_queue) /\ p \in Paths
  OBVIOUS
<1>2. QueuesOK(Without(q, p), Without(reparse_queue, p)) /\ p \notin Range(Without(q, p))
  BY <1>1, DequeueKeepsQueues
<1>3. CASE LimitExceeded(p, q)
  BY <1>2, <1>3 DEF LimitExceeded, Dequeue, DataOK, AttemptsBounded
<1>4. CASE Unreadable(p, q)
  <2>1. processed' \in [Paths -> Nat] /\ AttemptsBounded'
    BY <1>1, <1>4, AttemptKeepsBound DEF Unreadable
  <2> QED  BY <1>2, <1>4, <2>1 DEF Unreadable, Dequeue, DataOK
<1>5. CASE ParseFailed(p, q)
  <2>1. processed' \in [Paths -> Nat] /\ AttemptsBounded'
    BY <1>1, <1>5, AttemptKeepsBound DEF ParseFailed
  <2> QED  BY <1>1, <1>5, <2>1 DEF ParseFailed, DataOK
<1>6. CASE AssetProcessed(p, q)
  <2>1. processed' \in [Paths -> Nat] /\ AttemptsBounded'
    BY <1>1, <1>6, AttemptKeepsBound DEF AssetProcessed
  <2> QED  BY <1>1, <1>2, <1>6, <2>1 DEF AssetProcessed, Dequeue, DataOK
<1>7. CASE Parsed(p, q)
  <2>1. p \in Docs /\ processed[p] < MaxReparse /\ CountAttempt(p)
    BY <1>7 DEF Parsed
  <2>2. processed' \in [Paths -> Nat] /\ AttemptsBounded' /\ processed'[p] # 0
    BY <1>1, <2>1, AttemptKeepsBound
  <2>3. TrackReferences(p, session_bb \cup global_bb, SessionAfter(p),
                        Without(q, p), Without(reparse_queue, p))
    BY <1>7 DEF Parsed
  <2>4. /\ QueuesOK(primary_queue', reparse_queue')
        /\ pending_dependencies' \in [Docs -> SUBSET Docs]
        /\ reparse_stable' \in BOOLEAN
    BY <1>2, <2>1, <2>2, <2>3, TrackReferencesKeepsQueues
  <2>5. SessionAfter(p) \subseteq Paths
    BY <2>1, CompilerAssumption DEF SessionAfter, Nodes, DataOK, Paths
  <2> QED  BY <1>7, <2>2, <2>4, <2>5 DEF Parsed, DataOK
<1> QED  BY <1>3, <1>4, <1>5, <1>6, <1>7 DEF ParsePath

\* So does one at the path that parse_next picks.
LEMMA ParsePathInv ==
  ASSUME Inv,
         NEW q \in {primary_queue} \cup Orderings(UncheckedAssets),
         NEW p \in Range(q) \cup Range(reparse_queue), Picks(p, q), ParsePath(p, q)
  PROVE  Inv'
BY PickedQueue, AttemptInv DEF Inv

\* enqueue and enqueue_front push a path that is queued nowhere.
LEMMA EnqueueKeepsQueues ==
  ASSUME QueuesOK(primary_queue, reparse_queue), NEW p \in Paths, Enqueue(p)
  PROVE  QueuesOK(primary_queue', reparse_queue')
<1>1. CASE p \in Queued
  BY <1>1 DEF Enqueue
<1>2. CASE p \notin Queued
  <2>1. /\ Append(primary_queue, p) \in Seq(Paths)
        /\ IsInjective(Append(primary_queue, p))
        /\ Range(Append(primary_queue, p)) = Range(primary_queue) \cup {p}
    BY <1>2, AppendProperties DEF QueuesOK, Queued
  <2> QED  BY <1>2, <2>1 DEF Enqueue, QueuesOK, Queued
<1> QED  BY <1>1, <1>2

\* A path that is moved to the front of the primary queue is in no other place.
LEMMA EnqueueFrontKeepsQueues ==
  ASSUME QueuesOK(primary_queue, reparse_queue), NEW p \in Paths, EnqueueFront(p)
  PROVE  QueuesOK(primary_queue', reparse_queue')
<1>1. /\ reparse_queue' \in Seq(Docs) /\ IsInjective(reparse_queue')
      /\ Range(reparse_queue') = Range(reparse_queue) \ {p}
  BY WithoutProperties DEF EnqueueFront, QueuesOK
<1>2. CASE p \in Range(primary_queue)
  BY <1>1, <1>2 DEF EnqueueFront, QueuesOK
<1>3. CASE p \notin Range(primary_queue)
  <2> DEFINE front == <<p>>
  <2>1. front \in Seq(Paths) /\ IsInjective(front) /\ Range(front) = {p}
    BY SingletonProperties
  <2>2. primary_queue' = front \o primary_queue
    BY <1>3 DEF EnqueueFront
  <2> HIDE DEF front
  <2>3. Range(front) \cap Range(primary_queue) = {}
    BY <1>3, <2>1
  <2>4. /\ primary_queue' \in Seq(Paths) /\ IsInjective(primary_queue')
        /\ Range(primary_queue') = {p} \cup Range(primary_queue)
    BY <2>1, <2>2, <2>3, ConcatProperties DEF QueuesOK
  <2> QED  BY <1>1, <2>4 DEF QueuesOK
<1> QED  BY <1>2, <1>3

\* Forgetting the attempts of a path keeps every count within its bound.
LEMMA ForgetKeepsData ==
  ASSUME DataOK, AttemptsBounded, NEW p \in Paths, Forget(p)
  PROVE  /\ processed' \in [Paths -> Nat]
         /\ pending_dependencies' \in [Docs -> SUBSET Docs]
         /\ AttemptsBounded'
BY CompilerAssumption DEF DataOK, AttemptsBounded, Forget

\* Every public operation, in any order, keeps the invariant.
LEMMA NextInv ==
  ASSUME Inv, [Next]_vars
  PROVE  Inv'
<1> USE DEF Inv
<1>1. CASE ParseNext
  BY <1>1, ParsePathInv DEF ParseNext
<1>2. ASSUME NEW p \in Paths, EnqueuePath(p)
      PROVE  Inv'
  <2>1. QueuesOK(primary_queue', reparse_queue')
    BY <1>2, EnqueueKeepsQueues DEF EnqueuePath
  <2> QED  BY <1>2, <2>1 DEF EnqueuePath, DataOK, AttemptsBounded
<1>3. ASSUME NEW p \in Paths, OnFileModified(p)
      PROVE  Inv'
  <2>1. QueuesOK(primary_queue', reparse_queue')
    BY <1>3, EnqueueFrontKeepsQueues DEF OnFileModified
  <2>2. processed' \in [Paths -> Nat] /\ AttemptsBounded'
    BY <1>3, CompilerAssumption DEF OnFileModified, DataOK, AttemptsBounded
  <2> QED  BY <1>3, <2>1, <2>2 DEF OnFileModified, DataOK
<1>4. ASSUME NEW p \in Paths, OnFileDeleted(p)
      PROVE  Inv'
  <2>1. QueuesOK(primary_queue', reparse_queue')
    BY <1>4, DequeueKeepsQueues DEF OnFileDeleted, RemoveFromQueues
  <2> QED  BY <1>4, <2>1, ForgetKeepsData DEF OnFileDeleted, DataOK
<1>5. ASSUME NEW p \in Paths, ResetProcessed(p)
      PROVE  Inv'
  BY <1>5, ForgetKeepsData DEF ResetProcessed, DataOK
<1>6. CASE ClearProcessed
  BY <1>6, CompilerAssumption DEF ClearProcessed, DataOK, AttemptsBounded
<1>7. CASE StartReparseRound
  BY <1>7 DEF StartReparseRound, RoundStart, DataOK, AttemptsBounded
<1>8. ASSUME NEW nodes \in SUBSET Paths,
             OnNodesUpdated(nodes) \/ OnNodesRemoved(nodes) \/ SourceUpdated(nodes)
      PROVE  Inv'
  BY <1>8 DEF OnNodesUpdated, OnNodesRemoved, SourceUpdated, DataOK, AttemptsBounded
<1>9. CASE UNCHANGED vars
  BY <1>9 DEF vars, DataOK, AttemptsBounded
<1> QED  BY <1>1, <1>2, <1>3, <1>4, <1>5, <1>6, <1>7, <1>8, <1>9 DEF Next

\* So it always holds.
LEMMA SpecInv == Spec => []Inv
BY InitInv, NextInv, PTL DEF Spec

-----------------------------------------------------------------------------
(* What holds of every client's use of the compiler.                       *)

\* Every reachable state is of its type: in particular only documents are ever
\* queued for another parse, and only documents are waited for.
THEOREM TypeCorrect == Spec => []TypeOK
BY SpecInv, InvIsTheChecked, PTL

\* No interleaving of parse_next, enqueue, enqueue_front, removals and resets
\* queues a path twice, in one queue or across the two.
THEOREM QueuesStayDisjoint == Spec => []QueuesDisjoint
BY SpecInv, InvIsTheChecked, PTL

\* Loop prevention: parse_next never charges a path more than max_reparse_count
\* attempts between two resets of its count.
THEOREM AttemptsStayBounded == Spec => []AttemptsBounded
BY SpecInv, InvIsTheChecked, PTL

\* One attempt is progress.
LEMMA ParsePathProgress ==
  ASSUME Inv,
         NEW q \in {primary_queue} \cup Orderings(UncheckedAssets),
         NEW p \in Range(q) \cup Range(reparse_queue), Picks(p, q), ParsePath(p, q)
  PROVE  Progress
<1>1. /\ QueuesOK(q, reparse_queue)
      /\ Range(q) \subseteq Range(primary_queue) \cup UncheckedAssets
      /\ p \in Paths
  BY PickedQueue DEF Inv
<1>2. CASE LimitExceeded(p, q)
  <2>1. /\ Range(Without(q, p)) = Range(q) \ {p}
        /\ Range(Without(reparse_queue, p)) = Range(reparse_queue) \ {p}
    BY <1>1, DequeueKeepsQueues
  <2>2. /\ Range(primary_queue') = Range(q) \ {p}
        /\ Range(reparse_queue') = Range(reparse_queue) \ {p}
        /\ processed' = processed
    BY <1>2, <2>1 DEF LimitExceeded, Dequeue
  <2>3. p \in Queued \cup UncheckedAssets
    BY <1>1 DEF Queued
  <2> QED  BY <1>1, <2>2, <2>3 DEF Progress, Queued
<1>3. CASE ~ LimitExceeded(p, q)
  <2>1. CountAttempt(p)
    BY <1>3 DEF ParsePath, Unreadable, ParseFailed, AssetProcessed, Parsed
  <2> QED  BY <1>1, <2>1 DEF CountAttempt, Progress
<1> QED  BY <1>2, <1>3

\* However often and in whatever state a client calls it, parse_next charges one
\* attempt or shortens the queues: no call leaves the compiler where it was.
THEOREM ParseNextAlwaysProgresses == Spec => ParseNextProgresses
<1>1. ASSUME Inv, [Next]_vars
      PROVE  [ParseNext => Progress]_vars
  BY <1>1, ParsePathProgress DEF ParseNext
<1> QED  BY <1>1, SpecInv, PTL DEF Spec, ParseNextProgresses

-----------------------------------------------------------------------------
(* parse_all.                                                              *)

\* The epoch is entered with more than one job only, and only nodes of the tree
\* are sent.
EpochInv == (phase = "epoch" => parallel) /\ emitted \subseteq Paths

\* A builder sends the nodes of a document and of its networks.
LEMMA NodesArePaths ==
  ASSUME NEW d \in Docs
  PROVE  Nodes(d) \subseteq Paths
BY CompilerAssumption DEF Nodes, Paths

\* One turn of the loop is one way parse_next returns.
LEMMA LoopStepIsParsePath ==
  ASSUME emitted \subseteq Paths, NEW q, NEW p, LoopStep(p, q)
  PROVE  emitted' \subseteq Paths /\ ParsePath(p, q)
<1>1. Parsed(p, q) => p \in Docs
  BY DEF Parsed
<1>2. AssetProcessed(p, q) => p \in Paths
  BY DEF AssetProcessed, Paths
<1> QED  BY <1>1, <1>2, NodesArePaths DEF LoopStep, KeepSentinel, ParsePath

\* Every step with one job is an operation of the compiler or leaves the compiler
\* alone, and the jobs stay what they are.
LEMMA BatchStep ==
  ASSUME EpochInv, [BatchNext]_parseAllVars
  PROVE  EpochInv' /\ parallel' = parallel /\ (parallel \/ [Next]_vars)
<1> USE DEF EpochInv
<1>1. CASE SourceCatchesUp
  BY <1>1 DEF SourceCatchesUp, batchVars, Next
<1>2. ASSUME NEW p \in Requests, CallerEnqueues(p)
      PROVE  EpochInv' /\ parallel' = parallel /\ (parallel \/ [Next]_vars)
  BY <1>2, ParseAllAssumption DEF CallerEnqueues, batchVars, Next
<1>3. CASE StartRun
  BY <1>3 DEF StartRun, vars
<1>4. ASSUME NEW p \in Paths, EnqueueStale(p)
      PROVE  EpochInv' /\ parallel' = parallel /\ (parallel \/ [Next]_vars)
  BY <1>4 DEF EnqueueStale, Next
<1>5. CASE StartLoop
  BY <1>5 DEF StartLoop, vars
<1>6. CASE StartEpoch \/ EpochDone
  BY <1>6 DEF StartEpoch, EpochDone
<1>7. CASE EpochResult
  <2>1. parallel /\ parallel' = parallel
    BY <1>7 DEF EpochResult
  <2>2. emitted' \subseteq Paths
    BY <1>7, NodesArePaths DEF EpochResult, EpochFailed, EpochParsed
  <2> QED  BY <2>1, <2>2
<1>8. CASE Loop
  <2>1. PICK q \in {primary_queue} \cup Orderings(UncheckedAssets) :
          \E p \in Range(q) \cup Range(reparse_queue) : Picks(p, q) /\ LoopStep(p, q)
    BY <1>8 DEF Loop
  <2>2. PICK p \in Range(q) \cup Range(reparse_queue) : Picks(p, q) /\ LoopStep(p, q)
    BY <2>1
  <2>3. emitted' \subseteq Paths /\ ParsePath(p, q)
    BY <2>2, LoopStepIsParsePath
  <2>4. ParseNext
    BY <2>2, <2>3 DEF ParseNext
  <2>5. phase' = phase /\ parallel' = parallel
    BY <1>8 DEF Loop
  <2> QED  BY <2>3, <2>4, <2>5 DEF Next
<1>9. CASE Promote
  BY <1>9 DEF Promote, vars
<1>10. CASE UNCHANGED parseAllVars
  BY <1>10 DEF parseAllVars, batchVars, vars
<1> QED
  BY <1>1, <1>2, <1>3, <1>4, <1>5, <1>6, <1>7, <1>8, <1>9, <1>10 DEF BatchNext, Run

\* What is proved of every client holds of parse_all with one job: its
\* queues stay disjoint and max_reparse_count is kept over all its runs.
THEOREM SequentialStaysSafe == BatchSpec => []SequentialIsSafe
<1> DEFINE Safe == parallel \/ Inv
<1>1. BatchInit => EpochInv /\ Safe
  BY InitInv DEF BatchInit, EpochInv
<1>2. ASSUME EpochInv, Safe, [BatchNext]_parseAllVars
      PROVE  EpochInv' /\ Safe'
  <2>1. EpochInv' /\ parallel' = parallel /\ (parallel \/ [Next]_vars)
    BY <1>2, BatchStep
  <2>2. CASE parallel
    BY <2>1, <2>2
  <2>3. CASE Inv /\ [Next]_vars
    BY <2>1, <2>3, NextInv
  <2> QED  BY <1>2, <2>1, <2>2, <2>3
<1>3. Safe => SequentialIsSafe
  BY InvIsTheChecked DEF SequentialIsSafe
<1> QED  BY <1>1, <1>2, <1>3, PTL DEF BatchSpec

-----------------------------------------------------------------------------
(* Any number of jobs.  An epoch's results push to queues that no longer   *)
(* tell which paths the epoch holds, so the two queues may share a path:   *)
(* what is left of the invariant of the compiler is about each of them.    *)

\* A pair of queues, each holding a path once.
QueuesTyped(primary, reparse) ==
  /\ primary \in Seq(Paths) /\ reparse \in Seq(Docs)
  /\ IsInjective(primary) /\ IsInjective(reparse)

\* A followed reference was attempted or is queued.
Pursued(t) == processed[t] > 0 \/ t \in Queued

PendingPursued == \A d \in Docs : \A t \in pending_dependencies[d] : Pursued(t)

\* What every step of parse_all keeps of the compiler.
CompilerOK ==
  /\ QueuesTyped(primary_queue, reparse_queue)
  /\ DataOK
  /\ reparse_stable = FALSE
  /\ PendingPursued

\* A path leaves both queues, wherever it is.
LEMMA DequeueKeepsTyped ==
  ASSUME NEW primary, NEW reparse, QueuesTyped(primary, reparse), NEW p
  PROVE  /\ QueuesTyped(Without(primary, p), Without(reparse, p))
         /\ Range(Without(primary, p)) = Range(primary) \ {p}
         /\ Range(Without(reparse, p)) = Range(reparse) \ {p}
<1>1. /\ Without(primary, p) \in Seq(Paths) /\ IsInjective(Without(primary, p))
      /\ Range(Without(primary, p)) = Range(primary) \ {p}
  BY WithoutProperties DEF QueuesTyped
<1>2. /\ Without(reparse, p) \in Seq(Docs) /\ IsInjective(Without(reparse, p))
      /\ Range(Without(reparse, p)) = Range(reparse) \ {p}
  BY WithoutProperties DEF QueuesTyped
<1> QED  BY <1>1, <1>2 DEF QueuesTyped

\* The queue parse_next works on holds what the primary queue held.
LEMMA PickedQueueTyped ==
  ASSUME QueuesTyped(primary_queue, reparse_queue), DataOK,
         NEW q \in {primary_queue} \cup Orderings(UncheckedAssets),
         NEW p \in Range(q) \cup Range(reparse_queue), Picks(p, q)
  PROVE  /\ QueuesTyped(q, reparse_queue)
         /\ Range(primary_queue) \subseteq Range(q)
         /\ p \in Paths
<1>1. Range(reparse_queue) \subseteq Docs
  BY DEF QueuesTyped, Range
<1>2. CASE q = primary_queue
  BY <1>1, <1>2 DEF QueuesTyped, Range, Paths
<1>3. CASE q # primary_queue
  <2>1. UncheckedAssets \subseteq Paths
    BY DEF UncheckedAssets, Paths
  <2>2. IsFiniteSet(UncheckedAssets)
    BY <2>1, PathsFinite
  <2>3. q \in Seq(UncheckedAssets) /\ IsInjective(q) /\ Range(q) = UncheckedAssets
    BY <1>3, <2>2, OrderingsProperties
  <2>4. primary_queue = <<>>
    BY <1>3 DEF Picks
  <2>5. Range(primary_queue) = {}
    BY <2>4 DEF Range
  <2>6. q \in Seq(Paths)
    BY <2>1, <2>3
  <2> QED  BY <1>1, <2>1, <2>3, <2>5, <2>6 DEF QueuesTyped, Paths
<1> QED  BY <1>2, <1>3

\* Steps 8 to 10 of parse_next: no path leaves a queue, and every reference that
\* is followed was attempted or is in one.
LEMMA TrackReferencesPursues ==
  ASSUME NEW d \in Docs, NEW known, NEW nets, NEW primary, NEW reparse,
         QueuesTyped(primary, reparse), DataOK,
         processed' \in [Paths -> Nat],
         TrackReferences(d, known, nets, primary, reparse)
  PROVE  /\ QueuesTyped(primary_queue', reparse_queue')
         /\ pending_dependencies' \in [Docs -> SUBSET Docs]
         /\ reparse_stable = FALSE => reparse_stable' = FALSE
         /\ Range(primary) \cup Range(reparse) \subseteq Queued'
         /\ \A e \in Docs : \A t \in pending_dependencies'[e] :
              t \in pending_dependencies[e] \/ Pursued(t)'
<1> DEFINE unresolved == Unresolved(d, known)
           followed == Followed(unresolved, nets)
           requeue == HasUnresolved(d, known)
           fresh == Fresh(followed \cup (unresolved \cap Assets), primary, reparse)
<1>1. followed \subseteq Docs
  BY DEF Followed
<1>2. fresh \subseteq Paths
  BY <1>1 DEF Fresh, Paths
<1>3. IsFiniteSet(fresh)
  BY <1>2, PathsFinite
<1>4. PICK o \in Orderings(fresh) : primary_queue' = primary \o o
  BY DEF TrackReferences
<1>5. o \in Seq(fresh) /\ IsInjective(o) /\ Range(o) = fresh
  BY <1>3, OrderingsProperties
<1>6. /\ reparse_queue' = IF requeue /\ d \notin Range(reparse)
                            THEN Append(reparse, d) ELSE reparse
      /\ reparse_stable' = (reparse_stable /\ ~ (requeue /\ d \notin Range(reparse)))
      /\ pending_dependencies' =
           [pending_dependencies EXCEPT ![d] = IF requeue THEN @ \cup followed ELSE {}]
  BY DEF TrackReferences
<1>7. \A t \in followed : processed'[t] = 0 => t \in Range(primary) \cup Range(reparse) \cup fresh
  BY DEF Fresh
<1>8. Range(primary) \cap fresh = {}
  BY DEF Fresh
<1> HIDE DEF fresh, followed, requeue
<1>9. /\ primary_queue' \in Seq(Paths) /\ IsInjective(primary_queue')
      /\ Range(primary_queue') = Range(primary) \cup fresh
  <2>1. o \in Seq(Paths)
    BY <1>2, <1>5
  <2>2. Range(primary) \cap Range(o) = {}
    BY <1>5, <1>8
  <2> QED  BY <1>4, <1>5, <2>1, <2>2, ConcatProperties DEF QueuesTyped
<1>10. /\ reparse_queue' \in Seq(Docs) /\ IsInjective(reparse_queue')
       /\ Range(reparse) \subseteq Range(reparse_queue')
  BY <1>6, AppendProperties DEF QueuesTyped
<1>11. pending_dependencies' \in [Docs -> SUBSET Docs]
  BY <1>1, <1>6 DEF DataOK
<1>12. Range(primary) \cup Range(reparse) \cup fresh \subseteq Queued'
  BY <1>9, <1>10 DEF Queued
<1>13. \A t \in followed : Pursued(t)'
  <2> TAKE t \in followed
  <2>1. processed'[t] \in Nat
    BY <1>1 DEF Paths
  <2> QED  BY <1>7, <1>12, <2>1 DEF Pursued
<1>14. \A e \in Docs : \A t \in pending_dependencies'[e] :
         t \in pending_dependencies[e] \/ t \in followed
  BY <1>6 DEF DataOK
<1> QED  BY <1>6, <1>9, <1>10, <1>11, <1>12, <1>13, <1>14 DEF QueuesTyped

\* A path that leaves the queues was attempted, so what was pursued still is.
LEMMA PursuedStays ==
  ASSUME DataOK, NEW p \in Paths,
         processed' = processed \/ CountAttempt(p),
         Queued \ {p} \subseteq Queued',
         processed'[p] > 0 \/ p \in Queued',
         NEW t \in Paths, Pursued(t)
  PROVE  Pursued(t)'
<1>1. processed[t] > 0 => processed'[t] > 0
  BY DEF DataOK, CountAttempt
<1> QED  BY <1>1 DEF Pursued

\* In particular what a document waits for.
LEMMA PendingStaysPursued ==
  ASSUME DataOK, NEW p \in Paths, PendingPursued,
         processed' = processed \/ CountAttempt(p),
         Queued \ {p} \subseteq Queued',
         processed'[p] > 0 \/ p \in Queued',
         NEW d \in Docs, NEW t \in pending_dependencies[d]
  PROVE  Pursued(t)'
<1>1. t \in Paths /\ Pursued(t)
  BY DEF DataOK, PendingPursued, Paths
<1> QED  BY <1>1, PursuedStays

\* A counted attempt shows in the count.
LEMMA AttemptIsCounted ==
  ASSUME DataOK, NEW p \in Paths, CountAttempt(p)
  PROVE  processed' \in [Paths -> Nat] /\ processed'[p] > 0
BY DEF DataOK, CountAttempt

\* One call of parse_next, whichever way it returns.
LEMMA ParsePathKeepsCompiler ==
  ASSUME CompilerOK,
         NEW q \in {primary_queue} \cup Orderings(UncheckedAssets),
         NEW p \in Range(q) \cup Range(reparse_queue), Picks(p, q), ParsePath(p, q)
  PROVE  CompilerOK'
<1> USE DEF CompilerOK
<1>1. /\ QueuesTyped(q, reparse_queue)
      /\ Range(primary_queue) \subseteq Range(q)
      /\ p \in Paths
  BY PickedQueueTyped
<1>2. /\ QueuesTyped(Without(q, p), Without(reparse_queue, p))
      /\ Range(Without(q, p)) = Range(q) \ {p}
      /\ Range(Without(reparse_queue, p)) = Range(reparse_queue) \ {p}
  BY <1>1, DequeueKeepsTyped
<1>3. Dequeue(p, q) => Queued \ {p} \subseteq Queued'
  BY <1>1, <1>2 DEF Dequeue, Queued
<1>4. CASE LimitExceeded(p, q)
  <2>1. processed[p] > 0
    BY <1>1, <1>4, CompilerAssumption DEF LimitExceeded, DataOK
  <2>2. \A d \in Docs : \A t \in pending_dependencies[d] : Pursued(t)'
    BY <1>1, <1>3, <1>4, <2>1, PendingStaysPursued DEF LimitExceeded
  <2>3. DataOK'
    BY <1>4 DEF LimitExceeded, DataOK
  <2>4. QueuesTyped(primary_queue', reparse_queue') /\ reparse_stable' = FALSE
    BY <1>2, <1>4 DEF LimitExceeded, Dequeue
  <2>5. PendingPursued'
    BY <1>4, <2>2 DEF LimitExceeded, PendingPursued
  <2> QED  BY <2>3, <2>4, <2>5
<1>5. CASE Unreadable(p, q) \/ AssetProcessed(p, q)
  <2>1. /\ CountAttempt(p) /\ Dequeue(p, q)
        /\ pending_dependencies' = pending_dependencies /\ reparse_stable' = reparse_stable
    BY <1>5 DEF Unreadable, AssetProcessed
  <2>2. processed' \in [Paths -> Nat] /\ processed'[p] > 0
    BY <1>1, <2>1, AttemptIsCounted
  <2>3. \A d \in Docs : \A t \in pending_dependencies[d] : Pursued(t)'
    BY <1>1, <1>3, <2>1, <2>2, PendingStaysPursued
  <2>4. DataOK'
    BY <1>1, <1>5, <2>2 DEF Unreadable, AssetProcessed, DataOK
  <2>5. QueuesTyped(primary_queue', reparse_queue') /\ reparse_stable' = FALSE
    BY <1>2, <2>1 DEF Dequeue
  <2>6. PendingPursued'
    BY <2>1, <2>3 DEF PendingPursued
  <2> QED  BY <2>4, <2>5, <2>6
<1>6. CASE ParseFailed(p, q)
  <2>1. /\ CountAttempt(p) /\ primary_queue' = q /\ reparse_queue' = reparse_queue
        /\ pending_dependencies' = pending_dependencies /\ reparse_stable' = reparse_stable
    BY <1>6 DEF ParseFailed
  <2>2. processed' \in [Paths -> Nat] /\ processed'[p] > 0
    BY <1>1, <2>1, AttemptIsCounted
  <2>3. Queued \subseteq Queued'
    BY <1>1, <2>1 DEF Queued
  <2>4. \A d \in Docs : \A t \in pending_dependencies[d] : Pursued(t)'
    BY <1>1, <2>1, <2>2, <2>3, PendingStaysPursued
  <2>5. DataOK'
    BY <1>1, <1>6, <2>2 DEF ParseFailed, DataOK
  <2>6. PendingPursued'
    BY <2>1, <2>4 DEF PendingPursued
  <2> QED  BY <1>1, <2>1, <2>5, <2>6
<1>7. CASE Parsed(p, q)
  <2>1. p \in Docs /\ CountAttempt(p)
    BY <1>7 DEF Parsed
  <2>2. processed' \in [Paths -> Nat] /\ processed'[p] > 0
    BY <1>1, <2>1, AttemptIsCounted
  <2>3. TrackReferences(p, session_bb \cup global_bb, SessionAfter(p),
                        Without(q, p), Without(reparse_queue, p))
    BY <1>7 DEF Parsed
  <2>4. /\ QueuesTyped(primary_queue', reparse_queue')
        /\ pending_dependencies' \in [Docs -> SUBSET Docs]
        /\ reparse_stable' = FALSE
        /\ Range(Without(q, p)) \cup Range(Without(reparse_queue, p)) \subseteq Queued'
        /\ \A e \in Docs : \A t \in pending_dependencies'[e] :
             t \in pending_dependencies[e] \/ Pursued(t)'
    BY <1>2, <2>1, <2>2, <2>3, TrackReferencesPursues
  <2>5. Queued \ {p} \subseteq Queued'
    BY <1>1, <1>2, <2>4 DEF Queued
  <2>6. \A d \in Docs : \A t \in pending_dependencies[d] : Pursued(t)'
    BY <1>1, <2>1, <2>2, <2>5, PendingStaysPursued
  <2>7. SessionAfter(p) \subseteq Paths
    BY <2>1, CompilerAssumption DEF SessionAfter, Nodes, DataOK, Paths
  <2>8. DataOK'
    BY <1>7, <2>2, <2>4, <2>7 DEF Parsed, DataOK
  <2>9. PendingPursued'
    BY <2>4, <2>6 DEF PendingPursued
  <2> QED  BY <2>4, <2>8, <2>9
<1> QED  BY <1>4, <1>5, <1>6, <1>7 DEF ParsePath

\* A result of the epoch: its path is in no queue on its account.
LEMMA EpochParsedKeepsCompiler ==
  ASSUME CompilerOK, NEW d \in Docs, EpochParsed(d)
  PROVE  CompilerOK'
<1> USE DEF CompilerOK
<1>1. d \in Paths /\ CountAttempt(d)
  BY DEF EpochParsed, Paths
<1>2. processed' \in [Paths -> Nat] /\ processed'[d] > 0
  BY <1>1, AttemptIsCounted
<1>3. TrackReferences(d, global_bb, session_bb \cup {Root}, primary_queue, reparse_queue)
  BY DEF EpochParsed
<1>4. /\ QueuesTyped(primary_queue', reparse_queue')
      /\ pending_dependencies' \in [Docs -> SUBSET Docs]
      /\ reparse_stable' = FALSE
      /\ Range(primary_queue) \cup Range(reparse_queue) \subseteq Queued'
      /\ \A e \in Docs : \A t \in pending_dependencies'[e] :
           t \in pending_dependencies[e] \/ Pursued(t)'
  BY <1>2, <1>3, TrackReferencesPursues
<1>5. Queued \subseteq Queued'
  BY <1>4 DEF Queued
<1>6. \A e \in Docs : \A t \in pending_dependencies[e] : Pursued(t)'
  BY <1>1, <1>2, <1>5, PendingStaysPursued
<1>7. PendingPursued'
  BY <1>4, <1>6 DEF PendingPursued
<1>8. DataOK'
  BY <1>2, <1>4, CompilerAssumption DEF EpochParsed, DataOK, Paths
<1> QED  BY <1>4, <1>7, <1>8

\* enqueue with queues that may share a path.
LEMMA EnqueuePathKeepsCompiler ==
  ASSUME CompilerOK, NEW p \in Paths, EnqueuePath(p)
  PROVE  CompilerOK'
<1> USE DEF CompilerOK
<1>1. /\ QueuesTyped(primary_queue', reparse_queue')
      /\ Range(primary_queue) \subseteq Range(primary_queue')
  <2>1. CASE p \in Queued
    BY <2>1 DEF EnqueuePath, Enqueue
  <2>2. CASE p \notin Queued
    <3>1. /\ Append(primary_queue, p) \in Seq(Paths)
          /\ IsInjective(Append(primary_queue, p))
          /\ Range(Append(primary_queue, p)) = Range(primary_queue) \cup {p}
      BY <2>2, AppendProperties DEF QueuesTyped, Queued
    <3> QED  BY <2>2, <3>1 DEF EnqueuePath, Enqueue, QueuesTyped
  <2> QED  BY <2>1, <2>2
<1>2. /\ processed' = processed /\ pending_dependencies' = pending_dependencies
      /\ reparse_stable' = reparse_stable /\ reparse_queue' = reparse_queue
  BY DEF EnqueuePath, Enqueue
<1>3. DataOK'
  BY DEF EnqueuePath, DataOK
<1>4. PendingPursued'
  BY <1>1, <1>2 DEF PendingPursued, Pursued, Queued
<1> QED  BY <1>1, <1>2, <1>3, <1>4

-----------------------------------------------------------------------------
(* The variables of parse_all itself.                                      *)

BatchDataOK ==
  /\ parallel \in BOOLEAN
  /\ phase \in {"idle", "enqueue", "epoch", "loop", "done"}
  /\ stale \subseteq requested /\ requested \subseteq Paths
  /\ epoch \in Seq(Paths)
  /\ latest \in [Paths -> Outcome]
  /\ limited \subseteq Paths
  /\ emitted \subseteq Paths
  /\ runs \in 0..MaxRuns

\* Outside the epoch and the loop no document waits for one nobody attempted.
NothingUnmet == \A d \in Docs : Unmet(d) = {}

BatchInv ==
  /\ CompilerOK
  /\ BatchDataOK
  /\ phase \notin {"epoch", "loop"} => NothingUnmet
  /\ phase = "done" => primary_queue = <<>> /\ reparse_queue = <<>>

\* With both queues empty every reference that was followed has been attempted.
LEMMA PursuedAreMet ==
  ASSUME CompilerOK, primary_queue = <<>>, reparse_queue = <<>>
  PROVE  NothingUnmet
<1>1. Queued = {}
  BY DEF Queued, Range
<1>2. ASSUME NEW d \in Docs, NEW t \in pending_dependencies[d]
      PROVE  processed[t] # 0
  BY <1>1, <1>2 DEF CompilerOK, PendingPursued, Pursued
<1> QED  BY <1>2 DEF NothingUnmet, Unmet

\* As long as reparse_stable is not set, a document that is queued again is a
\* candidate.
LEMMA ReparseQueueRunsDry ==
  ASSUME QueuesTyped(primary_queue, reparse_queue), reparse_stable = FALSE,
         ReparseCandidates = {}
  PROVE  reparse_queue = <<>>
<1> SUFFICES ASSUME reparse_queue # <<>> PROVE FALSE
  OBVIOUS
<1> DEFINE ready == {i \in DOMAIN reparse_queue : Unmet(reparse_queue[i]) = {}}
           firsts == {k \in ready : \A j \in ready : k <= j}
<1>1. ReparseCandidates = IF ready = {} THEN Range(reparse_queue)
                            ELSE {reparse_queue[i] : i \in firsts}
  BY DEF ReparseCandidates
<1>2. CASE ready = {}
  <2>1. 1 \in DOMAIN reparse_queue
    BY DEF QueuesTyped
  <2>2. reparse_queue[1] \in Range(reparse_queue)
    BY <2>1 DEF Range
  <2> QED  BY <1>1, <1>2, <2>2
<1>3. CASE ready # {}
  <2>1. ready \in SUBSET Nat
    BY DEF QueuesTyped
  <2> HIDE DEF ready
  <2>2. PICK i \in ready : \A j \in ready : i <= j
    BY <1>3, <2>1, SmallestExists
  <2>3. reparse_queue[i] \in {reparse_queue[k] : k \in firsts}
    BY <2>2
  <2> QED  BY <1>1, <1>3, <2>3
<1> QED  BY <1>2, <1>3

\* The invariant holds before the first run.
LEMMA InitBatchInv == BatchInit => BatchInv
<1> SUFFICES ASSUME BatchInit PROVE BatchInv
  OBVIOUS
<1>1. Inv /\ reparse_stable = FALSE
  BY InitInv DEF BatchInit, Init
<1>2. \A d \in Docs : pending_dependencies[d] = {}
  BY DEF BatchInit, Init
<1>3. CompilerOK /\ NothingUnmet
  BY <1>1, <1>2 DEF Inv, QueuesOK, CompilerOK, QueuesTyped, PendingPursued, NothingUnmet, Unmet
<1>4. BatchDataOK
  BY ParseAllAssumption DEF BatchInit, BatchDataOK, Outcome
<1>5. phase = "idle"
  BY DEF BatchInit
<1> QED  BY <1>3, <1>4, <1>5 DEF BatchInv

\* What leaves the compiler alone keeps what holds of it.
LEMMA SameCompiler ==
  ASSUME CompilerOK, UNCHANGED vars
  PROVE  CompilerOK' /\ NothingUnmet' = NothingUnmet
BY DEF vars, CompilerOK, QueuesTyped, DataOK, PendingPursued, Pursued, Queued, NothingUnmet, Unmet

\* What is unmet depends on attempts and pending dependencies alone.
LEMMA SameAttempts ==
  ASSUME UNCHANGED <<processed, pending_dependencies>>
  PROVE  NothingUnmet' = NothingUnmet
BY DEF NothingUnmet, Unmet

\* Every step of a run keeps the invariant.
LEMMA NextBatchInv ==
  ASSUME BatchInv, [BatchNext]_parseAllVars
  PROVE  BatchInv'
<1> USE DEF BatchInv
<1>1. CASE SourceCatchesUp
  <2>1. CompilerOK'
    BY <1>1 DEF SourceCatchesUp, SourceUpdated, CompilerOK, QueuesTyped, DataOK,
                PendingPursued, Pursued, Queued, BatchDataOK
  <2>2. NothingUnmet' = NothingUnmet
    BY <1>1, SameAttempts DEF SourceCatchesUp, SourceUpdated
  <2> QED  BY <1>1, <2>1, <2>2 DEF SourceCatchesUp, SourceUpdated, batchVars, BatchDataOK
<1>2. ASSUME NEW p \in Requests, CallerEnqueues(p)
      PROVE  BatchInv'
  <2>1. CompilerOK'
    BY <1>2, ParseAllAssumption, EnqueuePathKeepsCompiler DEF CallerEnqueues
  <2>2. NothingUnmet' = NothingUnmet
    BY <1>2, SameAttempts DEF CallerEnqueues, EnqueuePath
  <2> QED  BY <1>2, <2>1, <2>2 DEF CallerEnqueues, batchVars, BatchDataOK
<1>3. CASE StartRun
  <2>1. CompilerOK' /\ NothingUnmet' = NothingUnmet
    BY <1>3, SameCompiler DEF StartRun
  <2>2. global_bb \subseteq Paths
    BY DEF CompilerOK, DataOK
  <2>3. BatchDataOK'
    BY <1>3, <2>2, ParseAllAssumption DEF StartRun, BatchDataOK, Outcome
  <2> QED  BY <1>3, <2>1, <2>3 DEF StartRun
<1>4. ASSUME NEW p \in Paths, EnqueueStale(p)
      PROVE  BatchInv'
  <2>1. CompilerOK'
    BY <1>4, EnqueuePathKeepsCompiler DEF EnqueueStale
  <2>2. NothingUnmet' = NothingUnmet
    BY <1>4, SameAttempts DEF EnqueueStale, EnqueuePath
  <2> QED  BY <1>4, <2>1, <2>2 DEF EnqueueStale, BatchDataOK
<1>5. CASE StartLoop
  <2>1. CompilerOK' /\ NothingUnmet' = NothingUnmet
    BY <1>5, SameCompiler DEF StartLoop
  <2> QED  BY <1>5, <2>1 DEF StartLoop, BatchDataOK
<1>6. CASE StartEpoch
  <2>1. NothingUnmet
    BY <1>6 DEF StartEpoch
  <2>2. /\ pending_dependencies' = pending_dependencies /\ processed' = processed
        /\ primary_queue' = <<>> /\ reparse_queue' = reparse_queue
        /\ reparse_stable' = reparse_stable
    BY <1>6 DEF StartEpoch
  <2>3. DataOK'
    BY <1>6 DEF StartEpoch, CompilerOK, DataOK
  <2>4. QueuesTyped(primary_queue', reparse_queue')
    BY <2>2 DEF CompilerOK, QueuesTyped, IsInjective
  <2>5. ASSUME NEW d \in Docs, NEW t \in pending_dependencies[d]
        PROVE  Pursued(t)'
    <3>1. processed[t] # 0
      BY <2>1, <2>5 DEF NothingUnmet, Unmet
    <3>2. processed[t] \in Nat
      BY DEF CompilerOK, DataOK, Paths
    <3> QED  BY <2>2, <3>1, <3>2 DEF Pursued
  <2>6. PendingPursued'
    BY <2>2, <2>5 DEF PendingPursued
  <2>7. CompilerOK'
    BY <2>2, <2>3, <2>4, <2>6 DEF CompilerOK
  <2>8. BatchDataOK'
    BY <1>6 DEF StartEpoch, BatchDataOK, CompilerOK, QueuesTyped
  <2> QED  BY <1>6, <2>7, <2>8 DEF StartEpoch
<1>7. CASE EpochResult
  <2> DEFINE d == Head(epoch)
  <2>1. d \in Paths /\ epoch' \in Seq(Paths)
    BY <1>7 DEF EpochResult, BatchDataOK
  <2>2. CASE EpochFailed(d)
    <3>1. CompilerOK'
      BY <2>2, SameCompiler DEF EpochFailed
    <3>2. BatchDataOK'
      BY <1>7, <2>1, <2>2 DEF EpochResult, EpochFailed, BatchDataOK, Outcome
    <3> QED  BY <1>7, <3>1, <3>2 DEF EpochResult
  <2>3. CASE EpochParsed(d)
    <3>1. d \in Docs
      BY <2>3 DEF EpochParsed
    <3>2. CompilerOK'
      BY <2>3, <3>1, EpochParsedKeepsCompiler
    <3>3. latest' \in [Paths -> Outcome]
      BY <2>3 DEF EpochParsed, BatchDataOK, Outcome
    <3>4. emitted' \subseteq Paths
      BY <2>3, <3>1, NodesArePaths DEF EpochParsed, BatchDataOK
    <3>5. BatchDataOK'
      BY <1>7, <2>1, <3>3, <3>4 DEF EpochResult, BatchDataOK
    <3> QED  BY <1>7, <3>2, <3>5 DEF EpochResult
  <2> QED  BY <1>7, <2>2, <2>3 DEF EpochResult
<1>8. CASE EpochDone
  <2>1. CompilerOK'
    BY <1>8, SameCompiler DEF EpochDone
  <2> QED  BY <1>8, <2>1 DEF EpochDone, BatchDataOK
<1>9. CASE Loop
  <2>1. PICK q \in {primary_queue} \cup Orderings(UncheckedAssets) :
          \E p \in Range(q) \cup Range(reparse_queue) : Picks(p, q) /\ LoopStep(p, q)
    BY <1>9 DEF Loop
  <2>2. PICK p \in Range(q) \cup Range(reparse_queue) : Picks(p, q) /\ LoopStep(p, q)
    BY <2>1
  <2>3. emitted \subseteq Paths
    BY DEF BatchDataOK
  <2>4. emitted' \subseteq Paths /\ ParsePath(p, q)
    BY <2>2, <2>3, LoopStepIsParsePath
  <2>5. CompilerOK'
    BY <2>2, <2>4, ParsePathKeepsCompiler
  <2>6. p \in Paths
    BY <2>2, PickedQueueTyped DEF CompilerOK
  <2>7. limited' \subseteq Paths
    BY <2>2, <2>6 DEF LoopStep, KeepSentinel, KeepResult, BatchDataOK
  <2>8. latest' \in [Paths -> Outcome]
    BY <2>2, <2>6 DEF LoopStep, KeepSentinel, KeepResult, BatchDataOK, Outcome
  <2>9. BatchDataOK'
    BY <1>9, <2>4, <2>7, <2>8 DEF Loop, BatchDataOK
  <2> QED  BY <1>9, <2>5, <2>9 DEF Loop
<1>10. CASE Promote
  <2>1. primary_queue = <<>> /\ reparse_queue = <<>>
    BY <1>10, ReparseQueueRunsDry DEF Promote, NothingToParse, CompilerOK
  <2>2. NothingUnmet
    BY <2>1, PursuedAreMet
  <2>3. CompilerOK' /\ NothingUnmet' = NothingUnmet
    BY <1>10, SameCompiler DEF Promote
  <2>4. primary_queue' = <<>> /\ reparse_queue' = <<>>
    BY <1>10, <2>1 DEF Promote, vars
  <2>5. BatchDataOK'
    BY <1>10 DEF Promote, BatchDataOK, Outcome
  <2> QED  BY <2>2, <2>3, <2>4, <2>5
<1>11. CASE UNCHANGED parseAllVars
  <2>1. CompilerOK' /\ NothingUnmet' = NothingUnmet
    BY <1>11, SameCompiler DEF parseAllVars
  <2> QED  BY <1>11, <2>1 DEF parseAllVars, batchVars, vars, BatchDataOK
<1> QED
  BY <1>1, <1>2, <1>3, <1>4, <1>5, <1>6, <1>7, <1>8, <1>9, <1>10, <1>11 DEF BatchNext, Run

\* Every state of a batch is of its type, however many jobs it has and however
\* often the compiler is used.
THEOREM BatchTypeCorrect == BatchSpec => []BatchTypeOK
<1>1. BatchInv => BatchTypeOK
  BY DEF BatchInv, CompilerOK, QueuesTyped, DataOK, BatchDataOK, BatchTypeOK, TypeOK
<1> QED  BY <1>1, InitBatchInv, NextBatchInv, PTL DEF BatchSpec

\* parse_all returns with both queues empty and with every reference a parse
\* followed attempted, with one job and in parallel, whichever parses fail and
\* whatever the limit on attempts.
THEOREM FinishedRunsLeaveNothing == BatchSpec => []NothingLeftBehind
<1>1. BatchInv => NothingLeftBehind
  BY DEF BatchInv, NothingUnmet, NothingLeftBehind
<1> QED  BY <1>1, InitBatchInv, NextBatchInv, PTL DEF BatchSpec

-----------------------------------------------------------------------------
(* What a run reports as resolved is resolved.                             *)

\* The half of ReportIsCurrent that needs no exemption: at every moment of a run,
\* with any number of jobs, a document whose last result has no unresolved
\* reference has none among the nodes known by then.
ResolvedReports == \A d \in Docs : latest[d] = "ok" => Resolvable(d)

\* A reference that resolves keeps resolving while more becomes known.
LEMMA ResolvingIsMonotone ==
  ASSUME NEW d, NEW known, NEW more, known \subseteq more, ~ HasUnresolved(d, known)
  PROVE  ~ HasUnresolved(d, more)
BY DEF HasUnresolved, Unresolved

\* The nodes a reference can resolve to.
Known == session_bb \cup global_bb \cup emitted

\* Good reports stay true when documents become known.
LEMMA LatestKept ==
  ASSUME ResolvedReports, Known \subseteq Known',
         \A d \in Docs : latest'[d] = "ok" => latest[d] = "ok" \/ ~ HasUnresolved(d, Known)
  PROVE  ResolvedReports'
<1>1. \A d \in Docs : latest[d] = "ok" => ~ HasUnresolved(d, Known)
  BY DEF ResolvedReports, Resolvable, Known
<1>2. \A d \in Docs : latest'[d] = "ok" => ~ HasUnresolved(d, Known')
  BY <1>1, ResolvingIsMonotone
<1> QED  BY <1>2 DEF ResolvedReports, Resolvable, Known

\* Nothing known is forgotten.
LEMMA LoopStepLearns ==
  ASSUME NEW q, NEW p, LoopStep(p, q)
  PROVE  Known \subseteq Known'
BY DEF LoopStep, KeepSentinel, LimitExceeded, Unreadable, ParseFailed, AssetProcessed,
       Parsed, SessionAfter, Known

\* An attempt reports a document as good only when its references resolve.
LEMMA LoopStepReports ==
  ASSUME CompilerOK, latest \in [Paths -> Outcome], NEW q, NEW p \in Paths, LoopStep(p, q),
         NEW d \in Docs, latest'[d] = "ok"
  PROVE  latest[d] = "ok" \/ ~ HasUnresolved(d, Known)
<1>1. d \in Paths
  BY DEF Paths
<1>2. CASE d # p
  BY <1>1, <1>2 DEF LoopStep, KeepSentinel, KeepResult
<1>3. CASE d = p /\ latest[d] # "ok"
  <2>1. d \notin Assets
    BY CompilerAssumption
  <2>2. Parsed(p, q) /\ ~ HasUnresolved(p, session_bb \cup global_bb)
    BY <1>1, <1>3, <2>1 DEF LoopStep, KeepSentinel, KeepResult, AssetProcessed
  <2>3. session_bb \cup global_bb \subseteq Known
    BY DEF Known
  <2> QED  BY <1>3, <2>2, <2>3, ResolvingIsMonotone
<1> QED  BY <1>2, <1>3

\* A report without a warning is never out of date.
THEOREM OkReportsAreCurrent == BatchSpec => []ResolvedReports
<1>1. BatchInit => ResolvedReports
  BY DEF BatchInit, ResolvedReports, Paths
<1>2. ASSUME BatchInv, ResolvedReports, [BatchNext]_parseAllVars
      PROVE  ResolvedReports'
  <2> USE <1>2
  <2>0. CompilerOK /\ latest \in [Paths -> Outcome]
    BY DEF BatchInv, BatchDataOK
  <2>1. CASE EpochResult
    <3> DEFINE e == Head(epoch)
    <3>1. CASE EpochFailed(e)
      <4>1. Known' = Known
        BY <3>1 DEF EpochFailed, vars, Known
      <4>2. \A d \in Docs : latest'[d] = "ok" => latest[d] = "ok"
        BY <2>0, <3>1 DEF EpochFailed, Paths
      <4> QED  BY <4>1, <4>2, LatestKept
    <3>2. CASE EpochParsed(e)
      <4>1. Known \subseteq Known'
        BY <3>2 DEF EpochParsed, Known
      <4>2. \A d \in Docs : latest'[d] = "ok" =>
              latest[d] = "ok" \/ ~ HasUnresolved(d, global_bb)
        BY <2>0, <3>2 DEF EpochParsed, Paths
      <4>3. global_bb \subseteq Known
        BY DEF Known
      <4>4. \A d \in Docs : latest'[d] = "ok" => latest[d] = "ok" \/ ~ HasUnresolved(d, Known)
        BY <4>2, <4>3, ResolvingIsMonotone
      <4> QED  BY <4>1, <4>4, LatestKept
    <3> QED  BY <2>1, <3>1, <3>2 DEF EpochResult
  <2>2. CASE Loop
    <3>1. PICK q \in {primary_queue} \cup Orderings(UncheckedAssets) :
            \E p \in Range(q) \cup Range(reparse_queue) : Picks(p, q) /\ LoopStep(p, q)
      BY <2>2 DEF Loop
    <3>2. PICK p \in Range(q) \cup Range(reparse_queue) : Picks(p, q) /\ LoopStep(p, q)
      BY <3>1
    <3>3. p \in Paths
      BY <2>0, <3>2, PickedQueueTyped DEF CompilerOK
    <3>4. \A d \in Docs : latest'[d] = "ok" => latest[d] = "ok" \/ ~ HasUnresolved(d, Known)
      BY <2>0, <3>2, <3>3, LoopStepReports
    <3>5. Known \subseteq Known'
      BY <3>2, LoopStepLearns
    <3> QED  BY <3>4, <3>5, LatestKept
  <2>3. CASE StartRun \/ Promote
    <3>1. Known' = Known
      BY <2>3 DEF StartRun, Promote, vars, Known
    <3>2. \A d \in Docs : latest'[d] = "ok" => latest[d] = "ok"
      BY <2>3 DEF StartRun, Promote, Paths
    <3> QED  BY <3>1, <3>2, LatestKept
  <2>4. CASE ~ (EpochResult \/ Loop \/ StartRun \/ Promote)
    <3>1. latest' = latest /\ Known \subseteq Known'
      BY <2>4 DEF BatchNext, Run, SourceCatchesUp, CallerEnqueues, EnqueueStale, StartLoop,
                  StartEpoch, EpochDone, SourceUpdated, EnqueuePath, vars, batchVars,
                  parseAllVars, Known
    <3> QED  BY <3>1, LatestKept
  <2> QED  BY <2>1, <2>2, <2>3, <2>4
<1> QED  BY <1>1, <1>2, InitBatchInv, NextBatchInv, PTL DEF BatchSpec

-----------------------------------------------------------------------------
(* What a run with one job reports as unresolved stays unresolved.         *)

\* Documents link within their networks, to the networks directly below those and
\* to what is above, so that every target can be followed at the first attempt.
LinksStayNear == \A d \in Docs : \A t \in Links[d] \cap Docs : Ancestors[t] \subseteq Nodes(d)

\* What resolves the references of an attempt.
Cached == session_bb \cup global_bb

\* A document to be parsed again was parsed, and what it misses is pursued.
Requeued(d) ==
  /\ processed[d] > 0
  /\ Nodes(d) \subseteq session_bb
  /\ \A t \in Unresolved(d, Cached) : Pursued(t)

\* A parsed document that is not queued again misses nothing, or may not be.
SettledRun(d) ==
  processed[d] > 0 /\ processed[d] < MaxReparse /\ d \notin Range(reparse_queue)
    => ~ HasUnresolved(d, Cached)

CompilerSettled ==
  /\ \A d \in Range(reparse_queue) : Requeued(d)
  /\ \A d \in Docs \ Faulty : SettledRun(d)

\* Nothing left in the primary queue can resolve a reference.
OnlyKnownAssets == Range(primary_queue) \subseteq Assets \cap session_bb

\* An unresolved result is either going to be replaced, or it is final: the
\* reference is unresolved and no attempt to come teaches the session anything.
Unsettled(d) ==
  IF processed[d] < MaxReparse THEN d \in Range(reparse_queue)
                               ELSE HasUnresolved(d, Cached) /\ OnlyKnownAssets

Reported(d) ==
  /\ phase = "loop" /\ latest[d] = "unresolved" => Unsettled(d)
  /\ phase = "done" /\ latest[d] = "warning" => HasUnresolved(d, Cached)

Reports ==
  /\ phase # "done" => \A d \in Docs : latest[d] # "warning"
  /\ phase \in {"idle", "enqueue"} => \A d \in Docs : latest[d] = "none"
  /\ \A d \in Docs \ Faulty : Reported(d)

SequentialInv == emitted \subseteq session_bb /\ CompilerSettled /\ Reports

\* A queue pair of the compiler is a queue pair.
LEMMA InvIsTyped ==
  ASSUME Inv
  PROVE  QueuesTyped(primary_queue, reparse_queue) /\ DataOK
BY DEF Inv, QueuesOK, QueuesTyped

\* What steps 8 to 10 of parse_next add to each queue.
LEMMA TrackReferencesAdds ==
  ASSUME NEW d \in Docs, NEW known, NEW nets, NEW primary, NEW reparse,
         QueuesTyped(primary, reparse), TrackReferences(d, known, nets, primary, reparse)
  PROVE  /\ Range(primary_queue') =
              Range(primary) \cup Fresh(Followed(Unresolved(d, known), nets)
                                          \cup (Unresolved(d, known) \cap Assets), primary, reparse)
         /\ Range(reparse_queue') =
              Range(reparse) \cup (IF HasUnresolved(d, known) THEN {d} ELSE {})
<1> DEFINE unresolved == Unresolved(d, known)
           fresh == Fresh(Followed(unresolved, nets) \cup (unresolved \cap Assets), primary, reparse)
<1>1. fresh \subseteq Paths
  BY DEF Fresh, Followed, Paths
<1>2. PICK o \in Orderings(fresh) : primary_queue' = primary \o o
  BY DEF TrackReferences
<1>3. o \in Seq(fresh) /\ IsInjective(o) /\ Range(o) = fresh
  BY <1>1, PathsFinite, OrderingsProperties
<1>4. Range(primary) \cap fresh = {}
  BY DEF Fresh
<1>5. reparse_queue' = IF HasUnresolved(d, known) /\ d \notin Range(reparse)
                         THEN Append(reparse, d) ELSE reparse
  BY DEF TrackReferences
<1> HIDE DEF fresh
<1>6. Range(primary_queue') = Range(primary) \cup fresh
  <2>1. o \in Seq(Paths)
    BY <1>1, <1>3
  <2>2. Range(primary) \cap Range(o) = {}
    BY <1>3, <1>4
  <2> QED  BY <1>2, <1>3, <2>1, <2>2, ConcatProperties DEF QueuesTyped
<1>7. Range(reparse_queue') = Range(reparse) \cup (IF HasUnresolved(d, known) THEN {d} ELSE {})
  BY <1>5, AppendProperties DEF QueuesTyped
<1> QED  BY <1>6, <1>7 DEF fresh

\* What a document misses once more is known, it missed before.
LEMMA MissingShrinks ==
  ASSUME NEW d, NEW known, NEW more, known \subseteq more
  PROVE  Unresolved(d, more) \subseteq Unresolved(d, known)
BY DEF Unresolved

\* What is missing is a path.
LEMMA MissingIsPath ==
  ASSUME NEW d \in Docs, NEW known
  PROVE  Unresolved(d, known) \subseteq Paths
BY CompilerAssumption DEF Unresolved

\* A document other than the one attempted stays requeued.
LEMMA RequeuedStays ==
  ASSUME DataOK, NEW p \in Paths, NEW d \in Docs, Requeued(d),
         processed' = processed \/ CountAttempt(p),
         Queued \ {p} \subseteq Queued', processed'[p] > 0 \/ p \in Queued',
         session_bb \subseteq session_bb', global_bb' = global_bb
  PROVE  Requeued(d)'
<1>1. d \in Paths
  BY DEF Paths
<1>2. processed'[d] > 0
  BY <1>1 DEF Requeued, CountAttempt, DataOK
<1>3. Nodes(d) \subseteq session_bb'
  BY DEF Requeued
<1>4. Cached \subseteq Cached'
  BY DEF Cached
<1>5. ASSUME NEW t \in Unresolved(d, Cached')
      PROVE  Pursued(t)'
  <2>1. t \in Unresolved(d, Cached)
    BY <1>4, <1>5, MissingShrinks
  <2>2. Pursued(t)
    BY <2>1 DEF Requeued
  <2>3. t \in Paths
    BY <2>1, MissingIsPath
  <2> QED  BY <2>2, <2>3, PursuedStays
<1> QED  BY <1>2, <1>3, <1>5 DEF Requeued

\* A document other than the one attempted stays settled.
LEMMA SettledStays ==
  ASSUME NEW p \in Paths, NEW d \in Docs, d # p, SettledRun(d), DataOK,
         processed' = processed \/ CountAttempt(p),
         Range(reparse_queue) \ {p} \subseteq Range(reparse_queue'),
         session_bb \subseteq session_bb', global_bb' = global_bb
  PROVE  SettledRun(d)'
<1>1. processed'[d] = processed[d]
  BY DEF CountAttempt, DataOK, Paths
<1>2. Cached \subseteq Cached'
  BY DEF Cached
<1>3. d \in Range(reparse_queue) => d \in Range(reparse_queue')
  OBVIOUS
<1>4. ~ HasUnresolved(d, Cached) => ~ HasUnresolved(d, Cached')
  BY <1>2, ResolvingIsMonotone
<1> QED  BY <1>1, <1>3, <1>4 DEF SettledRun

\* What one attempt does to the queues, whatever it comes to.
LEMMA AttemptQueues ==
  ASSUME Inv,
         NEW q \in {primary_queue} \cup Orderings(UncheckedAssets),
         NEW p \in Range(q) \cup Range(reparse_queue), Picks(p, q)
  PROVE  /\ p \in Paths
         /\ QueuesTyped(Without(q, p), Without(reparse_queue, p))
         /\ Range(Without(q, p)) = Range(q) \ {p}
         /\ Range(Without(reparse_queue, p)) = Range(reparse_queue) \ {p}
         /\ Range(primary_queue) \subseteq Range(q)
         /\ Range(q) \subseteq Range(primary_queue) \cup UncheckedAssets
         /\ Range(reparse_queue) \subseteq Docs
<1>1. QueuesTyped(primary_queue, reparse_queue) /\ DataOK
  BY InvIsTyped
<1>2. QueuesTyped(q, reparse_queue) /\ Range(primary_queue) \subseteq Range(q) /\ p \in Paths
  BY <1>1, PickedQueueTyped
<1>3. Range(q) \subseteq Range(primary_queue) \cup UncheckedAssets
  BY PickedQueue DEF Inv
<1>4. Range(reparse_queue) \subseteq Docs
  BY <1>1 DEF QueuesTyped, Range
<1> QED  BY <1>2, <1>3, <1>4, DequeueKeepsTyped

\* An attempt that parses nothing: the path was attempted, and when it is a
\* document whose parses do not fail its attempts are used up.
LEMMA NothingParsedSettles ==
  ASSUME Inv, CompilerSettled,
         NEW q \in {primary_queue} \cup Orderings(UncheckedAssets),
         NEW p \in Range(q) \cup Range(reparse_queue), Picks(p, q),
         LimitExceeded(p, q) \/ Unreadable(p, q) \/ ParseFailed(p, q) \/ AssetProcessed(p, q)
  PROVE  CompilerSettled'
<1>1. /\ p \in Paths /\ DataOK
      /\ Range(Without(q, p)) = Range(q) \ {p}
      /\ Range(Without(reparse_queue, p)) = Range(reparse_queue) \ {p}
      /\ Range(primary_queue) \subseteq Range(q)
  BY AttemptQueues, InvIsTyped
<1>2. /\ processed' = processed \/ CountAttempt(p)
      /\ session_bb \subseteq session_bb' /\ global_bb' = global_bb
  BY DEF LimitExceeded, Unreadable, ParseFailed, AssetProcessed
<1>3. /\ Range(primary_queue) \ {p} \subseteq Range(primary_queue')
      /\ Range(reparse_queue) \ {p} \subseteq Range(reparse_queue')
      /\ Range(reparse_queue') \subseteq Range(reparse_queue)
  BY <1>1 DEF LimitExceeded, Unreadable, ParseFailed, AssetProcessed, Dequeue
<1>4. Queued \ {p} \subseteq Queued'
  BY <1>3 DEF Queued
<1>5. processed'[p] > 0
  <2>1. CASE LimitExceeded(p, q)
    BY <1>1, <2>1, CompilerAssumption DEF LimitExceeded, DataOK
  <2>2. CASE CountAttempt(p)
    BY <1>1, <2>2, AttemptIsCounted
  <2> QED  BY <2>1, <2>2 DEF Unreadable, ParseFailed, AssetProcessed
<1>6. Range(reparse_queue) \subseteq Docs
  BY AttemptQueues
<1>7. ASSUME NEW d \in Range(reparse_queue')
      PROVE  Requeued(d)'
  BY <1>1, <1>2, <1>3, <1>4, <1>5, <1>6, <1>7, RequeuedStays DEF CompilerSettled
<1>8. ASSUME NEW d \in Docs \ Faulty
      PROVE  SettledRun(d)'
  <2>1. CASE d # p
    BY <1>1, <1>2, <1>3, <2>1, SettledStays DEF CompilerSettled
  <2>2. CASE d = p
    <3>1. LimitExceeded(p, q)
      BY <2>2, CompilerAssumption DEF Unreadable, ParseFailed, AssetProcessed
    <3>2. ~ (processed'[p] < MaxReparse)
      BY <1>1, <3>1, CompilerAssumption DEF LimitExceeded, DataOK
    <3> QED  BY <2>2, <3>2 DEF SettledRun
  <2> QED  BY <2>1, <2>2
<1> QED  BY <1>7, <1>8 DEF CompilerSettled

\* What a parse of p adds to each queue.
LEMMA ParsedAdds ==
  ASSUME Inv,
         NEW q \in {primary_queue} \cup Orderings(UncheckedAssets),
         NEW p \in Range(q) \cup Range(reparse_queue), Picks(p, q), Parsed(p, q)
  PROVE  /\ Range(primary_queue') =
              (Range(q) \ {p}) \cup Fresh(Followed(Unresolved(p, Cached), SessionAfter(p))
                                            \cup (Unresolved(p, Cached) \cap Assets),
                                          Without(q, p), Without(reparse_queue, p))
         /\ Range(reparse_queue') =
              (Range(reparse_queue) \ {p}) \cup (IF HasUnresolved(p, Cached) THEN {p} ELSE {})
<1>1. /\ QueuesTyped(Without(q, p), Without(reparse_queue, p))
      /\ Range(Without(q, p)) = Range(q) \ {p}
      /\ Range(Without(reparse_queue, p)) = Range(reparse_queue) \ {p}
  BY AttemptQueues
<1>2. /\ p \in Docs
      /\ TrackReferences(p, Cached, SessionAfter(p), Without(q, p), Without(reparse_queue, p))
  BY DEF Parsed, Cached
<1>3. /\ Range(primary_queue') =
           Range(Without(q, p)) \cup Fresh(Followed(Unresolved(p, Cached), SessionAfter(p))
                                         \cup (Unresolved(p, Cached) \cap Assets),
                                       Without(q, p), Without(reparse_queue, p))
      /\ Range(reparse_queue') =
           Range(Without(reparse_queue, p)) \cup (IF HasUnresolved(p, Cached) THEN {p} ELSE {})
  BY <1>1, <1>2, TrackReferencesAdds, ZenonT(40)
<1> QED  BY <1>1, <1>3

\* A parse follows every reference it cannot resolve.
LEMMA ParsedSettles ==
  ASSUME LinksStayNear, Inv, CompilerSettled,
         NEW q \in {primary_queue} \cup Orderings(UncheckedAssets),
         NEW p \in Range(q) \cup Range(reparse_queue), Picks(p, q), Parsed(p, q)
  PROVE  CompilerSettled'
<1> DEFINE missing == Unresolved(p, Cached)
<1>1. /\ p \in Paths /\ DataOK
      /\ QueuesTyped(Without(q, p), Without(reparse_queue, p))
      /\ Range(Without(q, p)) = Range(q) \ {p}
      /\ Range(Without(reparse_queue, p)) = Range(reparse_queue) \ {p}
      /\ Range(primary_queue) \subseteq Range(q)
      /\ Range(reparse_queue) \subseteq Docs
  BY AttemptQueues, InvIsTyped
<1>2. /\ p \in Docs /\ CountAttempt(p)
      /\ session_bb' = SessionAfter(p) /\ global_bb' = global_bb
      /\ TrackReferences(p, Cached, SessionAfter(p), Without(q, p), Without(reparse_queue, p))
  BY DEF Parsed, Cached
<1>3. processed' \in [Paths -> Nat] /\ processed'[p] > 0
  BY <1>1, <1>2, AttemptIsCounted
<1>4. session_bb \subseteq session_bb' /\ Nodes(p) \subseteq session_bb'
  BY <1>2 DEF SessionAfter
<1>5. /\ Range(primary_queue') =
           (Range(q) \ {p}) \cup Fresh(Followed(missing, SessionAfter(p)) \cup (missing \cap Assets),
                                       Without(q, p), Without(reparse_queue, p))
      /\ Range(reparse_queue') =
           (Range(reparse_queue) \ {p}) \cup (IF HasUnresolved(p, Cached) THEN {p} ELSE {})
  BY ParsedAdds
<1>6. Queued \ {p} \subseteq Queued'
  BY <1>1, <1>5 DEF Queued
<1>7. ASSUME NEW t \in missing
      PROVE  Pursued(t)'
  <2>1. t \in Paths /\ t \in Links[p]
    BY <1>2, <1>7, MissingIsPath DEF Unresolved
  <2>2. t \in Followed(missing, SessionAfter(p)) \cup (missing \cap Assets)
    BY <1>2, <1>4, <1>7, <2>1 DEF LinksStayNear, Followed, Paths
  <2>3. processed'[t] = 0 =>
          t \in Range(primary_queue') \cup Range(reparse_queue')
    BY <1>1, <1>5, <2>2 DEF Fresh
  <2>4. processed'[t] \in Nat
    BY <1>3, <2>1
  <2> QED  BY <2>3, <2>4 DEF Pursued, Queued
<1>8. Requeued(p)'
  <2>1. Cached \subseteq Cached'
    BY <1>2, <1>4 DEF Cached
  <2>2. Unresolved(p, Cached') \subseteq missing
    BY <2>1, MissingShrinks
  <2> QED  BY <1>3, <1>4, <1>7, <2>2 DEF Requeued
<1>9. ASSUME NEW d \in Range(reparse_queue')
      PROVE  Requeued(d)'
  <2>1. CASE d = p
    BY <1>8, <2>1
  <2>2. CASE d # p
    <3>1. d \in Range(reparse_queue) /\ d \in Docs
      BY <1>1, <1>5, <1>9, <2>2
    <3>2. Requeued(d)
      BY <3>1 DEF CompilerSettled
    <3> QED  BY <1>1, <1>2, <1>3, <1>4, <1>6, <3>1, <3>2, RequeuedStays
  <2> QED  BY <2>1, <2>2
<1>10. ASSUME NEW d \in Docs \ Faulty
       PROVE  SettledRun(d)'
  <2>1. CASE d # p
    <3>1. Range(reparse_queue) \ {p} \subseteq Range(reparse_queue')
      BY <1>5
    <3>2. SettledRun(d)
      BY DEF CompilerSettled
    <3> QED  BY <1>1, <1>2, <1>4, <2>1, <3>1, <3>2, SettledStays
  <2>2. CASE d = p /\ HasUnresolved(p, Cached)
    BY <1>5, <2>2 DEF SettledRun
  <2>3. CASE d = p /\ ~ HasUnresolved(p, Cached)
    <3>1. Cached \subseteq Cached'
      BY <1>2, <1>4 DEF Cached
    <3> QED  BY <2>3, <3>1, ResolvingIsMonotone DEF SettledRun
  <2> QED  BY <2>1, <2>2, <2>3
<1> QED  BY <1>9, <1>10 DEF CompilerSettled

\* Once only known assets are left in the primary queue, it stays so, and the
\* session learns nothing more: what is parsed again was parsed before.
LEMMA LateStays ==
  ASSUME Inv, CompilerSettled, OnlyKnownAssets,
         NEW q \in {primary_queue} \cup Orderings(UncheckedAssets),
         NEW p \in Range(q) \cup Range(reparse_queue), Picks(p, q), ParsePath(p, q)
  PROVE  OnlyKnownAssets' /\ Cached' = Cached
<1>1. /\ p \in Paths /\ DataOK
      /\ QueuesTyped(Without(q, p), Without(reparse_queue, p))
      /\ Range(Without(q, p)) = Range(q) \ {p}
      /\ Range(Without(reparse_queue, p)) = Range(reparse_queue) \ {p}
      /\ Range(reparse_queue) \subseteq Docs
      /\ Range(primary_queue) \subseteq Range(q)
      /\ Range(q) \subseteq Range(primary_queue) \cup UncheckedAssets
  BY AttemptQueues, InvIsTyped
<1>2. Range(q) \subseteq Assets \cap session_bb
  BY <1>1 DEF OnlyKnownAssets, UncheckedAssets
<1>3. CASE LimitExceeded(p, q) \/ Unreadable(p, q) \/ ParseFailed(p, q)
  <2>1. Range(primary_queue') \subseteq Range(q)
    BY <1>1, <1>3 DEF LimitExceeded, Unreadable, ParseFailed, Dequeue
  <2>2. session_bb' = session_bb /\ global_bb' = global_bb
    BY <1>3 DEF LimitExceeded, Unreadable, ParseFailed
  <2> QED  BY <1>2, <2>1, <2>2 DEF OnlyKnownAssets, Cached
<1>4. CASE AssetProcessed(p, q)
  <2>1. p \in Assets
    BY <1>4 DEF AssetProcessed
  <2>2. p \in session_bb
    BY <1>1, <1>2, <2>1, CompilerAssumption
  <2>3. Range(primary_queue') \subseteq Range(q)
    BY <1>1, <1>4 DEF AssetProcessed, Dequeue
  <2>4. session_bb' = session_bb /\ global_bb' = global_bb
    BY <1>4, <2>2 DEF AssetProcessed
  <2> QED  BY <1>2, <2>3, <2>4 DEF OnlyKnownAssets, Cached
<1>5. CASE Parsed(p, q)
  <2> DEFINE missing == Unresolved(p, Cached)
             fresh == Fresh(Followed(missing, SessionAfter(p)) \cup (missing \cap Assets),
                            Without(q, p), Without(reparse_queue, p))
  <2>1. /\ p \in Docs /\ CountAttempt(p)
        /\ session_bb' = SessionAfter(p) /\ global_bb' = global_bb
        /\ TrackReferences(p, Cached, SessionAfter(p), Without(q, p), Without(reparse_queue, p))
    BY <1>5 DEF Parsed, Cached
  <2>2. p \in Range(reparse_queue)
    BY <1>2, <2>1, CompilerAssumption
  <2>3. Requeued(p)
    BY <2>2 DEF CompilerSettled
  <2>4. session_bb \subseteq session_bb' /\ Cached' = Cached
    BY <2>1, <2>3 DEF SessionAfter, Cached, Requeued
  <2>5. Range(primary_queue') = (Range(q) \ {p}) \cup fresh
    BY <1>5, ParsedAdds
  <2>6. fresh = {}
    <3> SUFFICES ASSUME NEW t \in fresh PROVE FALSE
      OBVIOUS
    <3>1. t \in missing /\ processed'[t] = 0
      BY DEF Fresh, Followed
    <3>2. t \in Paths /\ t \notin session_bb
      BY <2>1, <3>1, MissingIsPath DEF Unresolved, Cached
    <3>3. Pursued(t)
      BY <2>3, <3>1 DEF Requeued
    <3>4. t \notin Range(primary_queue)
      BY <3>2 DEF OnlyKnownAssets
    <3>5. processed[t] > 0
      BY <3>3, <3>4 DEF Pursued, Queued, CompilerSettled, Requeued
    <3>6. processed'[t] > 0
      BY <1>1, <2>1, <3>2, <3>5 DEF DataOK, CountAttempt
    <3> QED  BY <3>1, <3>6
  <2> QED  BY <1>2, <2>4, <2>5, <2>6 DEF OnlyKnownAssets
<1> QED  BY <1>3, <1>4, <1>5 DEF ParsePath

\* A document whose last attempt leaves a reference unresolved was waiting for it
\* in the reparse queue, so that nothing is left that could resolve it.
LEMMA LastAttemptIsLate ==
  ASSUME MaxReparse >= 2, Inv, CompilerSettled,
         NEW q \in {primary_queue} \cup Orderings(UncheckedAssets),
         NEW p \in Range(q) \cup Range(reparse_queue), Picks(p, q), Parsed(p, q),
         p \notin Faulty, HasUnresolved(p, Cached), ~ (processed'[p] < MaxReparse)
  PROVE  HasUnresolved(p, Cached') /\ OnlyKnownAssets'
<1>1. /\ p \in Paths /\ DataOK
      /\ Range(q) \subseteq Range(primary_queue) \cup UncheckedAssets
  BY AttemptQueues, InvIsTyped
<1>2. p \in Docs /\ processed[p] < MaxReparse /\ processed' = [processed EXCEPT ![p] = @ + 1]
  BY DEF Parsed, CountAttempt
<1>3. processed[p] > 0
  BY <1>1, <1>2, CompilerAssumption DEF DataOK
<1>4. SettledRun(p)
  BY <1>2 DEF CompilerSettled
<1>5. p \in Range(reparse_queue)
  BY <1>2, <1>3, <1>4 DEF SettledRun
<1>6. p \notin Range(primary_queue) /\ p \notin UncheckedAssets
  BY <1>2, <1>5, CompilerAssumption DEF Inv, QueuesOK, UncheckedAssets
<1>7. primary_queue = <<>>
  <2>1. p \notin Range(q)
    BY <1>1, <1>6
  <2>2. primary_queue # <<>> => Head(primary_queue) \in Range(primary_queue)
    BY DEF Inv, QueuesOK, Range
  <2> QED  BY <2>1, <2>2, <1>6 DEF Picks
<1>8. OnlyKnownAssets
  BY <1>7 DEF OnlyKnownAssets, Range
<1>9. OnlyKnownAssets' /\ Cached' = Cached
  BY <1>8, LateStays DEF ParsePath
<1> QED  BY <1>9

\* An attempt keeps what is known of the unsettled results of other documents.
LEMMA UnsettledStays ==
  ASSUME Inv, CompilerSettled,
         NEW q \in {primary_queue} \cup Orderings(UncheckedAssets),
         NEW p \in Range(q) \cup Range(reparse_queue), Picks(p, q), ParsePath(p, q),
         NEW d \in Docs, Unsettled(d), d # p \/ LimitExceeded(p, q)
  PROVE  Unsettled(d)'
<1>1. /\ p \in Paths /\ DataOK
      /\ Range(Without(reparse_queue, p)) = Range(reparse_queue) \ {p}
  BY AttemptQueues, InvIsTyped
<1>2. processed'[d] = processed[d]
  BY <1>1 DEF ParsePath, LimitExceeded, Unreadable, ParseFailed, AssetProcessed, Parsed,
              CountAttempt, DataOK, Paths
<1>3. CASE processed[d] < MaxReparse
  <2>1. d # p /\ d \in Range(reparse_queue)
    BY <1>1, <1>3, CompilerAssumption DEF LimitExceeded, Unsettled, DataOK
  <2>2. Range(reparse_queue) \ {p} \subseteq Range(reparse_queue')
    <3>1. CASE Parsed(p, q)
      BY <3>1, ParsedAdds
    <3> QED  BY <1>1, <3>1 DEF ParsePath, LimitExceeded, Unreadable, ParseFailed,
                               AssetProcessed, Dequeue
  <2> QED  BY <1>2, <1>3, <2>1, <2>2 DEF Unsettled
<1>4. CASE ~ (processed[d] < MaxReparse)
  <2>1. HasUnresolved(d, Cached) /\ OnlyKnownAssets
    BY <1>4 DEF Unsettled
  <2>2. OnlyKnownAssets' /\ Cached' = Cached
    BY <2>1, LateStays
  <2> QED  BY <1>2, <1>4, <2>1, <2>2 DEF Unsettled
<1> QED  BY <1>3, <1>4

\* One turn of the loop keeps the invariant.
LEMMA LoopStepKeepsReports ==
  ASSUME LinksStayNear, MaxReparse >= 2, Inv, latest \in [Paths -> Outcome], SequentialInv,
         NEW q \in {primary_queue} \cup Orderings(UncheckedAssets),
         NEW p \in Range(q) \cup Range(reparse_queue), Picks(p, q), LoopStep(p, q),
         phase = "loop", phase' = "loop"
  PROVE  SequentialInv'
<1>1. CompilerSettled /\ emitted \subseteq session_bb /\ Reports
  BY DEF SequentialInv
<1>2. p \in Paths /\ DataOK
  BY AttemptQueues, InvIsTyped
<1>3. ParsePath(p, q)
  BY DEF LoopStep, ParsePath
<1>4. CompilerSettled'
  BY <1>1, <1>3, NothingParsedSettles, ParsedSettles DEF ParsePath
<1>5. emitted' \subseteq session_bb'
  BY <1>1 DEF LoopStep, KeepSentinel, LimitExceeded, Unreadable, ParseFailed,
              AssetProcessed, Parsed, SessionAfter
<1>6. \A d \in Docs : latest[d] # "warning"
  BY <1>1 DEF Reports
<1>7. \A d \in Docs : latest'[d] # "warning"
  BY <1>2, <1>6 DEF LoopStep, KeepSentinel, KeepResult, Paths
<1>8. ASSUME NEW d \in Docs \ Faulty, latest'[d] = "unresolved"
      PROVE  Unsettled(d)'
  <2>1. d \in Paths /\ Reported(d)
    BY <1>1 DEF Reports, Paths
  <2>2. ASSUME d # p \/ (LimitExceeded(p, q) /\ KeepSentinel(p))
        PROVE  Unsettled(d)'
    <3>1. latest[d] = "unresolved"
      BY <1>2, <1>8, <2>1, <2>2 DEF LoopStep, KeepSentinel, KeepResult
    <3>2. Unsettled(d)
      BY <2>1, <3>1 DEF Reported
    <3> QED  BY <1>1, <1>3, <2>2, <3>2, UnsettledStays
  <2>3. ASSUME d = p, ~ (LimitExceeded(p, q) /\ KeepSentinel(p))
        PROVE  Unsettled(d)'
    <3>1. Parsed(p, q) /\ HasUnresolved(p, Cached)
      BY <1>2, <1>8, <2>3 DEF LoopStep, KeepResult, Cached
    <3>2. CASE processed'[p] < MaxReparse
      <4>1. p \in Range(reparse_queue')
        BY <3>1, ParsedAdds
      <4> QED  BY <2>3, <3>2, <4>1 DEF Unsettled
    <3>3. CASE ~ (processed'[p] < MaxReparse)
      BY <1>1, <2>3, <3>1, <3>3, LastAttemptIsLate DEF Unsettled
    <3> QED  BY <3>2, <3>3
  <2> QED  BY <2>2, <2>3
<1> QED  BY <1>4, <1>5, <1>7, <1>8 DEF SequentialInv, Reports, Reported

\* A step that leaves the compiler and the reports alone but for a primary queue
\* that may grow.
LEMMA EnqueueKeepsReports ==
  ASSUME SequentialInv, phase \in {"idle", "enqueue"}, phase' = phase, latest' = latest,
         emitted' = emitted, processed' = processed, reparse_queue' = reparse_queue,
         session_bb' = session_bb, global_bb' = global_bb,
         Range(primary_queue) \subseteq Range(primary_queue')
  PROVE  SequentialInv'
<1>1. Cached' = Cached
  BY DEF Cached
<1>2. \A t : Pursued(t) => Pursued(t)'
  BY DEF Pursued, Queued
<1>3. CompilerSettled'
  BY <1>1, <1>2 DEF SequentialInv, CompilerSettled, Requeued, SettledRun
<1>4. Reports'
  BY DEF SequentialInv, Reports, Reported
<1> QED  BY <1>3, <1>4 DEF SequentialInv

\* A step that leaves the compiler and what it knows alone.
LEMMA SameCompilerSettled ==
  ASSUME CompilerSettled, UNCHANGED <<processed, reparse_queue, primary_queue, session_bb>>,
         Cached' = Cached
  PROVE  CompilerSettled'
BY DEF CompilerSettled, Requeued, SettledRun, Pursued, Queued

\* Every step of a batch with one job keeps the invariant.
LEMMA NextSequentialInv ==
  ASSUME LinksStayNear, MaxReparse >= 2, ~ parallel, EpochInv, Inv, BatchInv, SequentialInv,
         [BatchNext]_parseAllVars
  PROVE  SequentialInv'
<1> USE DEF SequentialInv
<1>1. CASE SourceCatchesUp
  <2>1. /\ processed' = processed /\ reparse_queue' = reparse_queue
        /\ primary_queue' = primary_queue /\ session_bb' = session_bb
        /\ global_bb' = global_bb \cup emitted
        /\ phase' = phase /\ latest' = latest /\ emitted' = emitted
    BY <1>1 DEF SourceCatchesUp, SourceUpdated, batchVars
  <2>2. Cached' = Cached
    BY <2>1 DEF Cached
  <2>3. CompilerSettled'
    BY <2>1, <2>2, SameCompilerSettled
  <2>4. phase \in {"idle", "done"}
    BY <1>1 DEF SourceCatchesUp
  <2>5. Reports'
    BY <2>1, <2>2, <2>4 DEF Reports, Reported
  <2> QED  BY <2>1, <2>3, <2>5
<1>2. ASSUME NEW p \in Paths, EnqueuePath(p), phase \in {"idle", "enqueue"}, phase' = phase,
             latest' = latest, emitted' = emitted
      PROVE  SequentialInv'
  <2>1. Range(primary_queue) \subseteq Range(primary_queue')
    <3>1. Range(Append(primary_queue, p)) = Range(primary_queue) \cup {p} \/ p \in Queued
      BY AppendProperties DEF Inv, QueuesOK, Queued
    <3> QED  BY <1>2, <3>1 DEF EnqueuePath, Enqueue
  <2> QED  BY <1>2, <2>1, EnqueueKeepsReports DEF EnqueuePath, Enqueue
<1>3. ASSUME NEW p \in Requests, CallerEnqueues(p)
      PROVE  SequentialInv'
  BY <1>2, <1>3, ParseAllAssumption DEF CallerEnqueues, batchVars
<1>4. ASSUME NEW p \in Paths, EnqueueStale(p)
      PROVE  SequentialInv'
  BY <1>2, <1>4 DEF EnqueueStale
<1>5. CASE StartRun
  <2>1. CompilerSettled'
    BY <1>5, SameCompilerSettled DEF StartRun, vars, Cached
  <2>2. Reports'
    BY <1>5 DEF StartRun, Reports, Reported, Paths
  <2> QED  BY <1>5, <2>1, <2>2 DEF StartRun, vars
<1>6. CASE StartLoop
  <2>1. CompilerSettled'
    BY <1>6, SameCompilerSettled DEF StartLoop, vars, Cached
  <2>2. Reports'
    BY <1>6 DEF StartLoop, Reports, Reported
  <2> QED  BY <1>6, <2>1, <2>2 DEF StartLoop, vars
<1>7. CASE StartEpoch \/ EpochResult \/ EpochDone
  BY <1>7 DEF EpochInv, StartEpoch, EpochResult, EpochDone
<1>8. CASE Loop
  <2>1. PICK q \in {primary_queue} \cup Orderings(UncheckedAssets) :
          \E p \in Range(q) \cup Range(reparse_queue) : Picks(p, q) /\ LoopStep(p, q)
    BY <1>8 DEF Loop
  <2>2. PICK p \in Range(q) \cup Range(reparse_queue) : Picks(p, q) /\ LoopStep(p, q)
    BY <2>1
  <2>3. latest \in [Paths -> Outcome] /\ phase = "loop" /\ phase' = "loop"
    BY <1>8 DEF Loop, BatchInv, BatchDataOK
  <2> QED  BY <2>2, <2>3, LoopStepKeepsReports
<1>9. CASE Promote
  <2>1. reparse_queue = <<>>
    BY <1>9, ReparseQueueRunsDry DEF Promote, NothingToParse, BatchInv, CompilerOK
  <2>2. CompilerSettled'
    BY <1>9, SameCompilerSettled DEF Promote, vars, Cached
  <2>3. ASSUME NEW d \in Docs \ Faulty, latest'[d] = "warning"
        PROVE  HasUnresolved(d, Cached)
    <3>1. d \in Paths /\ latest[d] # "warning" /\ Reported(d)
      BY <1>9 DEF Reports, Promote, Paths
    <3>2. latest[d] = "unresolved"
      BY <1>9, <2>3, <3>1 DEF Promote
    <3>3. Unsettled(d)
      BY <1>9, <3>1, <3>2 DEF Reported, Promote
    <3> QED  BY <2>1, <3>3 DEF Unsettled, Range
  <2>4. phase' = "done" /\ Cached' = Cached
    BY <1>9 DEF Promote, vars, Cached
  <2>5. Reports'
    BY <2>3, <2>4 DEF Reports, Reported
  <2> QED  BY <1>9, <2>2, <2>5 DEF Promote, vars
<1>10. CASE UNCHANGED parseAllVars
  <2>1. CompilerSettled'
    BY <1>10, SameCompilerSettled DEF parseAllVars, vars, Cached
  <2>2. Reports'
    BY <1>10 DEF parseAllVars, batchVars, vars, Reports, Reported, Unsettled, OnlyKnownAssets, Cached
  <2> QED  BY <1>10, <2>1, <2>2 DEF parseAllVars, batchVars, vars
<1> QED
  BY <1>1, <1>3, <1>4, <1>5, <1>6, <1>7, <1>8, <1>9, <1>10 DEF BatchNext, Run

\* The report of a finished run with one job is current, in both directions and
\* over all runs of the compiler, when documents link near and may be attempted
\* twice: neither a reference resolved in the last rounds nor a document at its
\* limit is reported wrongly.
THEOREM ReportsAreCurrent ==
  LinksStayNear /\ MaxReparse >= 2 => (BatchSpec => []ReportIsCurrent)
<1> SUFFICES ASSUME LinksStayNear, MaxReparse >= 2 PROVE BatchSpec => []ReportIsCurrent
  OBVIOUS
<1> DEFINE Sequential == parallel \/ (Inv /\ SequentialInv)
<1>1. BatchInit => EpochInv /\ Sequential
  <2> SUFFICES ASSUME BatchInit PROVE EpochInv /\ SequentialInv /\ Inv
    OBVIOUS
  <2>1. CompilerSettled
    BY DEF BatchInit, Init, CompilerSettled, SettledRun, Paths, Range
  <2>2. Reports
    BY DEF BatchInit, Reports, Reported, Paths
  <2> QED  BY <2>1, <2>2, InitInv DEF BatchInit, EpochInv, SequentialInv
<1>2. ASSUME EpochInv, Sequential, BatchInv, [BatchNext]_parseAllVars
      PROVE  EpochInv' /\ Sequential'
  <2>1. EpochInv' /\ parallel' = parallel /\ (parallel \/ [Next]_vars)
    BY <1>2, BatchStep
  <2>2. CASE parallel
    BY <2>1, <2>2
  <2>3. CASE ~ parallel
    <3>1. Inv /\ SequentialInv /\ [Next]_vars
      BY <1>2, <2>1, <2>3
    <3>2. SequentialInv'
      BY <1>2, <2>3, <3>1, NextSequentialInv
    <3> QED  BY <2>1, <3>1, <3>2, NextInv
  <2> QED  BY <2>2, <2>3
<1>3. Sequential /\ ResolvedReports => ReportIsCurrent
  <2> SUFFICES ASSUME Inv, SequentialInv, ResolvedReports, phase = "done", ~ parallel,
                      NEW d \in Docs \ Faulty
               PROVE  /\ latest[d] = "warning" => ~ Resolvable(d)
                      /\ latest[d] = "ok" => Resolvable(d)
    BY DEF ReportIsCurrent
  <2>1. session_bb \cup global_bb \cup emitted = Cached
    BY DEF SequentialInv, Cached
  <2>2. latest[d] = "warning" => HasUnresolved(d, Cached)
    BY DEF SequentialInv, Reports, Reported
  <2> QED  BY <2>1, <2>2 DEF Resolvable, ResolvedReports
<1> QED  BY <1>1, <1>2, <1>3, OkReportsAreCurrent, InitBatchInv, NextBatchInv, PTL DEF BatchSpec

-----------------------------------------------------------------------------
(* The watch pipeline, for every tree of documents, every number of        *)
(* versions, crashes and callers, and every combination of faults unless a *)
(* theorem says otherwise.  First, the newest event of a path.             *)

\* The version of p after the events of s, when it was v before them.
Newest(s, p, v) ==
  LET of == {i \in DOMAIN s : IsNodesOf(s[i], p)}
  IN  IF of = {} THEN v ELSE s[CHOOSE i \in of : \A j \in of : j <= i].version

\* Event i is the last one with the nodes of p.
IsLast(s, p, i) ==
  i \in 1..Len(s) /\ IsNodesOf(s[i], p) /\ \A j \in 1..Len(s) : IsNodesOf(s[j], p) => j <= i

\* Newest is the version of the last event with the nodes of a path.
LEMMA NewestIsLast ==
  ASSUME NEW S, NEW s \in Seq(S), NEW p, NEW v, NEW i, IsLast(s, p, i)
  PROVE  Newest(s, p, v) = s[i].version
<1> DEFINE of == {j \in DOMAIN s : IsNodesOf(s[j], p)}
           last == CHOOSE k \in of : \A j \in of : j <= k
<1>1. i \in of /\ \A j \in of : j <= i
  BY DEF IsLast
<1>2. last \in of /\ \A j \in of : j <= last
  BY <1>1
<1>3. last = i
  BY <1>1, <1>2
<1> QED  BY <1>1, <1>3 DEF Newest

\* When no event is for the path, its newest version is the one at hand.
LEMMA NewestIsOld ==
  ASSUME NEW S, NEW s \in Seq(S), NEW p, NEW v, \A j \in 1..Len(s) : ~ IsNodesOf(s[j], p)
  PROVE  Newest(s, p, v) = v
BY DEF Newest

\* A path whose nodes are in a sequence of events has a last one there.
LEMMA LastExists ==
  ASSUME NEW S, NEW s \in Seq(S), NEW p, NEW k \in 1..Len(s), IsNodesOf(s[k], p)
  PROVE  \E i : IsLast(s, p, i)
<1> DEFINE of == {j \in 1..Len(s) : IsNodesOf(s[j], p)}
<1>1. of \in SUBSET Nat /\ of # {} /\ Len(s) \in Nat /\ \A j \in of : j <= Len(s)
  OBVIOUS
<1>2. \E i \in of : \A j \in of : j <= i
  BY <1>1, LargestExists
<1> QED  BY <1>2 DEF IsLast

\* Nothing is newer in an empty sequence.
LEMMA NewestOfNone == \A p, v : Newest(<<>>, p, v) = v
BY DEF Newest

\* An appended event is the newest of its path.
LEMMA NewestOfAppend ==
  ASSUME NEW S, NEW s \in Seq(S), NEW e \in S, NEW p, NEW v
  PROVE  Newest(Append(s, e), p, v) = IF IsNodesOf(e, p) THEN e.version ELSE Newest(s, p, v)
<1> DEFINE t == Append(s, e)
<1>1. /\ t \in Seq(S) /\ Len(t) = Len(s) + 1 /\ Len(s) \in Nat
      /\ t[Len(s) + 1] = e
      /\ \A j \in 1..Len(s) : t[j] = s[j]
  OBVIOUS
<1> HIDE DEF t
<1>2. \A j \in 1..Len(t) : j \in 1..Len(s) \/ j = Len(s) + 1
  BY <1>1
<1>3. CASE IsNodesOf(e, p)
  <2>1. IsLast(t, p, Len(s) + 1)
    BY <1>1, <1>3 DEF IsLast
  <2>2. Newest(t, p, v) = t[Len(s) + 1].version
    BY <1>1, <2>1, NewestIsLast
  <2> QED  BY <1>1, <1>3, <2>2 DEF t
<1>4. CASE ~ IsNodesOf(e, p) /\ \A j \in 1..Len(s) : ~ IsNodesOf(s[j], p)
  <2>1. \A j \in 1..Len(t) : ~ IsNodesOf(t[j], p)
    BY <1>1, <1>2, <1>4
  <2>2. Newest(t, p, v) = v
    BY <1>1, <2>1, NewestIsOld
  <2>3. Newest(s, p, v) = v
    BY <1>4, NewestIsOld
  <2> QED  BY <1>4, <2>2, <2>3 DEF t
<1>5. ASSUME ~ IsNodesOf(e, p), NEW k \in 1..Len(s), IsNodesOf(s[k], p)
      PROVE  Newest(t, p, v) = Newest(s, p, v)
  <2>1. PICK i : IsLast(s, p, i)
    BY <1>5, LastExists
  <2>2. IsLast(t, p, i) /\ t[i] = s[i]
    BY <1>1, <1>2, <1>5, <2>1 DEF IsLast
  <2>3. Newest(t, p, v) = t[i].version
    BY <1>1, <2>2, NewestIsLast
  <2>4. Newest(s, p, v) = s[i].version
    BY <2>1, NewestIsLast
  <2> QED  BY <2>2, <2>3, <2>4
<1> QED  BY <1>3, <1>4, <1>5 DEF t

\* Two sequences of events, one after the other.
LEMMA NewestOfConcat ==
  ASSUME NEW S, NEW s \in Seq(S), NEW t \in Seq(S), NEW p, NEW v
  PROVE  Newest(s \o t, p, v) = Newest(t, p, Newest(s, p, v))
<1> DEFINE c == s \o t
<1>1. /\ c \in Seq(S) /\ Len(c) = Len(s) + Len(t) /\ Len(s) \in Nat /\ Len(t) \in Nat
      /\ \A j \in 1..Len(s) : c[j] = s[j]
      /\ \A j \in 1..Len(t) : c[j + Len(s)] = t[j]
  OBVIOUS
<1> HIDE DEF c
<1>2. \A j \in 1..Len(c) : j \in 1..Len(s) \/ (j - Len(s) \in 1..Len(t) /\ c[j] = t[j - Len(s)])
  BY <1>1
<1>3. ASSUME NEW k \in 1..Len(t), IsNodesOf(t[k], p)
      PROVE  Newest(c, p, v) = Newest(t, p, Newest(s, p, v))
  <2>1. PICK i : IsLast(t, p, i)
    BY <1>3, LastExists
  <2>2. i + Len(s) \in 1..Len(c) /\ c[i + Len(s)] = t[i] /\ IsNodesOf(t[i], p)
    BY <1>1, <2>1 DEF IsLast
  <2>3. ASSUME NEW j \in 1..Len(c), IsNodesOf(c[j], p)
        PROVE  j <= i + Len(s)
    <3>1. CASE j \in 1..Len(s)
      BY <1>1, <3>1, <2>1 DEF IsLast
    <3>2. CASE j - Len(s) \in 1..Len(t) /\ c[j] = t[j - Len(s)]
      <4>1. j - Len(s) <= i
        BY <2>1, <2>3, <3>2 DEF IsLast
      <4> QED  BY <4>1, <1>1, <2>1 DEF IsLast
    <3> QED  BY <1>2, <3>1, <3>2
  <2>4. IsLast(c, p, i + Len(s))
    BY <2>2, <2>3 DEF IsLast
  <2>5. Newest(c, p, v) = c[i + Len(s)].version
    BY <1>1, <2>4, NewestIsLast
  <2>6. Newest(t, p, Newest(s, p, v)) = t[i].version
    BY <2>1, NewestIsLast
  <2> QED  BY <2>2, <2>5, <2>6
<1>4. ASSUME \A j \in 1..Len(t) : ~ IsNodesOf(t[j], p), NEW k \in 1..Len(s), IsNodesOf(s[k], p)
      PROVE  Newest(c, p, v) = Newest(t, p, Newest(s, p, v))
  <2>1. PICK i : IsLast(s, p, i)
    BY <1>4, LastExists
  <2>2. IsLast(c, p, i) /\ c[i] = s[i]
    <3>1. i \in 1..Len(c) /\ c[i] = s[i] /\ IsNodesOf(s[i], p)
      BY <1>1, <2>1 DEF IsLast
    <3>2. ASSUME NEW j \in 1..Len(c), IsNodesOf(c[j], p)
          PROVE  j <= i
      <4>1. j \in 1..Len(s) /\ c[j] = s[j]
        BY <1>1, <1>2, <1>4, <3>2
      <4> QED  BY <2>1, <3>2, <4>1 DEF IsLast
    <3> QED  BY <3>1, <3>2 DEF IsLast
  <2>3. Newest(c, p, v) = c[i].version
    BY <1>1, <2>2, NewestIsLast
  <2>4. Newest(s, p, v) = s[i].version
    BY <2>1, NewestIsLast
  <2>5. Newest(t, p, Newest(s, p, v)) = Newest(s, p, v)
    BY <1>4, NewestIsOld
  <2> QED  BY <2>2, <2>3, <2>4, <2>5
<1>5. ASSUME \A j \in 1..Len(t) : ~ IsNodesOf(t[j], p), \A k \in 1..Len(s) : ~ IsNodesOf(s[k], p)
      PROVE  Newest(c, p, v) = Newest(t, p, Newest(s, p, v))
  <2>1. \A j \in 1..Len(c) : ~ IsNodesOf(c[j], p)
    BY <1>1, <1>2, <1>5
  <2>2. Newest(c, p, v) = v
    BY <1>1, <2>1, NewestIsOld
  <2>3. Newest(s, p, v) = v
    BY <1>5, NewestIsOld
  <2>4. Newest(t, p, v) = v
    BY <1>5, NewestIsOld
  <2> QED  BY <2>2, <2>3, <2>4
<1> QED  BY <1>3, <1>4, <1>5 DEF c

-----------------------------------------------------------------------------
(* The scheduler's invariant, and the types of what the pipeline adds.     *)

\* A file that is parsed has been written at least once.
NewEvent == [kind : {"nodes", "parsed"}, path : Paths, version : Versions \ {0}]

FilesOK ==
  /\ disk \in [Paths -> Versions \ {0}]
  /\ modified \in [Paths -> Seconds]
  /\ fsevents \subseteq Docs

DebouncerOK ==
  /\ batch \in Seq(Docs)
  /\ dpc \in {"check", "filter", "enqueue"}
  /\ dpc # "check" => batch # <<>>

CompilerTaskOK ==
  /\ parsed \in [Paths -> Versions] /\ sending \in Paths
  /\ Locked => parsed[sending] # 0
  /\ cpc = "writing" => sending \in Docs
  /\ ignored \subseteq Paths
  /\ cpc \in {"stale", "await", "woken", "round", "parse", "sent", "writing", "retry",
              "finalize", "idle", "notify"}
  /\ compiler_idle \in BOOLEAN

TransactionTaskOK ==
  /\ db \in [Paths -> Versions] /\ mtimes \in [Paths -> Seconds]
  /\ tpc \in {"select", "executeA", "executeB", "mtimesA", "mtimesB", "idle?", "empty?", "raise", "exited"}
  /\ staged \in Seq(NewEvent)
  /\ stat \in [Paths -> Seconds]
  /\ refused \subseteq Paths

WaiterOK ==
  wpc \in {"out", "check", "register", "waiting"} /\ advanced \in BOOLEAN /\ waits \in 0..MaxWaits

SharedOK ==
  /\ work_permit \in BOOLEAN /\ idle_permit \in BOOLEAN /\ receiver \in BOOLEAN
  /\ channel \in Seq(NewEvent)
  /\ restarts \in 0..MaxRestarts

SyncerInv ==
  /\ Inv
  /\ FilesOK /\ DebouncerOK /\ CompilerTaskOK /\ TransactionTaskOK /\ WaiterOK /\ SharedOK

\* The invariant gives the types and the bounds of the scheduler.
LEMMA SyncerInvTypes == SyncerInv => SyncerTypeOK /\ QueuesDisjoint /\ AttemptsBounded
<1> SUFFICES ASSUME SyncerInv PROVE SyncerTypeOK /\ QueuesDisjoint /\ AttemptsBounded
  OBVIOUS
<1>1. TypeOK /\ QueuesDisjoint /\ AttemptsBounded
  BY InvIsTheChecked DEF SyncerInv
<1>2. channel \in Seq(Event) /\ staged \in Seq(Event)
  <2>1. NewEvent \subseteq Event
    BY DEF NewEvent, Event
  <2>2. channel \in Seq(NewEvent) /\ staged \in Seq(NewEvent)
    BY DEF SyncerInv, TransactionTaskOK, SharedOK
  <2> QED  BY <2>1, <2>2
<1>3. disk \in [Paths -> Versions]
  BY DEF SyncerInv, FilesOK
<1> QED
  BY <1>1, <1>2, <1>3 DEF SyncerTypeOK, SyncerInv, FilesOK, DebouncerOK, CompilerTaskOK,
       TransactionTaskOK, WaiterOK, SharedOK

\* It holds at the start.
LEMMA SyncerInitInv == SyncerInit => SyncerInv
<1> SUFFICES ASSUME SyncerInit PROVE SyncerInv
  OBVIOUS
<1> USE DEF SyncerInit
<1>1. Inv
  BY InitInv
<1>2. /\ 0 \in Versions /\ 1 \in Versions \ {0} /\ 0 \in 0..MaxWaits /\ 0 \in 0..MaxRestarts
      /\ 0 \in Seconds /\ 1 \in Seconds /\ Root \in Paths
  BY SyncerAssumption, CompilerAssumption DEF Versions, Seconds, Paths
<1>3. db \in [Paths -> Versions] /\ mtimes \in [Paths -> Seconds]
  BY <1>2
<1>4. FilesOK
  BY <1>2 DEF FilesOK
<1>5. DebouncerOK
  BY DEF DebouncerOK
<1>6. CompilerTaskOK
  BY <1>2, <1>3 DEF CompilerTaskOK, Locked
<1>7. TransactionTaskOK
  BY <1>2, <1>3 DEF TransactionTaskOK
<1>8. WaiterOK
  BY <1>2 DEF WaiterOK
<1>9. SharedOK
  <2>1. channel \in Seq(NewEvent)
    OBVIOUS
  <2>2. work_permit \in BOOLEAN /\ idle_permit \in BOOLEAN /\ receiver \in BOOLEAN
    OBVIOUS
  <2>3. restarts \in 0..MaxRestarts
    BY <1>2
  <2> QED  BY <2>1, <2>2, <2>3 DEF SharedOK
<1> QED  BY <1>1, <1>4, <1>5, <1>6, <1>7, <1>8, <1>9 DEF SyncerInv

\* The steps that leave the compiler alone keep its invariant.
LEMMA CompilerIdleInv == ASSUME Inv, UNCHANGED vars PROVE Inv'
BY NextInv

\* The steps that change a program counter and a few flags keep it.
LEMMA SyncerQuietInv ==
  ASSUME SyncerInv,
         \/ MarkBusy
         \/ ParseNone
         \/ ShellFails
         \/ Retry
         \/ FinalizeHtml
         \/ GoIdle
         \/ NotifyIdle
         \/ Wake
         \/ ReceiverCloses
         \/ CheckIdle
         \/ FilterIgnored
         \/ LookAtFlag
         \/ LookAtChannel
         \/ Signal
         \/ CallWait
         \/ LoadGeneration
         \/ Register
  PROVE  SyncerInv'
<1>1. UNCHANGED vars
  BY DEF MarkBusy, ParseNone, ShellFails, Retry, FinalizeHtml, GoIdle, NotifyIdle, Wake, ReceiverCloses,
         CheckIdle, FilterIgnored, LookAtFlag, LookAtChannel, Signal, CallWait, LoadGeneration, Register
<1>2. Inv'
  BY <1>1, CompilerIdleInv DEF SyncerInv
<1> USE DEF SyncerInv, FilesOK, DebouncerOK, CompilerTaskOK, TransactionTaskOK, WaiterOK, SharedOK,
            files, debouncer, compilerTask, transactionTask, waiter, Locked
<1>3. CASE MarkBusy
  <2>1. compiler_idle' \in BOOLEAN
    BY <1>3 DEF MarkBusy
  <2>2. CompilerTaskOK'
    BY <1>3, <2>1 DEF MarkBusy
  <2> QED  BY <1>2, <1>3, <2>2 DEF MarkBusy
<1>4. CASE ParseNone
  BY <1>2, <1>4 DEF ParseNone
<1>5. CASE FinalizeHtml
  BY <1>2, <1>5 DEF FinalizeHtml
<1>6. CASE GoIdle
  BY <1>2, <1>6 DEF GoIdle
<1>7. CASE NotifyIdle
  <2>1. idle_permit' \in BOOLEAN
    BY <1>7 DEF NotifyIdle
  <2>2. SharedOK'
    BY <1>7, <2>1 DEF NotifyIdle
  <2> QED  BY <1>2, <1>7, <2>2 DEF NotifyIdle
<1>8. CASE Wake
  <2>1. work_permit' \in BOOLEAN
    BY <1>8 DEF Wake
  <2>2. SharedOK'
    BY <1>8, <2>1 DEF Wake
  <2> QED  BY <1>2, <1>8, <2>2 DEF Wake
<1>9. CASE ReceiverCloses
  <2>1. SharedOK'
    <3>1. receiver' \in BOOLEAN /\ UNCHANGED <<work_permit, idle_permit, channel, restarts>>
      BY <1>9 DEF ReceiverCloses
    <3> QED  BY <3>1
  <2> QED  BY <1>2, <1>9, <2>1 DEF ReceiverCloses
<1>10. CASE CheckIdle
  <2>1. /\ batch # <<>>
        /\ \/ batch' = <<>> /\ dpc' = "check"
           \/ batch' = batch /\ dpc' = "filter"
    BY <1>10 DEF CheckIdle
  <2>2. DebouncerOK'
    <3>1. CASE batch' = <<>> /\ dpc' = "check"
      BY <3>1
    <3>2. CASE batch' = batch /\ dpc' = "filter"
      BY <2>1, <3>2
    <3> QED  BY <2>1, <3>1, <3>2
  <2> QED  BY <1>2, <1>10, <2>2 DEF CheckIdle
<1>11. CASE FilterIgnored
  <2>1. batch # <<>> /\ Tail(batch) \in Seq(Docs)
    BY <1>11 DEF FilterIgnored
  <2>2. DebouncerOK'
    BY <1>11, <2>1 DEF FilterIgnored
  <2> QED  BY <1>2, <1>11, <2>2 DEF FilterIgnored
<1>12. CASE LookAtFlag \/ LookAtChannel
  <2>1. tpc' \in {"empty?", "raise", "select"}
    BY <1>12 DEF LookAtFlag, LookAtChannel
  <2>2. TransactionTaskOK'
    BY <1>12, <2>1 DEF LookAtFlag, LookAtChannel
  <2> QED  BY <1>2, <1>12, <2>2 DEF LookAtFlag, LookAtChannel
<1>13. CASE Signal
  <2>1. advanced' \in BOOLEAN /\ wpc' \in {"out", "check", "register", "waiting"}
    BY <1>13 DEF Signal
  <2>2. TransactionTaskOK'
    BY <1>13 DEF Signal
  <2>3. WaiterOK'
    BY <1>13, <2>1 DEF Signal
  <2> QED  BY <1>2, <1>13, <2>2, <2>3 DEF Signal
<1>14. CASE CallWait
  <2>1. advanced' \in BOOLEAN
    BY <1>14 DEF CallWait
  <2>2. waits' \in 0..MaxWaits /\ wpc' = "check"
    BY <1>14, SyncerAssumption DEF CallWait
  <2>3. WaiterOK'
    BY <2>1, <2>2
  <2> QED  BY <1>2, <1>14, <2>3 DEF CallWait
<1>15. CASE LoadGeneration
  <2>1. advanced' \in BOOLEAN
    BY <1>15 DEF LoadGeneration
  <2>2. WaiterOK'
    BY <1>15, <2>1 DEF LoadGeneration
  <2> QED  BY <1>2, <1>15, <2>2 DEF LoadGeneration
<1>16. CASE Register
  BY <1>2, <1>16 DEF Register
<1>17. CASE ShellFails \/ Retry
  BY <1>2, <1>17 DEF ShellFails, Retry
<1> QED
  BY <1>3, <1>4, <1>5, <1>6, <1>7, <1>8, <1>9, <1>10, <1>11, <1>12, <1>13, <1>14, <1>15, <1>16, <1>17

\* A version that is recorded is one the path had before or one that was parsed.
LEMMA NewestType ==
  ASSUME NEW s \in Seq(NewEvent), NEW p, NEW v \in Versions
  PROVE  /\ Newest(s, p, v) \in Versions
         /\ (\E i \in 1..Len(s) : IsNodesOf(s[i], p)) => Newest(s, p, v) \in Versions \ {0}
         /\ (\A i \in 1..Len(s) : ~ IsNodesOf(s[i], p)) => Newest(s, p, v) = v
<1>1. CASE \A i \in 1..Len(s) : ~ IsNodesOf(s[i], p)
  BY <1>1, NewestIsOld
<1>2. ASSUME NEW k \in 1..Len(s), IsNodesOf(s[k], p)
      PROVE  Newest(s, p, v) \in Versions \ {0}
  <2>1. PICK i : IsLast(s, p, i)
    BY <1>2, LastExists
  <2>2. Newest(s, p, v) = s[i].version
    BY <2>1, NewestIsLast
  <2>3. s[i] \in NewEvent
    BY <2>1 DEF IsLast
  <2> QED  BY <2>2, <2>3 DEF NewEvent
<1> QED  BY <1>1, <1>2

\* What a transaction commits of a path is its newest staged version.
LEMMA CommittedIsNewest == \A p : Committed(p) = Newest(staged, p, db[p])
BY DEF Committed, Newest

\* Edits and crashes keep it.
LEMMA WorldInv ==
  ASSUME SyncerInv, \/ \E d \in Edited : Edit(d) \/ EditUnwatched(d)
                    \/ Crash
  PROVE  SyncerInv'
<1> USE DEF SyncerInv, FilesOK, DebouncerOK, CompilerTaskOK, TransactionTaskOK, WaiterOK, SharedOK,
            files, debouncer, compilerTask, transactionTask, waiter, Locked
<1>1. ASSUME NEW d \in Edited, Edit(d) \/ EditUnwatched(d)
      PROVE  SyncerInv'
  <2>1. d \in Docs /\ d \in Paths
    BY SyncerAssumption DEF Paths
  <2>2. Inv'
    BY <1>1, CompilerIdleInv DEF Edit, EditUnwatched
  <2>3. FilesOK'
    <3>1. disk' = [disk EXCEPT ![d] = @ + 1] /\ disk[d] < MaxVersion
      BY <1>1 DEF Edit, EditUnwatched, Write
    <3>2. disk[d] + 1 \in Versions \ {0}
      BY <2>1, <3>1, SyncerAssumption DEF Versions
    <3>3. disk' \in [Paths -> Versions \ {0}]
      BY <3>1, <3>2
    <3>4. fsevents' \subseteq Docs
      BY <1>1, <2>1 DEF Edit, EditUnwatched
    <3>5. PICK second \in modified[d]..MaxSecond : modified' = [modified EXCEPT ![d] = second]
      BY <1>1 DEF Edit, EditUnwatched, Write
    <3>6. second \in Seconds
      BY <2>1, SyncerAssumption DEF Seconds
    <3>7. modified' \in [Paths -> Seconds]
      BY <3>5, <3>6
    <3> QED  BY <3>3, <3>4, <3>7
  <2> QED  BY <1>1, <2>2, <2>3 DEF Edit, EditUnwatched
<1>2. CASE Crash
  <2>1. Inv'
    <3>1. QueuesOK(primary_queue', reparse_queue')
      <4>1. <<Root>> \in Seq(Paths) /\ IsInjective(<<Root>>)
        BY CompilerAssumption, SingletonProperties DEF Paths
      <4>2. <<>> \in Seq(Docs) /\ IsInjective(<<>>) /\ Range(<<>>) = {}
        BY DEF IsInjective, Range
      <4> QED  BY <1>2, <4>1, <4>2 DEF Crash, QueuesOK
    <3>2. DataOK'
      BY <1>2 DEF Crash, Inv, DataOK
    <3>3. AttemptsBounded'
      BY <1>2, CompilerAssumption DEF Crash, AttemptsBounded
    <3> QED  BY <3>1, <3>2, <3>3 DEF Inv
  <2>2. 0 \in Seconds /\ Root \in Paths
    BY SyncerAssumption, CompilerAssumption DEF Seconds, Paths
  <2>3. FilesOK'
    BY <1>2 DEF Crash
  <2>4. DebouncerOK'
    BY <1>2 DEF Crash
  <2>5. CompilerTaskOK'
    BY <1>2, <2>2 DEF Crash, Locked
  <2>6. TransactionTaskOK'
    BY <1>2, <2>2 DEF Crash
  <2>7. WaiterOK'
    BY <1>2 DEF Crash
  <2>8. SharedOK'
    <3>1. restarts' \in 0..MaxRestarts
      BY <1>2, SyncerAssumption DEF Crash
    <3>2. channel' \in Seq(NewEvent)
      BY <1>2 DEF Crash
    <3>3. work_permit' \in BOOLEAN /\ idle_permit' \in BOOLEAN /\ receiver' \in BOOLEAN
      BY <1>2 DEF Crash
    <3> QED  BY <3>1, <3>2, <3>3
  <2> QED  BY <2>1, <2>3, <2>4, <2>5, <2>6, <2>7, <2>8
<1> QED  BY <1>1, <1>2

\* The steps of the debouncer that change more than its counter keep it.
LEMMA DebounceInv ==
  ASSUME SyncerInv, Deliver \/ EnqueueChange
  PROVE  SyncerInv'
<1> USE DEF SyncerInv, FilesOK, DebouncerOK, CompilerTaskOK, TransactionTaskOK, WaiterOK, SharedOK,
            files, debouncer, compilerTask, transactionTask, waiter, Locked
<1>1. CASE Deliver
  <2>1. Inv'
    BY <1>1, CompilerIdleInv DEF Deliver
  <2>2. IsFiniteSet(fsevents)
    BY PathsFinite DEF Paths
  <2>3. batch' \in Seq(fsevents)
    BY <1>1, <2>2, OrderingsProperties DEF Deliver
  <2>4. batch' \in Seq(Docs)
    BY <2>3
  <2>5. DebouncerOK'
    BY <1>1, <2>4 DEF Deliver
  <2> QED  BY <1>1, <2>1, <2>5 DEF Deliver
<1>2. CASE EnqueueChange
  <2>1. batch # <<>> /\ Tail(batch) \in Seq(Docs) /\ Head(batch) \in Paths
    BY <1>2 DEF EnqueueChange, Paths
  <2>2. Inv'
    <3>1. QueuesOK(primary_queue', reparse_queue')
      BY <1>2, <2>1, EnqueueKeepsQueues DEF EnqueueChange, Inv
    <3>2. /\ processed' \in [Paths -> Nat]
          /\ pending_dependencies' \in [Docs -> SUBSET Docs]
          /\ AttemptsBounded'
      BY <1>2, <2>1, ForgetKeepsData DEF EnqueueChange, Inv
    <3> QED  BY <1>2, <3>1, <3>2 DEF EnqueueChange, Inv, DataOK
  <2>3. DebouncerOK'
    BY <1>2, <2>1 DEF EnqueueChange
  <2> QED  BY <1>2, <2>2, <2>3 DEF EnqueueChange
<1> QED  BY <1>1, <1>2

\* The two steps by which the compiler task begins a round keep it.
LEMMA StartInv ==
  ASSUME SyncerInv, CheckStale \/ StartRound
  PROVE  SyncerInv'
<1> USE DEF SyncerInv, FilesOK, DebouncerOK, CompilerTaskOK, TransactionTaskOK, WaiterOK, SharedOK,
            files, debouncer, compilerTask, transactionTask, waiter, Locked
<1>1. CASE CheckStale
  <2>1. PICK o \in Orderings(Stale \ Queued) : primary_queue' = primary_queue \o o
    BY <1>1 DEF CheckStale
  <2>2. Stale \ Queued \subseteq Paths /\ IsFiniteSet(Stale \ Queued)
    BY PathsFinite DEF Stale
  <2>3. o \in Seq(Stale \ Queued) /\ IsInjective(o) /\ Range(o) = Stale \ Queued
    BY <2>2, OrderingsProperties
  <2>4. o \in Seq(Paths)
    BY <2>2, <2>3
  <2>5. Range(primary_queue) \cap Range(o) = {} /\ Range(o) \cap Range(reparse_queue) = {}
    BY <2>3 DEF Queued
  <2>6. /\ primary_queue' \in Seq(Paths) /\ IsInjective(primary_queue')
        /\ Range(primary_queue') = Range(primary_queue) \cup Range(o)
    BY <2>1, <2>3, <2>4, <2>5, ConcatProperties DEF Inv, QueuesOK
  <2>7. QueuesOK(primary_queue', reparse_queue')
    BY <1>1, <2>5, <2>6 DEF CheckStale, Inv, QueuesOK
  <2>8. processed' \in [Paths -> Nat] /\ AttemptsBounded'
    BY <1>1, CompilerAssumption DEF CheckStale, Inv, DataOK, AttemptsBounded
  <2>9. pending_dependencies' \in [Docs -> SUBSET Docs]
    BY <1>1 DEF CheckStale, Inv, DataOK
  <2>10. Inv'
    BY <1>1, <2>7, <2>8, <2>9 DEF CheckStale, Inv, DataOK
  <2> QED  BY <1>1, <2>10 DEF CheckStale
<1>2. CASE StartRound
  <2>1. Inv'
    BY <1>2, NextInv DEF StartRound, Next
  <2> QED  BY <1>2, <2>1 DEF StartRound
<1> QED  BY <1>1, <1>2

\* A send that fails after the attempt was counted: the path may stay queued.
LEMMA RefusedInv ==
  ASSUME Inv, NEW p \in Paths, NEW q, QueuesOK(q, reparse_queue),
         NodesRefused(p, q) \/ ParsedRefused(p, q)
  PROVE  Inv'
<1>1. QueuesOK(Without(q, p), Without(reparse_queue, p))
  BY DequeueKeepsQueues
<1>2. QueuesOK(primary_queue', reparse_queue')
  BY <1>1 DEF NodesRefused, ParsedRefused, Dequeue
<1>3. SendFailed(p)
  BY DEF NodesRefused, ParsedRefused
<1>4. processed' \in [Paths -> Nat] /\ AttemptsBounded'
  BY <1>3, AttemptKeepsBound DEF SendFailed
<1>5. session_bb' \subseteq Paths
  BY <1>3, CompilerAssumption DEF SendFailed, SessionAfter, Nodes, Inv, DataOK, Paths
<1> QED  BY <1>2, <1>3, <1>4, <1>5 DEF SendFailed, Inv, DataOK

\* Each way a parse ends without an event keeps it.
LEMMA ParseQuietlyInv ==
  ASSUME SyncerInv, ParseQuietly
  PROVE  SyncerInv'
<1> USE DEF SyncerInv, FilesOK, DebouncerOK, CompilerTaskOK, TransactionTaskOK, WaiterOK, SharedOK,
            files, debouncer, compilerTask, transactionTask, waiter, Locked
<1>1. PICK q \in {primary_queue} \cup Orderings(UncheckedAssets) :
        \E p \in Range(q) \cup Range(reparse_queue) :
          Picks(p, q) /\ ParsesQuietly(p, q) /\ ignored' = ignored \cup {p}
  BY DEF ParseQuietly
<1>2. PICK p \in Range(q) \cup Range(reparse_queue) :
        Picks(p, q) /\ ParsesQuietly(p, q) /\ ignored' = ignored \cup {p}
  BY <1>1
<1>3. QueuesOK(q, reparse_queue) /\ p \in Paths
  BY <1>2, PickedQueue DEF Inv
<1>4. ParsePath(p, q) \/ NodesRefused(p, q)
  BY <1>2 DEF ParsesQuietly, ParsePath
<1>5. Inv'
  BY <1>3, <1>4, AttemptInv, RefusedInv
<1>6. CompilerTaskOK'
  BY <1>2, <1>3 DEF ParseQuietly
<1> QED  BY <1>5, <1>6 DEF ParseQuietly

\* The steps of a parse that sends its events keep it.
LEMMA ParseInv ==
  ASSUME SyncerInv, Parse
  PROVE  SyncerInv'
<1> USE DEF SyncerInv, FilesOK, DebouncerOK, CompilerTaskOK, TransactionTaskOK, WaiterOK, SharedOK,
            files, debouncer, compilerTask, transactionTask, waiter, Locked
<1>1. PICK q \in {primary_queue} \cup Orderings(UncheckedAssets) :
        \E p \in Range(q) \cup Range(reparse_queue) :
          /\ Picks(p, q) /\ primary_queue' = q /\ sending' = p
          /\ parsed' = [parsed EXCEPT ![p] = disk[p]]
          /\ channel' = Append(channel, [kind |-> "nodes", path |-> p, version |-> disk[p]])
  BY DEF Parse
<1>2. PICK p \in Range(q) \cup Range(reparse_queue) :
        /\ Picks(p, q) /\ primary_queue' = q /\ sending' = p
        /\ parsed' = [parsed EXCEPT ![p] = disk[p]]
        /\ channel' = Append(channel, [kind |-> "nodes", path |-> p, version |-> disk[p]])
  BY <1>1
<1>3. QueuesOK(q, reparse_queue) /\ p \in Paths
  BY <1>2, PickedQueue DEF Inv
<1>4. Inv'
  BY <1>2, <1>3 DEF Parse, Inv, DataOK, AttemptsBounded
<1>5. disk[p] \in Versions \ {0}
  BY <1>3
<1>6. CompilerTaskOK'
  <2>1. parsed' \in [Paths -> Versions] /\ sending' \in Paths /\ parsed'[sending'] # 0
    BY <1>2, <1>3, <1>5
  <2> QED  BY <2>1 DEF Parse
<1>7. SharedOK'
  <2>1. [kind |-> "nodes", path |-> p, version |-> disk[p]] \in NewEvent
    BY <1>3, <1>5 DEF NewEvent
  <2>2. channel' \in Seq(NewEvent)
    BY <1>2, <2>1
  <2> QED  BY <2>2 DEF Parse
<1> QED  BY <1>4, <1>6, <1>7 DEF Parse

LEMMA SendInv ==
  ASSUME SyncerInv, SendParsed \/ SendParsedFails \/ ParseFails \/ WriteBack
  PROVE  SyncerInv'
<1> USE DEF SyncerInv, FilesOK, DebouncerOK, CompilerTaskOK, TransactionTaskOK, WaiterOK, SharedOK,
            files, debouncer, compilerTask, transactionTask, waiter, Locked
<1>0. QueuesOK(primary_queue, reparse_queue) /\ sending \in Paths
  BY DEF Inv
<1>1. CASE SendParsed
  <2>1. ParsePath(sending, primary_queue)
    BY <1>1 DEF SendParsed, ParsePath
  <2>2. Inv'
    BY <1>0, <2>1, AttemptInv
  <2>3. parsed[sending] \in Versions \ {0}
    BY <1>0, <1>1 DEF SendParsed
  <2>4. CompilerTaskOK'
    BY <1>0, <1>1, <2>3, SyncerAssumption DEF SendParsed
  <2>5. SharedOK'
    <3>1. [kind |-> "parsed", path |-> sending, version |-> parsed[sending]] \in NewEvent
      BY <1>0, <2>3 DEF NewEvent
    <3>2. channel' \in Seq(NewEvent)
      BY <1>1, <3>1 DEF SendParsed
    <3> QED  BY <1>1, <3>2 DEF SendParsed
  <2> QED  BY <1>1, <2>2, <2>4, <2>5 DEF SendParsed
<1>2. CASE SendParsedFails
  <2>1. Inv'
    BY <1>0, <1>2, RefusedInv DEF SendParsedFails
  <2> QED  BY <1>2, <2>1 DEF SendParsedFails
<1>3. CASE WriteBack
  <2>1. Inv'
    BY <1>3, CompilerIdleInv DEF WriteBack
  <2>2. FilesOK'
    <3>1. disk' \in [Paths -> Versions \ {0}]
      BY <1>0, <1>3 DEF WriteBack
    <3>2. PICK second \in modified[sending]..MaxSecond : modified' = [modified EXCEPT ![sending] = second]
      BY <1>3 DEF WriteBack
    <3>3. second \in Seconds
      BY <1>0, SyncerAssumption DEF Seconds
    <3>4. modified' \in [Paths -> Seconds]
      BY <3>2, <3>3
    <3>5. fsevents' \subseteq Docs
      BY <1>3 DEF WriteBack
    <3> QED  BY <3>1, <3>4, <3>5
  <2>3. CompilerTaskOK'
    BY <1>0, <1>3 DEF WriteBack
  <2> QED  BY <1>3, <2>1, <2>2, <2>3 DEF WriteBack
<1>4. CASE ParseFails
  <2>1. PICK q \in {primary_queue} \cup Orderings(UncheckedAssets) :
          \E p \in Range(q) \cup Range(reparse_queue) : Picks(p, q) /\ ParsedRefused(p, q)
    BY <1>4 DEF ParseFails
  <2>2. PICK p \in Range(q) \cup Range(reparse_queue) : Picks(p, q) /\ ParsedRefused(p, q)
    BY <2>1
  <2>3. QueuesOK(q, reparse_queue) /\ p \in Paths
    BY <2>2, PickedQueue DEF Inv
  <2>4. Inv'
    BY <2>2, <2>3, RefusedInv
  <2> QED  BY <1>4, <2>4 DEF ParseFails
<1> QED  BY <1>1, <1>2, <1>3, <1>4

\* The statements of the transaction task keep it.
LEMMA TransactionInv ==
  ASSUME SyncerInv, ReceiveEvents \/ CompilerWentIdle \/ Execute \/ ExecuteMtimes
  PROVE  SyncerInv'
<1> USE DEF SyncerInv, FilesOK, DebouncerOK, CompilerTaskOK, TransactionTaskOK, WaiterOK, SharedOK,
            files, debouncer, compilerTask, transactionTask, waiter, Locked
<1>0. 0 \in Seconds
  BY SyncerAssumption DEF Seconds
<1>1. ASSUME NEW next \in {"executeA", "executeB"}, Drain(next)
      PROVE  /\ channel' \in Seq(NewEvent) /\ staged' \in Seq(NewEvent)
             /\ stat' \in [Paths -> Seconds]
             /\ tpc' \in {"executeA", "executeB", "exited"}
  <2>1. <<>> \in Seq(NewEvent)
    OBVIOUS
  <2>2. channel' \in Seq(NewEvent) /\ staged' \in Seq(NewEvent) /\ tpc' \in {"executeA", "executeB", "exited"}
    BY <1>1, <2>1 DEF Drain
  <2>3. stat' \in [Paths -> Seconds]
    BY <1>0, <1>1 DEF Drain, TimesRead
  <2> QED  BY <2>2, <2>3
<1>2. CASE ReceiveEvents
  <2>1. Inv'
    BY <1>2, CompilerIdleInv DEF ReceiveEvents
  <2>2. Drain("executeA")
    BY <1>2 DEF ReceiveEvents
  <2>3. TransactionTaskOK'
    BY <1>1, <1>2, <2>2 DEF ReceiveEvents
  <2>4. SharedOK'
    BY <1>1, <1>2, <2>2 DEF ReceiveEvents
  <2> QED  BY <1>2, <2>1, <2>3, <2>4 DEF ReceiveEvents
<1>3. CASE CompilerWentIdle
  <2>1. Inv'
    BY <1>3, CompilerIdleInv DEF CompilerWentIdle
  <2>2. Drain("executeB")
    BY <1>3 DEF CompilerWentIdle
  <2>3. TransactionTaskOK'
    BY <1>1, <1>3, <2>2 DEF CompilerWentIdle
  <2>4. SharedOK'
    <3>1. channel' \in Seq(NewEvent)
      BY <1>1, <2>2
    <3>2. idle_permit' = FALSE /\ UNCHANGED <<work_permit, receiver, restarts>>
      BY <1>3 DEF CompilerWentIdle
    <3> QED  BY <3>1, <3>2
  <2> QED  BY <1>3, <2>1, <2>3, <2>4 DEF CompilerWentIdle
<1>4. CASE Execute
  <2>1. db' \in [Paths -> Versions]
    <3>1. \A p \in Paths : Committed(p) \in Versions
      BY CommittedIsNewest, NewestType
    <3> QED  BY <1>4, <3>1 DEF Execute
  <2>2. global_bb' \subseteq Paths
    <3>1. InBatch \subseteq Paths
      BY DEF InBatch
    <3>2. \A p \in Paths : Carried(p) \subseteq Paths
      BY CompilerAssumption DEF Carried, Nodes, Paths
    <3> DEFINE carried == UNION {Carried(p) : p \in InBatch}
    <3>3. carried \subseteq Paths
      BY <3>1, <3>2
    <3>4. global_bb' = global_bb \cup carried \/ global_bb' = global_bb
      BY <1>4 DEF Execute
    <3>5. global_bb \subseteq Paths
      BY DEF Inv, DataOK
    <3> HIDE DEF carried
    <3> QED  BY <3>3, <3>4, <3>5
  <2>3. Inv'
    BY <1>4, <2>2 DEF Execute, Inv, DataOK, AttemptsBounded
  <2>4. TransactionTaskOK'
    <3>1. staged' \in Seq(NewEvent)
      BY <1>4 DEF Execute
    <3>2. tpc' \in {"mtimesA", "mtimesB", "idle?", "raise"}
      BY <1>4 DEF Execute
    <3>3. refused' \subseteq Paths
      BY <1>4 DEF Execute, InBatch
    <3> QED  BY <1>4, <2>1, <3>1, <3>2, <3>3 DEF Execute
  <2> QED  BY <1>4, <2>3, <2>4 DEF Execute
<1>5. CASE ExecuteMtimes
  <2>1. Inv'
    BY <1>5, CompilerIdleInv DEF ExecuteMtimes
  <2>2. mtimes' \in [Paths -> Seconds]
    BY <1>5 DEF ExecuteMtimes
  <2>3. tpc' \in {"idle?", "raise"}
    BY <1>5 DEF ExecuteMtimes
  <2>4. TransactionTaskOK'
    BY <1>5, <2>2, <2>3 DEF ExecuteMtimes
  <2> QED  BY <1>5, <2>1, <2>4 DEF ExecuteMtimes
<1> QED  BY <1>2, <1>3, <1>4, <1>5

\* Every step of the pipeline keeps the invariant.
LEMMA SyncerNextInv == SyncerInv /\ [SyncerNext]_allVars => SyncerInv'
<1> SUFFICES ASSUME SyncerInv, [SyncerNext]_allVars PROVE SyncerInv'
  OBVIOUS
<1>1. CASE SyncerNext
  BY <1>1, SyncerQuietInv, WorldInv, DebounceInv, StartInv, ParseQuietlyInv, ParseInv, SendInv, TransactionInv
     DEF SyncerNext, Debounce, CompilerTask, TransactionTask, Waiter
<1>2. CASE UNCHANGED allVars
  <2>1. Inv'
    BY <1>2, CompilerIdleInv DEF allVars, SyncerInv
  <2> QED
    BY <1>2, <2>1 DEF allVars, syncerVars, SyncerInv, FilesOK, DebouncerOK, CompilerTaskOK,
         TransactionTaskOK, WaiterOK, SharedOK, files, debouncer, compilerTask, transactionTask, waiter, Locked
<1> QED  BY <1>1, <1>2

\* So it always holds.
LEMMA SyncerSpecInv == SyncerSpec => []SyncerInv
BY SyncerInitInv, SyncerNextInv, PTL DEF SyncerSpec

\* Every variable of the pipeline stays of its type, and what holds of the open
\* scheduler holds of it here, where the callback of the debouncer, failing sends
\* and restarts use it too: no path is queued twice, and no path is attempted
\* more often than max_reparse_count between two resets.
THEOREM PipelineKeepsScheduler == SyncerSpec => [](SyncerTypeOK /\ QueuesDisjoint /\ AttemptsBounded)
BY SyncerSpecInv, SyncerInvTypes, PTL

-----------------------------------------------------------------------------
(* The flow of events from a parse to the database.                        *)

flow == <<parsed, sending, channel, transactionTask>>

\* The steps that leave it alone; a parse starts with its first event.
Aside == UNCHANGED flow /\ (cpc' = "sent" => cpc = "sent")

\* The steps that take part in it.
LEMMA FlowSteps ==
  ASSUME SyncerNext
  PROVE  \/ Aside
         \/ Crash
         \/ Parse
         \/ SendParsed
         \/ ReceiveEvents
         \/ CompilerWentIdle
         \/ Execute
         \/ ExecuteMtimes
         \/ LookAtFlag \/ LookAtChannel \/ Signal
<1> USE DEF Aside, flow, files, debouncer, compilerTask, transactionTask, waiter
<1>1. CASE ParseQuietly \/ ParseFails \/ SendParsedFails \/ WriteBack
  BY <1>1 DEF ParseQuietly, ParseFails, SendParsedFails, WriteBack
<1>2. CASE ReceiverCloses \/ Debounce
  BY <1>2 DEF ReceiverCloses, Debounce, Deliver, CheckIdle, FilterIgnored, EnqueueChange
<1>3. CASE \/ CheckStale \/ Wake \/ MarkBusy \/ StartRound \/ ParseNone \/ ShellFails \/ Retry
           \/ FinalizeHtml \/ GoIdle \/ NotifyIdle
  BY <1>3 DEF CheckStale, Wake, MarkBusy, StartRound, ParseNone, ShellFails, Retry, FinalizeHtml,
       GoIdle, NotifyIdle
<1>4. CASE CallWait \/ Waiter
  BY <1>4 DEF CallWait, Waiter, LoadGeneration, Register
<1>5. CASE \E d \in Edited : Edit(d) \/ EditUnwatched(d)
  BY <1>5 DEF Edit, EditUnwatched
<1> QED  BY <1>1, <1>2, <1>3, <1>4, <1>5 DEF SyncerNext, CompilerTask, TransactionTask

\* The transaction task holds events, or reads modification times, only between
\* a drain and the statements that follow it.
Executing == tpc \in {"executeA", "executeB"}
BetweenStatements == tpc \in {"mtimesA", "mtimesB"}

HoldsNodes(s, p) == \E i \in 1..Len(s) : IsNodesOf(s[i], p)
HoldsParse(s, p) == \E i \in 1..Len(s) : IsParseOf(s[i], p)

\* The nodes of p are in the database, or it has refused them.
Recorded(p) == db[p] > 0 \/ p \in refused

\* They are so, or will be when what is on its way is committed.
OnTheWay(p) == HoldsNodes(channel, p) \/ HoldsNodes(staged, p) \/ Recorded(p)

\* FileParsed comes after the nodes, in the channel and in the batch; a modification
\* time is read for the files parsed in the batch, and the statement that records it
\* comes after the one that records nodes.
MtimesInv ==
  /\ MtimesFollowNodes
  /\ ~ Executing => staged = <<>>
  /\ tpc # "exited" => \A p \in Paths : HoldsParse(channel, p) => OnTheWay(p)
  /\ tpc # "exited" /\ cpc = "sent" => OnTheWay(sending)
  /\ Executing => \A p \in Paths : stat[p] > 0 => HoldsNodes(staged, p) \/ Recorded(p)
  /\ BetweenStatements => \A p \in Paths : stat[p] > 0 => Recorded(p)

\* No modification time is remembered at the start without its nodes.
LEMMA MtimesInitInv == SyncerInit => MtimesInv
BY DEF SyncerInit, MtimesInv, MtimesFollowNodes, Executing, BetweenStatements, HoldsParse

\* An appended event is in the channel, and nothing else comes or goes.
LEMMA HoldsAppended ==
  ASSUME NEW s \in Seq(NewEvent), NEW e \in NewEvent, NEW p
  PROVE  /\ HoldsNodes(Append(s, e), p) <=> HoldsNodes(s, p) \/ IsNodesOf(e, p)
         /\ HoldsParse(Append(s, e), p) <=> HoldsParse(s, p) \/ IsParseOf(e, p)
<1> DEFINE t == Append(s, e)
<1>1. /\ Len(t) = Len(s) + 1 /\ Len(s) \in Nat /\ t[Len(s) + 1] = e
      /\ \A i \in 1..Len(s) : t[i] = s[i]
  OBVIOUS
<1> HIDE DEF t
<1>2. 1..Len(t) = 1..Len(s) \cup {Len(s) + 1}
  BY <1>1
<1>3. HoldsNodes(t, p) <=> HoldsNodes(s, p) \/ IsNodesOf(e, p)
  BY <1>1, <1>2 DEF HoldsNodes
<1>4. HoldsParse(t, p) <=> HoldsParse(s, p) \/ IsParseOf(e, p)
  BY <1>1, <1>2 DEF HoldsParse
<1> QED  BY <1>3, <1>4 DEF t

\* Sending an event keeps it: the nodes come first.
LEMMA MtimesSendInv ==
  ASSUME SyncerInv, MtimesInv, Parse \/ SendParsed
  PROVE  MtimesInv'
<1> USE DEF MtimesInv, MtimesFollowNodes, Executing, BetweenStatements
<1>1. channel \in Seq(NewEvent) /\ staged \in Seq(NewEvent)
  BY DEF SyncerInv, TransactionTaskOK, SharedOK
<1>2. UNCHANGED <<db, mtimes, tpc, staged, stat, refused>> /\ tpc # "exited"
  BY DEF Parse, SendParsed, transactionTask
<1>3. PICK e \in NewEvent :
        /\ channel' = Append(channel, e)
        /\ \A p \in Paths : IsParseOf(e, p) => OnTheWay(p)
        /\ cpc' = "sent" => IsNodesOf(e, sending')
  <2>1. CASE Parse
    <3>1. PICK p \in Paths :
            /\ sending' = p
            /\ channel' = Append(channel, [kind |-> "nodes", path |-> p, version |-> disk[p]])
      <4>1. PICK q \in {primary_queue} \cup Orderings(UncheckedAssets) :
              \E p \in Range(q) \cup Range(reparse_queue) :
                /\ Picks(p, q) /\ sending' = p
                /\ channel' = Append(channel, [kind |-> "nodes", path |-> p, version |-> disk[p]])
        BY <2>1 DEF Parse
      <4> QED  BY <4>1, PickedQueue DEF SyncerInv, Inv
    <3>2. [kind |-> "nodes", path |-> p, version |-> disk[p]] \in NewEvent
      BY DEF NewEvent, SyncerInv, FilesOK
    <3> QED  BY <3>1, <3>2 DEF IsParseOf, IsNodesOf
  <2>2. CASE SendParsed
    <3>1. /\ channel' = Append(channel, [kind |-> "parsed", path |-> sending, version |-> parsed[sending]])
          /\ cpc = "sent" /\ cpc' # "sent"
      BY <2>2 DEF SendParsed
    <3>2. [kind |-> "parsed", path |-> sending, version |-> parsed[sending]] \in NewEvent
      BY <3>1 DEF NewEvent, SyncerInv, CompilerTaskOK, Locked
    <3> QED  BY <1>2, <3>1, <3>2 DEF IsParseOf
  <2> QED  BY <2>1, <2>2
<1>4. \A p : OnTheWay(p) => OnTheWay(p)'
  BY <1>1, <1>2, <1>3, HoldsAppended DEF OnTheWay, Recorded
<1>5. \A p : IsNodesOf(e, p) => OnTheWay(p)'
  BY <1>1, <1>3, HoldsAppended DEF OnTheWay
<1>6. \A p \in Paths : HoldsParse(channel', p) => OnTheWay(p)'
  BY <1>1, <1>2, <1>3, <1>4, HoldsAppended
<1>7. cpc' = "sent" => OnTheWay(sending)'
  BY <1>3, <1>5
<1> QED  BY <1>2, <1>6, <1>7 DEF Recorded

\* No step writes a modification time before the nodes it belongs to.
LEMMA MtimesNextInv ==
  ASSUME SyncerInv, MtimesInv, [SyncerNext]_allVars
  PROVE  MtimesInv'
<1> USE DEF MtimesInv, MtimesFollowNodes, Executing, BetweenStatements, Recorded
<1>1. CASE Aside \/ UNCHANGED allVars
  BY <1>1 DEF Aside, flow, allVars, syncerVars, transactionTask, compilerTask, OnTheWay
<1>2. CASE Crash
  <2>1. /\ UNCHANGED <<db, mtimes, refused>> /\ channel' = <<>> /\ staged' = <<>>
        /\ tpc' = "select" /\ cpc' = "stale"
    BY <1>2 DEF Crash
  <2>2. \A p : ~ HoldsParse(<<>>, p)
    BY DEF HoldsParse
  <2> QED  BY <2>1, <2>2
<1>3. CASE ReceiveEvents \/ CompilerWentIdle
  <2>1. PICK next \in {"executeA", "executeB"} : Drain(next)
    BY <1>3 DEF ReceiveEvents, CompilerWentIdle
  <2>2. /\ UNCHANGED <<db, mtimes, refused, cpc, sending>> /\ staged = <<>> /\ tpc = "select"
    BY <1>3 DEF ReceiveEvents, CompilerWentIdle, compilerTask
  <2>3. channel' = <<>> /\ \A p : ~ HoldsParse(<<>>, p) /\ ~ HoldsNodes(<<>>, p)
    BY <2>1 DEF Drain, HoldsParse, HoldsNodes
  <2>4. CASE tpc' = "exited" /\ staged' = <<>>
    BY <2>2, <2>4
  <2>5. CASE tpc' = next /\ staged' = channel
    <3>1. \A p \in Paths : stat'[p] > 0 => HoldsParse(channel, p)
      BY <2>1, SyncerAssumption DEF Drain, TimesRead, HoldsParse, SyncerInv, SharedOK
    <3>2. \A p \in Paths : stat'[p] > 0 => HoldsNodes(staged', p) \/ Recorded(p)
      BY <2>2, <2>3, <2>5, <3>1 DEF OnTheWay
    <3>3. cpc' = "sent" => OnTheWay(sending)'
      BY <2>2, <2>3, <2>5 DEF OnTheWay
    <3>4. \A p \in Paths : ~ HoldsParse(channel', p)
      BY <2>3
    <3> QED  BY <2>1, <2>2, <2>5, <3>2, <3>3, <3>4
  <2> QED  BY <2>1, <2>4, <2>5 DEF Drain
<1>4. CASE Execute
  <2>1. /\ UNCHANGED <<mtimes, stat, channel, sending, cpc>> /\ staged' = <<>>
        /\ tpc' \in {"mtimesA", "mtimesB", "idle?", "raise"} /\ Executing
    BY <1>4 DEF Execute, files, debouncer, compilerTask, waiter
  <2>2. \A p \in Paths : (HoldsNodes(staged, p) \/ Recorded(p)) => Recorded(p)'
    <3>1. CASE db' = [p \in Paths |-> Committed(p)] /\ refused' = refused
      <4>1. ASSUME NEW p \in Paths
            PROVE  /\ Committed(p) \in Versions
                   /\ HoldsNodes(staged, p) => Committed(p) \in Versions \ {0}
                   /\ ~ HoldsNodes(staged, p) => Committed(p) = db[p]
        BY CommittedIsNewest, NewestType DEF HoldsNodes, SyncerInv, TransactionTaskOK
      <4> QED  BY <3>1, <4>1, SyncerAssumption DEF Versions
    <3>2. CASE db' = db /\ refused' = refused \cup InBatch
      BY <3>2 DEF InBatch, HoldsNodes, SyncerInv, TransactionTaskOK
    <3> QED  BY <1>4, <3>1, <3>2 DEF Execute
  <2>3. \A p \in Paths : OnTheWay(p) => OnTheWay(p)'
    BY <2>1, <2>2 DEF OnTheWay
  <2>4. sending \in Paths
    BY DEF SyncerInv, CompilerTaskOK
  <2>5. \A p \in Paths : HoldsParse(channel', p) => OnTheWay(p)'
    BY <2>1, <2>3
  <2>6. cpc' = "sent" => OnTheWay(sending)'
    BY <2>1, <2>3, <2>4
  <2> QED  BY <2>1, <2>2, <2>5, <2>6
<1>5. CASE ExecuteMtimes
  <2>1. /\ UNCHANGED <<db, refused, channel, staged, cpc, sending>> /\ tpc' \in {"idle?", "raise"}
        /\ BetweenStatements
    BY <1>5 DEF ExecuteMtimes, compilerTask
  <2>2. MtimesFollowNodes'
    BY <1>5, <2>1 DEF ExecuteMtimes
  <2> QED  BY <2>1, <2>2 DEF OnTheWay
<1>6. CASE LookAtFlag \/ LookAtChannel \/ Signal
  <2>1. /\ UNCHANGED <<db, mtimes, refused, channel, staged, cpc, sending>>
        /\ tpc' \in {"empty?", "raise", "select"} /\ tpc \in {"idle?", "empty?", "raise"}
    BY <1>6 DEF LookAtFlag, LookAtChannel, Signal, compilerTask
  <2> QED  BY <2>1 DEF OnTheWay
<1> QED  BY <1>1, <1>2, <1>3, <1>4, <1>5, <1>6, FlowSteps, MtimesSendInv

\* So modification times always follow nodes, staged or committed.
LEMMA MtimesSpecInv == SyncerSpec => []MtimesInv
<1>1. SyncerInv /\ MtimesInv /\ [SyncerNext]_allVars => MtimesInv'
  BY MtimesNextInv
<1> QED  BY <1>1, MtimesInitInv, SyncerSpecInv, PTL DEF SyncerSpec

\* Whatever is edited when, wherever the service crashes, whoever stops listening and
\* however the events of a parse fall into batches, of which any may fail: a file has
\* a modification time in the database without nodes there only if the database has
\* refused a transaction with them.
THEOREM MtimesAlwaysFollowNodes == SyncerSpec => []MtimesFollowNodes
BY MtimesSpecInv, PTL DEF MtimesInv

-----------------------------------------------------------------------------
(* Nothing is lost between a parse and its commit, unless a statement fails. *)

FlightInv ==
  /\ ~ Executing => staged = <<>>
  /\ tpc # "exited" =>
       \A p \in Paths : parsed[p] = Newest(channel, p, Newest(staged, p, db[p]))

\* FlightInv tells staged and channel apart; the property has them in one.
LEMMA FlightInvMeans ==
  ASSUME SyncerInv, FlightInv
  PROVE  NothingLostInFlight
<1> SUFFICES ASSUME tpc # "exited", NEW p \in Paths
             PROVE  LET of == DOMAIN InFlight(p)
                    IN  IF of = {} THEN db[p] = parsed[p]
                        ELSE InFlight(p)[CHOOSE i \in of : \A j \in of : j <= i] = parsed[p]
  BY DEF NothingLostInFlight
<1> DEFINE events == staged \o channel
           of == {i \in DOMAIN events : IsNodesOf(events[i], p)}
<1>1. staged \in Seq(NewEvent) /\ channel \in Seq(NewEvent)
  BY DEF SyncerInv, TransactionTaskOK, SharedOK
<1>2. parsed[p] = Newest(events, p, db[p])
  BY <1>1, NewestOfConcat DEF FlightInv
<1>3. InFlight(p) = [i \in of |-> events[i].version] /\ DOMAIN InFlight(p) = of
  BY DEF InFlight
<1>4. CASE of = {}
  BY <1>2, <1>3, <1>4 DEF Newest
<1>5. CASE of # {}
  <2>1. events \in Seq(NewEvent)
    BY <1>1
  <2> HIDE DEF events
  <2>2. PICK seen \in 1..Len(events) : IsNodesOf(events[seen], p)
    BY <2>1, <1>5
  <2>3. PICK i : IsLast(events, p, i)
    BY <2>1, <2>2, LastExists
  <2>4. Newest(events, p, db[p]) = events[i].version
    BY <2>1, <2>3, NewestIsLast
  <2>5. i \in of /\ \A j \in of : j <= i
    BY <2>1, <2>3 DEF IsLast
  <2>6. i = CHOOSE k \in of : \A j \in of : j <= k
    <3> DEFINE last == CHOOSE k \in of : \A j \in of : j <= k
    <3>1. last \in of /\ \A j \in of : j <= last
      BY <2>5
    <3>2. of \subseteq Nat
      BY <2>1
    <3> HIDE DEF last, of
    <3>3. last <= i /\ i <= last /\ last \in Nat /\ i \in Nat
      BY <2>5, <3>1, <3>2
    <3> QED  BY <3>3 DEF last
  <2> QED  BY <1>2, <1>3, <1>5, <2>4, <2>5, <2>6
<1> QED  BY <1>3, <1>4, <1>5

\* Nothing is in flight at the start.
LEMMA FlightInitInv == SyncerInit => FlightInv
BY NewestOfNone DEF SyncerInit, FlightInv

\* Every step keeps it: what is taken from one place is in the next.
LEMMA FlightNextInv ==
  ASSUME ~ CommitMayFail, SyncerInv, FlightInv, [SyncerNext]_allVars
  PROVE  FlightInv'
<1> USE DEF FlightInv, Executing
<1>0. /\ staged \in Seq(NewEvent) /\ channel \in Seq(NewEvent)
      /\ parsed \in [Paths -> Versions]
      /\ db \in [Paths -> Versions]
  BY DEF SyncerInv, FilesOK, CompilerTaskOK, TransactionTaskOK, SharedOK
<1>1. CASE Aside \/ UNCHANGED allVars
  BY <1>1 DEF Aside, flow, allVars, syncerVars, transactionTask, compilerTask
<1>2. CASE Crash
  <2>1. parsed' = db /\ db' = db /\ staged' = <<>> /\ channel' = <<>>
    BY <1>2 DEF Crash
  <2> QED  BY <2>1, NewestOfNone
<1>3. ASSUME NEW e \in NewEvent, channel' = Append(channel, e), UNCHANGED transactionTask,
             \A r \in Paths : parsed'[r] = IF IsNodesOf(e, r) THEN e.version ELSE parsed[r]
      PROVE  FlightInv'
  <2>1. UNCHANGED <<db, tpc, staged>>
    BY <1>3 DEF transactionTask
  <2>2. ASSUME NEW r \in Paths, tpc # "exited"
        PROVE  parsed'[r] = Newest(channel', r, Newest(staged, r, db[r]))
    <3> DEFINE v == Newest(staged, r, db[r])
    <3>1. Newest(channel', r, v) = IF IsNodesOf(e, r) THEN e.version ELSE Newest(channel, r, v)
      BY <1>0, <1>3, NewestOfAppend
    <3>2. parsed[r] = Newest(channel, r, v)
      BY <2>2
    <3> HIDE DEF v
    <3>3. parsed'[r] = Newest(channel', r, v)
      BY <1>3, <3>1, <3>2
    <3> QED  BY <3>3 DEF v
  <2> QED  BY <2>1, <2>2
<1>31. CASE Parse
  <2>1. PICK p \in Paths :
          /\ parsed' = [parsed EXCEPT ![p] = disk[p]]
          /\ channel' = Append(channel, [kind |-> "nodes", path |-> p, version |-> disk[p]])
    <3>1. PICK q \in {primary_queue} \cup Orderings(UncheckedAssets) :
            \E p \in Range(q) \cup Range(reparse_queue) :
              /\ Picks(p, q)
              /\ parsed' = [parsed EXCEPT ![p] = disk[p]]
              /\ channel' = Append(channel, [kind |-> "nodes", path |-> p, version |-> disk[p]])
      BY <1>31 DEF Parse
    <3> QED  BY <3>1, PickedQueue DEF SyncerInv, Inv
  <2> DEFINE e == [kind |-> "nodes", path |-> p, version |-> disk[p]]
  <2>2. e \in NewEvent
    BY DEF NewEvent, SyncerInv, FilesOK
  <2>3. \A r \in Paths : parsed'[r] = IF IsNodesOf(e, r) THEN e.version ELSE parsed[r]
    BY <1>0, <2>1 DEF IsNodesOf
  <2> QED  BY <1>3, <1>31, <2>1, <2>2, <2>3 DEF Parse
<1>32. CASE SendParsed
  <2> DEFINE e == [kind |-> "parsed", path |-> sending, version |-> parsed[sending]]
  <2>1. e \in NewEvent
    BY <1>32 DEF SendParsed, NewEvent, SyncerInv, CompilerTaskOK, Locked
  <2>2. \A r \in Paths : parsed'[r] = IF IsNodesOf(e, r) THEN e.version ELSE parsed[r]
    BY <1>32 DEF SendParsed, IsNodesOf
  <2> QED  BY <1>3, <1>32, <2>1, <2>2 DEF SendParsed
<1>4. ASSUME NEW next \in {"executeA", "executeB"}, Drain(next), UNCHANGED <<db, parsed>>,
             tpc = "select"
      PROVE  FlightInv'
  <2>1. staged = <<>> /\ channel' = <<>>
    BY <1>4 DEF Drain
  <2>2. CASE staged' = <<>> /\ tpc' = "exited"
    BY <2>2
  <2>3. CASE staged' = channel /\ tpc' = next
    <3>1. \A p \in Paths : parsed[p] = Newest(channel, p, db[p])
      BY <1>4, <2>1, NewestOfNone
    <3> QED  BY <1>4, <2>1, <2>3, <3>1, NewestOfNone
  <2> QED  BY <1>4, <2>2, <2>3 DEF Drain
<1>5. CASE ReceiveEvents \/ CompilerWentIdle
  BY <1>4, <1>5 DEF ReceiveEvents, CompilerWentIdle, compilerTask
<1>6. CASE Execute
  <2>1. /\ db' = [p \in Paths |-> Newest(staged, p, db[p])]
        /\ staged' = <<>> /\ channel' = channel /\ parsed' = parsed
        /\ tpc # "exited"
    BY <1>6, CommittedIsNewest DEF Execute, compilerTask
  <2> QED  BY <2>1, NewestOfNone
<1>7. CASE ExecuteMtimes \/ LookAtFlag \/ LookAtChannel \/ Signal
  <2>1. UNCHANGED <<db, staged, channel, parsed>> /\ tpc # "exited" /\ ~ Executing
    BY <1>7 DEF ExecuteMtimes, LookAtFlag, LookAtChannel, Signal, compilerTask
  <2> QED  BY <2>1
<1> QED  BY <1>1, <1>2, <1>31, <1>32, <1>5, <1>6, <1>7, FlowSteps

\* So what is parsed is always in the database or on its way there.
LEMMA FlightSpecInv == ASSUME ~ CommitMayFail PROVE SyncerSpec => []FlightInv
<1>1. SyncerInv /\ FlightInv /\ [SyncerNext]_allVars => FlightInv'
  BY FlightNextInv
<1> QED  BY <1>1, FlightInitInv, SyncerSpecInv, PTL DEF SyncerSpec

\* As long as the database takes what it is given, the newest version of a path
\* on its way, or else in the database, is the one last parsed: over any number of
\* crashes, closed receivers, edits in the middle and orders of the branches.
THEOREM NothingIsLostInFlight == ~ CommitMayFail => (SyncerSpec => []NothingLostInFlight)
<1> SUFFICES ASSUME ~ CommitMayFail PROVE SyncerSpec => []NothingLostInFlight
  OBVIOUS
<1>1. SyncerInv /\ FlightInv => NothingLostInFlight
  BY FlightInvMeans
<1> QED  BY <1>1, FlightSpecInv, SyncerSpecInv, PTL

=============================================================================
