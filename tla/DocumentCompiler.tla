--------------------------- MODULE DocumentCompiler ---------------------------
(***************************************************************************)
(* The two-queue scheduler of codec/compiler.rs (struct DocumentCompiler): *)
(* a primary queue of paths never parsed in this session, a reparse queue  *)
(* of documents whose last parse left references unresolved, an attempt    *)
(* count per path, and the dependencies each document waits for.           *)
(*                                                                         *)
(* Spec is the open system: a client may call any public operation between *)
(* two calls of parse_next.  ParseAll and FileUpdateSyncer are the two     *)
(* clients the repository contains.                                        *)
(*                                                                         *)
(* A document is a model value; its content is the set of paths it links   *)
(* to.  session_bb and global_bb are the paths whose nodes a reference can *)
(* resolve to in the builder's session and in the caller's belief source.  *)
(*                                                                         *)
(* An operator whose comment begins with "Mutant" is a plausible bug in    *)
(* the operator that follows it; no specification uses it.                 *)
(***************************************************************************)
EXTENDS Naturals, Sequences, FiniteSets, Functions

CONSTANTS
  Docs,        \* paths of documents and of network directories with an index
  Assets,      \* paths with no codec: images, pdfs
  Root,        \* the entry point given to DocumentCompiler::new
  Links,       \* Links[d]: the paths document d refers to
  Ancestors,   \* Ancestors[d]: the network directories document d is in
  Dangling,    \* documents with a reference no file of the tree can resolve
  Faulty,      \* paths whose read, and documents whose parse, may fail
  MaxReparse   \* max_reparse_count: attempts per path

Paths == Docs \cup Assets

ASSUME CompilerAssumption ==
  /\ Docs \cap Assets = {}
  /\ IsFiniteSet(Docs) /\ IsFiniteSet(Assets)
  /\ Root \in Docs
  /\ Links \in [Docs -> SUBSET Paths]
  /\ Ancestors \in [Docs -> SUBSET Docs]
  /\ Dangling \subseteq Docs
  /\ Faulty \subseteq Paths
  /\ MaxReparse \in Nat \ {0}

VARIABLES
  primary_queue,          \* paths to parse, first come first served
  reparse_queue,          \* documents to parse again
  processed,              \* attempts per path; 0: no entry in the map
  pending_dependencies,   \* dependencies a document waits for; {}: no entry
  reparse_stable,         \* no document joined reparse_queue this round
  last_round_updates,     \* nodes reported updated since the last round
  session_bb,             \* paths with a node in the builder's session
  global_bb               \* paths with a node in the caller's belief source

queues == <<primary_queue, reparse_queue>>
vars == <<primary_queue, reparse_queue, processed, pending_dependencies,
          reparse_stable, last_round_updates, session_bb, global_bb>>

TypeOK ==
  /\ primary_queue \in Seq(Paths)
  /\ reparse_queue \in Seq(Docs)
  /\ processed \in [Paths -> Nat]
  /\ pending_dependencies \in [Docs -> SUBSET Docs]
  /\ reparse_stable \in BOOLEAN
  /\ last_round_updates \subseteq Paths
  /\ session_bb \subseteq Paths
  /\ global_bb \subseteq Paths

-----------------------------------------------------------------------------
(* Queues.                                                                 *)

\* VecDeque::retain(|p| p != path) on a queue that holds path at most once.
Without(q, p) ==
  IF p \in Range(q)
    THEN LET i == CHOOSE k \in DOMAIN q : q[k] = p
         IN  [k \in 1..(Len(q) - 1) |-> q[IF k < i THEN k ELSE k + 1]]
    ELSE q

\* Every order in which the members of S can be pushed: HashMap iteration and
\* the order of references inside a document are not modelled.
Orderings(S) == {o \in [1..Cardinality(S) -> S] : IsInjective(o) /\ Range(o) = S}

Queued == Range(primary_queue) \cup Range(reparse_queue)

RemoveFromQueues(p) ==
  /\ primary_queue' = Without(primary_queue, p)
  /\ reparse_queue' = Without(reparse_queue, p)

-----------------------------------------------------------------------------
(* Choosing the next path: the head of the primary queue, else a document  *)
(* of the reparse queue, else an asset of the session not yet checked.     *)

Unmet(d) == {t \in pending_dependencies[d] : processed[t] = 0}

\* peek_next_reparse_candidate takes the first document with the fewest unmet
\* dependencies, counting a dependency once per push.  Duplicates cannot change
\* whether the count is zero; when none is zero any document may be the one.
ReparseCandidates ==
  IF reparse_queue = <<>> \/ (reparse_stable /\ last_round_updates = {})
    THEN {}
    ELSE LET ready == {i \in DOMAIN reparse_queue : Unmet(reparse_queue[i]) = {}}
         IN  IF ready = {}
               THEN Range(reparse_queue)
               ELSE {reparse_queue[i] : i \in {k \in ready : \A j \in ready : k <= j}}

\* The assets finalize enqueues: tracked by the session, not processed yet.
UncheckedAssets == {a \in session_bb \cap Assets : processed[a] = 0}

\* parse_next works on path p, q being the primary queue it leaves p in:
\* the one it found, or the one finalize filled.
Picks(p, q) ==
  \/ /\ primary_queue # <<>>
     /\ q = primary_queue
     /\ p = Head(q)
  \/ /\ primary_queue = <<>>
     /\ q = primary_queue
     /\ p \in ReparseCandidates
  \/ /\ primary_queue = <<>> /\ ReparseCandidates = {}
     /\ q \in Orderings(UncheckedAssets)
     /\ q # <<>>
     /\ p = Head(q)

NothingToParse ==
  primary_queue = <<>> /\ ReparseCandidates = {} /\ UncheckedAssets = {}

Dequeue(p, q) ==
  /\ primary_queue' = Without(q, p)
  /\ reparse_queue' = Without(reparse_queue, p)

\* Mutant: only the map entry is made, the count stays.
CountNothing(p) == processed' = [processed EXCEPT ![p] = IF @ = 0 THEN 1 ELSE @]

CountAttempt(p) == processed' = [processed EXCEPT ![p] = @ + 1]

-----------------------------------------------------------------------------
(* parse_next, one action per way it returns.                              *)

\* Mutant: a path over the limit goes to the back of the queue.
LimitRequeues(p, q) ==
  /\ processed[p] >= MaxReparse
  /\ primary_queue' = Append(Without(q, p), p)
  /\ reparse_queue' = Without(reparse_queue, p)
  /\ UNCHANGED <<processed, pending_dependencies, reparse_stable,
                 last_round_updates, session_bb, global_bb>>

\* The attempts of p are used up: it leaves the queues without being parsed.
LimitExceeded(p, q) ==
  /\ processed[p] >= MaxReparse
  /\ Dequeue(p, q)
  /\ UNCHANGED <<processed, pending_dependencies, reparse_stable,
                 last_round_updates, session_bb, global_bb>>

\* Mutant: the limit is not tested for files that cannot be read.
UnreadableUnlimited(p, q) ==
  /\ p \in Faulty
  /\ CountAttempt(p)
  /\ Dequeue(p, q)
  /\ UNCHANGED <<pending_dependencies, reparse_stable, last_round_updates,
                 session_bb, global_bb>>

\* The file is gone or unreadable, or the directory has no index file.
Unreadable(p, q) ==
  /\ processed[p] < MaxReparse
  /\ p \in Faulty
  /\ CountAttempt(p)
  /\ Dequeue(p, q)
  /\ UNCHANGED <<pending_dependencies, reparse_stable, last_round_updates,
                 session_bb, global_bb>>

\* parse_content fails: p stays where it is and is tried again.
ParseFailed(p, q) ==
  /\ processed[p] < MaxReparse
  /\ p \in Faulty \cap Docs
  /\ CountAttempt(p)
  /\ primary_queue' = q
  /\ UNCHANGED <<reparse_queue, pending_dependencies, reparse_stable,
                 last_round_updates, session_bb, global_bb>>

\* An asset is read, hashed and tracked in the session.
AssetProcessed(p, q) ==
  /\ processed[p] < MaxReparse
  /\ p \in Assets
  /\ CountAttempt(p)
  /\ Dequeue(p, q)
  /\ session_bb' = session_bb \cup {p}
  /\ UNCHANGED <<pending_dependencies, reparse_stable, last_round_updates, global_bb>>

\* What a parse of d puts in the builder's caches and sends as events: d and the
\* networks of its stack.
Nodes(d) == {d} \cup Ancestors[d]

\* The references of d that neither known nor d itself resolves.
Unresolved(d, known) == {t \in Links[d] : t \notin known \cup Nodes(d)}

HasUnresolved(d, known) == Unresolved(d, known) # {} \/ d \in Dangling

\* The session after d is parsed: also the nodes its references fetched from
\* global_bb, and the assets the stack brings along.
SessionAfter(d) ==
  session_bb \cup Nodes(d) \cup (global_bb \cap (Links[d] \cup Assets))

\* Mutant: assets are tracked as dependencies like documents.
FollowedEverything(unresolved, nets) == unresolved

\* process_unresolved_reference follows a reference only into a network that
\* the session knows and can reach from the root; nets is what it knows.
Followed(unresolved, nets) == {t \in unresolved \cap Docs : Ancestors[t] \subseteq nets}

\* Mutant: the test of the attempt count is inverted.
FreshInverted(targets, primary, reparse) ==
  {t \in targets : processed'[t] > 0 /\ t \notin Range(primary) \cup Range(reparse)}

\* The targets that were never attempted and are not queued.
Fresh(targets, primary, reparse) ==
  {t \in targets : processed'[t] = 0 /\ t \notin Range(primary) \cup Range(reparse)}

\* Steps 8 to 10 of parse_next, on queues that no longer hold d: d waits for
\* its unresolved references, whose new targets are enqueued.
TrackReferences(d, known, nets, primary, reparse) ==
  LET unresolved == Unresolved(d, known)
      followed   == Followed(unresolved, nets)
      requeue    == HasUnresolved(d, known)
      fresh      == Fresh(followed \cup (unresolved \cap Assets), primary, reparse)
  IN  /\ \E o \in Orderings(fresh) : primary_queue' = primary \o o
      /\ reparse_queue' = IF requeue /\ d \notin Range(reparse)
                            THEN Append(reparse, d) ELSE reparse
      /\ reparse_stable' = (reparse_stable /\ ~ (requeue /\ d \notin Range(reparse)))
      /\ pending_dependencies' =
           [pending_dependencies EXCEPT ![d] = IF requeue THEN @ \cup followed ELSE {}]

Parsed(p, q) ==
  /\ processed[p] < MaxReparse
  /\ p \in Docs
  /\ CountAttempt(p)
  /\ session_bb' = SessionAfter(p)
  /\ TrackReferences(p, session_bb \cup global_bb, SessionAfter(p),
                     Without(q, p), Without(reparse_queue, p))
  /\ UNCHANGED <<last_round_updates, global_bb>>

ParsePath(p, q) ==
  \/ LimitExceeded(p, q)
  \/ Unreadable(p, q)
  \/ ParseFailed(p, q)
  \/ AssetProcessed(p, q)
  \/ Parsed(p, q)

ParseNext ==
  \E q \in {primary_queue} \cup Orderings(UncheckedAssets) :
    \E p \in Range(q) \cup Range(reparse_queue) : Picks(p, q) /\ ParsePath(p, q)

-----------------------------------------------------------------------------
(* The other public operations.                                            *)

\* Mutant: a path is pushed whether or not it is queued.
EnqueueUnchecked(p) ==
  /\ primary_queue' = Append(primary_queue, p)
  /\ UNCHANGED reparse_queue

Enqueue(p) ==
  /\ primary_queue' = IF p \in Queued THEN primary_queue ELSE Append(primary_queue, p)
  /\ UNCHANGED reparse_queue

EnqueuePath(p) ==
  /\ Enqueue(p)
  /\ UNCHANGED <<processed, pending_dependencies, reparse_stable,
                 last_round_updates, session_bb, global_bb>>

EnqueueFront(p) ==
  /\ reparse_queue' = Without(reparse_queue, p)
  /\ primary_queue' = IF p \in Range(primary_queue)
                        THEN primary_queue ELSE <<p>> \o primary_queue

OnFileModified(p) ==
  /\ processed' = [processed EXCEPT ![p] = 0]
  /\ EnqueueFront(p)
  /\ UNCHANGED <<pending_dependencies, reparse_stable, last_round_updates,
                 session_bb, global_bb>>

\* The key p leaves a map whose keys are paths.
Forget(p) ==
  /\ processed' = [processed EXCEPT ![p] = 0]
  /\ pending_dependencies' = [d \in Docs |-> IF d = p THEN {} ELSE pending_dependencies[d]]

OnFileDeleted(p) ==
  /\ RemoveFromQueues(p)
  /\ Forget(p)
  /\ UNCHANGED <<reparse_stable, last_round_updates, session_bb, global_bb>>

ResetProcessed(p) ==
  /\ Forget(p)
  /\ UNCHANGED <<primary_queue, reparse_queue, reparse_stable,
                 last_round_updates, session_bb, global_bb>>

ClearProcessed ==
  /\ processed' = [p \in Paths |-> 0]
  /\ pending_dependencies' = [d \in Docs |-> {}]
  /\ UNCHANGED <<primary_queue, reparse_queue, reparse_stable,
                 last_round_updates, session_bb, global_bb>>

\* A round starts when only the reparse queue is left.
RoundStart ==
  IF primary_queue = <<>> /\ reparse_queue # <<>>
    THEN /\ last_round_updates' = {}
         /\ reparse_stable' = (reparse_stable \/ last_round_updates = {})
    ELSE UNCHANGED <<reparse_stable, last_round_updates>>

StartReparseRound ==
  /\ RoundStart
  /\ UNCHANGED <<primary_queue, reparse_queue, processed, pending_dependencies,
                 session_bb, global_bb>>

\* NodeUpdate, PathAdded and PathUpdate: the nodes named by the event's keys.
OnNodesUpdated(nodes) ==
  /\ last_round_updates' = last_round_updates \cup nodes
  /\ reparse_stable' = FALSE
  /\ UNCHANGED <<primary_queue, reparse_queue, processed, pending_dependencies,
                 session_bb, global_bb>>

OnNodesRemoved(nodes) ==
  /\ last_round_updates' = last_round_updates \ nodes
  /\ UNCHANGED <<primary_queue, reparse_queue, processed, pending_dependencies,
                 reparse_stable, session_bb, global_bb>>

\* A source was filled by the events of parses, and those of a document come
\* with those of its networks.
IsSource(S) == \A d \in S \cap Docs : Ancestors[d] \subseteq S

\* Whoever receives the compiler's events applies some of them to the source
\* that parse_next is given.
SourceUpdated(nodes) ==
  /\ global_bb' = global_bb \cup nodes
  /\ IsSource(global_bb')
  /\ UNCHANGED <<primary_queue, reparse_queue, processed, pending_dependencies,
                 reparse_stable, last_round_updates, session_bb>>

-----------------------------------------------------------------------------

Init ==
  /\ primary_queue = <<Root>>
  /\ reparse_queue = <<>>
  /\ processed = [p \in Paths |-> 0]
  /\ pending_dependencies = [d \in Docs |-> {}]
  /\ reparse_stable = FALSE
  /\ last_round_updates = {}
  /\ session_bb = {}
  /\ global_bb \in {S \in SUBSET Paths : IsSource(S)}

Next ==
  \/ ParseNext
  \/ \E p \in Paths : \/ EnqueuePath(p)
                      \/ OnFileModified(p)
                      \/ OnFileDeleted(p)
                      \/ ResetProcessed(p)
  \/ ClearProcessed
  \/ StartReparseRound
  \/ \E nodes \in SUBSET Paths : \/ OnNodesUpdated(nodes)
                                \/ OnNodesRemoved(nodes)
                                \/ SourceUpdated(nodes)

Spec == Init /\ [][Next]_vars

-----------------------------------------------------------------------------
(* Properties.                                                             *)

\* A path is queued at most once, whatever its clients call and however the
\* parses end: enqueue, the dependency steps of parse_next and finalize each
\* test other queues before they push, and finalize tests none of them.
QueuesDisjoint ==
  /\ IsInjective(primary_queue)
  /\ IsInjective(reparse_queue)
  /\ Range(primary_queue) \cap Range(reparse_queue) = {}

\* compiler.rs, "Loop Prevention": no path is attempted more often than
\* max_reparse_count since its count was last reset, however attempts of
\* different paths, failures and resets interleave.
AttemptsBounded == \A p \in Paths : processed[p] <= MaxReparse

\* A call of parse_next charges one attempt to exactly one path or, when it
\* charges none, takes a path out of the queues and puts none in.
Progress ==
  \/ \E p \in Paths : processed' = [processed EXCEPT ![p] = @ + 1]
  \/ /\ processed' = processed
     /\ Range(primary_queue') \cup Range(reparse_queue') \subseteq Queued \cup UncheckedAssets
     /\ \E p \in Queued \cup UncheckedAssets :
          p \notin Range(primary_queue') \cup Range(reparse_queue')

\* Every call of parse_next makes progress, failures included: with the bound on
\* attempts this is what ends a client that calls it until it returns None.
ParseNextProgresses == [][ParseNext => Progress]_vars

=============================================================================
