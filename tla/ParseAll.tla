------------------------------- MODULE ParseAll -------------------------------
(***************************************************************************)
(* DocumentCompiler::parse_all: a batch compilation.  It enqueues the      *)
(* stale files of the caller's belief source, parses until parse_next      *)
(* returns None, keeps the latest result of every path, and turns the      *)
(* references still unresolved into warnings.  With jobs > 1 the paths     *)
(* queued at the start form an epoch, each parsed by a builder of its own. *)
(* A compiler may run parse_all again; its jobs are set once, after it is   *)
(* made.                                                                   *)
(***************************************************************************)
EXTENDS DocumentCompiler

CONSTANTS
  Requests,   \* paths the caller may enqueue before it calls parse_all
  MaxRuns     \* bound: calls of parse_all on one compiler

ASSUME ParseAllAssumption ==
  /\ Requests \subseteq Paths
  /\ MaxRuns \in Nat \ {0}

VARIABLES
  parallel,   \* jobs > 1
  phase,      \* where parse_all is
  stale,      \* what check_stale_files returned and is not enqueued yet
  requested,  \* what check_stale_files returned in this run
  epoch,      \* results of the parallel epoch not processed yet
  latest,     \* the last result of each path in this run
  limited,    \* paths whose result carries ReparseLimitExceeded
  emitted,    \* paths whose nodes were sent to the caller as events
  runs        \* calls of parse_all so far

batchVars == <<parallel, phase, stale, requested, epoch, latest, limited, emitted, runs>>
parseAllVars == <<vars, batchVars>>

Outcome == {"none", "ok", "unresolved", "warning", "error", "limit"}

BatchTypeOK ==
  /\ TypeOK
  /\ parallel \in BOOLEAN
  /\ phase \in {"idle", "enqueue", "epoch", "loop", "done"}
  /\ stale \subseteq requested /\ requested \subseteq Paths
  /\ epoch \in Seq(Paths)
  /\ latest \in [Paths -> Outcome]
  /\ limited \subseteq Paths
  /\ emitted \subseteq Paths
  /\ runs \in 0..MaxRuns

-----------------------------------------------------------------------------

BatchInit ==
  /\ Init
  /\ parallel \in BOOLEAN
  /\ phase = "idle"
  /\ stale = {} /\ requested = {}
  /\ epoch = <<>>
  /\ latest = [p \in Paths |-> "none"]
  /\ limited = {}
  /\ emitted = {}
  /\ runs = 0

\* The caller updates its belief source with the events of earlier runs, or
\* hands in an old snapshot (as the parse command of bin/noet does).
SourceCatchesUp ==
  /\ phase \in {"idle", "done"} /\ runs < MaxRuns
  /\ SourceUpdated(emitted)
  /\ UNCHANGED batchVars

CallerEnqueues(p) ==
  /\ phase = "idle"
  /\ EnqueuePath(p)
  /\ UNCHANGED batchVars

\* check_stale_files: any of the paths the source knows may be stale.
StartRun ==
  /\ phase \in {"idle", "done"} /\ runs < MaxRuns
  /\ runs' = runs + 1
  /\ requested' \in SUBSET global_bb
  /\ stale' = requested'
  /\ latest' = [p \in Paths |-> "none"]
  /\ phase' = "enqueue"
  /\ UNCHANGED <<vars, parallel, epoch, limited, emitted>>

EnqueueStale(p) ==
  /\ phase = "enqueue" /\ p \in stale
  /\ EnqueuePath(p)
  /\ stale' = stale \ {p}
  /\ UNCHANGED <<parallel, phase, requested, epoch, latest, limited, emitted, runs>>

StartLoop ==
  /\ phase = "enqueue" /\ stale = {}
  /\ ~ parallel \/ primary_queue = <<>>
  /\ phase' = "loop"
  /\ UNCHANGED <<vars, parallel, stale, requested, epoch, latest, limited, emitted, runs>>

-----------------------------------------------------------------------------
(* The parallel epoch: primary_queue.drain, then one result per path.      *)

StartEpoch ==
  /\ phase = "enqueue" /\ stale = {}
  /\ parallel /\ primary_queue # <<>>
  /\ phase' = "epoch"
  /\ epoch' = primary_queue
  /\ primary_queue' = <<>>
  /\ UNCHANGED <<reparse_queue, processed, pending_dependencies, reparse_stable,
                 last_round_updates, session_bb, global_bb,
                 parallel, stale, requested, latest, limited, emitted, runs>>

\* A task fails: the attempt is not counted and the path is queued nowhere.
\* An epoch task has no branch for assets, so an asset always fails in it.
EpochFailed(p) ==
  /\ p \in Faulty \cup Assets
  /\ latest' = [latest EXCEPT ![p] = "error"]
  /\ UNCHANGED <<vars, emitted>>

\* A task's builder starts from an empty session: only global_bb resolves the
\* references of d.  The compiler's own session gets the repository node.
EpochParsed(d) ==
  /\ d \in Docs
  /\ CountAttempt(d)
  /\ session_bb' = session_bb \cup {Root}
  /\ TrackReferences(d, global_bb, session_bb \cup {Root}, primary_queue, reparse_queue)
  /\ latest' = [latest EXCEPT ![d] = IF HasUnresolved(d, global_bb)
                                       THEN "unresolved" ELSE "ok"]
  /\ emitted' = emitted \cup Nodes(d)
  /\ UNCHANGED <<last_round_updates, global_bb>>

EpochResult ==
  /\ phase = "epoch" /\ epoch # <<>>
  /\ epoch' = Tail(epoch)
  /\ EpochFailed(Head(epoch)) \/ EpochParsed(Head(epoch))
  /\ UNCHANGED <<parallel, phase, stale, requested, limited, runs>>

EpochDone ==
  /\ phase = "epoch" /\ epoch = <<>>
  /\ phase' = "loop"
  /\ UNCHANGED <<vars, parallel, stale, requested, epoch, latest, limited, emitted, runs>>

-----------------------------------------------------------------------------
(* The parse_next loop and what it does with each result.                  *)

\* A sentinel is merged into the result of the last real parse, if any.
KeepSentinel(p) ==
  /\ limited' = limited \cup {p}
  /\ latest' = [latest EXCEPT ![p] = IF @ = "none" THEN "limit" ELSE @]
  /\ UNCHANGED emitted

\* Mutant: the first result of a path is kept.
KeepFirstResult(p, outcome) ==
  /\ latest' = [latest EXCEPT ![p] = IF @ = "none" THEN outcome ELSE @]
  /\ limited' = limited \ {p}

KeepResult(p, outcome) ==
  /\ latest' = [latest EXCEPT ![p] = outcome]
  /\ limited' = limited \ {p}

LoopStep(p, q) ==
  \/ LimitExceeded(p, q) /\ KeepSentinel(p)
  \/ Unreadable(p, q) /\ KeepResult(p, "error") /\ UNCHANGED emitted
  \/ ParseFailed(p, q) /\ KeepResult(p, "error") /\ UNCHANGED emitted
  \/ AssetProcessed(p, q) /\ KeepResult(p, "ok") /\ emitted' = emitted \cup {p}
  \/ /\ Parsed(p, q)
     /\ KeepResult(p, IF HasUnresolved(p, session_bb \cup global_bb)
                        THEN "unresolved" ELSE "ok")
     /\ emitted' = emitted \cup Nodes(p)

Loop ==
  /\ phase = "loop"
  /\ \E q \in {primary_queue} \cup Orderings(UncheckedAssets) :
       \E p \in Range(q) \cup Range(reparse_queue) : Picks(p, q) /\ LoopStep(p, q)
  /\ UNCHANGED <<parallel, phase, stale, requested, epoch, runs>>

\* parse_next returned None: promote_unresolved_to_warnings.
Promote ==
  /\ phase = "loop" /\ NothingToParse
  /\ phase' = "done"
  /\ latest' = [p \in Paths |-> IF latest[p] = "unresolved" THEN "warning" ELSE latest[p]]
  /\ limited' = {}
  /\ UNCHANGED <<vars, parallel, stale, requested, epoch, emitted, runs>>

\* What parse_all does once called.
Run ==
  \/ \E p \in Paths : EnqueueStale(p)
  \/ StartLoop
  \/ StartEpoch
  \/ EpochResult
  \/ EpochDone
  \/ Loop
  \/ Promote

BatchNext ==
  \/ SourceCatchesUp
  \/ \E p \in Requests : CallerEnqueues(p)
  \/ StartRun
  \/ Run

BatchSpec == BatchInit /\ [][BatchNext]_parseAllVars /\ WF_parseAllVars(Run)

-----------------------------------------------------------------------------
(* Properties.                                                             *)

Resolvable(d) == ~ HasUnresolved(d, session_bb \cup global_bb \cup emitted)

\* The report of a finished run with one job is about the references as they are
\* at the end of it, not as they were at some earlier attempt: a document is
\* reported with an unresolved reference exactly when one of its references
\* resolves to nothing that was parsed.  A document whose own parses fail is
\* exempt: failed attempts use up the budget its references need.
ReportIsCurrent ==
  phase = "done" /\ ~ parallel =>
    \A d \in Docs \ Faulty : /\ latest[d] = "warning" => ~ Resolvable(d)
                             /\ latest[d] = "ok" => Resolvable(d)

\* A finished run leaves nothing behind: no queue, and no
\* reference that a parse followed to a document nobody attempted since.
NothingLeftBehind ==
  phase = "done" =>
    /\ primary_queue = <<>> /\ reparse_queue = <<>>
    /\ \A d \in Docs : Unmet(d) = {}

\* With one job, two runs leave the queues and the attempts as one does: no path
\* is queued twice and no limit is exceeded.
SequentialIsSafe == ~ parallel => QueuesDisjoint /\ AttemptsBounded

\* parse_all returns, whatever the documents link to and whichever parses fail.
ParseAllReturns == (phase = "enqueue") ~> (phase = "done")

=============================================================================
