--------------------------- MODULE FileUpdateSyncer ---------------------------
(***************************************************************************)
(* The watch pipeline of one network (watch.rs, FileUpdateSyncer): a       *)
(* debouncer callback that enqueues changed files, the compiler task that  *)
(* drives parse_next, and the transaction task that commits the events it  *)
(* emits to the database, plus a caller of wait_for_idle.  The four run    *)
(* concurrently and share the compiler (behind a lock), two Notify         *)
(* permits, the idle flag, the event channel and the commit generation.    *)
(*                                                                         *)
(* A file is its version: disk counts the edits, parsed and db are the     *)
(* versions last parsed and last committed (0: never).  modified is the    *)
(* second of a file's last change, mtimes the second that the database     *)
(* remembers for the next start.  A parse sends the events of its nodes,   *)
(* which are one event here, then FileParsed, and then may write the file. *)
(* The compiler holds its lock from the first of these steps to the last.  *)
(***************************************************************************)
EXTENDS DocumentCompiler

CONSTANTS
  MaxVersion,       \* bound: versions of a file
  MaxSecond,        \* bound: seconds in which a file changes
  SameSecond,       \* an edit may fall into the second of the change before it
  Edited,           \* documents users edit
  EditsWhileBusy,   \* they may edit while the pipeline works
  Rewrites,         \* documents the compiler may write back when it parses them
  MaxBehind,        \* bound: events not drained when it writes a document back
  ReceiverMayClose, \* the application may drop the receiver of its events
  CommitMayFail,    \* the database may refuse a transaction
  ShellMayFail,     \* the page of the viewer may be impossible to write
  MaxRestarts,      \* bound: crashes of the service
  CrashesWhileBusy, \* it may crash while the pipeline works
  MaxWaits          \* bound: calls of wait_for_idle

ASSUME SyncerAssumption ==
  /\ MaxVersion \in Nat \ {0} /\ MaxSecond \in Nat \ {0} /\ MaxBehind \in Nat
  /\ MaxWaits \in Nat /\ MaxRestarts \in Nat
  /\ CrashesWhileBusy \in BOOLEAN
  /\ {SameSecond, EditsWhileBusy, ReceiverMayClose, CommitMayFail, ShellMayFail} \subseteq BOOLEAN
  /\ Edited \subseteq Docs /\ Rewrites \subseteq Docs

VARIABLES
  disk, parsed, db,
  modified, mtimes,
  fsevents,       \* changes the file system watcher has not delivered yet
  batch,          \* events of the debouncer callback that runs
  ignored,        \* ignored_write_paths
  work_permit,    \* the stored permit of work_notifier
  idle_permit,    \* the stored permit of compiler_idle_notify
  compiler_idle,
  dpc, cpc, tpc, wpc,   \* where the debouncer, the tasks and the waiter are
  channel,        \* accum_tx to accum_rx: the documents whose events are sent
  sending,        \* the path whose events are being sent
  staged,         \* the batch the transaction task works on
  stat,           \* the modification times it read for the batch; 0: not in it
  refused,        \* history: paths whose nodes were in a refused transaction
  receiver,       \* the application still receives events
  advanced,       \* commit_generation is larger than when wait_for_idle was called
  waits,          \* calls of wait_for_idle
  restarts        \* crashes so far

files == <<disk, modified, fsevents>>
debouncer == <<batch, dpc>>
compilerTask == <<parsed, ignored, cpc, compiler_idle, sending>>
transactionTask == <<db, mtimes, tpc, staged, stat, refused>>
waiter == <<wpc, advanced, waits>>
syncerVars == <<files, debouncer, compilerTask, transactionTask, waiter,
                work_permit, idle_permit, channel, receiver, restarts>>
allVars == <<vars, syncerVars>>

Versions == 0..MaxVersion
Seconds == 0..MaxSecond

\* The nodes of a document or asset at a version, and FileParsed.
Event == [kind : {"nodes", "parsed"}, path : Paths, version : Versions]

\* The nodes of p are in e, or its modification time is to be read.
IsNodesOf(e, p) == e.kind = "nodes" /\ e.path = p
IsParseOf(e, p) == e.kind = "parsed" /\ e.path = p

\* The compiler task holds the compiler between the steps of one parse_next.
Locked == cpc \in {"sent", "writing"}

SyncerTypeOK ==
  /\ TypeOK
  /\ {disk, parsed, db} \subseteq [Paths -> Versions]
  /\ {modified, mtimes, stat} \subseteq [Paths -> Seconds]
  /\ sending \in Paths /\ refused \subseteq Paths
  /\ fsevents \subseteq Docs /\ ignored \subseteq Paths
  /\ batch \in Seq(Docs)
  /\ {work_permit, idle_permit, compiler_idle, receiver, advanced} \subseteq BOOLEAN
  /\ dpc \in {"check", "filter", "enqueue"}
  /\ cpc \in {"stale", "await", "woken", "round", "parse", "sent", "writing", "retry", "finalize", "idle", "notify"}
  /\ tpc \in {"select", "executeA", "executeB", "mtimesA", "mtimesB", "idle?", "empty?", "raise", "exited"}
  /\ wpc \in {"out", "check", "register", "waiting"}
  /\ channel \in Seq(Event) /\ staged \in Seq(Event)
  /\ waits \in 0..MaxWaits /\ restarts \in 0..MaxRestarts

-----------------------------------------------------------------------------

\* A service starts on the database an earlier one left.  enable_network_syncer
\* has enqueued the root and stored the first permit.
SyncerInit ==
  /\ Init
  /\ disk = [p \in Paths |-> 1]
  /\ db = [p \in Paths |-> IF p \in global_bb THEN 1 ELSE 0]
  /\ mtimes = db /\ parsed = db
  /\ modified = [p \in Paths |-> 1]
  /\ sending = Root /\ refused = {}
  /\ fsevents = {} /\ ignored = {}
  /\ batch = <<>> /\ channel = <<>> /\ staged = <<>>
  /\ stat = [p \in Paths |-> 0]
  /\ work_permit = TRUE /\ idle_permit = FALSE
  /\ compiler_idle = FALSE
  /\ dpc = "check" /\ cpc = "stale" /\ tpc = "select" /\ wpc = "out"
  /\ receiver = TRUE
  /\ advanced = FALSE
  /\ waits = 0
  /\ restarts = 0

-----------------------------------------------------------------------------
(* The world: users edit files, the service crashes and starts again, the   *)
(* application stops listening.                                             *)

\* Nothing is on its way in any stage of the pipeline.
Settled ==
  /\ cpc = "await" /\ ~ work_permit
  /\ fsevents = {} /\ batch = <<>>
  /\ \/ tpc = "select" /\ channel = <<>> /\ ~ idle_permit
     \/ tpc = "exited"

\* A user writes the next version, in this second or a later one.
Write(d) ==
  /\ disk[d] < MaxVersion
  /\ disk' = [disk EXCEPT ![d] = @ + 1]
  /\ \E second \in modified[d]..MaxSecond :
       /\ second > modified[d] \/ SameSecond
       /\ modified' = [modified EXCEPT ![d] = second]

Edit(d) ==
  /\ cpc # "stale" /\ (EditsWhileBusy \/ Settled)
  /\ Write(d)
  /\ fsevents' = fsevents \cup {d}
  /\ UNCHANGED <<vars, debouncer, compilerTask, transactionTask, waiter,
                 work_permit, idle_permit, channel, receiver, restarts>>

\* While the service is down nobody watches.
EditUnwatched(d) ==
  /\ cpc = "stale"
  /\ Write(d)
  /\ UNCHANGED <<vars, fsevents, debouncer, compilerTask, transactionTask, waiter,
                 work_permit, idle_permit, channel, receiver, restarts>>

\* The process ends at any step and starts again: the database and the files
\* are what is left.
Crash ==
  /\ cpc # "stale" /\ restarts < MaxRestarts
  /\ CrashesWhileBusy \/ Settled
  /\ restarts' = restarts + 1
  /\ primary_queue' = <<Root>> /\ reparse_queue' = <<>>
  /\ processed' = [p \in Paths |-> 0]
  /\ pending_dependencies' = [d \in Docs |-> {}]
  /\ reparse_stable' = FALSE /\ last_round_updates' = {} /\ session_bb' = {}
  /\ parsed' = db /\ sending' = Root
  /\ fsevents' = {} /\ ignored' = {}
  /\ batch' = <<>> /\ channel' = <<>> /\ staged' = <<>>
  /\ stat' = [p \in Paths |-> 0]
  /\ work_permit' = TRUE /\ idle_permit' = FALSE /\ compiler_idle' = FALSE
  /\ dpc' = "check" /\ cpc' = "stale" /\ tpc' = "select" /\ wpc' = "out"
  /\ receiver' = TRUE
  /\ advanced' = FALSE
  /\ UNCHANGED <<global_bb, disk, modified, db, mtimes, refused, waits>>

ReceiverCloses ==
  /\ ReceiverMayClose /\ receiver
  /\ receiver' = FALSE
  /\ UNCHANGED <<vars, files, debouncer, compilerTask, transactionTask, waiter,
                 work_permit, idle_permit, channel, restarts>>

-----------------------------------------------------------------------------
(* The debouncer callback, on a thread of its own.                         *)

\* notify-debouncer-full hands a batch of events to the callback, once.
Deliver ==
  /\ batch = <<>> /\ fsevents # {}
  /\ batch' \in Orderings(fsevents)
  /\ fsevents' = {}
  /\ UNCHANGED <<vars, disk, modified, dpc, compilerTask, transactionTask, waiter,
                 work_permit, idle_permit, channel, receiver, restarts>>

\* The idle flag, the ignored paths and the lock are taken one after the other;
\* a busy compiler makes the callback return, with the rest of the batch.
CheckIdle ==
  /\ dpc = "check" /\ batch # <<>>
  /\ \/ ~ compiler_idle /\ batch' = <<>> /\ dpc' = "check"
     \/ compiler_idle /\ batch' = batch /\ dpc' = "filter"
  /\ UNCHANGED <<vars, files, compilerTask, transactionTask, waiter,
                 work_permit, idle_permit, channel, receiver, restarts>>

FilterIgnored ==
  /\ dpc = "filter"
  /\ \/ Head(batch) \in ignored /\ batch' = Tail(batch) /\ dpc' = "check"
     \/ Head(batch) \notin ignored /\ batch' = batch /\ dpc' = "enqueue"
  /\ UNCHANGED <<vars, files, compilerTask, transactionTask, waiter,
                 work_permit, idle_permit, channel, receiver, restarts>>

EnqueueChange ==
  /\ dpc = "enqueue" /\ ~ Locked
  /\ Forget(Head(batch))
  /\ Enqueue(Head(batch))
  /\ work_permit' = TRUE
  /\ batch' = Tail(batch)
  /\ dpc' = "check"
  /\ UNCHANGED <<reparse_stable, last_round_updates, session_bb, global_bb,
                 files, compilerTask, transactionTask, waiter,
                 idle_permit, channel, receiver, restarts>>

Debounce == Deliver \/ CheckIdle \/ FilterIgnored \/ EnqueueChange

-----------------------------------------------------------------------------
(* The compiler task.                                                      *)

\* Mutant: a modification time just after the remembered one is tolerated.
StaleWithTolerance == {p \in Paths : mtimes[p] > 0 /\ modified[p] > mtimes[p] + 1}

\* check_stale_files compares, in seconds, the files whose mtime the database
\* remembers.
Stale == {p \in Paths : mtimes[p] > 0 /\ modified[p] > mtimes[p]}

\* Each stale path gets a reset_processed and an enqueue.
CheckStale ==
  /\ cpc = "stale" /\ cpc' = "await"
  /\ LET stale == Stale
     IN  /\ processed' = [p \in Paths |-> IF p \in stale THEN 0 ELSE processed[p]]
         /\ pending_dependencies' = [d \in Docs |-> IF d \in stale THEN {}
                                                    ELSE pending_dependencies[d]]
         /\ \E o \in Orderings(stale \ Queued) : primary_queue' = primary_queue \o o
  /\ UNCHANGED <<reparse_queue, reparse_stable, last_round_updates, session_bb, global_bb,
                 files, debouncer, parsed, sending, ignored, compiler_idle,
                 transactionTask, waiter, work_permit, idle_permit, channel, receiver, restarts>>

\* Mutant: the wake-up is a flag that nobody resets.
WakeKeepsPermit ==
  /\ cpc = "await" /\ work_permit
  /\ cpc' = "woken"
  /\ UNCHANGED <<vars, files, debouncer, parsed, sending, ignored, compiler_idle,
                 transactionTask, waiter, work_permit, idle_permit, channel, receiver, restarts>>

Wake ==
  /\ cpc = "await" /\ work_permit
  /\ work_permit' = FALSE
  /\ cpc' = "woken"
  /\ UNCHANGED <<vars, files, debouncer, parsed, sending, ignored, compiler_idle,
                 transactionTask, waiter, idle_permit, channel, receiver, restarts>>

MarkBusy ==
  /\ cpc = "woken"
  /\ compiler_idle' = FALSE
  /\ cpc' = "round"
  /\ UNCHANGED <<vars, files, debouncer, parsed, sending, ignored,
                 transactionTask, waiter, work_permit, idle_permit, channel, receiver, restarts>>

StartRound ==
  /\ cpc = "round"
  /\ StartReparseRound
  /\ cpc' = "parse"
  /\ UNCHANGED <<files, debouncer, parsed, sending, ignored, compiler_idle,
                 transactionTask, waiter, work_permit, idle_permit, channel, receiver, restarts>>

\* The channel has no receiver any more, and a send fails.
SendFailed(p) ==
  /\ tpc = "exited"
  /\ processed[p] < MaxReparse
  /\ CountAttempt(p)
  /\ session_bb' \in {session_bb, IF p \in Docs THEN SessionAfter(p) ELSE session_bb \cup {p}}
  /\ UNCHANGED <<pending_dependencies, reparse_stable, last_round_updates, global_bb>>

\* An event of its nodes: parse_content fails, and the document stays queued.
NodesRefused(p, q) ==
  /\ p \in Docs /\ SendFailed(p)
  /\ primary_queue' = q /\ UNCHANGED reparse_queue

\* FileParsed, or any event of an asset: parse_next fails.  A document has left the
\* queues by then, an asset has not.
ParsedRefused(p, q) ==
  /\ SendFailed(p)
  /\ \/ p \in Docs /\ Dequeue(p, q)
     \/ p \in Assets /\ primary_queue' = q /\ UNCHANGED reparse_queue

\* process_asset finds the content that the session has for the path; assets are
\* not edited here.
AssetUnchanged(p) == p \in session_bb \cap Assets

\* The ways a parse returns a result without an event.
ParsesQuietly(p, q) ==
  \/ LimitExceeded(p, q) \/ Unreadable(p, q) \/ ParseFailed(p, q) \/ NodesRefused(p, q)
  \/ AssetUnchanged(p) /\ AssetProcessed(p, q)

ParseQuietly ==
  /\ cpc = "parse"
  /\ \E q \in {primary_queue} \cup Orderings(UncheckedAssets) :
       \E p \in Range(q) \cup Range(reparse_queue) :
         Picks(p, q) /\ ParsesQuietly(p, q) /\ ignored' = ignored \cup {p}
  /\ cpc' = "round"
  /\ UNCHANGED <<files, debouncer, parsed, compiler_idle, sending, transactionTask,
                 waiter, work_permit, idle_permit, channel, receiver, restarts>>

ParseFails ==
  /\ cpc = "parse"
  /\ \E q \in {primary_queue} \cup Orderings(UncheckedAssets) :
       \E p \in Range(q) \cup Range(reparse_queue) :
         Picks(p, q) /\ ~ AssetUnchanged(p) /\ ParsedRefused(p, q)
  /\ cpc' = "retry"
  /\ UNCHANGED <<files, debouncer, parsed, ignored, compiler_idle, sending, transactionTask,
                 waiter, work_permit, idle_permit, channel, receiver, restarts>>

\* The file is read and parsed, and terminate_stack sends the events of its nodes.
\* What the session and the queues come to be is part of the next step, since
\* nobody sees them before the lock is released; the source can only gain, in
\* between, nodes that the session has.
Parse ==
  /\ cpc = "parse" /\ tpc # "exited"
  /\ \E q \in {primary_queue} \cup Orderings(UncheckedAssets) :
       \E p \in Range(q) \cup Range(reparse_queue) :
         /\ Picks(p, q) /\ processed[p] < MaxReparse /\ ~ AssetUnchanged(p)
         /\ primary_queue' = q
         /\ sending' = p
         /\ parsed' = [parsed EXCEPT ![p] = disk[p]]
         /\ channel' = Append(channel, [kind |-> "nodes", path |-> p, version |-> disk[p]])
  /\ cpc' = "sent"
  /\ UNCHANGED <<reparse_queue, processed, pending_dependencies, reparse_stable,
                 last_round_updates, session_bb, global_bb, files, debouncer, ignored,
                 compiler_idle, transactionTask, waiter, work_permit, idle_permit,
                 receiver, restarts>>

\* The path leaves the queues, FileParsed is sent, and the references are followed.
SendParsed ==
  /\ cpc = "sent" /\ tpc # "exited"
  /\ AssetProcessed(sending, primary_queue) \/ Parsed(sending, primary_queue)
  /\ channel' = Append(channel, [kind |-> "parsed", path |-> sending, version |-> parsed[sending]])
  /\ \/ cpc' = "round" /\ ignored' = ignored \cup {sending}
     \/ /\ cpc' = "writing" /\ UNCHANGED ignored
        /\ sending \in Rewrites /\ Len(channel) <= MaxBehind
  /\ UNCHANGED <<files, debouncer, parsed, compiler_idle, sending, transactionTask,
                 waiter, work_permit, idle_permit, receiver, restarts>>

SendParsedFails ==
  /\ cpc = "sent"
  /\ ParsedRefused(sending, primary_queue)
  /\ cpc' = "retry"
  /\ UNCHANGED <<files, debouncer, parsed, ignored, compiler_idle, sending,
                 transactionTask, waiter, work_permit, idle_permit, channel, receiver, restarts>>

\* The document is written back as it was read, over what users wrote since, which
\* the file system reports like any other change.
WriteBack ==
  /\ cpc = "writing"
  /\ disk' = [disk EXCEPT ![sending] = parsed[sending]]
  /\ \E second \in modified[sending]..MaxSecond : modified' = [modified EXCEPT ![sending] = second]
  /\ fsevents' = fsevents \cup {sending}
  /\ ignored' = ignored \cup {sending}
  /\ cpc' = "round"
  /\ UNCHANGED <<vars, debouncer, parsed, compiler_idle, sending,
                 transactionTask, waiter, work_permit, idle_permit, channel, receiver, restarts>>

\* finalize finds nothing to enqueue and writes the page of the viewer.
ParseNone ==
  /\ cpc = "parse" /\ NothingToParse
  /\ cpc' = "finalize"
  /\ UNCHANGED <<vars, files, debouncer, parsed, sending, ignored, compiler_idle,
                 transactionTask, waiter, work_permit, idle_permit, channel, receiver, restarts>>

\* The page cannot be written: parse_next fails, with nothing left to parse.
ShellFails ==
  /\ ShellMayFail
  /\ cpc = "parse" /\ NothingToParse
  /\ cpc' = "retry"
  /\ UNCHANGED <<vars, files, debouncer, parsed, sending, ignored, compiler_idle,
                 transactionTask, waiter, work_permit, idle_permit, channel, receiver, restarts>>

\* After an error the task sleeps and calls parse_next again.
Retry ==
  /\ cpc = "retry"
  /\ cpc' = "round"
  /\ UNCHANGED <<vars, files, debouncer, parsed, sending, ignored, compiler_idle,
                 transactionTask, waiter, work_permit, idle_permit, channel, receiver, restarts>>

\* finalize_html reads the database as it is now; what it writes is in Site.
FinalizeHtml ==
  /\ cpc = "finalize"
  /\ cpc' = "idle"
  /\ UNCHANGED <<vars, files, debouncer, parsed, sending, ignored, compiler_idle,
                 transactionTask, waiter, work_permit, idle_permit, channel, receiver, restarts>>

\* Mutant: the ignored paths are never flushed.
GoIdleKeepsIgnored ==
  /\ cpc = "idle"
  /\ compiler_idle' = TRUE
  /\ cpc' = "notify"
  /\ UNCHANGED <<vars, files, debouncer, parsed, sending, ignored,
                 transactionTask, waiter, work_permit, idle_permit, channel, receiver, restarts>>

GoIdle ==
  /\ cpc = "idle"
  /\ ignored' = {}
  /\ compiler_idle' = TRUE
  /\ cpc' = "notify"
  /\ UNCHANGED <<vars, files, debouncer, parsed, sending,
                 transactionTask, waiter, work_permit, idle_permit, channel, receiver, restarts>>

\* Mutant: the transaction task is not told that the compiler is idle.
IdleUnnoticed ==
  /\ cpc = "notify"
  /\ cpc' = "await"
  /\ UNCHANGED <<vars, files, debouncer, parsed, sending, ignored, compiler_idle,
                 transactionTask, waiter, work_permit, idle_permit, channel, receiver, restarts>>

NotifyIdle ==
  /\ cpc = "notify"
  /\ idle_permit' = TRUE
  /\ cpc' = "await"
  /\ UNCHANGED <<vars, files, debouncer, parsed, sending, ignored, compiler_idle,
                 transactionTask, waiter, work_permit, channel, receiver, restarts>>

CompilerTask ==
  \/ CheckStale \/ Wake \/ MarkBusy \/ StartRound
  \/ ParseQuietly \/ ParseFails \/ Parse \/ SendParsed \/ SendParsedFails \/ WriteBack
  \/ ParseNone \/ ShellFails \/ Retry
  \/ FinalizeHtml \/ GoIdle \/ NotifyIdle

-----------------------------------------------------------------------------
(* The transaction task: tokio::select! over the channel and the permit.   *)

\* The modification times of the files that the events of the channel say are parsed.
TimesRead ==
  [p \in Paths |-> IF \E i \in DOMAIN channel : IsParseOf(channel[i], p) THEN modified[p] ELSE 0]

\* Mutant: what try_recv returns after the first event is dropped.
DrainFirst(next) ==
  /\ channel' = <<>>
  /\ stat' = TimesRead
  /\ IF receiver \/ channel = <<>>
       THEN staged' = SubSeq(channel, 1, 1) /\ tpc' = next
       ELSE staged' = <<>> /\ tpc' = "exited"

\* Drain the channel, read the mtime of each file parsed, and forward each event;
\* a closed receiver ends the task with what it had drained.
Drain(next) ==
  /\ channel' = <<>>
  /\ stat' = TimesRead
  /\ IF receiver \/ channel = <<>>
       THEN staged' = channel /\ tpc' = next
       ELSE staged' = <<>> /\ tpc' = "exited"

ReceiveEvents ==
  /\ tpc = "select" /\ channel # <<>>
  /\ Drain("executeA")
  /\ UNCHANGED <<vars, files, debouncer, compilerTask, db, mtimes, refused, waiter,
                 work_permit, idle_permit, receiver, restarts>>

CompilerWentIdle ==
  /\ tpc = "select" /\ idle_permit
  /\ idle_permit' = FALSE
  /\ Drain("executeB")
  /\ UNCHANGED <<vars, files, debouncer, compilerTask, db, mtimes, refused, waiter,
                 work_permit, receiver, restarts>>

\* The last event about the nodes of a path is what the database keeps.
Committed(p) ==
  LET of == {i \in DOMAIN staged : IsNodesOf(staged[i], p)}
  IN  IF of = {} THEN db[p] ELSE staged[CHOOSE i \in of : \A j \in of : j <= i].version

\* The paths whose nodes are in the batch.
InBatch == {p \in Paths : \E i \in DOMAIN staged : IsNodesOf(staged[i], p)}

\* A document's events carry the nodes of its networks too.
Carried(p) == IF p \in Docs THEN Nodes(p) ELSE {p}

\* The nodes are committed first; a failed statement is logged, and what it and
\* the next one were to write is gone.
Execute ==
  /\ tpc \in {"executeA", "executeB"}
  /\ \/ /\ db' = [p \in Paths |-> Committed(p)]
        /\ global_bb' = global_bb \cup UNION {Carried(p) : p \in InBatch}
        /\ refused' = refused
        /\ tpc' = IF tpc = "executeA" THEN "mtimesA" ELSE "mtimesB"
     \/ /\ CommitMayFail /\ staged # <<>>
        /\ refused' = refused \cup InBatch
        /\ tpc' = IF tpc = "executeA" THEN "idle?" ELSE "raise"
        /\ UNCHANGED <<db, global_bb>>
  /\ staged' = <<>>
  /\ UNCHANGED <<primary_queue, reparse_queue, processed, pending_dependencies,
                 reparse_stable, last_round_updates, session_bb,
                 files, debouncer, compilerTask, mtimes, stat, waiter,
                 work_permit, idle_permit, channel, receiver, restarts>>

\* The mtimes are committed by a statement of their own.
ExecuteMtimes ==
  /\ tpc \in {"mtimesA", "mtimesB"}
  /\ \/ mtimes' = [p \in Paths |-> IF stat[p] > 0 THEN stat[p] ELSE mtimes[p]]
     \/ CommitMayFail /\ mtimes' = mtimes
  /\ tpc' = IF tpc = "mtimesA" THEN "idle?" ELSE "raise"
  /\ UNCHANGED <<vars, files, debouncer, compilerTask, db, staged, stat, refused, waiter,
                 work_permit, idle_permit, channel, receiver, restarts>>

\* The branch for events raises the generation after it has looked at the flag and
\* then at the channel, while the compiler and its callers go on; the branch for the
\* permit raises it at once.
LookAtFlag ==
  /\ tpc = "idle?"
  /\ tpc' = IF compiler_idle THEN "empty?" ELSE "select"
  /\ UNCHANGED <<vars, files, debouncer, compilerTask, db, mtimes, staged, stat, refused,
                 waiter, work_permit, idle_permit, channel, receiver, restarts>>

LookAtChannel ==
  /\ tpc = "empty?"
  /\ tpc' = IF channel = <<>> THEN "raise" ELSE "select"
  /\ UNCHANGED <<vars, files, debouncer, compilerTask, db, mtimes, staged, stat, refused,
                 waiter, work_permit, idle_permit, channel, receiver, restarts>>

\* commit_generation is incremented, and notify_waiters wakes who waits then.
Signal ==
  /\ tpc = "raise"
  /\ advanced' = (wpc # "out")
  /\ wpc' = IF wpc = "waiting" THEN "check" ELSE wpc
  /\ tpc' = "select"
  /\ UNCHANGED <<vars, files, debouncer, compilerTask, db, mtimes, staged, stat, refused,
                 waits, work_permit, idle_permit, channel, receiver, restarts>>

TransactionTask ==
  \/ ReceiveEvents \/ CompilerWentIdle \/ Execute \/ ExecuteMtimes
  \/ LookAtFlag \/ LookAtChannel \/ Signal

-----------------------------------------------------------------------------
(* wait_for_idle.                                                          *)

CallWait ==
  /\ wpc = "out" /\ waits < MaxWaits
  /\ waits' = waits + 1
  /\ advanced' = FALSE
  /\ wpc' = "check"
  /\ UNCHANGED <<vars, files, debouncer, compilerTask, transactionTask,
                 work_permit, idle_permit, channel, receiver, restarts>>

\* The load of the generation and the creation of the next notified() future
\* are two steps: notify_waiters reaches only futures that exist.
LoadGeneration ==
  /\ wpc = "check"
  /\ wpc' = IF advanced THEN "out" ELSE "register"
  /\ advanced' = FALSE
  /\ UNCHANGED <<vars, files, debouncer, compilerTask, transactionTask, waits,
                 work_permit, idle_permit, channel, receiver, restarts>>

Register ==
  /\ wpc = "register"
  /\ wpc' = "waiting"
  /\ UNCHANGED <<vars, files, debouncer, compilerTask, transactionTask, advanced, waits,
                 work_permit, idle_permit, channel, receiver, restarts>>

Waiter == LoadGeneration \/ Register

-----------------------------------------------------------------------------

SyncerNext ==
  \/ \E d \in Edited : Edit(d) \/ EditUnwatched(d)
  \/ Crash
  \/ ReceiverCloses
  \/ Debounce
  \/ CompilerTask
  \/ TransactionTask
  \/ CallWait
  \/ Waiter

\* The runtime schedules both tasks, the debouncer thread delivers after its
\* quiet window, and a blocked caller runs once it is woken.  select! looks first at a
\* branch drawn at random, so that events do not keep it from the permit for ever.
Fairness ==
  /\ WF_allVars(Debounce)
  /\ WF_allVars(CompilerTask)
  /\ WF_allVars(TransactionTask)
  /\ SF_allVars(CompilerWentIdle)
  /\ WF_allVars(Waiter)

SyncerSpec == SyncerInit /\ [][SyncerNext]_allVars /\ Fairness

-----------------------------------------------------------------------------
(* Properties.                                                             *)

\* The versions of p that are on their way to the database, oldest first.
InFlight(p) ==
  LET events == staged \o channel
      of     == {i \in DOMAIN events : IsNodesOf(events[i], p)}
  IN  [i \in of |-> events[i].version]

\* Between the parse and the commit nothing is lost or overtaken: the newest
\* version of a path in flight, or else in the database, is the one last parsed,
\* whichever of the two branches of the transaction task drained which events.
NothingLostInFlight ==
  tpc # "exited" =>
    \A p \in Paths :
      LET of == DOMAIN InFlight(p)
      IN  IF of = {} THEN db[p] = parsed[p]
          ELSE InFlight(p)[CHOOSE i \in of : \A j \in of : j <= i] = parsed[p]

\* A change made while the pipeline is at rest, or while the service is down, reaches
\* the database: through the watcher or the stale check, the debouncer, both queues
\* and the transaction, or later versions of the file do.
EditsReachDatabase ==
  \A d \in Edited : \A v \in Versions : (disk[d] = v) ~> (db[d] >= v)

\* Work is always announced: when something is on its way while wait_for_idle is
\* called, the generation is raised once more for that caller, by one branch of the
\* transaction task or the other, or the caller has returned.
WaitersAdvance ==
  (wpc # "out" /\ ~ Settled) ~> (wpc = "out" \/ advanced)

\* A modification time stands for nodes the database holds: wherever the service
\* crashes, however the events of a parse are split into batches and whichever
\* statement fails, a file is remembered without its nodes only when the database
\* has refused a transaction with them.  Every later start takes such a file for parsed.
MtimesFollowNodes == \A p \in Paths : mtimes[p] > 0 => db[p] > 0 \/ p \in refused

\* The pipeline comes to rest after the last edit, through failing parses and
\* commits, a closed receiver and a crash.  Two things keep it busy: documents that each
\* parse writes back, since the watcher reports these writes after the ignored paths
\* were forgotten, and a page of the viewer that can never be written.
ComesToRest == <>[]Settled \/ []<>(cpc = "writing") \/ []<>(cpc = "retry")

-----------------------------------------------------------------------------
(* What comments in the code claim and the model does not confirm.         *)

\* watch.rs, compiler task: the stale check "ensures modified files are re-parsed
\* on watch service startup".  It misses a file whose time was read after a later
\* edit, one edited in the second of its last change, and one whose nodes were
\* committed before a crash that came before its time was.
StartupFindsModified ==
  cpc = "stale" => \A p \in Paths : db[p] > 0 /\ disk[p] > db[p] => p \in Stale

\* watch.rs, commit_generation: "Incremented by the transaction task after each
\* successful commit at true pipeline idle": what is parsed is then in the database.
SignalMeansCommitted ==
  [][Signal => db = parsed]_allVars

\* watch.rs, commit_generation: "wait_for_idle snapshots this value and waits
\* until it advances": a caller whose generation has advanced returns without the
\* help of another compilation.
AdvancedWaitersReturn ==
  (wpc # "out" /\ advanced) ~> (wpc = "out")

\* compiler.rs, finalize_html: "Synchronized BeliefBase with all events processed":
\* what is parsed is in the database when finalize_html reads it.
HtmlIsSynchronized ==
  [][FinalizeHtml => db = parsed]_allVars

=============================================================================
