# Verification of noet-core

noet-core compiles a tree of Markdown documents (a *network*) into a graph of
nodes and relations, keeps that graph in a database, and writes HTML. This
directory holds TLA+ models of the parts whose correctness depends on the order
in which things happen, the TLC configurations that check them, and proofs that
the TLA+ proof system checks. All line numbers are those of `src/src/`.

## The system

| Component | State | Operations | Talks to | What makes it hard |
|---|---|---|---|---|
| `DocumentCompiler` (codec/compiler.rs) | primary and reparse queue, attempts per path, pending dependencies, round flags | `parse_next`, `enqueue`, `enqueue_front`, `on_file_modified`, `on_file_deleted`, `reset_processed`, `clear_processed`, `start_reparse_round`, `on_belief_event` | the builder, a belief source, its caller | documents refer to each other in cycles; attempts are bounded; any client may call anything |
| `parse_all` (codec/compiler.rs) | result per path | one call, many results | the scheduler, or parallel builders for the first epoch | results of many attempts are merged; attempts survive from run to run |
| `WatchService`, `FileUpdateSyncer` (watch.rs) | idle flag, ignored paths, two `Notify`, a channel, a generation | debouncer callback, compiler task, transaction task, `wait_for_idle`, `get_states`, `set_networks` | compiler, database, file system, application | four concurrent parties, dropped events, lost wakeups, crashes |
| `Transaction`, `DbConnection` (db.rs) | staged statements, tables | `add_event`, `execute`, queries | watch service, builder | two statements per commit, events that arrive in any order |
| `GraphBuilder` (codec/builder.rs) | stack, session graph, renames | `parse_content` in four phases, `cache_fetch` | codecs, belief source, event channel | identity of a node found in three places, each of another age |
| `BeliefBase` (beliefbase/base.rs) | states, relations, path maps | `process_event`, `compute_diff`, `merge` | builder, database, viewer | indices that must agree with the graph after any sequence of events |
| `BeliefGraph` (beliefbase/graph.rs) | states and relations | union, intersection, difference | queries, cache | trace nodes and edge weights under union |
| `PathMapMap` (paths/pathmap.rs) | paths and order per network | `process_event`, lookups | `BeliefBase` | incremental update against full recomputation |
| `CachedBeliefSource` (beliefbase/cached.rs) | results per query | `eval_query`, `invalidate_for_events` | builders of one epoch | an insert that races an eviction; cached misses |
| Codecs, `ProtoIndex`, assets, diagnostics | registries filled at start | text to intermediate form and back | builder | text, not order |
| HTML and shard export, search | files | `finalize_html` | database, viewer | runs at another moment than the commit |
| Dev server (bin/noet/dev_server.rs) | broadcast channel, clients | notify, stream, shut down | HTML directory, browsers | lagging clients, shutdown |
| WASM, viewer, CLI, configuration | - | - | - | I/O and front end |

What makes each correct:

- scheduler: a path is queued once, no path is attempted more often than
  `max_reparse_count`, every call of `parse_next` makes progress;
- `parse_all`: it returns, attempts every document that is referred to, and what
  it reports holds at the end and not at some earlier attempt;
- watch service: an edit reaches the database, nothing is lost or overtaken
  between parse and commit, the pipeline comes to rest, a restart finds what
  changed while the service was down, a waiter returns when its work is done;
- belief base: an event changes the relations of the nodes it names and no
  others, although positions in the graph move; no relation lacks a node; sort
  keys stay contiguous;
- session and paths: whatever sequence of texts is parsed, a node has one parent,
  headings are in the order of the text, no two nodes get one path, and the
  database has the paths of the session;
- identity and links: a heading keeps its node, an identifier names one node, a
  link is never turned to another node, and writing back comes to rest;
- queries: a base and the database answer alike, an answer is complete for the
  nodes it calls whole, also when commits run between its reads, and every
  call ends;
- site and viewer: a finished site shows the repository, and what a viewer holds
  is what the shards say, although files are replaced one by one.

## Modules

    DocumentCompiler            the scheduler, open to any client
      ParseAll                  the batch driver on top of it
      FileUpdateSyncer          the watch pipeline on top of it
        DocumentCompilerProofs  the theorems of the three
    BeliefEdges                 relations as values, and what events do to them
      BeliefGraph               what a belief base promises
      BeliefBase                the belief base with its lazily rebuilt index
        BeliefBaseProofs        its theorems: the base implements the promise
      PathEntries               a network's path map as a value, and its updates
        Reconcile               documents against session and database
    Identity                    headings, anchors and the table of sections
      IdentityProofs            its theorems
    AnchorPaths                 paths with anchors
      Links                     links and what a parse makes of them
        LinksProofs             the theorems of both
    GraphAlgebra                graphs with traces, their union and difference
      Expressions               expressions in memory and as SQL
        Queries                 queries, commits and the pagination cache
          QueriesProofs         their theorems
    Site                        pages, listings, sitemap and assets
      SiteProofs                its theorems
    Shards                      the exported graph and its viewer
      ShardsProofs              their theorems
    OrderLemmas                 smallest members and recursion, for the proofs
    MC modules                  one instance of each for TLC

`ParseAll` and `FileUpdateSyncer` extend `DocumentCompiler` and drive its
actions, as the code drives the compiler's methods. `BeliefBase` instantiates
`BeliefGraph` (`Abstract == INSTANCE BeliefGraph WITH states <- states,
edges <- edges`) and has its specification as a property, which is also proved.
`Reconcile` puts the text of documents, the session's relations and maps
(`BeliefEdges`, `PathEntries`) and the database together.

### DocumentCompiler

Variables are the fields `primary_queue`, `reparse_queue`, `processed`,
`pending_dependencies`, `reparse_stable`, `last_round_updates`, and two sets
that stand for graphs: `session_bb`, the nodes the builder has seen in this
session, and `global_bb`, those of the belief source the caller hands in.

Content is abstracted to what scheduling depends on: `Links[d]` are the paths a
document refers to, `Ancestors[d]` the networks it lies in, `Dangling` the
documents with a reference to nothing, `Faulty` the paths whose read or parse
may fail, at any attempt anew. A parse resolves a reference when its target is in
`session_bb` or `global_bb` (`Unresolved`, `HasUnresolved`), adds the nodes of the
document and its networks (`SessionAfter`), follows references into networks it
knows (`Followed`) and enqueues targets that are in no queue and unattempted
(`Fresh`). `ParseNext` picks a path as the code does (primary queue, then
unprocessed assets, then the reparse queue by its priority) and is the
disjunction of the five ways `parse_next` returns a result: `LimitExceeded`,
`Unreadable`, `ParseFailed`, `AssetProcessed`, `Parsed`. Order that comes from a
hash map or from text is a free choice over `Orderings`.

Abstracted: `pending_dependencies` is a set where the code has a vector with duplicates
(only whether it has unattempted members is ever used); a network's directory and its
index file are one path, although the queues may hold both; failing I/O of the HTML
output is left out.

### ParseAll

`StartRun` picks any of the paths the source knows as stale; `EnqueueStale`,
`StartEpoch`, `EpochResult`, `Loop`, `Promote` follow the code. `parallel` stands
for `jobs > 1` and is chosen once, as bin/noet and the environment variable do.
The epoch drains the primary queue; its builders each start from an empty
session, and the result of a document is processed against a compiler whose queues
no longer show that the document is being parsed. `latest` is the result map,
`emitted` what the runs sent as events; `SourceCatchesUp` lets the caller apply
them, or not, before the next run.

### FileUpdateSyncer

A file is its version. `disk` counts edits, `parsed` and `db` are the versions last
parsed and last committed. Times are kept apart from versions and in the seconds that
both sides of the comparison have (compiler.rs:724, db.rs:94): `modified` is the second
of a file's last change, `mtimes` what the database remembers for the next start. Each
of the four parties has a program counter:

- debouncer (`dpc`): `Deliver`, `CheckIdle`, `FilterIgnored`, `EnqueueChange`;
- compiler task (`cpc`): `CheckStale`, `Wake`, `MarkBusy`, `StartRound`, then one
  `parse_next` after the other: `ParseQuietly` when it publishes nothing (an attempt
  that fails, an asset whose hash is unchanged), else `Parse`, `SendParsed` and perhaps
  `WriteBack`; at the end `ParseNone`, `FinalizeHtml`, `GoIdle`, `NotifyIdle`. An error
  (`ParseFails`, `SendParsedFails`, `ShellFails`) leads to `Retry`, which calls
  `parse_next` again;
- transaction task (`tpc`): `ReceiveEvents` or `CompilerWentIdle` (the branches
  of its `select!`), `Execute`, `ExecuteMtimes`; after the branch for events
  `LookAtFlag` and `LookAtChannel`; `Signal`;
- caller (`wpc`): `CallWait`, `LoadGeneration`, `Register`.

Steps are cut where another party can see the difference: at each access to a
shared atomic, lock, channel or permit. So the nodes of a parse (sent during
`parse_content`, compiler.rs:486) and `FileParsed` (515) are two events, which can fall
into two transactions, and the look at the idle flag, the look at the channel and the
increment of the generation (watch.rs:1113-1116) are three steps. The compiler is locked
during a `parse_next` (`Locked`), so the debouncer enqueues before or after it. A
`Notify` permit is a Boolean (`notify_one` stores it, `notified` consumes it);
`notify_waiters` reaches only a caller that is registered. The environment edits files,
drops the receiver of the broadcast, and crashes the process, after which only files and
database are left.

Abstracted: the events of the nodes of one parse are one event, and a transaction's
nodes are committed as a whole (the code runs one multi-statement query, in which
statements commit one by one). A parse sends the nodes of its file also when nothing
has changed since the last one, where the code sends none; this can only differ after
a refused transaction, which `refused` records. A document that the compiler writes back
(`Rewrites`) gets the content that was read, over what users wrote in between.

### BeliefEdges, BeliefGraph, BeliefBase

A node is its identifier. `edges[<<source, sink>>]` holds for each kind a weight
or `NoWeight`; of a weight's payload the model keeps the sort key and the owner.
`BeliefEdges` has the functions of beliefbase/base.rs that compute new relations:
`Reindexed` (reindex_sink_edges), `UpdatedRelation` (update_relation),
`ChangedWeights` (generate_edge_update), `WithoutNodes` (remove_nodes) and
`ReplacedNode` (replace_bid). Equal sort keys are renumbered in the order of
petgraph's adjacency lists, which the model leaves open, so `Reindexed` is the
set of possible results.

`BeliefGraph` is the promise: a set of nodes and relations; an event acts on the
nodes it names. `BeliefBase` is the code: `nodes` is petgraph's node vector,
`index` is `bid_to_index`, `dirty` is `index_dirty`. A removed node's position is
taken by the last one (`SwapRemove`), so a position read from a stale index is
another node's; every look-up of an action goes through `At`, and each action
begins with the `index_sync` that the code makes (`SyncResults`). `replacing` is
the loop of `insert_state` over the nodes that merge keys found. Actions are the
events of `process_event`, and `MergeNodes`, the first pass of `merge_graph_mut`,
whose second pass consists of `RelationUpdate`s.

Abstracted: contents of nodes (`changed` says whether an update changes one), the
bref table, path maps, the derivative events that are returned. Which nodes the
merge keys find is a free choice. `replace_bid` walks a node's relations while it
removes and adds some, and petgraph moves its last edge to a freed position; the
model takes the walk to visit each relation once, which holds when the next
relation of the walk is not that last edge.

### PathEntries, Reconcile

A map is a sequence of entries (path, node, order); the order is the sequence of
sort keys from the network down. `NewMap` builds it from the relations
(`PathMap::new`), `RelationHeard` updates it by one relation
(`process_relation_update`) and says which paths the database has to put and
remove. Names are made as the code makes them: the title of a heading, or its
Bref when the title's path is taken.

In `Reconcile` a text is a sequence of headings with levels and of links. `Parse`
computes the base of the document (`Structure`, `LinkWeights`, `Fetched`: push,
push_relation and what `cache_fetch` brings along) and the events of
`compute_diff` (`Diff`) in their order; `Apply` gives the session one of them, with
the renumbered relations in any order and the maps sorted at the end
(`process_event_queue`), and the database what `terminate_stack` sends it. Each
intermediate state is one the maps and the database are in.

Abstracted: a document is parsed when its predecessor's events are applied, as
the single builder does; nodes keep their identity (see `Identity`); of a node's
payload only that a network's has changed, since that rebuilds its map; titles do
not change; one level of networks.

### Identity

A heading has a title, an anchor or none, and the node it was at its last parse.
`ids` is the network's `id_map`, `known` the session's nodes of headings, `sections`
the table in each frontmatter. `Parse` follows the code: `Claims` (identifiers of a
document, `MdCodec::parse`), `PushAll` (look-up by path, a new node or the known one,
the identifier replaced by the Bref when it is taken, notes matched to headings
and merged), and what `inject_context` and `finalize` write back. Authors write,
copy, delete, retitle, strip of its anchor, swap and annotate headings.

`IdentityAssumption` says that no title makes the slug that a Bref is (twelve characters
of a random Bid), that documents are no headings, and that the titles of documents differ;
of documents with one title the last to be parsed has it in the `id_map`.

Abstracted: all headings have one level and all documents one network; a note is
one field of the table; keys of the table that are Bids are left out.

### AnchorPaths, Links

`AnchorPaths` has the functions of paths/path.rs on components: `Join`, `Dir`,
`Relative` and the normalisation, which is translated as it is written, with its
own count of `..`. In `Links` a parse of a document takes the relation of each link
from its URL (`Target`), then writes the links anew from the document's sources:
the relative path, the Bref of the target, and its title where the text is the
title. `at` is where files are, `place` where the path maps have them, `known`
the titles of the session; they differ until a document is parsed.

`Names` are the components a path may have besides `..`; `PathsAssumption` says that `..`
is none of them. `RewrittenLinksResolve` and `WritingSettles` are about moments at which no
two documents are known at one path (`KnownApart`), as they are between the moves of one
file away and of another to its place and the parse of the first: a relation that was
found by a title would then lead, by the path that is written for it, to the other.

A heading has two anchors: `Slug`, which the path map has (`PathOf`), and `Id`, which a
parse writes into links (`LinkTo`). They differ for the headings of `Lost`, whose
identifier belongs to another node: their `id` is their Bref, and
`generate_terminal_path` passes a Bref over. `RewrittenLinksResolve` is about links to
the others.

Abstracted: inline links only; one slug per title; no links out of the repository; a
heading of `Lost` keeps its title.

### GraphAlgebra, Expressions, Queries

A graph is two sets of nodes, whole and trace, and a set of pairs. `GraphAlgebra` has
`union_mut`, `add_relations`, intersection, difference, the expressions a balance is
built from, and `paginate`. `Expressions` has the evaluation of predicates twice: as
`BeliefBase::evaluate_expression` does it and as the SQL of `DbConnection` does.
`Queries` runs `get_states` for several callers: each test of the cache's lock, its
taking, the look-up, removal, insertion and the assertion at the end are steps, and
`eval_query` is a loop of evaluations of three statements each (`ReadStates`,
`ReadRelations`, `ReadMissing`), for the seed, the walks up and down, and the balance.
`Commit` is one statement of another connection. `ParentQuery`, `EntryQuery` and
`Stack` are what `try_initialize_stack_from_session_cache` and `cache_fetch` ask and
make of the answer.

`SourcesAgree` compares the two where SQLite accepts the statement (`Answerable`): lists of
nodes, relations with listed sinks or sources, and combinations of lists.

Abstracted: kinds of relations are Section and one other; predicates are lists of
nodes, kinds of nodes and relations.

### Site

The values are titles and contents; `disk` is the repository, `session` and `base`
what the two stores say. `ParseNetwork`, `ParseDocument` and `ProcessAsset` write pages
as `parse_next` does, with the pages a document's links resolve to at that moment,
and queue it again for the others; `Finalize`, `WriteListing`, `WriteSitemap`,
`LinkAsset` and `EndFinalize` are `finalize_html` step by step. `Restart` is a new build or
watch over the same output directory, at any step, so also a kill;
`RestartWithoutOutput` finds it emptied.

A build asks a `BeliefBase` for the paths of a network, a watch a `DbConnection`, which
looks for a UUID in a column of Brefs (db.rs:482, 257) and finds none: `AllPaths` is
empty in a watch, and so are its sitemap and its manifest of assets. What a restarted
watch parses first is any part of what has changed (`FirstQueues`), since times are in
seconds.

Abstracted: a page is its title, its live links and, for a network, its listing; the
scheduling is that of `DocumentCompiler` without its limits; edits under a running
watch are not delivered (that is `FileUpdateSyncer`).

### Shards

Each export has a graph; the content of a file follows from its name and the number
of the export that wrote it. `BeginWrite`, `EndWrite`, `FailWrite` and `Killed` write the
files in the order of `export_beliefbase`, each torn in between. The viewer probes for
the manifest, loads the whole graph or global, entry and other shards on demand
(`BeginLoad`, `Answer`, `EndLoad`), with several loads under way, and unloads them;
`Merged` and `Unloaded` are `load_shard` and `unload_shard` of wasm.rs.

Each path map has the networks of `System`: the API, the assets and the external links.
They have shards like the others; the API is a Trace node, so it is in the global shard
whenever an export has it, and every base of the viewer begins with it (`Default`). The
node of an external link, the network of these and the relation between them are Trace, too
(`TraceRelations`); no shard has such a relation, and the two properties leave them out.

Abstracted: sizes in nodes; a search index is one file. A reader asks for the networks of
`Visited` (a bound), not for those of `System`.

## Runs

| Run | Shows | Bounds |
|---|---|---|
| `compiler` | `QueuesDisjoint`, `AttemptsBounded`, `ParseNextProgresses` under a client that calls every operation in any order | two documents that refer to each other, an asset, two attempts: enough for a document in both roles, referring and referred to, and for each limit to be reached with every queue non-empty |
| `parse_all` | returns; nothing left behind; with one job the report is current | a root, a document, a sub-network with a document, an image; cycles, a dangling reference, failing parses; two runs, so that attempts of the first meet the second |
| `syncer` | nothing lost in flight, edits reach the database, every call of `wait_for_idle` sees the generation raised, the pipeline comes to rest | a network, a document that users edit and that a parse may write back, an image; two versions in two seconds; one restart; one waiter; written back only when the events before it are drained (`MaxBehind = 0`) |
| `syncer_faults` | no modification time without nodes, however the events of a parse fall into batches, wherever it crashes and whatever fails; the pipeline comes to rest | edits at any time, one crash at any step, failing parses and commits, a page of the viewer that cannot be written, a closing receiver |
| `belief_base` | a clean index is exact, no relation without both its nodes, sort keys contiguous after removals, every weight has a key, and the base implements `BeliefGraph` | two nodes that point to a third, two kinds of weights, keys 0 and 1: enough for a replacement that merges relations, for removals that move a node in the graph, and for reindexing to have something to order |
| `session` | one parent per node and a network for every document, headings in the order of the text, no two paths alike, stored paths those of the maps | a network, three documents, two headings with one title; six texts of one document and two of another, in which a heading is first, second, nested, gone or in the other document |
| `queries` | base and database agree, whole nodes are whole, the networks above are found, every call ends | two callers and two calls, three questions (the two of a parse and a walk), two statements of commits; six nodes with two levels of networks; pages from the beginning and from an offset that is the last page of some results and behind the end of others |
| `links` | URLs lead where walking them leads, links written by a parse are found again, writing settles, Brefs stay | nine ways to write a link (relative, not normalised, with anchor, to the own document, to a network, by identifier, with a Bref), two links, two changes |
| `identity` | identifiers apart, the table of sections names the nodes and keeps what is noted, anchors keep nodes | two documents, up to three headings of each, four nodes, three changes; a title that is also a document's |
| `reparse_rewrites` | must be violated, see below | two headings |
| `shards` | the base is the loaded shards, the shards are the graph, but for relations between traces | two networks below the API, the network of external links and one of them; a relation between networks, a page that moves from one to the other between two exports, a node in no map; two loads at a time, one failure |
| `site` | listings written, links and sitemap of a build lead to pages, asset pages of a build are their own, the base knows the assets as they are | a repository with a subnetwork, a document and an asset in each way of embedding; two titles and contents, one edit, two runs |

Bounds on versions, changes, waits, calls, runs and restarts are constants and
appear in the guards of the environment only, except `MaxReparse` and
`BALANCE_CUTOFF`, which are the code's own. Two changes are what the properties of
links need (a target moves and another takes its place), three those of headings
(write, write, and copy or strip). In `links`, `shards` and `site` symmetry is used, for two
links alike, the slots of loads, titles and contents: no property of these runs is a
liveness property.

Deadlock checking is off where the system may stop: a pipeline at rest, a finished
batch, a site, viewer, session or author with nothing left to do within the bounds.

Fairness: `parse_all` runs to its end once called (weak fairness of `Run`). In
the watch pipeline each of the two tokio tasks, the debouncer's thread and a
woken caller is scheduled eventually (weak fairness of each as a whole, since
each has one step to take at a time). `select!` looks first at a branch drawn at random,
so the branch of the permit is taken if it is ready again and again (strong fairness of
`CompilerWentIdle`); without it a channel that fills at each turn would keep a caller of
`wait_for_idle` waiting. A caller of
`get_states` goes on (weak fairness of `Serve`): it sleeps in a loop until the lock is
free, and no holder of the lock waits for anything. Edits, crashes, commits and new
calls are not fair.

What the properties leave out, because it does not hold: `EditsReachDatabase` is about
edits made at rest or while the service is down, in another second than the last change
of the file, of documents whose references resolve. `MtimesFollowNodes` is about files
whose nodes the database has never refused, `NothingLostInFlight` about commits that
succeed. `ComesToRest` exempts two things that go on for ever: a document that each
parse writes back, and a page of the viewer that can never be written. `ReportIsCurrent`
holds with one job and for documents whose parses do not fail. `AnchorsKeepNodes`
excludes documents one of whose headings has lost its identifier,
`RewrittenLinksResolve` links to such a heading, `RewrittenLinksResolve` and
`WritingSettles` links to networks. `SourcesAgree` leaves out predicates whose SQL is
refused, `BaseIsLoadedShards` and `ShardsAreTheGraph` relations between Trace nodes of
one network. `LinksLeadToPages` and `AssetPagesAreTheirOwn` are about builds, and these
and `ListingsAreWritten` and `AssetsAreUpToDate` about runs in which no file was edited.
`AncestorsFound` leaves out networks below the first level, `RemovalsCompact`
replacements, `EventsKeepPathsApart` the rebuilding of a map. `OneParent` holds while no
node links to a heading it comes to be the parent of, `AncestorsFound` while no node
that is asked for links to its parent; the texts and links of these runs have neither.
Each of these is described in the next section. Of the type invariants no run checks
`SyncerTypeOK`, `BatchTypeOK` and `QueriesTypeOK`, which are proved instead. What
documents promise and the code does not keep is defined at the ends of the modules; no
run checks these either.

Three properties need a word on what they do not say. `NothingLeftBehind` is about
references that a parse followed; a network that only its child names gets its node
with the child and is never attempted on its own account. `WholeNodesAreWhole` excludes
nodes that are traces: a seed that is committed between the first and the second
statement of its own query comes as one. `ReportIsCurrent` holds in this instance and,
as the proofs show, wherever documents link into networks they are in; it cannot hold
in general, since a reference into networks that become known one below the other
takes one attempt for each, and the limit is fixed.

## Divergences between code and its documentation

`reparse_rewrites` is the run that TLC must find violated: a heading whose identifier
is taken gets its Bref as anchor (builder.rs:1301), the next parse does not find it under
this anchor, makes a new node and writes the file again, against bid_tests.rs:246 and
section_metadata_manifest.md:395.

The others follow from the modules: each names the definition that TLC finds violated
when it is added to a configuration, or says where the case is left out.

Scheduler and watch pipeline:

- With several jobs a document can be in both queues; the second copy uses up its
  attempts before its reference can resolve, and a reference to a parsed document is
  reported as a permanent error (compiler.rs:1018, against :1091). The epoch does not
  test the limit of attempts.
- A second forced `parse_all` skips files whose attempts are used up; the reparse
  priority never has anything to compare, since what waits has been attempted.
- The debouncer returns when the compiler is busy, and with it the batch is gone;
  notify-debouncer-full does not deliver it again, as watch.rs:615 assumes
  (`EditsReachDatabase` with `EditsWhileBusy = TRUE`).
- A document that waits in the reparse queue is not parsed when it is edited, because
  `enqueue` skips it and the queue is stable (`Dangling <- {doc}` makes
  `EditsReachDatabase` fail).
- `notified()` is created after the load of the generation, so a `notify_waiters`
  between the two is missed (watch.rs:472-481, `AdvancedWaitersReturn`).
- The generation is raised while parsed work is not committed (`SignalMeansCommitted`
  with `EditsWhileBusy = TRUE` or `CommitMayFail = TRUE`), against its comment "after
  each successful commit at true pipeline idle": the branch for idle notifications tests
  nothing (watch.rs:1162), the branch for events looks at the flag and then at the
  channel, and the compiler may wake and send in between (1113-1116); both raise it
  after a failed commit, too.
- `finalize_html` reads the database before the events of the round are committed, and
  is not called again (watch.rs:976, `HtmlIsSynchronized`), against compiler.rs:1467
  "Synchronized BeliefBase with all events processed".
- The stale check "ensures modified files are re-parsed on watch service startup", and
  misses three kinds (`StartupFindsModified`): a file whose nodes were committed before
  a crash and its time was not (db.rs:65-80; `CrashesWhileBusy = TRUE`), one that was
  edited between its parse and the draining of its events, since the time is read then
  (db.rs:87; `EditsWhileBusy = TRUE`), and one edited in the second of its last change
  (db.rs:94; `SameSecond = TRUE`). The other way round, `FileParsed` may be committed
  after a transaction with the nodes was refused (watch.rs:1104): the file is then
  remembered without nodes and not read again until it changes (`MtimesFollowNodes`
  without `refused`).
- A document is written back as it was read, over what its author saved in between
  (compiler.rs:521). `ignored_write_paths` is only read when it has just been cleared,
  so the compiler's own write is reported like an edit when it is delivered late: a
  document that every parse rewrites is parsed for ever (`reparse_rewrites` has one).
- When the page of the viewer cannot be written, `finalize` fails and the task calls
  `parse_next` again after a pause, for ever (compiler.rs:1441, watch.rs:1041-1044); it
  stays busy, so the debouncer drops every later edit.

Session, paths and database:

- A deleted heading is never removed: the search goes along sinks and ends at parsed
  nodes (base.rs:622-651, `DeletedHeadingsGo`), against beliefbase_architecture.md:970.
- A node with relations can be without a path: a heading that was deleted keeps its
  relation, another gets its sort key and so the same order, and when the relation of
  one of them goes, the entries of both are removed, being those whose order begins
  like its own (`process_relation_update`, `RelationNodesHavePaths`), against invariant 1.1
  of `built_in_test`.
- The database leaves a `RelationChange` alone to wait for the resolved update, which
  `terminate_stack` does not send (db.rs:162, builder.rs:884, `DbWeights`).
- A map that is built anew can give two headings of one title the same path (base.rs:405).
- An index.md that links to a document of its own network replaces its Section weight;
  a heading moved below one that links to its old document keeps two parents. `MCTexts`
  has neither.
- A document with a table of contents of its own headings: its Section relation to a
  heading and its link to it are two kinds of weights of one pair. When the links go, the
  session keeps them (`LinksAsText` with `Texts <- MCListing`): phase 5 of `compute_diff`
  goes through the kinds that the new weights of a pair have and phase 3 through the
  pairs that are gone (base.rs:783), against base.rs:533 "generates a consolidated set of
  events representing their differences". Likewise a heading that moves below another,
  while the document still links to it, keeps the document as its second parent
  (`OneParent` with the same texts).
- The rename map maps the new identifier to itself (builder.rs:424). Removing nodes leaves
  their relations and paths in the database (db.rs:205).

Identity and the table of sections:

- For a known node the payload of the session wins over the table
  (belief_ir.rs:417-437, md.rs `merge_metadata_into_node`): an author's change or removal of
  a field is ignored by the node, and when the table is built anew the old value is
  written over the author's, against section_metadata_manifest.md:52 "Single Source of
  Truth". `SectionsNameNodes` therefore compares whether there is a note, not which.
- A heading whose identifier is its Bref takes another heading's notes by their title.
- A new heading without anchor above one whose anchor is the slug of its title takes the
  node of that heading; after a loss of the database the Bids of the table are not used.
- A heading that lost its identifier keeps the path of its title and takes over
  another's explicit anchor. The branch builder.rs:1222 is never taken for headings.

Links:

- A link whose target has moved is not rewritten and loses its relation: the keys of the
  target are those of its new path, the link's that of the old one (md.rs:571,
  `LinksSurviveMoves`), against README.md:89 "Links survive file renames and moves" and
  link_format.md:278.
- A link to a heading that lost its identifier is written with its Bref as anchor
  (md.rs:605), while the path map has the slug of its title (pathmap.rs:129-142); the
  next parse does not find it and the relation is gone (`HeadingLinksResolve`), against
  md.rs:593 "canonical format: [text](relative/path.md#anchor ...)". The text stays.
- A link to a network is rewritten to its directory, which the next parse takes for an
  identifier if it is one word (nodekey.rs:584-605, `NetworkLinksStay`); a link to its
  index.md is resolved and never rewritten.

Queries:

- The assertion at watch.rs:554 fails when another caller has taken the lock
  (`NobodyPanics`). Results in the cache are not dropped by commits; pages lose the
  relations that cross them; `count - start` underflows for an offset beyond the end
  (graph.rs:798); a balance ends at `BALANCE_CUTOFF` with what it has.
- In memory, intersections and differences bring nodes back with their relations
  (graph.rs:632, :663), so `DyadsContain` is an inclusion. A test of kinds is a superset
  in memory and an equality of bits in SQL; an inverted list of Bids ignores the
  inversion in memory, a network's list of paths ignores the network in SQL, a payload
  predicate is an empty condition there; several kinds of weights mean any of them in
  memory, all in SQL.
- The first expression of a balance is about relations of every kind (query.rs:626). A
  document that links to its parent makes this the source of a relation, so nothing is
  asked for and what is above the parent is missing (`ResultsAreBalanced` and
  `AncestorsFound` with `Links` and `Changing` as `MCLinkToParent`), against
  query.rs:608 "This will keep querying the BeliefSource until the provided set returns
  an empty option for build_balance_expr": a parse of what is in such a document does
  not find its way from the repository.
- The path map of the repository ends at its subnetworks, so for a network two or more
  levels down a parse finds no order and takes the repository alone for its stack: the
  document becomes a child of the repository (pathmap.rs:906-932, builder.rs:2098),
  against builder.rs:2077 "to collect any deeper subnet chain".
- The SQL of `RelationPred::Kind` has a pair of kind and weight in the place of a column
  and no space before `UNION`, that of `NodeIn` whole statements in a `WHERE`
  (query.rs:471-496): a database answers both with an error
  (`EveryPredicateIsAnswered`). `StatePred::NetPathIn` compares a UUID with the Brefs of
  `paths.net` (query.rs:404).

Site and shards:

- `get_all_paths` of the database binds the UUID of a network (db.rs:482) and the column
  `paths.net` has Brefs (db.rs:257): in a watch the sitemap is empty and no asset is
  linked (compiler.rs:1481-1491, 2243; `SitesOfWatchesAreComplete`), against compiler.rs
  "Sitemap generation (needs all document paths from global_bb)".
- In a watch, listings of networks that were parsed before are not refreshed, an edited
  asset is not hashed again until it is restarted, and pages of removed documents stay.
  `ProtoIndex` is built once, so documents created during a watch have no sort key. The
  in-memory source lists a subnetwork's directory and its index.md, so a build has two
  entries for it in the sitemap.
- The relation of an external link's node to the network of these (builder.rs:1556-1577)
  is in no shard: both are Trace nodes of one network, so it is neither between networks
  nor one of a node that a network's shard has (export.rs:359-367,
  `EveryRelationIsExported`). The same definition fails for assets: they are no Trace
  nodes and go to the shard of their network, where the comment of `partition_graph`
  says "global".
- An export below the threshold leaves the manifest of an earlier one, which the viewer
  prefers (`ManifestOnlySharded`), against manifest.rs "this file only exists in sharded
  mode".
- The budget is looked at before the request and not when the answer comes
  (`BudgetKept`), against search_and_sharding.md:26. A node of a subnetwork goes to the
  first network in the order of Bids whose map has it, so a page found in a network's
  index need not be in its shard (`FoundPagesLoad`), against search_and_sharding.md:339.
  A shard that cannot be read on a reload is gone from the base and still shown as
  loaded.

## Proofs

`DocumentCompilerProofs` proves, for every set of documents, links, networks and
every limit (`CompilerAssumption`):

- `TypeCorrect`, `QueuesStayDisjoint`, `AttemptsStayBounded`, from the invariant
  `Inv`. `QueuesDisjoint` alone is not inductive: a reparse moves a document from
  one queue to the end of the other, so `Inv` adds that each queue is free of
  duplicates, as injective sequences, and the argument is about what `Without`,
  `Append` and concatenation with an ordering of fresh paths do to injectivity and
  range (`WithoutProperties`, `OrderingsProperties`, `ConcatProperties`).
- `ParseNextAlwaysProgresses`, an action property: each of the five returns
  counts an attempt or takes the path out of the queues.

The same module proves of `parse_all`, with any documents, failing parses and number of
runs:

- `SequentialStaysSafe`: with one job the queues stay disjoint and the attempts bounded. Its
  steps are steps of the open system or stutters, so the scheduler's invariant carries over
  (`NextInv`).
- `BatchTypeCorrect` and `FinishedRunsLeaveNothing`, with any number of jobs. With several
  the queues are not disjoint, so `Inv` is of no use; `BatchInv` keeps of it what is true
  of each queue, and adds that whatever was followed is attempted or queued
  (`PendingPursued`). The drain of the epoch takes paths out of the queue unattempted:
  the invariant survives because then nothing is pending (`NothingUnmet`).
- `OkReportsAreCurrent`: a document whose last result is good has no unresolved reference,
  at any moment and with any number of jobs, since nothing known is forgotten.
- `ReportsAreCurrent`: with one job the warnings are right as well, so `ReportIsCurrent`.
  Its hypotheses are that documents link into networks they are in (`LinksStayNear`: the
  own network, what is above, and networks directly below) and that a path may be
  attempted twice; the default is three times. With one attempt the claim is false. The
  argument (`SequentialInv`): what a document in the reparse queue misses is attempted or
  in the primary queue; a document is parsed from the reparse queue only when the primary
  queue is empty; then all it misses was attempted and failed, and from there on the
  session learns nothing (`OnlyKnownAssets`, `LateStays`). A document at its last attempt
  was parsed before and is therefore in the reparse queue (`Settled`,
  `LastAttemptIsLate`), so its last result is final.

`BeliefBaseProofs` proves, for any finite set of nodes, any kinds and owners
(`EdgesAssumption`, `RelatedAssumption`):

- `IndexIsExact` and `RelationsHaveStatesAlways`, from `IndexInv`. A clean index
  stays exact only because rebuilding gives each node one position, which needs
  that no node is in the graph twice and none without a state; `IndexInv` says
  so, and that relations have both ends in the graph. The lemmas are about what
  appending missing nodes and swap-removal do to a sequence without duplicates
  (`AppendMissing`, `SwapRemoved`), and about what each operation leaves of a
  graph (`ReindexedGraph`, `UpdatedGraph`, `RemovedGraph`, `ReplacedGraph`).
- `Refinement`: the base implements `BeliefGraph`. With an exact index every
  look-up finds the node that was asked for (`FindsItself`), so each event is the
  abstract one or changes nothing (`StepKeepsAndImplements`).
- `TypesAreKept`: every weight has its key and owner, relations have nodes for ends, and
  the index has positions. `RemovalsAlwaysCompact`: renumbering gives a sink with `n`
  weights the keys 0 to `n - 1`, for any number of weights with any keys, equal ones
  included (`RemovedWeights` and the lemmas before it, by the smallest weight that would
  be numbered wrongly).

The same module proves of the watch pipeline, the other client, for any number of files,
versions, crashes and waiters:

- `PipelineKeepsScheduler`, from `SyncerInv`: types, and the scheduler's invariant, by
  way of `NextInv`: the pipeline is another client of the open system.
- `MtimesAlwaysFollowNodes`, from `MtimesInv`: a modification time is remembered only of
  files whose nodes the database has or was offered and refused, whatever fails and
  wherever the process dies. The invariant follows the two events of a parse: when
  `FileParsed` is in the channel or its time is read, the nodes are before it there, in
  the batch, in the database, or in `refused`.
- `NothingIsLostInFlight`, if commits do not fail (with a failing commit it is false),
  from `FlightInv`: the version last parsed is the newest one (`Newest`) in what is
  staged followed by the channel, and that of the database when there is none. The
  lemmas say what `Newest` is of a concatenation, and of nothing.

`QueriesProofs` proves, for any nodes and relations, any commits between the statements
and any number of callers:

- `WholeNodesStayWhole`: every call carries a graph that is sound relative to the
  relations that were there all the time (`kept`), statement by statement (`CallOK`,
  `ReadOK`, `EvaluationOK`). These are monotone: a commit makes `kept` smaller and the
  tables other, and no call notices. The lemmas are those of the algebra: union,
  filtering and pagination of sound graphs are sound.
- `SourcesAlwaysAgree`: the agreement of memory and SQL, where the database answers,
  holds for every content the tables may have, and so for that of every state
  (`StatesAlwaysAgree`, `RelationsAlwaysAgree`, `UnionsAlwaysAgree`,
  `DyadsAlwaysContain`).
- `QueriesStayTyped`: among others, no node is whole and trace at a time.
- `ChainsAreComplete`: a query for one node, with no walk, brings the whole chain of
  Section relations above it, as far as it was there all along, and so the way from the
  repository that `Stack` needs. `AncestorsAreFound` states it as `AncestorsFound` where
  all queries are of this kind. The hypotheses: there is a `depth` of nodes, smaller for
  a parent and at most `BALANCE_CUTOFF` (`Shallow`), and the node does not link to its
  parent (`LinksNoParent`, without which it is false, see above). The argument
  (`Climbing`): a node with something above it is done, that is, its relations are read,
  or is among what is asked for next; so what is not done is one step less deep after
  each statement, and the loop ends either with nothing left or after as many statements
  as there are steps. The invariant is monotone in `kept`, as that of soundness.

`LinksProofs` proves, for any names, documents, titles and ways to write a link
(`PathsAssumption`, `LinksAssumption`):

- `NormalizeWalks`: `normalize`, which counts the `..` that it has put off, gives the
  path that one reaches by walking component by component. Induction over the path is
  replaced by the smallest path for which a step of the count would go wrong.
- `PathToLeads`: the relative path made by `path_to`, joined to where it begins, is
  where it should lead, with its anchor: as many `..` as the rest of the first path has
  components take one back to the common directory (`WayBack`).
- `CanonicalResolves`: the link that a parse writes for a document or for a heading that
  has its identifier is resolved to it, whatever titles are known, if no two documents
  are at one path. For a heading of `Lost` it is false.
- `LinksTypeCorrect`, `UrlsLead`, `RewrittenLinks`, `WritingIsSettled` and
  `BrefsAreKept`: the properties of the run `links`, from the invariant `Inv`. The
  properties about rewritten links are not inductive: they speak of the moment of the
  last parse, and files move. `FreshInv` says what a link is while nothing has moved
  since it was written, `SettledInv` that it is then the canonical one, which the next
  parse reads as the same and writes as the same.

`IdentityProofs` proves, for any documents, titles, notes and numbers of headings
(`IdentityAssumption`):

- `IdentityTypeCorrect`, `IdentifiersStayApart` and `SectionsAlwaysNameNodes`, from the
  invariant `IInv`. `IdsApart` is about the documents that are as they were parsed; it
  depends on nodes that no text has any more, which a parse may find again by their
  path. `Coherent` says what holds of all nodes of the session and of the `id_map` at
  any time: the identifier that is stored of a node is a title or its Bref, its current
  one is the stored one or its Bref (`OwnNames`), no two nodes have one stored
  (`Apart`), and what the map has for a document is its title, which no heading has then
  (`DocsKeep`). `AnchorsOK` says which anchors a text can have, `TableOK` where a table
  of sections may lead, and of documents that are as they were parsed `FreshOK` and
  `TableNames` say that they have their title and that the table names their headings.
- The argument for a parse goes along its phases. The claims of a document differ
  (`ClaimsApart`). What push makes of the headings fits what is claimed (`Fits`,
  `PushedOK`): new nodes have the next numbers, each node is pushed once, and an
  identifier that another node or document holds is never given (`Only`, `Holder`). So
  the session with the new nodes is coherent (`UpdatedCoherent`); hearing a relation
  changes the path of a node only (`HearingIs`, `HeardCoherent`); a document that takes
  its identifier from a heading makes that heading's document not fresh (`ClobberedIs`).
- `AnchorsAlwaysKeepNodes`, an action property, from `AInv` on top of `IInv`: push looks
  for a node by its path, so what is needed is that the paths of a document are its
  identifiers (`Placed`), as long as none of its nodes has lost its own. Hearing a
  relation gives a node its Bref for a path when another node of the document has that
  path, which cannot be then (`HearingPlaces`). An identifier that was lost never comes
  back, because a document has it (`LostOK`, `KeptBefore`); otherwise the condition
  could hold again while the paths are still those of the time of the loss.
- What a parse does to a text of any length is a function by recursion over its headings
  (`Claiming`, `Pushing`, `Hearing`). `RecursionExists` of `OrderLemmas` says that such
  a function exists, and induction over the headings is replaced by the first at which a
  claim would fail.

`ShardsProofs` proves `ShardsAreAlwaysTheGraph` and `PagesHoldTheirShards`, for all graphs:
of a graph `ShardsAssumption` says only that its API node is a Trace node and that nodes are
in networks of it. The second is not inductive: it is about pages whose shards are all of
one export, and a page may hold shards of two and then unload those of one. `HoldsShards`
says of every two shards of the same export that the relations between them are in the
base, `PageInv` that a page that has loaded anything has the global shard, and with it the
API node (`ApiIsGlobal`, `GlobalStays`).

`SiteProofs` proves `ListingsAreAlwaysWritten`, `LinksAlwaysLeadToPages`,
`AssetPagesStayTheirOwn` and `AssetsStayUpToDate`, from `SiteInv`, which is made of
parts that each step disturbs in its own way: the session has every asset of the base
(`SessionInv`), what is copied in a finalization is filed under its own hash
(`AssetInv`), networks that were parsed are kept for their listing (`ListingInv`), the
base of a build gets everything at once (`BuildInv`), and without edits what a parsed
network contains is parsed or queued and a page that lacks a link is written again
(`QuietInv`). `SiteAssumption` says for it that networks contain each other without a
cycle and that the values for nothing, for the sentinel and for contents differ.

`OrderLemmas` has the smallest and the largest member of a set of numbers and the
smallest subset with a property, from the well-foundedness of the order: the induction
theorems of the library cannot be used here. With these it shows that functions defined
by recursion over the positions of a sequence exist (`RecursionExists`), for `LinksProofs`
and `IdentityProofs`.

Only model-checked: `AncestorsFound` for queries of several nodes or with walks;
`Reconcile`, whose transitions are folds over texts, relations and
the entries of path maps, each an induction over data; and the liveness properties
(fairness is out of the prover's reach).

## Not modelled

- `CachedBeliefSource`: its only caller is `parse_all`, which wraps a snapshot; nothing
  changes behind it, and `invalidate_for_events` has no caller outside its tests.
- `set_networks`, `disable_network_syncer` and several networks in one service.
- The order of edges inside petgraph, on which the walk of `replace_bid` depends
  (base.rs:1626), and the wrap-around of sort keys at 16 bits.
- `on_file_deleted` has no caller: it is an action of `DocumentCompiler`, the watcher
  filters removals out.
- The dev server, whose stream of events skips the second shutdown notification
  (dev_server.rs:208) and whose clients and shutdown are an HTTP library's; rendering,
  navigation and search in the browser; templates and search indices; command line,
  configuration and logging; Markdown events, characters of paths and keys, schema
  registries, which tests with generated inputs cover better.

## Next

1. Proofs about `Reconcile` (`OneParent`, `OrderAsText`), with its folds as functions by
   recursion, as in `IdentityProofs`.
2. The edge lists of petgraph under `replace_bid`; nested networks in `Reconcile`.
3. Several networks in the watch service.
