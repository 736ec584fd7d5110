-------------------------------- MODULE Site --------------------------------
(***************************************************************************)
(* The HTML site: the pages a compiler writes while it parses (phase 1),    *)
(* and what finalize_html derives afterwards from the base: the listings    *)
(* of the networks' pages, the sitemap and the assets (phase 2).  A "build" *)
(* is one noet parse with a fresh compiler and an empty base; a "watch"     *)
(* keeps the base over restarts and finalizes whenever it has nothing left  *)
(* to parse.  The output directory outlives both.                           *)
(***************************************************************************)
EXTENDS Naturals, FiniteSets, Functions

CONSTANTS
    Root, Subs,         \* the network of the repository, its subnetworks
    Docs, Assets,       \* the documents, the files they embed
    Home,               \* the network each document and subnetwork is in
    Refs,               \* the pages a document links to, the assets it embeds
    Titles, Contents,   \* what a page, an asset can hold
    Absent, Sentinel,
    Modes,              \* "build", "watch"
    MaxEdits, MaxRuns   \* bounds

Nets == {Root} \cup Subs
Pages == Nets \cup Docs
Sources == Pages \cup Assets
Values == Titles \cup Contents
Nothing == [x \in Sources |-> Absent]

\* Directories nest, so that no subnetworks are only in each other.  Absent and
\* Sentinel are no title, content, page or listing.
ASSUME SiteAssumption ==
    /\ Root \notin Subs /\ Nets \cap Docs = {} /\ Pages \cap Assets = {}
    /\ Home \in [Docs \cup Subs -> {Root} \cup Subs]
    /\ \A S \in (SUBSET Subs) \ {{}} : \E s \in S : Home[s] \notin S
    /\ Refs \in [Docs -> SUBSET (Docs \cup Subs \cup Assets)]
    /\ Modes \subseteq {"build", "watch"}
    /\ Absent /= Sentinel /\ Absent \notin Values
    /\ Absent \notin [title : Values, live : SUBSET Pages]
    /\ \A S \in SUBSET ((Docs \cup Subs) \X Titles) : S \notin {Absent, Sentinel}

VARIABLES
    mode, phase,        \* what runs, and what it is doing
    disk,               \* the repository
    queue, again,       \* primary_queue, reparse_queue
    processed,          \* the sources this compiler has parsed or read
    session,            \* what session_bb says of each source
    news,               \* sources with events on their way to the base
    base,               \* what the base (global_bb) says of each source
    deferred,           \* deferred_html
    todo, copied,       \* the rest of a loop of finalize_html; its copied files
    pages,              \* pages/: the title of each page, its links to pages
    listings,           \* pages/: the listing in the page of each network
    sitemap,            \* sitemap.xml
    static,             \* static/: the content filed under each hash
    linked,             \* pages/: the file under static/ each asset is a link to
    quiet, settled,     \* no edit in this run; every event applied at the end
    edits, runs         \* bounded

repository == <<disk, quiet, edits>>
compiler == <<queue, again, processed, session, deferred>>
output == <<pages, listings, sitemap, static, linked>>
vars == <<mode, phase, repository, compiler, news, base, todo, copied, output,
          settled, runs>>

(***************************************************************************)
(* An output directory without pages.                                       *)
(***************************************************************************)
EmptyOutput ==
    /\ pages = [p \in Pages |-> Absent]
    /\ listings = [n \in Nets |-> Absent]
    /\ sitemap = {}
    /\ static = [c \in Contents |-> Absent]
    /\ linked = [a \in Assets |-> Absent]

Fresh(first) ==
    /\ queue = first
    /\ again = {}
    /\ processed = {}
    /\ session = Nothing
    /\ deferred = {}

Init ==
    /\ mode \in Modes
    /\ phase = "parse"
    /\ disk \in {d \in [Sources -> Values \cup {Absent}] :
                    /\ \A p \in Nets : d[p] \in Titles
                    /\ \A p \in Docs : d[p] \in Titles \cup {Absent}
                    /\ \A a \in Assets : d[a] \in Contents}
    /\ Fresh({Root})
    /\ EmptyOutput
    /\ base = Nothing
    /\ news = {} /\ todo = {} /\ copied = {}
    /\ quiet = TRUE /\ settled = FALSE
    /\ edits = 0 /\ runs = 1

\* Mutant: nothing is loaded.
NoAssets(s) == s

(***************************************************************************)
(* The first parse of a compiler loads the assets the base knows.           *)
(***************************************************************************)
AssetsOfBase(s) ==
    IF \E a \in Assets : s[a] /= Absent THEN s
    ELSE [x \in Sources |-> IF x \in Assets THEN base[x] ELSE s[x]]

(***************************************************************************)
(* A parsed network lists its files; those of which neither the session nor *)
(* the base has a node are enqueued.  In a build the base that parses see   *)
(* is the empty one the run began with.                                     *)
(***************************************************************************)
Resolved(x) == session[x] /= Absent \/ (mode = "watch" /\ base[x] /= Absent)
NewFiles(n) == {x \in Docs \cup Subs : Home[x] = n /\ disk[x] /= Absent /\ ~Resolved(x)}

(***************************************************************************)
(* A document with unresolved references is parsed again after what it      *)
(* waits for (once here: DocumentCompiler has the rounds and their limits). *)
(* Of these, files that exist in a network the session knows are enqueued,  *)
(* and every asset not read yet.                                            *)
(***************************************************************************)
Unresolved(d) == {x \in Refs[d] : ~Resolved(x)}
Wanted(d) == {x \in Unresolved(d) \cup (Refs[d] \cap Assets) :
                /\ x \notin processed
                /\ x \in Pages => disk[x] /= Absent /\ session[Home[x]] /= Absent}
Awaited(d) == {x \in Unresolved(d) \ processed : x \in Pages => disk[x] /= Absent}

\* render_html_body: only a resolved link carries the bref by which its target
\* is turned into the target's page.
Page(d) == [title |-> disk[d], live |-> (Refs[d] \cap Pages) \ Unresolved(d)]
PageOfNetwork(title) == [title |-> title, live |-> {}]

\* Mutant: a document is not parsed again.
WaitsNot(p, wanted) == again \ {p}

Waits(p, wanted) == IF wanted = {} THEN again \ {p} ELSE again \cup {p}

\* The entry point, the network of the repository, is the first in the queue.
Turn(x) == phase = "parse" /\ (x = Root \/ session[Root] /= Absent)

(***************************************************************************)
(* parse_next on a network: its page is written with the sentinel in the    *)
(* place of the listing, and the network is kept for phase 2.               *)
(***************************************************************************)
ParseNetwork(n) ==
    /\ Turn(n) /\ n \in IF queue = {} THEN again ELSE queue
    /\ session' = [AssetsOfBase(session) EXCEPT ![n] = disk[n]]
    /\ news' = news \cup {n}
    /\ pages' = [pages EXCEPT ![n] = PageOfNetwork(disk[n])]
    /\ listings' = [listings EXCEPT ![n] = Sentinel]
    /\ deferred' = deferred \cup {n}
    /\ processed' = processed \cup {n}
    /\ queue' = (queue \ {n}) \cup (NewFiles(n) \ processed)
    /\ again' = Waits(n, NewFiles(n) \ processed)
    /\ UNCHANGED <<mode, phase, repository, base, todo, copied,
                   sitemap, static, linked, settled, runs>>

(***************************************************************************)
(* parse_next on a document: its page is written at once.  A document that  *)
(* is gone fails.                                                           *)
(***************************************************************************)
ParseDocument(d) ==
    /\ Turn(d)
    /\ d \in IF queue = {} THEN again ELSE queue
    /\ processed' = processed \cup {d}
    /\ IF disk[d] = Absent
       THEN /\ queue' = queue \ {d} /\ again' = again \ {d}
            /\ UNCHANGED <<session, news, pages>>
       ELSE /\ session' = [AssetsOfBase(session) EXCEPT ![d] = disk[d]]
            /\ news' = news \cup {d}
            /\ pages' = [pages EXCEPT ![d] = Page(d)]
            /\ queue' = (queue \ {d}) \cup Wanted(d)
            /\ again' = Waits(d, Awaited(d))
    /\ UNCHANGED <<mode, phase, repository, base, deferred, todo, copied, listings,
                   sitemap, static, linked, settled, runs>>

(***************************************************************************)
(* process_asset: the content is hashed, and published when the session     *)
(* has another hash for the path or none.                                   *)
(***************************************************************************)
ProcessAsset(a) ==
    /\ Turn(a) /\ a \in queue
    /\ queue' = queue \ {a}
    /\ processed' = processed \cup {a}
    /\ IF disk[a] \in {Absent, session[a]} THEN UNCHANGED <<session, news>>
       ELSE /\ session' = [session EXCEPT ![a] = disk[a]]
            /\ news' = news \cup {a}
    /\ UNCHANGED <<mode, phase, repository, again, base, deferred, todo, copied,
                   output, settled, runs>>

\* generate_spa_shell takes the title of the site from the session.
HasShell == session[Root] /= Absent

(***************************************************************************)
(* Nothing left to parse: finalize enqueues the assets the session has but  *)
(* this compiler has not read, and only then is parsing over.  A build      *)
(* then closes the channel and waits until every event is applied; a watch  *)
(* goes on with whatever the base has.                                      *)
(***************************************************************************)
Finalize ==
    /\ phase = "parse" /\ queue = {} /\ again = {}
    /\ LET unread == {a \in Assets : session[a] /= Absent} \ processed
       IN  IF unread /= {} THEN queue' = unread /\ UNCHANGED <<phase, todo, settled>>
           ELSE /\ phase' = CASE ~HasShell -> "failed"
                              [] HasShell /\ mode = "build" -> "drain"
                              [] OTHER -> "listings"
                /\ todo' = deferred
                /\ settled' = (mode = "build" \/ news = {})
                /\ UNCHANGED queue
    /\ UNCHANGED <<mode, repository, again, processed, session, deferred, news, base,
                   copied, output, runs>>

Applied == [x \in Sources |-> IF x \in news THEN session[x] ELSE base[x]]

Drain ==
    /\ phase = "drain"
    /\ phase' = "listings"
    /\ base' = Applied /\ news' = {}
    /\ UNCHANGED <<mode, repository, compiler, todo, copied, output, settled, runs>>

\* A watch's transaction task commits at any time.
Commit ==
    /\ mode = "watch" /\ news /= {}
    /\ base' = Applied /\ news' = {}
    /\ UNCHANGED <<mode, phase, repository, compiler, todo, copied, output, settled,
                   runs>>

(***************************************************************************)
(* generate_deferred_html: the children of a network in the base, into its  *)
(* page.                                                                    *)
(***************************************************************************)
Children(n) == {<<x, base[x]>> : x \in {y \in Docs \cup Subs :
                                          Home[y] = n /\ base[y] /= Absent}}

\* Mutant: a page that exists is left alone.
InPlaceOfNone(listing, children) == IF listing = Absent THEN children ELSE listing

\* A listing replaces the sentinel, or is the page that is missing.
InPlace(listing, children) ==
    IF listing \in {Sentinel, Absent} THEN children ELSE listing

WriteListing(n) ==
    /\ phase = "listings" /\ n \in todo
    /\ todo' = todo \ {n}
    /\ IF base[n] = Absent THEN UNCHANGED <<pages, listings>>
       ELSE /\ listings' = [listings EXCEPT ![n] = InPlace(@, Children(n))]
            /\ pages' = IF listings[n] = Absent THEN [pages EXCEPT ![n] = PageOfNetwork(base[n])]
                        ELSE pages
    /\ UNCHANGED <<mode, phase, repository, compiler, news, base, copied, sitemap,
                   static, linked, settled, runs>>

(***************************************************************************)
(* get_all_paths: a build's BeliefBase has the paths of a network.  A       *)
(* watch's DbConnection looks for the network's UUID in a column of Brefs,  *)
(* and never finds any.                                                     *)
(***************************************************************************)
AllPaths(targets) == IF mode = "build" THEN targets ELSE {}

(***************************************************************************)
(* generate_sitemap: every document the base reaches from the repository's  *)
(* network, with the index pages of the subnetworks; then the manifest of   *)
(* assets is taken from the base.                                           *)
(***************************************************************************)
Reached == {x \in Docs \cup Subs :
              /\ base[Root] /= Absent /\ base[x] /= Absent
              /\ base[Home[x]] /= Absent}

WriteSitemap ==
    /\ phase = "listings" /\ todo = {}
    /\ sitemap' = AllPaths(Reached)
    /\ phase' = "assets"
    /\ todo' = AllPaths({a \in Assets : base[a] /= Absent})
    /\ copied' = {}
    /\ UNCHANGED <<mode, repository, compiler, news, base, pages, listings, static,
                   linked, settled, runs>>

\* Mutant: what is already filed under the hash is not copied again.
CopiesMissing(hash) == static[hash] = Absent

\* Each hash is copied once in a finalization, over what is filed under it.
Copies(hash) == hash \notin copied

(***************************************************************************)
(* create_asset_hardlinks, one asset of the manifest (in the order of their *)
(* paths, any order here): the first path with a hash has its file copied   *)
(* over the one filed under the hash, then the asset's page is linked to    *)
(* it.  The hash is the session's, and a session without the asset ends the *)
(* whole of finalize_html.                                                  *)
(***************************************************************************)
LinkAsset(a) ==
    LET hash == session[a]
    IN  /\ phase = "assets" /\ a \in todo
        /\ IF hash = Absent
           THEN phase' = "failed" /\ UNCHANGED <<todo, copied, static, linked>>
           ELSE /\ todo' = todo \ {a}
                /\ UNCHANGED phase
                /\ IF Copies(hash) /\ disk[a] = Absent
                   THEN UNCHANGED <<copied, static, linked>>
                   ELSE /\ copied' = copied \cup {hash}
                        /\ static' = IF Copies(hash) THEN [static EXCEPT ![hash] = disk[a]]
                                     ELSE static
                        /\ linked' = [linked EXCEPT ![a] = hash]
        /\ UNCHANGED <<mode, repository, compiler, news, base, pages, listings,
                       sitemap, settled, runs>>

EndFinalize ==
    /\ phase = "assets" /\ todo = {}
    /\ phase' = "idle"
    /\ UNCHANGED <<mode, repository, compiler, news, base, todo, copied, output,
                   settled, runs>>

-----------------------------------------------------------------------------
(***************************************************************************)
(* The author: a build may find any change at any time; a watch is told of  *)
(* changed documents and networks (deletions and changes under a running    *)
(* compiler are FileUpdateSyncer's), never of changed assets.               *)
(***************************************************************************)
Edit(x, v) ==
    /\ edits < MaxEdits /\ disk[x] /= v
    /\ v = Absent => x \in Docs /\ mode = "build"
    /\ edits' = edits + 1
    /\ disk' = [disk EXCEPT ![x] = v]
    /\ IF mode = "watch" /\ x \in Pages
       THEN /\ phase \in {"idle", "failed"}
            /\ phase' = "parse"
            /\ queue' = queue \cup {x}
            /\ UNCHANGED quiet
       ELSE /\ quiet' = FALSE
            /\ UNCHANGED <<phase, queue>>
    /\ UNCHANGED <<mode, again, processed, session, news, base, deferred, todo, copied,
                   output, settled, runs>>

Author ==
    \/ \E x \in Pages : \E v \in Titles \cup {Absent} : Edit(x, v)
    \/ \E a \in Assets : \E v \in Contents : Edit(a, v)

\* What changed since the base was told.
Stale == {x \in Sources : base[x] /= Absent /\ disk[x] /= base[x]}

\* check_stale_files compares seconds, and does not see what changed in the
\* second of its last parse (FileUpdateSyncer has the clock).
FirstQueues == IF mode = "build" THEN {{Root}}
               ELSE {{Root} \cup seen : seen \in SUBSET Stale}

(***************************************************************************)
(* The next build (an empty base), or the watch started again, from rest or *)
(* after it was killed: events not applied are gone, the base is not.       *)
(***************************************************************************)
Restart ==
    /\ runs < MaxRuns /\ runs' = runs + 1
    /\ mode = "build" => phase \in {"idle", "failed"}
    /\ phase' = "parse"
    /\ queue' \in FirstQueues
    /\ again' = {} /\ processed' = {} /\ deferred' = {}
    /\ session' = Nothing
    /\ base' = IF mode = "build" THEN Nothing ELSE base
    /\ news' = {} /\ todo' = {} /\ copied' = {}
    /\ quiet' = TRUE /\ settled' = FALSE
    /\ UNCHANGED <<mode, disk, edits, output>>

\* The output directory is removed between two runs, and the next one starts.
RestartWithoutOutput ==
    /\ phase = "idle" /\ runs < MaxRuns /\ runs' = runs + 1
    /\ phase' = "parse"
    /\ queue' \in FirstQueues
    /\ again' = {} /\ processed' = {} /\ deferred' = {}
    /\ session' = Nothing
    /\ base' = IF mode = "build" THEN Nothing ELSE base
    /\ news' = {} /\ todo' = {} /\ copied' = {}
    /\ quiet' = TRUE /\ settled' = FALSE
    /\ pages' = [p \in Pages |-> Absent]
    /\ listings' = [n \in Nets |-> Absent]
    /\ sitemap' = {}
    /\ static' = [c \in Contents |-> Absent]
    /\ linked' = [a \in Assets |-> Absent]
    /\ UNCHANGED <<mode, disk, edits>>

Next ==
    \/ \E n \in Nets : ParseNetwork(n) \/ WriteListing(n)
    \/ \E d \in Docs : ParseDocument(d)
    \/ \E a \in Assets : ProcessAsset(a) \/ LinkAsset(a)
    \/ Finalize \/ Drain \/ Commit \/ WriteSitemap \/ EndFinalize
    \/ Author \/ Restart \/ RestartWithoutOutput

Spec == Init /\ [][Next]_vars
-----------------------------------------------------------------------------
(***************************************************************************)
(* When a build, or a watch whose base had every event, has finalized the   *)
(* site, no network whose page it wrote is left with the sentinel, and a    *)
(* build's listings show the children with their titles of now.             *)
(***************************************************************************)
ListingsAreWritten ==
    phase = "idle" /\ settled =>
        \A n \in deferred :
            /\ listings[n] /= Sentinel
            /\ mode = "build" /\ quiet => listings[n] =
                 {<<x, disk[x]>> : x \in {y \in Docs \cup Subs :
                                            Home[y] = n /\ disk[y] /= Absent}}

(***************************************************************************)
(* Whatever earlier runs left in the output directory, after a build during *)
(* which nobody edited, the sitemap names every document there is, and no   *)
(* other, each page it names shows the document's title of now, and every   *)
(* link to a page of the repository leads to it, although pages are written *)
(* while most of their targets are unknown: the documents with links to     *)
(* come were parsed, and written, again.                                    *)
(***************************************************************************)
LinksLeadToPages ==
    phase = "idle" /\ mode = "build" /\ quiet =>
        /\ sitemap = {x \in Docs \cup Subs : disk[x] /= Absent}
        /\ \A x \in sitemap : pages[x] /= Absent /\ pages[x].title = disk[x]
        /\ \A d \in Docs : \A x \in Refs[d] \cap Pages :
              disk[d] /= Absent /\ disk[x] /= Absent => x \in pages[d].live

(***************************************************************************)
(* After a build during which no file was edited, every asset a document    *)
(* embeds is found in pages/ with its own content: not that of another file *)
(* once filed under the same hash, although copies are shared, overwritten  *)
(* and kept over runs.                                                      *)
(***************************************************************************)
AssetPagesAreTheirOwn ==
    phase = "idle" /\ quiet /\ mode = "build" =>
        \A a \in Assets :
            base[a] /= Absent =>
                linked[a] /= Absent /\ static[linked[a]] = disk[a]

(***************************************************************************)
(* A run during which no asset was edited, and whose events were all        *)
(* applied, leaves the base with the content of every asset it knows, also  *)
(* of those that changed before it and that neither the times of the files  *)
(* nor a parsed document points to: a watch starts with the assets of its   *)
(* base, and finalize has each of them read once.                           *)
(***************************************************************************)
AssetsAreUpToDate ==
    phase = "idle" /\ quiet /\ settled =>
        \A a \in Assets : base[a] \in {Absent, disk[a]}

-----------------------------------------------------------------------------
(***************************************************************************)
(* What the comments say and the code does not do.                          *)
(***************************************************************************)

\* finalize_html: "Sitemap generation (needs all document paths from
\* global_bb)", "Called by finalize() for watch service (has DbConnection)".
\* Of a DbConnection the paths are empty, so a watch writes a sitemap without
\* pages, and links no asset.
SitesOfWatchesAreComplete ==
    phase = "idle" /\ mode = "watch" /\ settled /\ quiet =>
        /\ sitemap = Reached
        /\ \A a \in Assets : base[a] /= Absent => linked[a] /= Absent
=============================================================================
